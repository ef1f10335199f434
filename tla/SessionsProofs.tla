--------------------------- MODULE SessionsProofs ---------------------------
(***************************************************************************)
(* Sessions are in the database the settings name, and production is only  *)
(* reached by a process that was told so; and the databases that Alembic   *)
(* leaves behind are those of their revision, usable at the head and never *)
(* granting a role more than it is for.  All for any databases,            *)
(* environment files, DSNs, engines and targets.                           *)
(*                                                                         *)
(* The second part first says what each migration does (lemmas Up1Does to  *)
(* Up7Does, Down1Does to Down7Does), then what a command of several does   *)
(* (UpgradeDoes, DowngradeDoes), keeps that true of every database         *)
(* (CatalogsInv), and last says which commands succeed.                    *)
(***************************************************************************)
EXTENDS Sessions, WellFoundedInduction, TLAPS

ProcessTypes ==
    /\ file \in DOMAIN EnvFiles /\ ambient \in Ambients \cup {<<>>}
    /\ engine \in [Engines -> Dsn \cup {NoDsn}]
    /\ maker \in [Engines -> Dsn \cup {NoDsn}]
    /\ last \in [Engines -> Databases \cup {None}]
    /\ rev \in [Databases -> 0..HeadRevision]

\* A sessionmaker is bound to the engine that is cached with it.
MakerFollowsEngine == \A e \in Engines : maker[e] \in {NoDsn, engine[e]}

\* Nobody is in production who was not told so.
Told == \A e \in Engines : last[e] = Production => OptIn

SessionsInv == ProcessTypes /\ MakerFollowsEngine /\ SessionFollowsSettings /\ Told
-----------------------------------------------------------------------------
(* Settings.                                                               *)

\* What a field resolves to is a DSN.
LEMMA ResolvedIsDsn ==
    ASSUME ProcessTypes, NEW f \in Fields
    PROVE  Resolved(f) \in Dsn
<1>1. CASE f \in DOMAIN ambient
  <2>1. ambient \in Ambients
    BY <1>1 DEF ProcessTypes
  <2> QED BY <1>1, <2>1, AmbientsAssumption DEF Resolved
<1>2. CASE f \notin DOMAIN ambient
  <2>1. EnvFiles[file].database \in Databases
    BY EnvFilesAssumption DEF ProcessTypes, EnvFile
  <2>2. To(EnvFiles[file].database) \in Dsn
    BY <2>1 DEF To, Dsn
  <2> QED BY <1>2, <2>2 DEF Resolved
<1> QED BY <1>1, <1>2

\* Without the opt-in, settings that are not refused reach no production.
LEMMA RefusalIsSound ==
    ASSUME ProcessTypes, NEW f \in Fields, SettingsAllow, Resolved(f).reaches = Production
    PROVE  OptIn
<1>1. Resolved(f) \in Dsn
  BY ResolvedIsDsn
<1>2. Refuses(Resolved(f))
  BY <1>1 DEF Refuses, Dsn
<1> QED BY <1>2 DEF SettingsAllow

\* A session is bound to what its field resolves to, cached or not.
LEMMA BoundIsResolved ==
    ASSUME MakerFollowsEngine, NEW e \in Engines
    PROVE  (IF MakerAfterEngine(e) = NoDsn THEN Resolved(e) ELSE MakerAfterEngine(e))
             = Resolved(e)
BY DEF MakerFollowsEngine, MakerAfterEngine
-----------------------------------------------------------------------------
(* Steps.                                                                  *)

\* A process that has just started has no engine.
LEMMA SessionsInitially == Init => SessionsInv
BY EnvFilesAssumption, DatabasesAssumption
   DEF Init, SessionsInv, ProcessTypes, MakerFollowsEngine, SessionFollowsSettings, Told,
       HeadRevision

\* When the environment changes there is no session yet that could be wrong.
LEMMA EnvStep ==
    ASSUME SessionsInv,
           \/ \E f \in DOMAIN EnvFiles : SetFile(f)
           \/ \E a \in Ambients : SetAmbient(a)
    PROVE  SessionsInv' /\ rev' = rev /\ \A e \in Engines : last'[e] # Production
<1>1. ChangeEnv
  BY DEF SetFile, SetAmbient
<1>2. file' \in DOMAIN EnvFiles /\ ambient' \in Ambients \cup {<<>>}
  BY DEF SetFile, SetAmbient, SessionsInv, ProcessTypes
<1>3. rev' = rev /\ engine' = engine /\ maker' = maker
      /\ last' = [e \in Engines |-> None]
  BY <1>1 DEF ChangeEnv, instance
<1>4. \A e \in Engines : last'[e] # Production
  BY <1>3, DatabasesAssumption
<1>5. ProcessTypes' /\ MakerFollowsEngine'
  BY <1>2, <1>3 DEF SessionsInv, ProcessTypes, MakerFollowsEngine
<1>6. SessionFollowsSettings' /\ Told'
  BY <1>3, <1>4 DEF SessionFollowsSettings, Told
<1> QED BY <1>3, <1>4, <1>5, <1>6 DEF SessionsInv

\* A session is opened where the settings say, and they have been asked.
LEMMA OpenStep ==
    ASSUME SessionsInv, NEW e, NEW d, NEW audits, Open(e, d, audits)
    PROVE  SessionsInv' /\ rev' = rev /\ OptIn' = OptIn
<1>1. e \in Engines /\ e \in Fields /\ SettingsAllow
  BY EnginesAssumption DEF Open, Fields
<1>2. Resolved(e) \in Dsn
  BY <1>1, ResolvedIsDsn DEF SessionsInv
<1>3. /\ d = Resolved(e).reaches
      /\ engine' = [engine EXCEPT ![e] = Resolved(e)]
      /\ maker' = [maker EXCEPT ![e] = Resolved(e)]
      /\ last' = [last EXCEPT ![e] = d]
  BY <1>1, BoundIsResolved DEF SessionsInv, Open
<1>4. UNCHANGED <<file, ambient, rev>>
  BY DEF Open
<1>5. OptIn' = OptIn /\ \A f \in Engines : Resolved(f)' = Resolved(f)
  BY <1>4 DEF OptIn, Resolved
<1>6. d \in Databases
  BY <1>2, <1>3 DEF Dsn
<1>7. ProcessTypes'
  BY <1>1, <1>2, <1>3, <1>4, <1>6 DEF SessionsInv, ProcessTypes
<1>8. MakerFollowsEngine'
  BY <1>1, <1>3 DEF SessionsInv, ProcessTypes, MakerFollowsEngine
<1>9. SessionFollowsSettings'
  <2> SUFFICES ASSUME NEW f \in Engines, last'[f] # None
               PROVE  last'[f] = Resolved(f)'.reaches
    BY DEF SessionFollowsSettings
  <2>1. CASE f = e
    BY <1>1, <1>3, <1>5, <2>1 DEF SessionsInv, ProcessTypes
  <2>2. CASE f # e
    <3>1. last'[f] = last[f]
      BY <1>1, <1>3, <2>2 DEF SessionsInv, ProcessTypes
    <3> QED BY <1>5, <3>1 DEF SessionsInv, SessionFollowsSettings
  <2> QED BY <2>1, <2>2
<1>10. Told'
  <2> SUFFICES ASSUME NEW f \in Engines, last'[f] = Production
               PROVE  OptIn
    BY <1>5 DEF Told
  <2>1. CASE f = e
    <3>1. Resolved(e).reaches = Production
      BY <1>1, <1>3, <2>1 DEF SessionsInv, ProcessTypes
    <3> QED BY <1>1, <3>1, RefusalIsSound DEF SessionsInv
  <2>2. CASE f # e
    BY <1>1, <1>3, <2>2 DEF SessionsInv, ProcessTypes, Told
  <2> QED BY <2>1, <2>2
<1> QED BY <1>4, <1>5, <1>7, <1>8, <1>9, <1>10 DEF SessionsInv

\* Disposing of an engine disposes of its sessionmaker.
LEMMA DisposeStep ==
    ASSUME SessionsInv, NEW e \in Engines, Dispose(e)
    PROVE  SessionsInv' /\ rev' = rev /\ OptIn' = OptIn
<1>1. UNCHANGED <<file, ambient, last, rev>>
  BY DEF Dispose, instance
<1>2. OptIn' = OptIn /\ \A f \in Engines : Resolved(f)' = Resolved(f)
  BY <1>1 DEF OptIn, Resolved
<1>3. ProcessTypes'
  BY <1>1 DEF SessionsInv, ProcessTypes, Dispose
<1>4. MakerFollowsEngine'
  BY DEF SessionsInv, ProcessTypes, MakerFollowsEngine, Dispose
<1>5. SessionFollowsSettings' /\ Told'
  BY <1>1, <1>2 DEF SessionsInv, SessionFollowsSettings, Told
<1> QED BY <1>1, <1>2, <1>3, <1>4, <1>5 DEF SessionsInv

\* Alembic asks the same settings, and migrates the database they name.
LEMMA AlembicStep ==
    ASSUME SessionsInv, NEW to \in Targets, Alembic(to)
    PROVE  /\ SessionsInv' /\ OptIn' = OptIn /\ last' = last
           /\ rev'[Production] # rev[Production] => OptIn
<1> DEFINE d == Resolved("alembic_database_url").reaches
<1>1. SettingsAllow /\ rev' = [rev EXCEPT ![d] = to] /\ UNCHANGED process
  BY DEF Alembic
<1>2. UNCHANGED <<file, ambient, engine, maker, last>>
  BY <1>1 DEF process
<1>3. OptIn' = OptIn /\ \A f \in Engines : Resolved(f)' = Resolved(f)
  BY <1>2 DEF OptIn, Resolved
<1>4. ProcessTypes'
  BY <1>1, <1>2, TargetsAssumption DEF SessionsInv, ProcessTypes
<1>5. MakerFollowsEngine' /\ SessionFollowsSettings' /\ Told'
  BY <1>2, <1>3 DEF SessionsInv, MakerFollowsEngine, SessionFollowsSettings, Told
<1>6. ASSUME rev'[Production] # rev[Production]
      PROVE  OptIn
  <2>1. d = Production
    BY <1>1, <1>6, DatabasesAssumption DEF SessionsInv, ProcessTypes
  <2> QED BY <1>1, <2>1, RefusalIsSound DEF SessionsInv, Fields
<1> QED BY <1>2, <1>3, <1>4, <1>5, <1>6 DEF SessionsInv

\* What every step keeps, and what it needs to touch production.
LEMMA SessionsStep ==
    ASSUME SessionsInv, [Next]_vars
    PROVE  /\ SessionsInv'
           /\ rev'[Production] # rev[Production] => OptIn'
<1>1. CASE \/ \E f \in DOMAIN EnvFiles : SetFile(f)
           \/ \E a \in Ambients : SetAmbient(a)
  BY <1>1, EnvStep
<1>2. CASE \E d \in Databases : AppSession(d) \/ AgentSession(d) \/ ObserverSession(d)
  BY <1>2, OpenStep DEF AppSession, AgentSession, ObserverSession
<1>3. CASE \E e \in Engines : Dispose(e)
  BY <1>3, DisposeStep
<1>4. CASE \E to \in Targets : Alembic(to)
  BY <1>4, AlembicStep
<1>5. CASE UNCHANGED vars
  <2>1. OptIn' = OptIn /\ \A f \in Engines : Resolved(f)' = Resolved(f)
    BY <1>5 DEF vars, OptIn, Resolved
  <2> QED BY <1>5, <2>1
          DEF vars, SessionsInv, ProcessTypes, MakerFollowsEngine, SessionFollowsSettings, Told
<1> QED BY <1>1, <1>2, <1>3, <1>4, <1>5 DEF Next
-----------------------------------------------------------------------------
\* The cached engine and sessionmaker never put a session elsewhere than
\* where the settings point (db/session.py, 22-53; get_settings' docstring).
THEOREM SessionsFollow == Spec => []SessionFollowsSettings
<1>1. SessionsInv => SessionFollowsSettings
  BY DEF SessionsInv
<1> QED BY <1>1, SessionsInitially, SessionsStep, PTL DEF Spec

\* Production is reached only after the opt-in, by sessions and by Alembic
\* (ADR-019; config/settings.py, 44 and 213-228).
THEOREM ProductionIsOptIn == Spec => ProductionNeedsOptIn
<1>1. ASSUME SessionsInv, SessionsInv', [Next]_vars
      PROVE  [\/ rev'[Production] # rev[Production]
              \/ \E e \in Engines : last'[e] = Production
              => OptIn']_vars
  BY <1>1, SessionsStep DEF SessionsInv, Told
<1> QED BY <1>1, SessionsInitially, SessionsStep, PTL DEF Spec, ProductionNeedsOptIn
-----------------------------------------------------------------------------
(* Works.                                                                  *)

\* A set of naturals that is not empty has a least element.
LEMMA LeastNatural ==
    ASSUME NEW N \in SUBSET Nat, N # {}
    PROVE  \E m \in N : \A n \in N : m <= n
<1> DEFINE R == OpToRel(<, Nat)
<1>1. IsWellFoundedOn(R, Nat)
  BY NatLessThanWellFounded
<1>2. \A x, y \in Nat : x < y => <<x, y>> \in R
  BY DEF OpToRel
<1> HIDE DEF R
<1>3. PICK m \in N : \A n \in N : <<n, m>> \notin R
  BY <1>1, WFMin
<1>4. \A n \in N : n \in Nat /\ m \in Nat /\ ~(n < m)
  BY <1>2, <1>3
<1> QED BY <1>4

\* A work has all its fields.
IsWork(w) == DOMAIN w = DOMAIN Empty

\* A refusal changes the error alone, and is not forgotten.
LEMMA RefuseDoes ==
    ASSUME NEW w, IsWork(w), NEW cond, NEW why, why # "none"
    PROVE  LET v == Refuse(w, cond, why) IN
           /\ IsWork(v)
           /\ v.tables = w.tables /\ v.references = w.references /\ v.columns = w.columns
           /\ v.grants = w.grants /\ v.defaults = w.defaults
           /\ v.roles = w.roles /\ v.inherit = w.inherit
           /\ v.error = "none" => ~cond /\ w.error = "none"
BY DEF IsWork, Empty, Refuse

\* CREATE TABLE.
LEMMA CreateDoes ==
    ASSUME NEW w, IsWork(w), NEW new
    PROVE  LET v == Create(w, new) IN
           /\ IsWork(v)
           /\ v.tables = w.tables \cup new.tables
           /\ v.references = w.references \cup new.references
           /\ v.columns = w.columns
           /\ v.grants = w.grants \cup OnTables(w.defaults, new.tables)
           /\ v.defaults = w.defaults
           /\ v.roles = w.roles /\ v.inherit = w.inherit
           /\ v.error = "none" => w.error = "none"
<1> DEFINE u == [w EXCEPT !.tables = @ \cup new.tables,
                          !.references = @ \cup new.references,
                          !.grants = @ \cup OnTables(w.defaults, new.tables)]
           dangling == \E r \in new.references : r[2] \notin w.tables \cup new.tables
<1>1. /\ IsWork(u)
      /\ u.tables = w.tables \cup new.tables
      /\ u.references = w.references \cup new.references
      /\ u.columns = w.columns
      /\ u.grants = w.grants \cup OnTables(w.defaults, new.tables)
      /\ u.defaults = w.defaults
      /\ u.roles = w.roles /\ u.inherit = w.inherit /\ u.error = w.error
  BY DEF IsWork, Empty
<1>2. Create(w, new) = Refuse(u, dangling, "reference")
  BY DEF Create
<1> HIDE DEF u, dangling
<1> QED BY <1>1, <1>2, RefuseDoes

\* DROP TABLE.
LEMMA DropDoes ==
    ASSUME NEW w, IsWork(w), NEW x
    PROVE  LET v == Drop(w, x) IN
           /\ IsWork(v)
           /\ v.tables = w.tables \ {x}
           /\ v.references = {r \in w.references : r[1] # x}
           /\ v.columns = {c \in w.columns : c[1] # x}
           /\ v.grants = {g \in w.grants : g[3] # x}
           /\ v.defaults = w.defaults
           /\ v.roles = w.roles /\ v.inherit = w.inherit
           /\ v.error = "none" => w.error = "none"
<1> DEFINE u == [w EXCEPT !.tables = @ \ {x},
                          !.references = {r \in @ : r[1] # x},
                          !.grants = {g \in @ : g[3] # x},
                          !.columns = {c \in @ : c[1] # x},
                          !.trail = @ /\ x # ToolCalls]
           used == \E r \in w.references : r[1] # x /\ r[2] = x
<1>1. /\ IsWork(u)
      /\ u.tables = w.tables \ {x}
      /\ u.references = {r \in w.references : r[1] # x}
      /\ u.columns = {c \in w.columns : c[1] # x}
      /\ u.grants = {g \in w.grants : g[3] # x}
      /\ u.defaults = w.defaults
      /\ u.roles = w.roles /\ u.inherit = w.inherit /\ u.error = w.error
  BY DEF IsWork, Empty
<1>2. Drop(w, x) = Refuse(u, used, "reference")
  BY DEF Drop
<1> HIDE DEF u, used
<1> QED BY <1>1, <1>2, RefuseDoes
-----------------------------------------------------------------------------
(* What is at each revision.                                               *)

\* The tables and the references that 0001 makes.
FirstTables == Independent.tables \cup FirstReferring.tables
           \cup SecondReferring.tables \cup Annotating.tables

FirstReferences == FirstReferring.references \cup SecondReferring.references
               \cup Annotating.references

\* What a revision has of each kind, as a database that was upgraded straight
\* to it has it.
TablesAt(n) == IF n = 0 THEN {}
               ELSE IF n < 4 THEN FirstTables
               ELSE FirstTables \cup Recording.tables

ReferencesAt(n) == IF n = 0 THEN {}
                   ELSE IF n < 4 THEN FirstReferences
                   ELSE FirstReferences \cup Recording.references

ColumnsAt(n) == (IF n < 3 THEN {} ELSE {<<ToolCalls, "provider">>})
           \cup (IF n \in {4, 5} THEN {<<Releases, "image_ref">>} ELSE {})
           \cup (IF n < 5 THEN {} ELSE {<<Releases, "replaces_release_id">>})
           \cup (IF n < 6 THEN {} ELSE {<<Releases, "artifact_ref">>})

DefaultsAt(n) == (IF n < 2 THEN {} ELSE RoleGrants) \cup (IF n < 4 THEN {} ELSE BackupPeeks)

FirstGrants == Usage(RoleGrants) \cup OnTables(RoleGrants, FirstTables)

GrantsAt(n) == (IF n < 2 THEN {} ELSE FirstGrants)
          \cup (IF n < 4 THEN {}
                ELSE OnTables(RoleGrants, Recording.tables) \cup NarrowGrants
                       \cup OnTables(BackupPeeks, FirstTables \cup Recording.tables))

\* A work that has what revision n has.
At(n, w) ==
    /\ IsWork(w)
    /\ w.tables = TablesAt(n) /\ w.references = ReferencesAt(n)
    /\ w.columns = ColumnsAt(n)
    /\ w.grants = GrantsAt(n) /\ w.defaults = DefaultsAt(n)

\* Nothing is, before the first one.
LEMMA EmptyIsAtZero == At(0, Empty)
BY DEF At, IsWork, Empty, TablesAt, ReferencesAt, ColumnsAt, GrantsAt, DefaultsAt

\* Privileges on all tables of a schema are only on the tables there are.
LEMMA OnNothing == ASSUME NEW tables PROVE OnTables({}, tables) = {}
BY DEF OnTables
-----------------------------------------------------------------------------
(* The migrations one by one.                                              *)

\* 0001, upgraded.
LEMMA Up1Does ==
    ASSUME NEW w, At(0, w)
    PROVE  /\ At(1, Up1(w))
           /\ Up1(w).roles = w.roles /\ Up1(w).inherit = w.inherit
           /\ Up1(w).error = "none" => w.error = "none"
<1> DEFINE a == Create(w, Independent)
           b == Create(a, FirstReferring)
           c == Create(b, SecondReferring)
           d == Create(c, Annotating)
<1>1. /\ IsWork(w) /\ w.tables = {} /\ w.references = {} /\ w.columns = {}
      /\ w.grants = {} /\ w.defaults = {}
  BY DEF At, TablesAt, ReferencesAt, ColumnsAt, GrantsAt, DefaultsAt
<1> DEFINE As(v, tables, references) ==
             /\ IsWork(v) /\ v.tables = tables /\ v.references = references
             /\ v.columns = {} /\ v.grants = {} /\ v.defaults = {}
             /\ v.roles = w.roles /\ v.inherit = w.inherit
             /\ v.error = "none" => w.error = "none"
<1>2. ASSUME NEW v, NEW tables, NEW references, As(v, tables, references), NEW new
      PROVE  As(Create(v, new), tables \cup new.tables, references \cup new.references)
  <2>1. IsWork(v) /\ OnTables(v.defaults, new.tables) = {}
    BY <1>2, OnNothing
  <2> QED BY <1>2, <2>1, CreateDoes
<1>3. As(w, {}, {})
  BY <1>1
<1> HIDE DEF As
<1>4. As(a, {} \cup Independent.tables, {} \cup Independent.references)
  BY <1>2, <1>3
<1> HIDE DEF a
<1>5. As(b, ({} \cup Independent.tables) \cup FirstReferring.tables,
         ({} \cup Independent.references) \cup FirstReferring.references)
  BY <1>2, <1>4
<1> HIDE DEF b
<1>6. As(c, (({} \cup Independent.tables) \cup FirstReferring.tables)
              \cup SecondReferring.tables,
         (({} \cup Independent.references) \cup FirstReferring.references)
              \cup SecondReferring.references)
  BY <1>2, <1>5
<1> HIDE DEF c
<1>7. As(d, ((({} \cup Independent.tables) \cup FirstReferring.tables)
              \cup SecondReferring.tables) \cup Annotating.tables,
         ((({} \cup Independent.references) \cup FirstReferring.references)
              \cup SecondReferring.references) \cup Annotating.references)
  BY <1>2, <1>6
<1> HIDE DEF d
<1>8. As(d, FirstTables, FirstReferences)
  <2>1. Independent.references = {}
    BY DEF Independent
  <2>2. /\ ((({} \cup Independent.tables) \cup FirstReferring.tables)
              \cup SecondReferring.tables) \cup Annotating.tables = FirstTables
        /\ ((({} \cup Independent.references) \cup FirstReferring.references)
              \cup SecondReferring.references) \cup Annotating.references = FirstReferences
    BY <2>1 DEF FirstTables, FirstReferences
  <2> QED BY <1>7, <2>2
<1>9. Up1(w) = d
  BY DEF Up1, a, b, c, d
<1>10. At(1, d)
  BY <1>8 DEF As, At, TablesAt, ReferencesAt, ColumnsAt, GrantsAt, DefaultsAt
<1> QED BY <1>8, <1>9, <1>10 DEF As

\* A step of a command keeps the roles, and forgets no error.
KeepsRoles(w, v) ==
    /\ v.roles = w.roles /\ v.inherit = w.inherit
    /\ v.error = "none" => w.error = "none"

\* 0002, upgraded.
LEMMA Up2Does ==
    ASSUME NEW w, At(1, w)
    PROVE  /\ At(2, Up2(w))
           /\ Up2(w).roles = Roles /\ Up2(w).inherit = w.inherit
           /\ Up2(w).error = w.error
<1>1. /\ IsWork(w) /\ w.tables = FirstTables /\ w.references = FirstReferences
      /\ w.columns = {} /\ w.grants = {} /\ w.defaults = {}
  BY DEF At, TablesAt, ReferencesAt, ColumnsAt, GrantsAt, DefaultsAt
<1> DEFINE defaults == w.defaults \cup RoleGrants
           grants == w.grants \cup Usage(RoleGrants) \cup OnTables(RoleGrants, w.tables)
           v == [w EXCEPT !.roles = Roles, !.defaults = defaults, !.grants = grants]
<1>2. Up2(w) = v
  BY DEF Up2
<1> HIDE DEF defaults, grants
<1>3. /\ IsWork(v) /\ v.tables = w.tables /\ v.references = w.references
      /\ v.columns = w.columns /\ v.grants = grants /\ v.defaults = defaults
      /\ v.roles = Roles /\ v.inherit = w.inherit /\ v.error = w.error
  BY <1>1 DEF IsWork, Empty
<1> HIDE DEF v
<1>4. grants = FirstGrants /\ defaults = RoleGrants
  BY <1>1 DEF grants, defaults, FirstGrants
<1>5. At(2, v)
  BY <1>1, <1>3, <1>4 DEF At, TablesAt, ReferencesAt, ColumnsAt, GrantsAt, DefaultsAt
<1> QED BY <1>2, <1>3, <1>5

\* 0002, downgraded, when no other database needs the roles.
LEMMA Down2Does ==
    ASSUME NEW w, At(2, w), NEW elsewhere \in BOOLEAN
    PROVE  LET v == Down2(w, elsewhere) IN
           /\ At(1, v)
           /\ v.error = "none" => w.error = "none" /\ ~elsewhere
<1>1. /\ IsWork(w) /\ w.tables = FirstTables /\ w.references = FirstReferences
      /\ w.columns = {}
  BY DEF At, TablesAt, ReferencesAt, ColumnsAt, GrantsAt, DefaultsAt
<1> DEFINE u == [w EXCEPT !.roles = {}, !.inherit = {}, !.defaults = {}, !.grants = {}]
           v == Refuse(u, w.inherit # Roles, "no inherit")
<1>2. Down2(w, elsewhere) = Refuse(v, elsewhere, "roles in use")
  BY DEF Down2
<1>3. /\ IsWork(u) /\ u.tables = w.tables /\ u.references = w.references
      /\ u.columns = w.columns /\ u.grants = {} /\ u.defaults = {} /\ u.error = w.error
  BY <1>1 DEF IsWork, Empty
<1>4. At(1, u)
  BY <1>1, <1>3 DEF At, TablesAt, ReferencesAt, ColumnsAt, GrantsAt, DefaultsAt
<1> HIDE DEF u
<1>5. At(1, v) /\ (v.error = "none" => u.error = "none")
  BY <1>4 DEF At, Refuse, IsWork, Empty
<1> HIDE DEF v
<1>6. /\ At(1, Refuse(v, elsewhere, "roles in use"))
      /\ Refuse(v, elsewhere, "roles in use").error = "none" => v.error = "none" /\ ~elsewhere
  BY <1>5 DEF At, Refuse, IsWork, Empty
<1> QED BY <1>2, <1>3, <1>5, <1>6

\* 0003 and 0005 to 0007 change columns, and the last the INHERIT option.
LEMMA ColumnsDo ==
    ASSUME NEW w, IsWork(w), NEW columns
    PROVE  LET v == [w EXCEPT !.columns = columns] IN
           /\ IsWork(v) /\ v.tables = w.tables /\ v.references = w.references
           /\ v.columns = columns /\ v.grants = w.grants /\ v.defaults = w.defaults
           /\ v.roles = w.roles /\ v.inherit = w.inherit /\ v.error = w.error
BY DEF IsWork, Empty

\* Their columns are different ones.
LEMMA ColumnsDiffer ==
    /\ <<ToolCalls, "provider">> # <<Releases, "image_ref">>
    /\ <<ToolCalls, "provider">> # <<Releases, "artifact_ref">>
    /\ <<ToolCalls, "provider">> # <<Releases, "replaces_release_id">>
    /\ <<Releases, "image_ref">> # <<Releases, "artifact_ref">>
    /\ <<Releases, "image_ref">> # <<Releases, "replaces_release_id">>
    /\ <<Releases, "artifact_ref">> # <<Releases, "replaces_release_id">>
BY DEF ToolCalls, Releases

\* A work that gets the columns of another revision with the same tables.
LEMMA ColumnsMove ==
    ASSUME NEW n \in 2..7, NEW m \in 2..7, n < 4 <=> m < 4,
           NEW w, At(n, w), NEW v, IsWork(v),
           v.tables = w.tables, v.references = w.references,
           v.columns = ColumnsAt(m), v.grants = w.grants, v.defaults = w.defaults
    PROVE  At(m, v)
<1>1. TablesAt(n) = TablesAt(m) /\ ReferencesAt(n) = ReferencesAt(m)
      /\ GrantsAt(n) = GrantsAt(m) /\ DefaultsAt(n) = DefaultsAt(m)
  BY DEF TablesAt, ReferencesAt, GrantsAt, DefaultsAt
<1> QED BY <1>1 DEF At

\* The columns one by one.
LEMMA ColumnsAre ==
    LET provider == <<ToolCalls, "provider">>
        image    == <<Releases, "image_ref">>
        artifact == <<Releases, "artifact_ref">>
        replaces == <<Releases, "replaces_release_id">>
    IN  /\ ColumnsAt(2) = {} /\ ColumnsAt(3) = {provider}
        /\ ColumnsAt(4) = {provider, image}
        /\ ColumnsAt(5) = {provider, image, replaces}
        /\ ColumnsAt(6) = {provider, replaces, artifact}
        /\ ColumnsAt(7) = {provider, replaces, artifact}
<1> DEFINE provider == <<ToolCalls, "provider">>
           image    == <<Releases, "image_ref">>
           artifact == <<Releases, "artifact_ref">>
           replaces == <<Releases, "replaces_release_id">>
<1>1. \A n : ColumnsAt(n) = (IF n < 3 THEN {} ELSE {provider})
           \cup (IF n \in {4, 5} THEN {image} ELSE {})
           \cup (IF n < 5 THEN {} ELSE {replaces})
           \cup (IF n < 6 THEN {} ELSE {artifact})
  BY DEF ColumnsAt
<1> HIDE DEF provider, image, artifact, replaces
<1>2. /\ ColumnsAt(2) = {} /\ ColumnsAt(3) = {provider}
      /\ ColumnsAt(4) = {provider, image}
      /\ ColumnsAt(5) = {provider, image, replaces}
      /\ ColumnsAt(6) = {provider, replaces, artifact}
      /\ ColumnsAt(7) = {provider, replaces, artifact}
  BY <1>1
<1> QED BY <1>2 DEF provider, image, artifact, replaces

\* 0003, upgraded.
LEMMA Up3Does ==
    ASSUME NEW w, At(2, w)
    PROVE  At(3, Up3(w)) /\ KeepsRoles(w, Up3(w))
<1> DEFINE columns == w.columns \cup {<<ToolCalls, "provider">>}
           u == [w EXCEPT !.columns = columns]
<1>1. Up3(w) = Refuse(u, w.trail, "rows")
  BY DEF Up3
<1>2. IsWork(w) /\ columns = ColumnsAt(3)
  BY ColumnsAre DEF At
<1> HIDE DEF columns
<1>3. /\ IsWork(u) /\ u.tables = w.tables /\ u.references = w.references
      /\ u.columns = columns /\ u.grants = w.grants /\ u.defaults = w.defaults
      /\ u.roles = w.roles /\ u.inherit = w.inherit /\ u.error = w.error
  BY <1>2, ColumnsDo
<1> HIDE DEF u
<1>4. At(3, u)
  BY <1>2, <1>3, ColumnsMove
<1> QED BY <1>1, <1>3, <1>4, RefuseDoes DEF At, KeepsRoles

\* 0005, upgraded.
LEMMA Up5Does ==
    ASSUME NEW w, At(4, w)
    PROVE  At(5, Up5(w)) /\ KeepsRoles(w, Up5(w))
<1> DEFINE columns == w.columns \cup {<<Releases, "replaces_release_id">>}
<1>1. IsWork(w) /\ columns = ColumnsAt(5)
  BY ColumnsAre DEF At
<1>2. Up5(w) = [w EXCEPT !.columns = columns]
  BY DEF Up5
<1> HIDE DEF columns
<1>3. LET v == Up5(w) IN
      /\ IsWork(v) /\ v.tables = w.tables /\ v.references = w.references
      /\ v.columns = columns /\ v.grants = w.grants /\ v.defaults = w.defaults
      /\ KeepsRoles(w, v)
  BY <1>1, <1>2, ColumnsDo DEF KeepsRoles
<1> QED BY <1>1, <1>3, ColumnsMove

\* A renaming of a release's column, either way.
LEMMA RenamedDoes ==
    ASSUME NEW w, NEW n \in 5..6, At(n, w), NEW m \in 5..6, NEW from, NEW to,
           (ColumnsAt(n) \ {<<Releases, from>>}) \cup {<<Releases, to>>} = ColumnsAt(m)
    PROVE  At(m, Renamed(w, from, to)) /\ KeepsRoles(w, Renamed(w, from, to))
<1> DEFINE columns == (w.columns \ {<<Releases, from>>}) \cup {<<Releases, to>>}
           u == [w EXCEPT !.columns = columns]
           missing == <<Releases, from>> \notin w.columns
<1>1. IsWork(w) /\ columns = ColumnsAt(m)
  BY DEF At
<1>2. Renamed(w, from, to) = Refuse(u, missing, "column")
  BY DEF Renamed
<1> HIDE DEF columns, missing
<1>3. /\ IsWork(u) /\ u.tables = w.tables /\ u.references = w.references
      /\ u.columns = columns /\ u.grants = w.grants /\ u.defaults = w.defaults
      /\ u.roles = w.roles /\ u.inherit = w.inherit /\ u.error = w.error
  BY <1>1, ColumnsDo
<1> HIDE DEF u
<1>4. At(m, u)
  <2>1. n \in 2..7 /\ m \in 2..7 /\ (n < 4 <=> m < 4)
    OBVIOUS
  <2> QED BY <1>1, <1>3, <2>1, ColumnsMove
<1> QED BY <1>2, <1>3, <1>4, RefuseDoes DEF At, KeepsRoles

\* 0006, upgraded.
LEMMA Up6Does ==
    ASSUME NEW w, At(5, w)
    PROVE  At(6, Up6(w)) /\ KeepsRoles(w, Up6(w))
<1>1. (ColumnsAt(5) \ {<<Releases, "image_ref">>}) \cup {<<Releases, "artifact_ref">>}
        = ColumnsAt(6)
  BY ColumnsAre, ColumnsDiffer
<1> QED BY <1>1, RenamedDoes DEF Up6

\* 0007, upgraded.
LEMMA Up7Does ==
    ASSUME NEW w, At(6, w)
    PROVE  /\ At(7, Up7(w))
           /\ Up7(w).roles = w.roles /\ Up7(w).inherit = Roles /\ Up7(w).error = w.error
<1>1. IsWork(w) /\ w.columns = ColumnsAt(7)
  BY ColumnsAre DEF At
<1>2. LET v == Up7(w) IN
      /\ IsWork(v) /\ v.tables = w.tables /\ v.references = w.references
      /\ v.columns = w.columns /\ v.grants = w.grants /\ v.defaults = w.defaults
      /\ v.roles = w.roles /\ v.inherit = Roles /\ v.error = w.error
  BY <1>1 DEF Up7, IsWork, Empty
<1> QED BY <1>1, <1>2, ColumnsMove

\* 0003, downgraded.
LEMMA Down3Does ==
    ASSUME NEW w, At(3, w)
    PROVE  At(2, Down3(w)) /\ KeepsRoles(w, Down3(w))
<1> DEFINE columns == w.columns \ {<<ToolCalls, "provider">>}
<1>1. IsWork(w) /\ columns = ColumnsAt(2)
  BY ColumnsAre DEF At
<1>2. Down3(w) = [w EXCEPT !.columns = columns]
  BY DEF Down3
<1> HIDE DEF columns
<1>3. LET v == Down3(w) IN
      /\ IsWork(v) /\ v.tables = w.tables /\ v.references = w.references
      /\ v.columns = columns /\ v.grants = w.grants /\ v.defaults = w.defaults
      /\ KeepsRoles(w, v)
  BY <1>1, <1>2, ColumnsDo DEF KeepsRoles
<1> QED BY <1>1, <1>3, ColumnsMove

\* 0005, downgraded.
LEMMA Down5Does ==
    ASSUME NEW w, At(5, w)
    PROVE  At(4, Down5(w)) /\ KeepsRoles(w, Down5(w))
<1> DEFINE columns == w.columns \ {<<Releases, "replaces_release_id">>}
<1>1. IsWork(w) /\ columns = ColumnsAt(4)
  BY ColumnsAre, ColumnsDiffer DEF At
<1>2. Down5(w) = [w EXCEPT !.columns = columns]
  BY DEF Down5
<1> HIDE DEF columns
<1>3. LET v == Down5(w) IN
      /\ IsWork(v) /\ v.tables = w.tables /\ v.references = w.references
      /\ v.columns = columns /\ v.grants = w.grants /\ v.defaults = w.defaults
      /\ KeepsRoles(w, v)
  BY <1>1, <1>2, ColumnsDo DEF KeepsRoles
<1> QED BY <1>1, <1>3, ColumnsMove

\* 0006, downgraded.
LEMMA Down6Does ==
    ASSUME NEW w, At(6, w)
    PROVE  At(5, Down6(w)) /\ KeepsRoles(w, Down6(w))
<1>1. (ColumnsAt(6) \ {<<Releases, "artifact_ref">>}) \cup {<<Releases, "image_ref">>}
        = ColumnsAt(5)
  BY ColumnsAre, ColumnsDiffer
<1> QED BY <1>1, RenamedDoes DEF Down6

\* 0007, downgraded.
LEMMA Down7Does ==
    ASSUME NEW w, At(7, w)
    PROVE  At(6, Down7(w)) /\ KeepsRoles(w, Down7(w))
<1>1. IsWork(w) /\ w.columns = ColumnsAt(6)
  BY ColumnsAre DEF At
<1> QED BY <1>1, ColumnsMove DEF Down7, KeepsRoles

\* 0001 makes neither the tables of 0004 nor Alembic's own.
LEMMA FirstTablesAre ==
    /\ FirstTables = {Conversations, Budgets, Errors, JobRuns, Items, Preferences,
                      AnalysisRuns, Messages, SyncRuns, Accounts, SyncState, ToolCalls,
                      Transactions, Suggestions, Overrides, Notes, Tags}
    /\ Recording.tables = {BackupRuns, Releases}
    /\ BackupRuns \notin FirstTables /\ Releases \notin FirstTables
    /\ AlembicVersion \notin FirstTables
    /\ \A r \in FirstReferences : r[1] \in FirstTables
<1>1. FirstTables = {Conversations, Budgets, Errors, JobRuns, Items, Preferences,
                     AnalysisRuns, Messages, SyncRuns, Accounts, SyncState, ToolCalls,
                     Transactions, Suggestions, Overrides, Notes, Tags}
  BY DEF FirstTables, Independent, FirstReferring, SecondReferring, Annotating
<1>2. BackupRuns \notin FirstTables /\ Releases \notin FirstTables
      /\ AlembicVersion \notin FirstTables
  BY <1>1 DEF BackupRuns, Releases, AlembicVersion, Conversations, Budgets, Errors, JobRuns,
              Items, Preferences, AnalysisRuns, Messages, SyncRuns, Accounts, SyncState,
              ToolCalls, Transactions, Suggestions, Overrides, Notes, Tags
<1>3. \A r \in FirstReferences : r[1] \in FirstTables
  <2>1. \A r \in FirstReferring.references : r[1] \in FirstTables
    BY <1>1 DEF FirstReferring
  <2>2. \A r \in SecondReferring.references : r[1] \in FirstTables
    BY <1>1 DEF SecondReferring
  <2>3. \A r \in Annotating.references : r[1] \in FirstTables
    BY <1>1 DEF Annotating
  <2> QED BY <2>1, <2>2, <2>3 DEF FirstReferences
<1> QED BY <1>1, <1>2, <1>3 DEF Recording

\* What each role is granted on whole schemas.
LEMMA RoleGrantsAre ==
    ASSUME NEW g \in RoleGrants
    PROVE  /\ g[1] \in Roles /\ g[2] \in Privileges /\ g[3] \in Schemas
           /\ g[1] = "finance_agent" => g[3] # "ops" /\ (g[3] = "plaid" => g[2] = "select")
           /\ g[1] = "finance_observer" => g[3] = "ops" /\ g[2] = "select"
           /\ g[1] = "finance_backup" => g[2] = "select"
<1>1. CASE g \in OwnerGrants
  BY <1>1 DEF OwnerGrants, Roles
<1>2. CASE g \in AppGrants
  BY <1>2 DEF AppGrants, Roles
<1>3. CASE g \in AgentGrants
  BY <1>3 DEF AgentGrants, Roles, Privileges, Schemas
<1>4. CASE g \in ObserverGrants
  BY <1>4 DEF ObserverGrants, Roles, Privileges, Schemas
<1>5. CASE g \in BackupGrants
  BY <1>5 DEF BackupGrants, Roles, Privileges
<1> QED BY <1>1, <1>2, <1>3, <1>4, <1>5 DEF RoleGrants

\* What the first roles may do with the first tables is not what 0004 grants,
\* and not on its tables.
LEMMA GrantsDiffer ==
    /\ \A g \in FirstGrants : g[3] # BackupRuns /\ g[3] # Releases
    /\ FirstGrants \cap NarrowGrants = {}
    /\ \A tables : FirstGrants \cap OnTables(BackupPeeks, tables) = {}
    /\ \A g \in NarrowGrants : g[3] # BackupRuns /\ g[3] # Releases
    /\ RoleGrants \cap BackupPeeks = {}
<1>1. ASSUME NEW g \in Usage(RoleGrants)
      PROVE  /\ g[2] = "usage" /\ \E s \in Schemas : g[3] = Whole(s)
             /\ g[1] = "finance_observer" => g[3] = Whole("ops")
  <2>1. PICK h \in RoleGrants : g = <<h[1], "usage", Whole(h[3])>>
    BY DEF Usage
  <2>2. g[1] = h[1] /\ g[2] = "usage" /\ g[3] = Whole(h[3])
    BY <2>1
  <2> QED BY <2>2, RoleGrantsAre
<1>2. ASSUME NEW g \in OnTables(RoleGrants, FirstTables)
      PROVE  /\ g[2] \in Privileges /\ g[3] \in FirstTables
             /\ g[1] = "finance_observer" => g[3][1] = "ops"
             /\ g[1] = "finance_backup" => g[2] = "select"
  <2>1. /\ g[2] \in Privileges /\ g[3] \in FirstTables
        /\ <<g[1], g[2], g[3][1]>> \in RoleGrants
    BY DEF OnTables
  <2> QED BY <2>1, RoleGrantsAre
<1>3. \A s \in Schemas : Whole(s) # BackupRuns /\ Whole(s) # Releases
                         /\ Whole(s) # AlembicVersion
  BY DEF Whole, BackupRuns, Releases, AlembicVersion, Schemas
<1>4. Whole("plaid") # Whole("ops") /\ Items[1] # "ops" /\ SyncState[1] # "ops"
      /\ Items # Releases /\ Items # BackupRuns
      /\ SyncState # Releases /\ SyncState # BackupRuns
      /\ AlembicVersion # Releases /\ AlembicVersion # BackupRuns
      /\ Whole("plaid") # Releases /\ Whole("plaid") # BackupRuns
  BY DEF Whole, Items, SyncState, Releases, BackupRuns, AlembicVersion
<1>5. "usage" \notin Privileges
  BY DEF Privileges
<1>6. \A g \in FirstGrants : g[3] # BackupRuns /\ g[3] # Releases
  BY <1>1, <1>2, <1>3, FirstTablesAre DEF FirstGrants
<1>7. ASSUME NEW g \in NarrowGrants
      PROVE  /\ \/ g[2] = "select" /\ g[3] = AlembicVersion
                \/ g[1] = "finance_observer" /\ g[2] = "select" /\ g[3] \in {Items, SyncState}
                \/ g[1] = "finance_observer" /\ g[2] = "usage" /\ g[3] = Whole("plaid")
  BY DEF NarrowGrants
<1>8. FirstGrants \cap NarrowGrants = {}
  <2> SUFFICES ASSUME NEW g \in FirstGrants, g \in NarrowGrants PROVE FALSE
    OBVIOUS
  <2>1. CASE g \in Usage(RoleGrants)
    BY <1>1, <1>3, <1>4, <1>7, <2>1
  <2>2. CASE g \in OnTables(RoleGrants, FirstTables)
    BY <1>2, <1>4, <1>5, <1>7, <2>2, FirstTablesAre
  <2> QED BY <2>1, <2>2 DEF FirstGrants
<1>9. ASSUME NEW tables PROVE FirstGrants \cap OnTables(BackupPeeks, tables) = {}
  <2>1. \A g \in OnTables(BackupPeeks, tables) : g[1] = "finance_backup" /\ g[2] = "peek"
    BY DEF OnTables, BackupPeeks
  <2> QED BY <1>1, <1>2, <2>1 DEF FirstGrants
<1>10. \A g \in NarrowGrants : g[3] # BackupRuns /\ g[3] # Releases
  BY <1>4, <1>7
<1>11. RoleGrants \cap BackupPeeks = {}
  BY DEF RoleGrants, OwnerGrants, AppGrants, AgentGrants, ObserverGrants, BackupGrants,
         BackupPeeks
<1> QED BY <1>6, <1>8, <1>9, <1>10, <1>11

\* 0004, upgraded.
LEMMA Up4Does ==
    ASSUME NEW w, At(3, w)
    PROVE  At(4, Up4(w)) /\ KeepsRoles(w, Up4(w))
<1> DEFINE u == Create(w, Recording)
           columns == u.columns \cup {<<Releases, "image_ref">>}
           defaults == u.defaults \cup BackupPeeks
           grants == u.grants \cup NarrowGrants \cup OnTables(BackupPeeks, u.tables)
           v == [u EXCEPT !.columns = columns, !.defaults = defaults, !.grants = grants]
<1>1. Up4(w) = v
  BY DEF Up4
<1>2. /\ IsWork(w) /\ w.tables = FirstTables /\ w.references = FirstReferences
      /\ w.columns = ColumnsAt(3) /\ w.grants = FirstGrants /\ w.defaults = RoleGrants
  BY DEF At, TablesAt, ReferencesAt, GrantsAt, DefaultsAt
<1>3. /\ IsWork(u)
      /\ u.tables = FirstTables \cup Recording.tables
      /\ u.references = FirstReferences \cup Recording.references
      /\ u.columns = ColumnsAt(3) /\ u.defaults = RoleGrants
      /\ u.grants = FirstGrants \cup OnTables(RoleGrants, Recording.tables)
      /\ KeepsRoles(w, u)
  BY <1>2, CreateDoes DEF KeepsRoles
<1> HIDE DEF u
<1>4. /\ columns = ColumnsAt(4) /\ defaults = RoleGrants \cup BackupPeeks
      /\ grants = FirstGrants \cup (OnTables(RoleGrants, Recording.tables) \cup NarrowGrants
                    \cup OnTables(BackupPeeks, FirstTables \cup Recording.tables))
  BY <1>3, ColumnsAre
<1> HIDE DEF columns, defaults, grants
<1>5. /\ IsWork(v) /\ v.tables = u.tables /\ v.references = u.references
      /\ v.columns = columns /\ v.grants = grants /\ v.defaults = defaults
      /\ v.roles = u.roles /\ v.inherit = u.inherit /\ v.error = u.error
  BY <1>3 DEF IsWork, Empty
<1> HIDE DEF v
<1>6. At(4, v)
  BY <1>3, <1>4, <1>5 DEF At, TablesAt, ReferencesAt, GrantsAt, DefaultsAt
<1> QED BY <1>1, <1>3, <1>5, <1>6 DEF KeepsRoles

\* ... and downgraded.
LEMMA Down4Does ==
    ASSUME NEW w, At(4, w)
    PROVE  At(3, Down4(w)) /\ KeepsRoles(w, Down4(w))
<1> DEFINE defaults == w.defaults \ BackupPeeks
           grants == w.grants \ (NarrowGrants \cup OnTables(BackupPeeks, w.tables))
           u == [w EXCEPT !.defaults = defaults, !.grants = grants]
           v == Drop(u, Releases)
           x == Drop(v, BackupRuns)
<1>1. Down4(w) = x
  BY DEF Down4
<1>2. /\ IsWork(w) /\ w.tables = FirstTables \cup Recording.tables
      /\ w.references = FirstReferences \cup Recording.references
      /\ w.columns = ColumnsAt(4) /\ w.defaults = RoleGrants \cup BackupPeeks
      /\ w.grants = FirstGrants \cup (OnTables(RoleGrants, Recording.tables) \cup NarrowGrants
                    \cup OnTables(BackupPeeks, FirstTables \cup Recording.tables))
  BY DEF At, TablesAt, ReferencesAt, GrantsAt, DefaultsAt
<1>3. defaults = RoleGrants
  BY <1>2, GrantsDiffer
<1>4. /\ \A g \in FirstGrants : g \in grants
      /\ \A g \in grants : g \in FirstGrants \/ g[3] \in Recording.tables
  <2>1. \A g \in OnTables(RoleGrants, Recording.tables) : g[3] \in Recording.tables
    BY DEF OnTables
  <2> QED BY <1>2, <2>1, GrantsDiffer
<1> HIDE DEF defaults, grants
<1>5. /\ IsWork(u) /\ u.tables = w.tables /\ u.references = w.references
      /\ u.columns = w.columns /\ u.grants = grants /\ u.defaults = defaults
      /\ KeepsRoles(w, u)
  BY <1>2 DEF IsWork, Empty, KeepsRoles
<1> HIDE DEF u
<1>6. /\ IsWork(v)
      /\ v.tables = u.tables \ {Releases}
      /\ v.references = {r \in u.references : r[1] # Releases}
      /\ v.columns = {c \in u.columns : c[1] # Releases}
      /\ v.grants = {g \in u.grants : g[3] # Releases}
      /\ v.defaults = u.defaults /\ KeepsRoles(u, v)
  BY <1>5, DropDoes DEF KeepsRoles
<1> HIDE DEF v
<1>7. /\ IsWork(x)
      /\ x.tables = v.tables \ {BackupRuns}
      /\ x.references = {r \in v.references : r[1] # BackupRuns}
      /\ x.columns = {c \in v.columns : c[1] # BackupRuns}
      /\ x.grants = {g \in v.grants : g[3] # BackupRuns}
      /\ x.defaults = v.defaults /\ KeepsRoles(v, x)
  BY <1>6, DropDoes DEF KeepsRoles
<1> HIDE DEF x
<1>8. x.tables = FirstTables
  BY <1>2, <1>5, <1>6, <1>7, FirstTablesAre
<1>9. x.references = FirstReferences
  <2>1. Recording.references = {<<BackupRuns, BackupRuns>>}
    BY DEF Recording
  <2> QED BY <1>2, <1>5, <1>6, <1>7, <2>1, FirstTablesAre
<1>10. x.columns = ColumnsAt(3)
  <2>1. ToolCalls # Releases /\ ToolCalls # BackupRuns
    BY DEF ToolCalls, Releases, BackupRuns
  <2> QED BY <1>2, <1>5, <1>6, <1>7, <2>1, ColumnsAre
<1>11. x.grants = FirstGrants
  BY <1>4, <1>5, <1>6, <1>7, GrantsDiffer, FirstTablesAre
<1>12. At(3, x)
  BY <1>3, <1>5, <1>6, <1>7, <1>8, <1>9, <1>10, <1>11
     DEF At, TablesAt, ReferencesAt, GrantsAt, DefaultsAt
<1>13. KeepsRoles(w, x)
  BY <1>5, <1>6, <1>7 DEF KeepsRoles
<1> QED BY <1>1, <1>12, <1>13

\* 0001, downgraded, drops one table after the other.
LEMMA Down1Is ==
    ASSUME NEW w
    PROVE  \E f : /\ f[0] = w
                  /\ \A i \in 1..17 : f[i] = Drop(f[i - 1], DropOrder[i])
                  /\ Down1(w) = Refuse(f[17], f[17].tables # {}, "schema in use")
<1> DEFINE Next1(f, i) == IF i = 0 THEN w ELSE Drop(f[i - 1], DropOrder[i])
           Does(n, f) == f = [i \in 0..n |-> Next1(f, i)]
           end == Len(DropOrder)
           dropped == CHOOSE f : Does(end, f)
<1>1. Down1(w) = Refuse(dropped[end], dropped[end].tables # {}, "schema in use")
  BY DEF Down1
<1>2. end = 17
  BY DEF DropOrder
<1>3. ASSUME NEW n \in Nat, NEW f, Does(n, f)
      PROVE  \E g : Does(n + 1, g)
  <2> DEFINE g == [i \in 0..(n + 1) |-> Next1(f, i)]
  <2>1. \A i \in 0..n : g[i] = f[i]
    BY <1>3
  <2>2. \A i \in 0..(n + 1) : Next1(f, i) = Next1(g, i)
    BY <2>1
  <2>3. Does(n + 1, g)
    BY <2>2
  <2> QED BY <2>3
<1>4. \A n \in Nat : \E f : Does(n, f)
  <2> DEFINE N == {n \in Nat : ~ \E f : Does(n, f)}
  <2>1. Does(0, [i \in 0..0 |-> w])
    OBVIOUS
  <2> HIDE DEF Does
  <2>2. N = {}
    <3> SUFFICES ASSUME N # {} PROVE FALSE
      OBVIOUS
    <3>1. N \in SUBSET Nat
      OBVIOUS
    <3>2. PICK m \in N : \A n \in N : m <= n
      <4> HIDE DEF N
      <4> QED BY <3>1, LeastNatural
    <3>3. m # 0 /\ m - 1 \in Nat /\ (m - 1) + 1 = m
      BY <2>1
    <3>4. m - 1 \notin N
      <4> HIDE DEF N
      <4> QED BY <3>1, <3>2, <3>3
    <3>5. \E f : Does(m, f)
      BY <1>3, <3>3, <3>4
    <3> QED BY <3>5
  <2> QED BY <2>2
<1>5. Does(end, dropped)
  <2> HIDE DEF Does, end
  <2> QED BY <1>2, <1>4
<1>6. \A i \in 0..end : dropped[i] = Next1(dropped, i)
  <2> HIDE DEF dropped, Next1
  <2> QED BY <1>5
<1> HIDE DEF dropped, end
<1>7. dropped[0] = w /\ \A i \in 1..17 : dropped[i] = Drop(dropped[i - 1], DropOrder[i])
  BY <1>2, <1>6
<1> QED BY <1>1, <1>2, <1>7

\* 0001, downgraded, when no table is left.
LEMMA Down1Does ==
    ASSUME NEW w, At(1, w), Down1(w).error = "none"
    PROVE  At(0, Down1(w)) /\ KeepsRoles(w, Down1(w))
<1>1. PICK f : /\ f[0] = w
               /\ \A i \in 1..17 : f[i] = Drop(f[i - 1], DropOrder[i])
               /\ Down1(w) = Refuse(f[17], f[17].tables # {}, "schema in use")
  BY Down1Is
<1> DEFINE bare == f[17]
           left == bare.tables # {}
           v == Refuse(bare, left, "schema in use")
           Good(u) == /\ IsWork(u) /\ u.columns = {} /\ u.grants = {} /\ u.defaults = {}
                      /\ \A r \in u.references : r[1] \in u.tables
                      /\ KeepsRoles(w, u)
<1>2. Good(w)
  BY FirstTablesAre
     DEF At, TablesAt, ReferencesAt, ColumnsAt, GrantsAt, DefaultsAt, KeepsRoles
<1>3. ASSUME NEW u, Good(u), NEW x
      PROVE  Good(Drop(u, x))
  BY <1>3, DropDoes DEF KeepsRoles
<1> HIDE DEF Good
<1>4. \A i \in 0..17 : Good(f[i])
  <2> DEFINE N == {i \in 0..17 : ~Good(f[i])}
  <2>1. N = {}
    <3> SUFFICES ASSUME N # {} PROVE FALSE
      OBVIOUS
    <3>1. N \in SUBSET Nat
      OBVIOUS
    <3>2. PICK m \in N : \A n \in N : m <= n
      <4> HIDE DEF N
      <4> QED BY <3>1, LeastNatural
    <3>3. m \in 1..17 /\ m - 1 \in 0..17
      <4>1. m \in 0..17 /\ ~Good(f[m])
        OBVIOUS
      <4>2. m # 0
        BY <1>1, <1>2, <4>1
      <4> QED BY <4>1, <4>2
    <3>4. m - 1 \notin N
      <4> HIDE DEF N
      <4> QED BY <3>1, <3>2, <3>3
    <3>5. Good(f[m - 1])
      BY <3>3, <3>4
    <3>6. f[m] = Drop(f[m - 1], DropOrder[m])
      BY <1>1, <3>3
    <3>7. Good(f[m])
      BY <1>3, <3>5, <3>6
    <3> QED BY <3>7
  <2> QED BY <2>1
<1>5. Good(bare)
  BY <1>4
<1>6. /\ v.error = "none" => ~left
      /\ IsWork(v) /\ v.tables = bare.tables /\ v.references = bare.references
      /\ v.columns = bare.columns /\ v.grants = bare.grants /\ v.defaults = bare.defaults
      /\ KeepsRoles(bare, v)
  <2>1. IsWork(bare)
    BY <1>5 DEF Good
  <2> HIDE DEF left, bare
  <2>2. /\ v.error = "none" => ~left /\ bare.error = "none"
        /\ IsWork(v) /\ v.tables = bare.tables /\ v.references = bare.references
        /\ v.columns = bare.columns /\ v.grants = bare.grants /\ v.defaults = bare.defaults
        /\ v.roles = bare.roles /\ v.inherit = bare.inherit
    BY <2>1 DEF Refuse, IsWork, Empty
  <2> QED BY <2>2 DEF KeepsRoles
<1>7. Down1(w) = v
  BY <1>1
<1>8. bare.tables = {}
  <2>1. ~left
    <3> HIDE DEF v, left
    <3> QED BY <1>6, <1>7
  <2> QED BY <2>1
<1> HIDE DEF v, left, bare
<1>9. v.references = {}
  BY <1>5, <1>6, <1>8 DEF Good
<1>10. At(0, v)
  BY <1>5, <1>6, <1>8, <1>9
     DEF Good, At, TablesAt, ReferencesAt, ColumnsAt, GrantsAt, DefaultsAt
<1> QED BY <1>5, <1>6, <1>7, <1>10 DEF Good, KeepsRoles
-----------------------------------------------------------------------------
(* Commands of several migrations.                                         *)

\* An upgrade takes its migrations one by one.
LEMMA UpgradedIs ==
    ASSUME NEW w, NEW from \in Nat, NEW to \in Nat, from <= to
    PROVE  /\ Upgraded(w, from, from) = w
           /\ from < to => Upgraded(w, from, to) = Up(to, Upgraded(w, from, to - 1))
<1> DEFINE Next1(f, i) == IF i = from THEN w ELSE Up(i, f[i - 1])
           Does(n, f) == f = [i \in from..n |-> Next1(f, i)]
           after(n) == CHOOSE f : Does(n, f)
<1>1. \A n : Upgraded(w, from, n) = after(n)[n]
  BY DEF Upgraded
<1>2. ASSUME NEW n \in Nat, NEW f, Does(n, f)
      PROVE  \E g : Does(n + 1, g)
  <2> DEFINE g == [i \in from..(n + 1) |-> Next1(f, i)]
  <2>1. \A i \in from..n : g[i] = f[i]
    BY <1>2
  <2>2. ASSUME NEW i \in from..(n + 1)
        PROVE  Next1(f, i) = Next1(g, i)
    <3>1. i = from \/ i - 1 \in from..n
      OBVIOUS
    <3> HIDE DEF g
    <3> QED BY <2>1, <3>1
  <2>3. Does(n + 1, g)
    BY <2>2
  <2> QED BY <2>3
<1>3. \A n \in Nat : n >= from => \E f : Does(n, f)
  <2> DEFINE N == {n \in Nat : n >= from /\ ~ \E f : Does(n, f)}
  <2>1. Does(from, [i \in from..from |-> w])
    OBVIOUS
  <2> HIDE DEF Does
  <2>2. N = {}
    <3> SUFFICES ASSUME N # {} PROVE FALSE
      OBVIOUS
    <3>1. N \in SUBSET Nat
      OBVIOUS
    <3>2. PICK m \in N : \A n \in N : m <= n
      <4> HIDE DEF N
      <4> QED BY <3>1, LeastNatural
    <3>3. m # from /\ m - 1 \in Nat /\ m - 1 >= from /\ (m - 1) + 1 = m
      BY <2>1
    <3>4. m - 1 \notin N
      <4> HIDE DEF N
      <4> QED BY <3>1, <3>2, <3>3
    <3>5. \E f : Does(m, f)
      BY <1>2, <3>3, <3>4
    <3> QED BY <3>5
  <2> QED BY <2>2
<1>4. \A n \in Nat : n >= from => Does(n, after(n))
  <2> HIDE DEF Does
  <2> QED BY <1>3
<1>5. ASSUME NEW n \in Nat, n >= from, NEW i \in from..n
      PROVE  after(n)[i] = Next1(after(n), i)
  <2> DEFINE f == after(n)
  <2>1. f = [j \in from..n |-> Next1(f, j)]
    BY <1>4, <1>5
  <2> HIDE DEF f, Next1
  <2>2. f[i] = Next1(f, i)
    BY <2>1
  <2> QED BY <2>2 DEF f
<1> HIDE DEF after
\* The function for a longer command starts with that for a shorter one.
<1>6. ASSUME NEW n \in Nat, n >= from, NEW m \in Nat, m >= n, NEW i \in from..n
      PROVE  after(m)[i] = after(n)[i]
  <2> DEFINE N == {j \in from..n : after(m)[j] # after(n)[j]}
  <2>1. N = {}
    <3> SUFFICES ASSUME N # {} PROVE FALSE
      OBVIOUS
    <3>1. N \in SUBSET Nat
      OBVIOUS
    <3>2. PICK k \in N : \A j \in N : k <= j
      <4> HIDE DEF N
      <4> QED BY <3>1, LeastNatural
    <3>3. k \in from..n /\ k \in from..m
      BY <1>6
    <3>4. after(m)[k] = Next1(after(m), k) /\ after(n)[k] = Next1(after(n), k)
      <4> HIDE DEF N, Next1
      <4> QED BY <1>5, <1>6, <3>3
    <3>5. k # from
      BY <3>4
    <3>6. k - 1 \in from..n /\ k - 1 \notin N
      <4>1. k - 1 \in from..n
        BY <3>3, <3>5
      <4> HIDE DEF N
      <4> QED BY <3>1, <3>2, <3>3, <4>1
    <3>7. after(m)[k - 1] = after(n)[k - 1]
      BY <3>6
    <3> QED BY <3>4, <3>7
  <2> QED BY <2>1
<1>7. Upgraded(w, from, from) = w
  <2>1. from \in from..from /\ from >= from
    OBVIOUS
  <2> QED BY <1>1, <1>5, <2>1
<1>8. ASSUME from < to
      PROVE  Upgraded(w, from, to) = Up(to, Upgraded(w, from, to - 1))
  <2>1. to \in from..to /\ to # from /\ to >= from /\ to - 1 \in Nat /\ to - 1 >= from
        /\ to - 1 \in from..(to - 1) /\ to >= to - 1
    BY <1>8
  <2>2. after(to)[to] = Up(to, after(to)[to - 1])
    BY <1>5, <2>1
  <2>3. after(to)[to - 1] = after(to - 1)[to - 1]
    BY <1>6, <2>1
  <2> QED BY <1>1, <2>2, <2>3
<1> QED BY <1>7, <1>8

\* A downgrade takes its migrations one by one, too.
LEMMA DowngradedIs ==
    ASSUME NEW w, NEW elsewhere, NEW from \in Nat, NEW to \in Nat, to <= from
    PROVE  /\ Downgraded(w, from, from, elsewhere) = w
           /\ to < from => Downgraded(w, from, to, elsewhere)
                = Down(to + 1, Downgraded(w, from, to + 1, elsewhere), elsewhere)
<1> DEFINE Next1(f, i) == IF i = from THEN w ELSE Down(i + 1, f[i + 1], elsewhere)
           Does(n, f) == f = [i \in n..from |-> Next1(f, i)]
           after(n) == CHOOSE f : Does(n, f)
<1>1. \A n : Downgraded(w, from, n, elsewhere) = after(n)[n]
  BY DEF Downgraded
<1>2. ASSUME NEW n \in Nat, n < from, NEW f, Does(n + 1, f)
      PROVE  \E g : Does(n, g)
  <2> DEFINE g == [i \in n..from |-> Next1(f, i)]
  <2>1. \A i \in (n + 1)..from : g[i] = f[i]
    BY <1>2
  <2>2. ASSUME NEW i \in n..from
        PROVE  Next1(f, i) = Next1(g, i)
    <3>1. i = from \/ i + 1 \in (n + 1)..from
      OBVIOUS
    <3> HIDE DEF g
    <3> QED BY <2>1, <3>1
  <2>3. Does(n, g)
    BY <2>2
  <2> QED BY <2>3
<1>3. \A k \in 0..from : \E f : Does(from - k, f)
  <2> DEFINE N == {k \in 0..from : ~ \E f : Does(from - k, f)}
  <2>1. Does(from, [i \in from..from |-> w])
    OBVIOUS
  <2> HIDE DEF Does
  <2>2. N = {}
    <3> SUFFICES ASSUME N # {} PROVE FALSE
      OBVIOUS
    <3>1. N \in SUBSET Nat
      OBVIOUS
    <3>2. PICK m \in N : \A n \in N : m <= n
      <4> HIDE DEF N
      <4> QED BY <3>1, LeastNatural
    <3>3. m # 0
      BY <2>1
    <3>4. m - 1 \in 0..from /\ m - 1 \notin N /\ m \in 0..from
      <4>1. m \in 0..from
        OBVIOUS
      <4> HIDE DEF N
      <4> QED BY <3>1, <3>2, <3>3, <4>1
    <3>5. PICK f : Does(from - (m - 1), f)
      BY <3>4
    <3>6. from - m \in Nat /\ from - m < from /\ (from - m) + 1 = from - (m - 1)
      BY <3>3, <3>4
    <3>7. \E g : Does(from - m, g)
      <4> HIDE DEF N
      <4> QED BY <1>2, <3>5, <3>6
    <3> QED BY <3>7
  <2> QED BY <2>2
<1>4. \A n \in 0..from : Does(n, after(n))
  <2> SUFFICES ASSUME NEW n \in 0..from PROVE \E f : Does(n, f)
    OBVIOUS
  <2>1. from - n \in 0..from /\ from - (from - n) = n
    OBVIOUS
  <2> HIDE DEF Does
  <2> QED BY <1>3, <2>1
<1>5. ASSUME NEW n \in 0..from, NEW i \in n..from
      PROVE  after(n)[i] = Next1(after(n), i)
  <2> DEFINE f == after(n)
  <2>1. f = [j \in n..from |-> Next1(f, j)]
    BY <1>4
  <2> HIDE DEF f, Next1
  <2>2. f[i] = Next1(f, i)
    BY <2>1
  <2> QED BY <2>2 DEF f
<1> HIDE DEF after
\* The function for a longer command starts with that for a shorter one.
<1>6. ASSUME NEW n \in 0..from, NEW m \in 0..n, NEW i \in n..from
      PROVE  after(m)[i] = after(n)[i]
  <2> DEFINE N == {k \in 0..(from - n) : after(m)[from - k] # after(n)[from - k]}
  <2>1. N = {}
    <3> SUFFICES ASSUME N # {} PROVE FALSE
      OBVIOUS
    <3>1. N \in SUBSET Nat
      OBVIOUS
    <3>2. PICK k \in N : \A j \in N : k <= j
      <4> HIDE DEF N
      <4> QED BY <3>1, LeastNatural
    <3>3. k \in 0..(from - n) /\ from - k \in n..from /\ from - k \in m..from
      BY <1>6
    <3>4. after(m)[from - k] = Next1(after(m), from - k)
          /\ after(n)[from - k] = Next1(after(n), from - k)
      <4> HIDE DEF N, Next1
      <4>1. m \in 0..from
        OBVIOUS
      <4> QED BY <1>5, <3>3, <4>1
    <3>5. k # 0
      BY <3>4
    <3>6. k - 1 \in 0..(from - n) /\ k - 1 \notin N /\ from - (k - 1) = (from - k) + 1
      <4>1. k - 1 \in 0..(from - n) /\ from - (k - 1) = (from - k) + 1
        BY <3>3, <3>5
      <4> HIDE DEF N
      <4> QED BY <3>1, <3>2, <3>3, <4>1
    <3>7. after(m)[(from - k) + 1] = after(n)[(from - k) + 1]
      BY <3>6
    <3> QED BY <3>4, <3>7
  <2>2. from - i \in 0..(from - n) /\ from - (from - i) = i
    OBVIOUS
  <2> QED BY <2>1, <2>2
<1>7. Downgraded(w, from, from, elsewhere) = w
  <2>1. from \in from..from /\ from \in 0..from
    OBVIOUS
  <2> QED BY <1>1, <1>5, <2>1
<1>8. ASSUME to < from
      PROVE  Downgraded(w, from, to, elsewhere)
               = Down(to + 1, Downgraded(w, from, to + 1, elsewhere), elsewhere)
  <2>1. to \in to..from /\ to # from /\ to \in 0..from /\ to + 1 \in 0..from
        /\ to + 1 \in (to + 1)..from /\ to \in 0..(to + 1)
    BY <1>8
  <2>2. after(to)[to] = Down(to + 1, after(to)[to + 1], elsewhere)
    BY <1>5, <2>1
  <2>3. after(to)[to + 1] = after(to + 1)[to + 1]
    BY <1>6, <2>1
  <2> QED BY <1>1, <2>2, <2>3
<1> QED BY <1>7, <1>8

\* Every migration leads from what a revision has to what the next one has.
LEMMA UpDoes ==
    ASSUME NEW n \in 1..7, NEW w, At(n - 1, w)
    PROVE  LET v == Up(n, w) IN
           /\ At(n, v)
           /\ v.roles = (IF n = 2 THEN Roles ELSE w.roles)
           /\ v.inherit = (IF n = 7 THEN Roles ELSE w.inherit)
           /\ v.error = "none" => w.error = "none"
<1>1. CASE n = 1
  BY <1>1, Up1Does DEF Up
<1>2. CASE n = 2
  BY <1>2, Up2Does DEF Up
<1>3. CASE n = 3
  BY <1>3, Up3Does DEF Up, KeepsRoles
<1>4. CASE n = 4
  BY <1>4, Up4Does DEF Up, KeepsRoles
<1>5. CASE n = 5
  BY <1>5, Up5Does DEF Up, KeepsRoles
<1>6. CASE n = 6
  BY <1>6, Up6Does DEF Up, KeepsRoles
<1>7. CASE n = 7
  BY <1>7, Up7Does DEF Up
<1> QED BY <1>1, <1>2, <1>3, <1>4, <1>5, <1>6, <1>7

\* ... and back.
LEMMA DownDoes ==
    ASSUME NEW n \in 1..7, NEW w, At(n, w), NEW elsewhere \in BOOLEAN,
           n = 1 => Down(n, w, elsewhere).error = "none"
    PROVE  LET v == Down(n, w, elsewhere) IN
           /\ At(n - 1, v)
           /\ n # 2 => v.roles = w.roles /\ v.inherit = w.inherit
           /\ v.error = "none" => w.error = "none" /\ (n = 2 => ~elsewhere)
<1>1. CASE n = 1
  BY <1>1, Down1Does DEF Down, KeepsRoles
<1>2. CASE n = 2
  BY <1>2, Down2Does DEF Down
<1>3. CASE n = 3
  BY <1>3, Down3Does DEF Down, KeepsRoles
<1>4. CASE n = 4
  BY <1>4, Down4Does DEF Down, KeepsRoles
<1>5. CASE n = 5
  BY <1>5, Down5Does DEF Down, KeepsRoles
<1>6. CASE n = 6
  BY <1>6, Down6Does DEF Down, KeepsRoles
<1>7. CASE n = 7
  BY <1>7, Down7Does DEF Down, KeepsRoles
<1> QED BY <1>1, <1>2, <1>3, <1>4, <1>5, <1>6, <1>7

\* An upgrade leads to what its revision has, makes the roles on the way, and
\* takes none away.
LEMMA UpgradeDoes ==
    ASSUME NEW from \in 0..7, NEW to \in 0..7, from < to, NEW w, At(from, w)
    PROVE  LET v == Upgraded(w, from, to) IN
           /\ At(to, v)
           /\ v.roles = (IF from < 2 /\ 2 <= to THEN Roles ELSE w.roles)
           /\ v.inherit = (IF to = 7 THEN Roles ELSE w.inherit)
<1> DEFINE Good(n, v) ==
             /\ At(n, v)
             /\ v.roles = (IF from < 2 /\ 2 <= n THEN Roles ELSE w.roles)
             /\ v.inherit = (IF from < 7 /\ n = 7 THEN Roles ELSE w.inherit)
           N == {n \in from..7 : ~Good(n, Upgraded(w, from, n))}
<1>1. N = {}
  <2> SUFFICES ASSUME N # {} PROVE FALSE
    OBVIOUS
  <2>1. N \in SUBSET Nat
    OBVIOUS
  <2>2. PICK n \in N : \A m \in N : n <= m
    <3> HIDE DEF N
    <3> QED BY <2>1, LeastNatural
  <2>3. n # from
    <3>1. Upgraded(w, from, from) = w
      BY UpgradedIs
    <3> QED BY <3>1
  <2>4. n \in 1..7 /\ from <= n - 1 /\ n - 1 \in from..7 /\ n - 1 \notin N
    <3>1. n \in from..7
      OBVIOUS
    <3> HIDE DEF N
    <3> QED BY <2>2, <2>3, <3>1
  <2> DEFINE u == Upgraded(w, from, n - 1)
  <2>5. Upgraded(w, from, n) = Up(n, u)
    <3>1. from \in Nat /\ n \in Nat /\ from < n /\ from <= n
      BY <2>4
    <3> HIDE DEF N
    <3> QED BY <3>1, UpgradedIs
  <2>6. Good(n - 1, u)
    BY <2>4
  <2> HIDE DEF u
  <2>7. Good(n, Up(n, u))
    BY <2>4, <2>6, UpDoes
  <2> QED BY <2>5, <2>7
<1> QED BY <1>1

\* A downgrade leads back to what its revision has, if it succeeds.  It drops
\* the roles only when no other database uses them.
LEMMA DowngradeDoes ==
    ASSUME NEW from \in 0..7, NEW to \in 0..7, to < from, NEW w, At(from, w),
           NEW elsewhere \in BOOLEAN,
           Downgraded(w, from, to, elsewhere).error = "none"
    PROVE  LET v == Downgraded(w, from, to, elsewhere) IN
           /\ At(to, v)
           /\ from < 2 \/ 2 <= to => v.roles = w.roles /\ v.inherit = w.inherit
           /\ 2 <= from /\ to < 2 => ~elsewhere
<1> DEFINE after(n) == Downgraded(w, from, n, elsewhere)
           Good(n) ==
             n # 0 \/ after(n).error = "none" =>
               /\ At(n, after(n))
               /\ from < 2 \/ 2 <= n => after(n).roles = w.roles
                                        /\ after(n).inherit = w.inherit
               /\ 2 <= from /\ n < 2 /\ after(n).error = "none" => ~elsewhere
           N == {k \in 0..from : ~Good(from - k)}
<1>1. ASSUME NEW n \in 0..from, n < from, Good(n + 1)
      PROVE  Good(n)
  <2>1. n + 1 \in 1..7 /\ from \in Nat /\ n \in Nat /\ n <= from
    BY <1>1
  <2>2. after(n) = Down(n + 1, after(n + 1), elsewhere)
    BY <1>1, <2>1, DowngradedIs
  <2>3. SUFFICES ASSUME n # 0 \/ after(n).error = "none"
                 PROVE  /\ At(n, after(n))
                        /\ from < 2 \/ 2 <= n
                             => after(n).roles = w.roles /\ after(n).inherit = w.inherit
                        /\ 2 <= from /\ n < 2 /\ after(n).error = "none" => ~elsewhere
    OBVIOUS
  <2>4. /\ At(n + 1, after(n + 1))
        /\ from < 2 \/ 2 <= n + 1
             => after(n + 1).roles = w.roles /\ after(n + 1).inherit = w.inherit
        /\ 2 <= from /\ n + 1 < 2 /\ after(n + 1).error = "none" => ~elsewhere
    BY <1>1, <2>1
  <2> HIDE DEF after, Good
  <2>5. /\ At((n + 1) - 1, after(n))
        /\ n + 1 # 2 => after(n).roles = after(n + 1).roles
                        /\ after(n).inherit = after(n + 1).inherit
        /\ after(n).error = "none"
             => after(n + 1).error = "none" /\ (n + 1 = 2 => ~elsewhere)
    <3>1. n + 1 = 1 => Down(n + 1, after(n + 1), elsewhere).error = "none"
      BY <2>1, <2>2, <2>3
    <3> QED BY <2>1, <2>2, <2>4, <3>1, DownDoes
  <2>6. (n + 1) - 1 = n
    BY <2>1
  <2>7. At(n, after(n))
    BY <2>5, <2>6
  <2>8. ASSUME from < 2 \/ 2 <= n
        PROVE  after(n).roles = w.roles /\ after(n).inherit = w.inherit
    <3>1. n + 1 # 2 /\ (from < 2 \/ 2 <= n + 1)
      BY <1>1, <2>1, <2>8
    <3> QED BY <2>4, <2>5, <3>1
  <2>9. ASSUME 2 <= from, n < 2, after(n).error = "none"
        PROVE  ~elsewhere
    <3>1. n + 1 < 2 \/ n + 1 = 2
      BY <2>1, <2>9
    <3> QED BY <2>4, <2>5, <2>9, <3>1
  <2> QED BY <2>7, <2>8, <2>9
<1>2. Good(from)
  <2>1. after(from) = w
    BY DowngradedIs
  <2> QED BY <2>1
<1> HIDE DEF Good
<1>3. N = {}
  <2> SUFFICES ASSUME N # {} PROVE FALSE
    OBVIOUS
  <2>1. N \in SUBSET Nat
    OBVIOUS
  <2>2. PICK k \in N : \A j \in N : k <= j
    <3> HIDE DEF N
    <3> QED BY <2>1, LeastNatural
  <2>3. k \in 0..from /\ k # 0
    BY <1>2
  <2>4. k - 1 \in 0..from /\ k - 1 \notin N
    <3> HIDE DEF N
    <3> QED BY <2>1, <2>2, <2>3
  <2>5. from - k \in 0..from /\ from - k < from /\ from - (k - 1) = (from - k) + 1
    BY <2>3
  <2>6. Good((from - k) + 1)
    BY <2>4, <2>5
  <2>7. Good(from - k)
    <3> HIDE DEF N
    <3> QED BY <1>1, <2>5, <2>6
  <2> QED BY <2>7
<1>4. Good(to)
  <2>1. from - to \in 0..from /\ from - (from - to) = to
    OBVIOUS
  <2> QED BY <1>3, <2>1
<1> QED BY <1>4 DEF Good
-----------------------------------------------------------------------------
(* Every database of the instance.                                         *)

\* What a database has, of what a work has.
Has(n, w) ==
    /\ w.tables = TablesAt(n) /\ w.references = ReferencesAt(n)
    /\ w.columns = ColumnsAt(n)
    /\ w.grants = GrantsAt(n) /\ w.defaults = DefaultsAt(n)

\* Every database has what its revision has, and the roles are there for it.
CatalogsInv ==
    /\ DOMAIN database = Databases
    /\ \A d \in Databases :
          /\ DOMAIN database[d] = Kept
          /\ Has(rev[d], database[d])
          /\ rev[d] >= 2 => roles = Roles
          /\ rev[d] = HeadRevision => inherit = Roles

\* The work Alembic starts with is the database, and the instance's roles.
LEMMA WorkIs ==
    ASSUME NEW d
    PROVE  LET w == Work(d) IN
           /\ IsWork(w)
           /\ w.tables = database[d]["tables"]
           /\ w.references = database[d]["references"]
           /\ w.columns = database[d]["columns"]
           /\ w.grants = database[d]["grants"] /\ w.defaults = database[d]["defaults"]
           /\ w.roles = roles /\ w.inherit = inherit /\ w.error = "none"
BY DEF Work, IsWork, Empty

\* From the second revision on, a database grants its roles something.
LEMMA RolesAreUsed ==
    ASSUME NEW n \in 0..7, GrantsAt(n) = {}
    PROVE  n < 2
<1>1. <<"finance_owner", "select", "plaid">> \in RoleGrants
  BY DEF RoleGrants, OwnerGrants, Privileges, Schemas
<1>2. <<"finance_owner", "usage", Whole("plaid")>> \in Usage(RoleGrants)
  BY <1>1 DEF Usage
<1>3. <<"finance_owner", "usage", Whole("plaid")>> \in FirstGrants
  BY <1>2 DEF FirstGrants
<1> QED BY <1>3 DEF GrantsAt

\* An instance without migrations.
LEMMA CatalogsInitially == Init => CatalogsInv
<1> SUFFICES ASSUME Init PROVE CatalogsInv
  OBVIOUS
<1>1. DOMAIN database = Databases
  BY DEF Init
<1>2. ASSUME NEW d \in Databases
      PROVE  /\ DOMAIN database[d] = Kept /\ Has(0, database[d]) /\ rev[d] = 0
  <2>1. database[d] = [k \in Kept |-> Empty[k]] /\ rev[d] = 0
    BY DEF Init
  <2>2. Has(0, Empty)
    BY EmptyIsAtZero DEF At, Has
  <2>3. DOMAIN database[d] = Kept /\ \A k \in Kept : database[d][k] = Empty[k]
    BY <2>1
  <2>4. "tables" \in Kept /\ "references" \in Kept /\ "columns" \in Kept
        /\ "grants" \in Kept /\ "defaults" \in Kept
    BY DEF Kept
  <2> QED BY <2>1, <2>2, <2>3, <2>4 DEF Has
<1> QED BY <1>1, <1>2 DEF CatalogsInv, HeadRevision

\* A session leaves a trail at most.
LEMMA OpenKeeps ==
    ASSUME CatalogsInv, NEW e, NEW d, NEW audits, Open(e, d, audits)
    PROVE  CatalogsInv'
<1>1. /\ database' = [database EXCEPT ![d].trail = @ \/ audits]
      /\ UNCHANGED <<rev, roles, inherit>>
  BY DEF Open
<1>2. DOMAIN database' = Databases
  BY <1>1 DEF CatalogsInv
<1>3. ASSUME NEW c \in Databases
      PROVE  /\ DOMAIN database'[c] = Kept
             /\ \A k \in Kept \ {"trail"} : database'[c][k] = database[c][k]
  <2>1. CASE c = d
    <3>1. database'[c] = [database[c] EXCEPT !.trail = @ \/ audits]
      BY <1>1, <2>1 DEF CatalogsInv
    <3> QED BY <3>1 DEF CatalogsInv
  <2>2. CASE c # d
    BY <1>1, <2>2 DEF CatalogsInv
  <2> QED BY <2>1, <2>2
<1>4. ASSUME NEW c \in Databases
      PROVE  Has(rev[c], database'[c])
  <2>1. /\ database'[c]["tables"] = database[c]["tables"]
        /\ database'[c]["references"] = database[c]["references"]
        /\ database'[c]["columns"] = database[c]["columns"]
        /\ database'[c]["grants"] = database[c]["grants"]
        /\ database'[c]["defaults"] = database[c]["defaults"]
    BY <1>3 DEF Kept
  <2> QED BY <2>1 DEF CatalogsInv, Has
<1> QED BY <1>1, <1>2, <1>3, <1>4 DEF CatalogsInv

\* Alembic.
LEMMA AlembicKeeps ==
    ASSUME SessionsInv, CatalogsInv, NEW to \in Targets, Alembic(to)
    PROVE  CatalogsInv'
<1> DEFINE d == Resolved("alembic_database_url").reaches
           from == rev[d]
           elsewhere == UsedElsewhere(d)
           up == Upgraded(Work(d), from, to)
           down == Downgraded(Work(d), from, to, elsewhere)
           w == IF from < to THEN up ELSE down
<1>1. d \in Databases /\ from \in 0..7 /\ to \in 0..7 /\ from # to
  <2>1. Resolved("alembic_database_url") \in Dsn
    BY ResolvedIsDsn DEF SessionsInv, Fields
  <2>2. d \in Databases
    BY <2>1 DEF Dsn
  <2>3. to \in 0..7
    BY TargetsAssumption DEF HeadRevision
  <2> QED BY <2>2, <2>3 DEF SessionsInv, ProcessTypes, HeadRevision, Alembic
<1>2. /\ w.error = "none"
      /\ rev' = [rev EXCEPT ![d] = to]
      /\ database' = [database EXCEPT ![d] = [k \in Kept |-> w[k]]]
      /\ roles' = w.roles /\ inherit' = w.inherit
  BY DEF Alembic
<1>3. elsewhere \in BOOLEAN
  BY DEF UsedElsewhere
<1>4. At(from, Work(d)) /\ Work(d).roles = roles /\ Work(d).inherit = inherit
  BY <1>1, WorkIs DEF CatalogsInv, Has, At
<1>5. /\ \A c \in Databases \ {d} : rev[c] < 2 \/ elsewhere
      /\ \A c \in Databases : rev[c] \in 0..7
  <2>1. \A c \in Databases : rev[c] \in 0..7
    BY DEF SessionsInv, ProcessTypes, HeadRevision
  <2>2. ASSUME NEW c \in Databases \ {d}, ~elsewhere
        PROVE  rev[c] < 2
    <3>1. database[c].grants = {}
      BY <2>2 DEF UsedElsewhere
    <3> QED BY <2>1, <3>1, RolesAreUsed DEF CatalogsInv, Has
  <2> QED BY <2>1, <2>2
<1> HIDE DEF d, from, elsewhere
\* The command reaches its revision, and does not take a role from anyone.
<1>6. /\ At(to, w)
      /\ to >= 2 => w.roles = (IF from < 2 THEN Roles ELSE roles)
      /\ to = 7 => w.inherit = Roles
      /\ \/ from >= 2 /\ to < 2 /\ ~elsewhere
         \/ w.roles \in {roles, Roles} /\ w.inherit \in {inherit, Roles}
  <2>1. CASE from < to
    <3>1. w = up
      BY <2>1
    <3>2. /\ At(to, up)
          /\ up.roles = (IF from < 2 /\ 2 <= to THEN Roles ELSE Work(d).roles)
          /\ up.inherit = (IF to = 7 THEN Roles ELSE Work(d).inherit)
      BY <1>1, <1>4, <2>1, UpgradeDoes
    <3> HIDE DEF up, w
    <3> QED BY <1>1, <1>4, <2>1, <3>1, <3>2
  <2>2. CASE to < from
    <3>1. w = down
      BY <1>1, <2>2
    <3>2. down.error = "none"
      BY <1>2, <3>1
    <3>3. /\ At(to, down)
          /\ from < 2 \/ 2 <= to => down.roles = Work(d).roles
                                    /\ down.inherit = Work(d).inherit
          /\ 2 <= from /\ to < 2 => ~elsewhere
      BY <1>1, <1>3, <1>4, <2>2, <3>2, DowngradeDoes
    <3> HIDE DEF down, w
    <3> QED BY <1>1, <1>4, <2>2, <3>1, <3>3
  <2> QED BY <1>1, <2>1, <2>2
<1> HIDE DEF w
<1>7. DOMAIN database' = Databases
  BY <1>2 DEF CatalogsInv
<1>8. /\ rev'[d] = to /\ database'[d] = [k \in Kept |-> w[k]]
      /\ \A c \in Databases : c # d => rev'[c] = rev[c] /\ database'[c] = database[c]
  BY <1>1, <1>2 DEF CatalogsInv, SessionsInv, ProcessTypes
<1>9. DOMAIN database'[d] = Kept /\ Has(to, database'[d])
  <2>1. /\ database'[d]["tables"] = w["tables"]
        /\ database'[d]["references"] = w["references"]
        /\ database'[d]["columns"] = w["columns"]
        /\ database'[d]["grants"] = w["grants"]
        /\ database'[d]["defaults"] = w["defaults"]
    BY <1>8 DEF Kept
  <2> QED BY <1>6, <1>8, <2>1 DEF At, Has
<1>10. /\ to >= 2 => roles' = Roles
       /\ to = 7 => inherit' = Roles
  <2>1. from >= 2 => roles = Roles
    BY <1>1 DEF CatalogsInv, from
  <2> QED BY <1>1, <1>2, <1>6, <2>1
<1>11. ASSUME NEW c \in Databases, c # d
       PROVE  /\ rev[c] >= 2 => roles' = Roles
              /\ rev[c] = 7 => inherit' = Roles
  <2>1. /\ rev[c] >= 2 => roles = Roles
        /\ rev[c] = 7 => inherit = Roles
    BY DEF CatalogsInv, HeadRevision
  <2>2. rev[c] \in 0..7 /\ (rev[c] < 2 \/ elsewhere)
    BY <1>5, <1>11
  <2> QED BY <1>2, <1>6, <2>1, <2>2
<1>12. ASSUME NEW c \in Databases
       PROVE  /\ DOMAIN database'[c] = Kept
              /\ Has(rev'[c], database'[c])
              /\ rev'[c] >= 2 => roles' = Roles
              /\ rev'[c] = 7 => inherit' = Roles
  <2>1. CASE c = d
    BY <1>8, <1>9, <1>10, <2>1
  <2>2. CASE c # d
    BY <1>8, <1>11, <2>2 DEF CatalogsInv
  <2> QED BY <2>1, <2>2
<1> QED BY <1>7, <1>12 DEF CatalogsInv, HeadRevision

\* Every step keeps the catalogs.
LEMMA CatalogsStep ==
    ASSUME SessionsInv, CatalogsInv, [Next]_vars
    PROVE  CatalogsInv'
<1>1. CASE UNCHANGED instance
  BY <1>1 DEF instance, CatalogsInv
<1>2. CASE \E d \in Databases : AppSession(d) \/ AgentSession(d) \/ ObserverSession(d)
  BY <1>2, OpenKeeps DEF AppSession, AgentSession, ObserverSession
<1>3. CASE \E to \in Targets : Alembic(to)
  BY <1>3, AlembicKeeps
<1>4. ASSUME \/ \E f \in DOMAIN EnvFiles : SetFile(f)
             \/ \E a \in Ambients : SetAmbient(a)
             \/ \E e \in Engines : Dispose(e)
             \/ UNCHANGED vars
      PROVE  UNCHANGED instance
  BY <1>4 DEF SetFile, SetAmbient, ChangeEnv, Dispose, vars, instance
<1> QED BY <1>1, <1>2, <1>3, <1>4 DEF Next

\* By whatever upgrades and downgrades.
LEMMA FreshIs ==
    ASSUME NEW n \in 0..7
    PROVE  At(n, Fresh[n])
<1>1. Fresh[n] = Upgraded(Empty, 0, n)
  BY DEF Fresh, HeadRevision
<1>2. CASE n = 0
  <2>1. Upgraded(Empty, 0, 0) = Empty
    BY UpgradedIs
  <2> QED BY <1>1, <1>2, <2>1, EmptyIsAtZero
<1>3. CASE 0 < n
  <2>1. 0 \in 0..7
    OBVIOUS
  <2>2. At(n, Upgraded(Empty, 0, n))
    BY <1>3, <2>1, EmptyIsAtZero, UpgradeDoes
  <2> QED BY <1>1, <2>2
<1> QED BY <1>2, <1>3

\* So a database is what a fresh upgrade makes.
LEMMA CatalogsFollow == SessionsInv /\ CatalogsInv => CatalogFollowsRevision
<1> SUFFICES ASSUME SessionsInv, CatalogsInv, NEW d \in Databases
             PROVE  /\ \A k \in Kept \ {"trail"} : database[d][k] = Fresh[rev[d]][k]
                    /\ rev[d] >= 2 => roles = Roles
                    /\ rev[d] = HeadRevision => inherit = Roles
  BY DEF CatalogFollowsRevision
<1>1. rev[d] \in 0..7
  BY DEF SessionsInv, ProcessTypes, HeadRevision
<1>2. Has(rev[d], Fresh[rev[d]])
  BY <1>1, FreshIs DEF At, Has
<1>3. Has(rev[d], database[d])
  BY DEF CatalogsInv
<1>4. \A k \in Kept \ {"trail"} : database[d][k] = Fresh[rev[d]][k]
  BY <1>2, <1>3 DEF Has, Kept
<1> QED BY <1>4 DEF CatalogsInv
-----------------------------------------------------------------------------
(* The head, and what is granted anywhere.                                 *)

\* The tables of the application at the head.
HeadTables == FirstTables \cup Recording.tables

\* The head has the tables and the columns the ORM declares.
LEMMA HeadIsModelled ==
    TablesAt(7) = Models.tables /\ ReferencesAt(7) = Models.references
    /\ ColumnsAt(7) = ModelColumns
<1>1. TablesAt(7) = Models.tables
  <2>1. TablesAt(7) = FirstTables \cup Recording.tables
    BY DEF TablesAt
  <2>2. Models.tables = {Items, Accounts, SyncState, Transactions}
          \cup {Conversations, Messages, AnalysisRuns, ToolCalls, Suggestions}
          \cup {JobRuns, Errors, Releases, SyncRuns, BackupRuns}
          \cup {Preferences, Overrides, Tags, Notes} \cup {Budgets}
    BY DEF Models, PlaidModels, AgentModels, OpsModels, UserModels, FinanceModels
  <2> QED BY <2>1, <2>2, FirstTablesAre
<1>2. ReferencesAt(7) = Models.references
  <2>1. ReferencesAt(7) = FirstReferences \cup Recording.references
    BY DEF ReferencesAt
  <2>2. Models.references =
          ((({Accounts, SyncState} \X {Items}) \cup {<<Transactions, Accounts>>})
             \cup (({Messages, AnalysisRuns, ToolCalls} \X {Conversations})
                     \cup {<<ToolCalls, AnalysisRuns>>, <<Suggestions, Transactions>>}))
            \cup {<<SyncRuns, Items>>, <<BackupRuns, BackupRuns>>}
            \cup ({Overrides, Tags, Notes} \X {Transactions})
    BY DEF Models, PlaidModels, AgentModels, OpsModels, UserModels
  <2>3. FirstReferences \cup Recording.references =
          (({AnalysisRuns, Messages} \X {Conversations})
             \cup ({SyncRuns, Accounts, SyncState} \X {Items}))
            \cup (({ToolCalls} \X {AnalysisRuns, Conversations})
                    \cup {<<Transactions, Accounts>>})
            \cup ({Suggestions, Overrides, Notes, Tags} \X {Transactions})
            \cup {<<BackupRuns, BackupRuns>>}
    BY DEF FirstReferences, FirstReferring, SecondReferring, Annotating, Recording
  <2>4. \A r : r \in Models.references <=> r \in FirstReferences \cup Recording.references
    BY <2>2, <2>3
  <2> QED BY <2>1, <2>4
<1>3. ColumnsAt(7) = ModelColumns
  BY ColumnsAre DEF ModelColumns
<1> QED BY <1>1, <1>2, <1>3

\* What a role is granted on a schema it may do with the schema's tables at
\* the head, whenever they were made.
LEMMA HeadGrants ==
    ASSUME NEW role \in Roles, NEW p \in Privileges, NEW t \in HeadTables,
           p \in {"peek", "draw"} => t # Preferences
    PROVE  /\ <<role, p, t[1]>> \in RoleGrants => <<role, p, t>> \in GrantsAt(7)
           /\ <<role, p, t[1]>> \in BackupPeeks => <<role, p, t>> \in GrantsAt(7)
           /\ <<role, p, t[1]>> \in RoleGrants
                => <<role, "usage", Whole(t[1])>> \in GrantsAt(7)
<1> DEFINE g == <<role, p, t>>
<1>1. g[1] = role /\ g[2] = p /\ g[3] = t /\ g[3][1] = t[1]
  OBVIOUS
<1>2. \A classwide, tables :
        <<role, p, t[1]>> \in classwide /\ t \in tables => g \in OnTables(classwide, tables)
  <2> SUFFICES ASSUME NEW classwide, NEW tables,
                      <<role, p, t[1]>> \in classwide, t \in tables
               PROVE  g \in OnTables(classwide, tables)
    OBVIOUS
  <2>1. g \in Roles \X Privileges \X tables
    OBVIOUS
  <2> HIDE DEF g
  <2> QED BY <1>1, <2>1 DEF OnTables
<1>3. <<role, p, t[1]>> \in RoleGrants
        => <<role, "usage", Whole(t[1])>> \in Usage(RoleGrants)
  <2> SUFFICES ASSUME <<role, p, t[1]>> \in RoleGrants
               PROVE  \E h \in RoleGrants :
                        <<role, "usage", Whole(t[1])>> = <<h[1], "usage", Whole(h[3])>>
    BY DEF Usage
  <2> DEFINE h == <<role, p, t[1]>>
  <2>1. h[1] = role /\ h[3] = t[1]
    OBVIOUS
  <2> QED BY <2>1
<1> HIDE DEF g
<1>4. /\ FirstGrants \subseteq GrantsAt(7)
      /\ OnTables(RoleGrants, Recording.tables) \subseteq GrantsAt(7)
      /\ OnTables(BackupPeeks, HeadTables) \subseteq GrantsAt(7)
  BY DEF GrantsAt, HeadTables
<1>5. <<role, p, t[1]>> \in RoleGrants => g \in GrantsAt(7)
  <2>1. CASE t \in FirstTables
    BY <1>2, <1>4, <2>1 DEF FirstGrants
  <2>2. CASE t \in Recording.tables
    BY <1>2, <1>4, <2>2
  <2> QED BY <2>1, <2>2 DEF HeadTables
<1>6. <<role, p, t[1]>> \in BackupPeeks => g \in GrantsAt(7)
  BY <1>2, <1>4
<1>7. Usage(RoleGrants) \subseteq GrantsAt(7)
  BY <1>4 DEF FirstGrants
<1> QED BY <1>3, <1>5, <1>6, <1>7 DEF g

\* A service may use tables of the schemas its role is granted.
LEMMA OnIsGranted ==
    ASSUME NEW role \in Roles, NEW privileges \in SUBSET Privileges,
           privileges # {}, NEW tables \in SUBSET HeadTables,
           \A p \in privileges, t \in tables :
             /\ <<role, p, t[1]>> \in RoleGrants
             /\ p \in {"peek", "draw"} => t # Preferences
    PROVE  On(role, privileges, tables) \subseteq GrantsAt(7)
<1>1. ASSUME NEW g \in {role} \X privileges \X tables
      PROVE  g \in GrantsAt(7)
  <2>1. g = <<role, g[2], g[3]>> /\ g[2] \in privileges /\ g[3] \in tables
    OBVIOUS
  <2> QED BY <2>1, HeadGrants
<1>2. ASSUME NEW t \in tables
      PROVE  <<role, "usage", Whole(t[1])>> \in GrantsAt(7)
  <2>1. PICK p \in privileges : TRUE
    OBVIOUS
  <2>2. p \in Privileges /\ t \in HeadTables /\ <<role, p, t[1]>> \in RoleGrants
        /\ (p \in {"peek", "draw"} => t # Preferences)
    OBVIOUS
  <2> QED BY <2>2, HeadGrants
<1> QED BY <1>1, <1>2 DEF On

\* The schemas of the tables.
LEMMA SchemasAre ==
    /\ {Conversations[1], AnalysisRuns[1], Messages[1], ToolCalls[1], Suggestions[1]}
         = {"agent"}
    /\ Budgets[1] = "finance"
    /\ {Errors[1], JobRuns[1], SyncRuns[1], BackupRuns[1], Releases[1]} = {"ops"}
    /\ {Items[1], Accounts[1], SyncState[1], Transactions[1]} = {"plaid"}
    /\ {Preferences[1], Overrides[1], Notes[1], Tags[1]} = {"user"}
    /\ Preferences \notin {Conversations, AnalysisRuns, Messages, ToolCalls, Suggestions,
                           Budgets, Errors, JobRuns, SyncRuns, BackupRuns, Releases, Items,
                           Accounts, SyncState, Transactions, Overrides, Notes, Tags}
    /\ \A t \in HeadTables : t[1] \in Schemas
<1>1. /\ {Conversations[1], AnalysisRuns[1], Messages[1], ToolCalls[1], Suggestions[1]}
            = {"agent"}
      /\ Budgets[1] = "finance"
      /\ {Errors[1], JobRuns[1], SyncRuns[1], BackupRuns[1], Releases[1]} = {"ops"}
      /\ {Items[1], Accounts[1], SyncState[1], Transactions[1]} = {"plaid"}
      /\ {Preferences[1], Overrides[1], Notes[1], Tags[1]} = {"user"}
  BY DEF Conversations, AnalysisRuns, Messages, ToolCalls, Suggestions, Budgets, Errors,
         JobRuns, SyncRuns, BackupRuns, Releases, Items, Accounts, SyncState, Transactions,
         Preferences, Overrides, Notes, Tags
<1>2. Preferences \notin {Conversations, AnalysisRuns, Messages, ToolCalls, Suggestions,
                          Budgets, Errors, JobRuns, SyncRuns, BackupRuns, Releases, Items,
                          Accounts, SyncState, Transactions, Overrides, Notes, Tags}
  BY DEF Conversations, AnalysisRuns, Messages, ToolCalls, Suggestions, Budgets, Errors,
         JobRuns, SyncRuns, BackupRuns, Releases, Items, Accounts, SyncState, Transactions,
         Preferences, Overrides, Notes, Tags
<1>3. \A t \in HeadTables : t[1] \in Schemas
  BY <1>1, FirstTablesAre DEF HeadTables, Schemas
<1> QED BY <1>1, <1>2, <1>3

\* What Alembic's version table and the observer's narrow grants come to.
LEMMA NarrowAre ==
    /\ NarrowGrants \subseteq GrantsAt(7)
    /\ \A role \in {"finance_backup", "finance_observer", "finance_app"} :
         <<role, "select", AlembicVersion>> \in NarrowGrants
    /\ \A t \in {Items, SyncState} : <<"finance_observer", "select", t>> \in NarrowGrants
    /\ <<"finance_observer", "usage", Whole("plaid")>> \in NarrowGrants
<1>1. NarrowGrants \subseteq GrantsAt(7)
  BY DEF GrantsAt
<1>2. \A role \in {"finance_backup", "finance_observer", "finance_app"} :
        <<role, "select", AlembicVersion>> \in NarrowGrants
  BY DEF NarrowGrants
<1>3. \A t \in {Items, SyncState} : <<"finance_observer", "select", t>> \in NarrowGrants
  BY DEF NarrowGrants
<1>4. <<"finance_observer", "usage", Whole("plaid")>> \in NarrowGrants
  BY DEF NarrowGrants
<1> QED BY <1>1, <1>2, <1>3, <1>4

\* The privileges of each service are granted at the head.
LEMMA HeadServes ==
    AppNeeds \cup AgentNeeds \cup ObserverNeeds \cup BackupNeeds \subseteq GrantsAt(7)
<1>1. /\ {Items, Accounts, Transactions, SyncState, SyncRuns, Errors, BackupRuns, Releases}
           \subseteq HeadTables
      /\ {Conversations, Messages, ToolCalls, Budgets, Overrides, Notes, Tags, Preferences}
           \subseteq HeadTables
      /\ Models.tables = HeadTables
  BY FirstTablesAre, HeadIsModelled DEF HeadTables, TablesAt
<1>2. AppNeeds \subseteq GrantsAt(7)
  <2> DEFINE tables == {Items, Accounts, Transactions, SyncState, SyncRuns, Errors,
                        BackupRuns, Releases}
             privileges == {"select", "write", "draw"}
  <2>1. tables \in SUBSET HeadTables /\ Preferences \notin tables
    BY <1>1, SchemasAre
  <2>2. privileges \in SUBSET Privileges /\ privileges # {} /\ "finance_app" \in Roles
    BY DEF Privileges, Roles
  <2>3. AppNeeds = On("finance_app", privileges, tables)
                     \cup {<<"finance_app", "select", AlembicVersion>>}
    BY DEF AppNeeds
  <2> HIDE DEF tables, privileges
  <2>4. \A p \in privileges, t \in tables : <<"finance_app", p, t[1]>> \in RoleGrants
    BY <2>1, <2>2, SchemasAre DEF RoleGrants, AppGrants
  <2>5. On("finance_app", privileges, tables) \subseteq GrantsAt(7)
    BY <2>1, <2>2, <2>4, OnIsGranted
  <2> QED BY <2>3, <2>5, NarrowAre
<1>3. AgentNeeds \subseteq GrantsAt(7)
  <2> DEFINE own == {Conversations, Messages, ToolCalls, Budgets, Overrides, Notes, Tags,
                     Preferences}
             numbered == {Conversations, Messages, ToolCalls, Budgets, Overrides, Notes, Tags}
             facts == {Transactions}
             use == {"select", "write"}
             number == {"draw"}
             look == {"select"}
  <2>1. /\ own \in SUBSET HeadTables /\ numbered \in SUBSET HeadTables
        /\ facts \in SUBSET HeadTables
        /\ Preferences \notin numbered /\ Preferences \notin facts
    BY <1>1, SchemasAre
  <2>2. /\ \A t \in own : t[1] \in {"user", "finance", "agent"}
        /\ \A t \in numbered : t[1] \in {"user", "finance", "agent"}
        /\ \A t \in facts : t[1] = "plaid"
    BY SchemasAre
  <2>3. /\ use \in SUBSET Privileges /\ use # {} /\ "peek" \notin use /\ "draw" \notin use
        /\ number \in SUBSET Privileges /\ number # {}
        /\ look \in SUBSET Privileges /\ look = {"select"}
        /\ "finance_agent" \in Roles
    BY DEF Privileges, Roles
  <2>4. AgentNeeds = On("finance_agent", use, own) \cup On("finance_agent", number, numbered)
                       \cup On("finance_agent", look, facts)
    BY DEF AgentNeeds
  <2> HIDE DEF own, numbered, facts, use, number, look
  <2>5. /\ \A p \in Privileges, s \in {"user", "finance", "agent"} :
             <<"finance_agent", p, s>> \in RoleGrants
        /\ <<"finance_agent", "select", "plaid">> \in RoleGrants
    BY DEF RoleGrants, AgentGrants
  <2>6. On("finance_agent", use, own) \subseteq GrantsAt(7)
    BY <2>1, <2>2, <2>3, <2>5, OnIsGranted
  <2>7. On("finance_agent", number, numbered) \subseteq GrantsAt(7)
    BY <2>1, <2>2, <2>3, <2>5, OnIsGranted
  <2>8. On("finance_agent", look, facts) \subseteq GrantsAt(7)
    BY <2>1, <2>2, <2>3, <2>5, OnIsGranted
  <2> QED BY <2>4, <2>6, <2>7, <2>8
<1>4. ObserverNeeds \subseteq GrantsAt(7)
  <2> DEFINE facts == {Items, SyncState}
             own == {SyncRuns, BackupRuns, Errors, Releases}
             look == {"select"}
  <2>1. own \in SUBSET HeadTables /\ Preferences \notin own /\ Preferences \notin facts
        /\ facts \in SUBSET HeadTables
    BY <1>1, SchemasAre
  <2>2. (\A t \in own : t[1] = "ops") /\ (\A t \in facts : t[1] = "plaid")
    BY SchemasAre
  <2>3. look \in SUBSET Privileges /\ look = {"select"} /\ "finance_observer" \in Roles
    BY DEF Privileges, Roles
  <2>4. ObserverNeeds \subseteq On("finance_observer", look, own)
          \cup On("finance_observer", look, facts)
          \cup {<<"finance_observer", "select", AlembicVersion>>}
    <3>1. {SyncRuns, SyncState, Items, BackupRuns, Errors, Releases} = own \cup facts
      OBVIOUS
    <3> QED BY <3>1 DEF ObserverNeeds, On
  <2>5. \A t \in facts : <<"finance_observer", "select", t>> \in GrantsAt(7)
    BY NarrowAre
  <2> HIDE DEF own, facts, look
  <2>6. <<"finance_observer", "select", "ops">> \in RoleGrants
    BY DEF RoleGrants, ObserverGrants
  <2>7. On("finance_observer", look, own) \subseteq GrantsAt(7)
    BY <2>1, <2>2, <2>3, <2>6, OnIsGranted
  <2>8. On("finance_observer", look, facts) \subseteq GrantsAt(7)
    BY <2>2, <2>3, <2>5, NarrowAre DEF On
  <2> QED BY <2>4, <2>7, <2>8, NarrowAre
<1>5. BackupNeeds \subseteq GrantsAt(7)
  <2> DEFINE look == {"select"}
             peek == {"peek"}
             numbered == HeadTables \ {Preferences}
  <2>1. look \in SUBSET Privileges /\ look = {"select"}
        /\ peek = {"peek"} /\ "peek" \in Privileges /\ "finance_backup" \in Roles
    BY DEF Privileges, Roles
  <2>2. BackupNeeds = On("finance_backup", look, HeadTables)
          \cup On("finance_backup", peek, numbered)
          \cup {<<"finance_backup", "select", AlembicVersion>>}
    BY <1>1 DEF BackupNeeds
  <2>3. \A s \in Schemas : /\ <<"finance_backup", "select", s>> \in RoleGrants
                           /\ <<"finance_backup", "peek", s>> \in BackupPeeks
    BY DEF RoleGrants, BackupGrants, BackupPeeks
  <2>4. \A t \in numbered : t \in HeadTables /\ t # Preferences
    OBVIOUS
  <2> HIDE DEF look, peek, numbered
  <2>5. On("finance_backup", look, HeadTables) \subseteq GrantsAt(7)
    BY <2>1, <2>3, SchemasAre, OnIsGranted
  <2>6. ASSUME NEW g \in {"finance_backup"} \X peek \X numbered
        PROVE  g \in GrantsAt(7)
    <3>1. g = <<"finance_backup", "peek", g[3]>> /\ g[3] \in numbered
      BY <2>1
    <3> DEFINE t == g[3]
    <3>2. t \in HeadTables /\ t # Preferences /\ t[1] \in Schemas
      BY <2>4, <3>1, SchemasAre
    <3>3. <<"finance_backup", "peek", t[1]>> \in BackupPeeks
      BY <2>3, <3>2
    <3> HIDE DEF t
    <3>4. <<"finance_backup", "peek", t>> \in GrantsAt(7)
      BY <2>1, <3>2, <3>3, HeadGrants
    <3> QED BY <3>1, <3>4 DEF t
  <2>7. ASSUME NEW t \in numbered
        PROVE  <<"finance_backup", "usage", Whole(t[1])>> \in GrantsAt(7)
    <3>1. "select" \in Privileges
      BY DEF Privileges
    <3> QED BY <2>1, <2>3, <2>4, <3>1, SchemasAre, HeadGrants
  <2>8. On("finance_backup", peek, numbered) \subseteq GrantsAt(7)
    BY <2>6, <2>7 DEF On
  <2> QED BY <2>2, <2>5, <2>8, NarrowAre
<1> QED BY <1>2, <1>3, <1>4, <1>5

\* No grant of any revision is more than its role is for.
LEMMA GrantsAreLeast ==
    ASSUME NEW n \in 0..7, NEW g \in GrantsAt(n)
    PROVE  /\ g[1] = "finance_agent" => /\ g[3][1] # "ops"
                                        /\ g[2] = "write" => g[3][1] # "plaid"
           /\ g[1] = "finance_observer" => g[3] \notin {Accounts, Transactions}
           /\ g[1] \in {"finance_observer", "finance_backup"} => g[2] # "write"
<1> DEFINE Least(x) ==
             /\ x[1] = "finance_agent" => /\ x[3][1] # "ops"
                                          /\ x[2] = "write" => x[3][1] # "plaid"
             /\ x[1] = "finance_observer" => x[3] \notin {Accounts, Transactions}
             /\ x[1] \in {"finance_observer", "finance_backup"} => x[2] # "write"
<1>1. Accounts[1] = "plaid" /\ Transactions[1] = "plaid"
  BY DEF Accounts, Transactions
<1>2. ASSUME NEW x \in Usage(RoleGrants)
      PROVE  Least(x)
  <2>1. PICK h \in RoleGrants : x = <<h[1], "usage", Whole(h[3])>>
    BY DEF Usage
  <2>2. x[1] = h[1] /\ x[2] = "usage" /\ x[3] = <<h[3], "*">> /\ x[3][1] = h[3]
    BY <2>1 DEF Whole
  <2>3. x[3] # Accounts /\ x[3] # Transactions
    BY <2>2 DEF Accounts, Transactions
  <2>4. h[1] = "finance_agent" => h[3] # "ops"
    BY RoleGrantsAre
  <2> QED BY <2>2, <2>3, <2>4
<1>3. ASSUME NEW tables, NEW x \in OnTables(RoleGrants, tables)
      PROVE  Least(x)
  <2>1. <<x[1], x[2], x[3][1]>> \in RoleGrants
    BY DEF OnTables
  <2> DEFINE h == <<x[1], x[2], x[3][1]>>
  <2>2. h[1] = x[1] /\ h[2] = x[2] /\ h[3] = x[3][1] /\ h \in RoleGrants
    BY <2>1
  <2> HIDE DEF h
  <2>3. /\ x[1] = "finance_agent" => x[3][1] # "ops" /\ (x[3][1] = "plaid" => x[2] = "select")
        /\ x[1] = "finance_observer" => x[3][1] = "ops" /\ x[2] = "select"
        /\ x[1] = "finance_backup" => x[2] = "select"
    BY <2>2, RoleGrantsAre
  <2> QED BY <1>1, <2>3
<1>4. ASSUME NEW tables, NEW x \in OnTables(BackupPeeks, tables)
      PROVE  Least(x)
  <2>1. <<x[1], x[2], x[3][1]>> \in BackupPeeks
    BY DEF OnTables
  <2>2. x[1] = "finance_backup" /\ x[2] = "peek"
    BY <2>1 DEF BackupPeeks
  <2> QED BY <2>2
<1>5. ASSUME NEW x \in NarrowGrants
      PROVE  Least(x)
  <2>1. /\ AlembicVersion # Accounts /\ AlembicVersion # Transactions
        /\ Items # Accounts /\ Items # Transactions
        /\ SyncState # Accounts /\ SyncState # Transactions
        /\ Whole("plaid") # Accounts /\ Whole("plaid") # Transactions
    BY DEF AlembicVersion, Accounts, Transactions, Items, SyncState, Whole
  <2>2. CASE x \in {"finance_backup", "finance_observer", "finance_app"}
                    \X {"select"} \X {AlembicVersion}
    BY <2>1, <2>2
  <2>3. CASE x \in {"finance_observer"} \X {"select"} \X {Items, SyncState}
    BY <2>1, <2>3
  <2>4. CASE x = <<"finance_observer", "usage", Whole("plaid")>>
    BY <2>1, <2>4
  <2> QED BY <2>2, <2>3, <2>4 DEF NarrowGrants
<1> HIDE DEF Least
<1>6. Least(g)
  BY <1>2, <1>3, <1>4, <1>5 DEF GrantsAt, FirstGrants
<1> QED BY <1>6 DEF Least
-----------------------------------------------------------------------------
(* Commands that succeed.                                                  *)

\* A refusal without a reason is none.
LEMMA RefuseNothing ==
    ASSUME NEW w, NEW cond, ~cond, NEW why
    PROVE  Refuse(w, cond, why) = w
BY DEF Refuse

\* CREATE TABLE fails only for a reference to a table that is not there.
LEMMA CreateSucceeds ==
    ASSUME NEW w, IsWork(w), NEW new,
           \A r \in new.references : r[2] \in w.tables \cup new.tables
    PROVE  Create(w, new).error = w.error /\ Create(w, new).trail = w.trail
<1> DEFINE u == [w EXCEPT !.tables = @ \cup new.tables,
                          !.references = @ \cup new.references,
                          !.grants = @ \cup OnTables(w.defaults, new.tables)]
           dangling == \E r \in new.references : r[2] \notin w.tables \cup new.tables
<1>1. u.error = w.error /\ u.trail = w.trail
  BY DEF IsWork, Empty
<1>2. Create(w, new) = Refuse(u, dangling, "reference") /\ ~dangling
  BY DEF Create
<1> HIDE DEF u, dangling
<1> QED BY <1>1, <1>2 DEF Refuse

\* DROP TABLE fails only when another table refers to it.
LEMMA DropSucceeds ==
    ASSUME NEW w, IsWork(w), NEW x,
           \A r \in w.references : r[2] = x => r[1] = x
    PROVE  Drop(w, x).error = w.error
<1> DEFINE u == [w EXCEPT !.tables = @ \ {x},
                          !.references = {r \in @ : r[1] # x},
                          !.grants = {g \in @ : g[3] # x},
                          !.columns = {c \in @ : c[1] # x},
                          !.trail = @ /\ x # ToolCalls]
           used == \E r \in w.references : r[1] # x /\ r[2] = x
<1>1. u.error = w.error
  BY DEF IsWork, Empty
<1>2. Drop(w, x) = Refuse(u, used, "reference") /\ ~used
  BY DEF Drop
<1> HIDE DEF u, used
<1> QED BY <1>1, <1>2 DEF Refuse

\* 0001 makes every table before the tables that refer to it.
LEMMA Up1Succeeds ==
    ASSUME NEW w, At(0, w)
    PROVE  Up1(w).error = w.error /\ Up1(w).trail = w.trail
<1> DEFINE a == Create(w, Independent)
           b == Create(a, FirstReferring)
           c == Create(b, SecondReferring)
           d == Create(c, Annotating)
<1>1. IsWork(w)
  BY DEF At
<1>2. /\ IsWork(a) /\ Independent.tables \subseteq a.tables
      /\ a.error = w.error /\ a.trail = w.trail
  <2>1. Independent.references = {}
    BY DEF Independent
  <2>2. IsWork(a) /\ a.tables = w.tables \cup Independent.tables
    BY <1>1, CreateDoes
  <2> QED BY <1>1, <2>1, <2>2, CreateSucceeds
<1> HIDE DEF a
<1>3. /\ IsWork(b) /\ Independent.tables \cup FirstReferring.tables \subseteq b.tables
      /\ b.error = a.error /\ b.trail = a.trail
  <2>1. \A r \in FirstReferring.references : r[2] \in Independent.tables
    BY DEF FirstReferring, Independent
  <2>2. IsWork(b) /\ b.tables = a.tables \cup FirstReferring.tables
    BY <1>2, CreateDoes
  <2>3. b.error = a.error /\ b.trail = a.trail
    BY <1>2, <2>1, CreateSucceeds
  <2> QED BY <1>2, <2>2, <2>3
<1> HIDE DEF b
<1>4. /\ IsWork(c)
      /\ Independent.tables \cup FirstReferring.tables \cup SecondReferring.tables
           \subseteq c.tables
      /\ c.error = b.error /\ c.trail = b.trail
  <2>1. \A r \in SecondReferring.references :
          r[2] \in Independent.tables \cup FirstReferring.tables
    BY DEF SecondReferring, FirstReferring, Independent
  <2>2. IsWork(c) /\ c.tables = b.tables \cup SecondReferring.tables
    BY <1>3, CreateDoes
  <2>3. c.error = b.error /\ c.trail = b.trail
    BY <1>3, <2>1, CreateSucceeds
  <2> QED BY <1>3, <2>2, <2>3
<1> HIDE DEF c
<1>5. d.error = c.error /\ d.trail = c.trail
  <2>1. \A r \in Annotating.references : r[2] \in SecondReferring.tables
    BY DEF SecondReferring, Annotating
  <2> QED BY <1>4, <2>1, CreateSucceeds
<1>6. Up1(w) = d
  BY DEF Up1, a, b, c
<1> HIDE DEF d
<1> QED BY <1>2, <1>3, <1>4, <1>5, <1>6

\* 0004's tables refer to each other alone.
LEMMA Up4Succeeds ==
    ASSUME NEW w, At(3, w)
    PROVE  Up4(w).error = w.error /\ Up4(w).trail = w.trail
<1> DEFINE new == Create(w, Recording)
           columns == new.columns \cup {<<Releases, "image_ref">>}
           defaults == new.defaults \cup BackupPeeks
           grants == new.grants \cup NarrowGrants \cup OnTables(BackupPeeks, new.tables)
           v == [new EXCEPT !.columns = columns, !.defaults = defaults, !.grants = grants]
<1>1. Up4(w) = v
  BY DEF Up4
<1>2. IsWork(w)
  BY DEF At
<1>3. \A r \in Recording.references : r[2] \in Recording.tables
  BY DEF Recording
<1>4. IsWork(new) /\ new.error = w.error /\ new.trail = w.trail
  BY <1>2, <1>3, CreateDoes, CreateSucceeds
<1> HIDE DEF new, columns, defaults, grants
<1>5. v.error = new.error /\ v.trail = new.trail
  BY <1>4 DEF IsWork, Empty
<1> QED BY <1>1, <1>4, <1>5

\* A migration fails only where a provider would be missing from a row.
LEMMA UpSucceeds ==
    ASSUME NEW n \in 1..7, NEW w, At(n - 1, w), w.error = "none",
           n <= 3 => w.trail = FALSE
    PROVE  Up(n, w).error = "none" /\ (n <= 3 => Up(n, w).trail = FALSE)
<1>1. IsWork(w)
  BY DEF At
<1>2. CASE n = 1
  <2>1. At(0, w)
    BY <1>2
  <2> QED BY <1>2, <2>1, Up1Succeeds DEF Up
<1>3. CASE n = 2
  <2> DEFINE defaults == w.defaults \cup RoleGrants
             grants == w.grants \cup Usage(RoleGrants) \cup OnTables(RoleGrants, w.tables)
             v == [w EXCEPT !.roles = Roles, !.defaults = defaults, !.grants = grants]
  <2>1. Up(n, w) = v
    BY <1>3 DEF Up, Up2
  <2> HIDE DEF defaults, grants
  <2>2. v.error = w.error /\ v.trail = w.trail
    BY <1>1 DEF IsWork, Empty
  <2> QED BY <1>3, <2>1, <2>2
<1>4. CASE n = 3
  <2> DEFINE columns == w.columns \cup {<<ToolCalls, "provider">>}
             u == [w EXCEPT !.columns = columns]
  <2>1. Up(n, w) = Refuse(u, w.trail, "rows") /\ w.trail = FALSE
    BY <1>4 DEF Up, Up3
  <2> HIDE DEF columns
  <2>2. u.error = w.error /\ u.trail = w.trail
    BY <1>1 DEF IsWork, Empty
  <2> HIDE DEF u
  <2>3. Up(n, w) = u
    BY <2>1 DEF Refuse
  <2> QED BY <2>2, <2>3
<1>5. CASE n = 4
  <2>1. At(3, w)
    BY <1>5
  <2> QED BY <1>5, <2>1, Up4Succeeds DEF Up
<1>6. CASE n = 5
  <2> DEFINE columns == w.columns \cup {<<Releases, "replaces_release_id">>}
  <2>1. Up(n, w) = [w EXCEPT !.columns = columns]
    BY <1>6 DEF Up, Up5
  <2> HIDE DEF columns
  <2>2. Up(n, w).error = w.error
    BY <1>1, <2>1, ColumnsDo
  <2> QED BY <1>6, <2>2
<1>7. CASE n = 6
  <2> DEFINE columns == (w.columns \ {<<Releases, "image_ref">>})
                          \cup {<<Releases, "artifact_ref">>}
             u == [w EXCEPT !.columns = columns]
             missing == <<Releases, "image_ref">> \notin w.columns
  <2>1. Up(n, w) = Refuse(u, missing, "column")
    BY <1>7 DEF Up, Up6, Renamed
  <2>2. ~missing
    BY <1>7, ColumnsAre DEF At
  <2> HIDE DEF columns, missing
  <2>3. u.error = w.error
    BY <1>1, ColumnsDo
  <2> HIDE DEF u
  <2> QED BY <1>7, <2>1, <2>2, <2>3 DEF Refuse
<1>8. CASE n = 7
  <2>1. Up(n, w).error = w.error
    BY <1>1, <1>8 DEF Up, Up7, IsWork, Empty
  <2> QED BY <1>8, <2>1
<1>9. n = 1 \/ n = 2 \/ n = 3 \/ n = 4 \/ n = 5 \/ n = 6 \/ n = 7
  OBVIOUS
<1> QED BY <1>2, <1>3, <1>4, <1>5, <1>6, <1>7, <1>8, <1>9, Zenon


\* 0001 drops each of its tables once, and after those that refer to it.
LEMMA OrderIs ==
    /\ Len(DropOrder) = 17
    /\ \A i \in 1..17 : DropOrder[i] \in FirstTables
    /\ \A x \in FirstTables : \E i \in 1..17 : DropOrder[i] = x
    /\ \A r \in FirstReferences, i \in 1..17 :
         DropOrder[i] = r[2] => \E j \in 1..(i - 1) : DropOrder[j] = r[1]
<1>1. /\ Len(DropOrder) = 17
      /\ DropOrder[1] = Tags /\ DropOrder[2] = Notes /\ DropOrder[3] = Overrides
      /\ DropOrder[4] = Suggestions /\ DropOrder[5] = Transactions
      /\ DropOrder[6] = ToolCalls /\ DropOrder[7] = SyncState /\ DropOrder[8] = Accounts
      /\ DropOrder[9] = SyncRuns /\ DropOrder[10] = Messages
      /\ DropOrder[11] = AnalysisRuns /\ DropOrder[12] = Preferences
      /\ DropOrder[13] = Items /\ DropOrder[14] = JobRuns /\ DropOrder[15] = Errors
      /\ DropOrder[16] = Budgets /\ DropOrder[17] = Conversations
  BY DEF DropOrder
<1>2. \A i \in 1..17 : \/ i = 1 \/ i = 2 \/ i = 3 \/ i = 4 \/ i = 5 \/ i = 6 \/ i = 7
                       \/ i = 8 \/ i = 9 \/ i = 10 \/ i = 11 \/ i = 12 \/ i = 13 \/ i = 14
                       \/ i = 15 \/ i = 16 \/ i = 17
  OBVIOUS
<1>3. \A i \in 1..17 : DropOrder[i] \in FirstTables
  BY <1>1, <1>2, FirstTablesAre
<1>4. \A x \in FirstTables : \E i \in 1..17 : DropOrder[i] = x
  BY <1>1, FirstTablesAre
<1>5. \A r \in FirstReferences :
        \/ r[1] \in {Tags, Notes, Overrides, Suggestions} /\ r[2] = Transactions
        \/ r[1] = Transactions /\ r[2] = Accounts
        \/ r[1] \in {SyncState, Accounts, SyncRuns} /\ r[2] = Items
        \/ r[1] = ToolCalls /\ r[2] = AnalysisRuns
        \/ r[1] \in {ToolCalls, Messages, AnalysisRuns} /\ r[2] = Conversations
  BY DEF FirstReferences, FirstReferring, SecondReferring, Annotating
<1>6. /\ \A i \in 1..17 : DropOrder[i] = Transactions => i = 5
      /\ \A i \in 1..17 : DropOrder[i] = Accounts => i = 8
      /\ \A i \in 1..17 : DropOrder[i] = Items => i = 13
      /\ \A i \in 1..17 : DropOrder[i] = AnalysisRuns => i = 11
      /\ \A i \in 1..17 : DropOrder[i] = Conversations => i = 17
  BY <1>1, <1>2 DEF Conversations, Budgets, Errors, JobRuns,
              Items, Preferences, AnalysisRuns, Messages, SyncRuns, Accounts, SyncState,
              ToolCalls, Transactions, Suggestions, Overrides, Notes, Tags
<1>7. ASSUME NEW r \in FirstReferences, NEW i \in 1..17, DropOrder[i] = r[2]
      PROVE  \E j \in 1..(i - 1) : DropOrder[j] = r[1]
  <2>1. CASE r[1] \in {Tags, Notes, Overrides, Suggestions} /\ r[2] = Transactions
    <3>1. i = 5 /\ 1 \in 1..4 /\ 2 \in 1..4 /\ 3 \in 1..4 /\ 4 \in 1..4 /\ 5 - 1 = 4
      BY <1>6, <1>7, <2>1
    <3> QED BY <1>1, <2>1, <3>1
  <2>2. CASE r[1] = Transactions /\ r[2] = Accounts
    <3>1. i = 8 /\ 5 \in 1..(i - 1)
      BY <1>6, <1>7, <2>2
    <3> QED BY <1>1, <2>2, <3>1
  <2>3. CASE r[1] \in {SyncState, Accounts, SyncRuns} /\ r[2] = Items
    <3>1. i = 13 /\ 7 \in 1..(i - 1) /\ 8 \in 1..(i - 1) /\ 9 \in 1..(i - 1)
      BY <1>6, <1>7, <2>3
    <3> QED BY <1>1, <2>3, <3>1
  <2>4. CASE r[1] = ToolCalls /\ r[2] = AnalysisRuns
    <3>1. i = 11 /\ 6 \in 1..(i - 1)
      BY <1>6, <1>7, <2>4
    <3> QED BY <1>1, <2>4, <3>1
  <2>5. CASE r[1] \in {ToolCalls, Messages, AnalysisRuns} /\ r[2] = Conversations
    <3>1. i = 17 /\ 6 \in 1..(i - 1) /\ 10 \in 1..(i - 1) /\ 11 \in 1..(i - 1)
      BY <1>6, <1>7, <2>5
    <3> QED BY <1>1, <2>5, <3>1
  <2> QED BY <1>5, <2>1, <2>2, <2>3, <2>4, <2>5
<1> QED BY <1>1, <1>3, <1>4, <1>7

\* So 0001's downgrade succeeds.
LEMMA Down1Succeeds ==
    ASSUME NEW w, At(1, w), w.error = "none"
    PROVE  Down1(w).error = "none"
<1>1. PICK f : /\ f[0] = w
               /\ \A i \in 1..17 : f[i] = Drop(f[i - 1], DropOrder[i])
               /\ Down1(w) = Refuse(f[17], f[17].tables # {}, "schema in use")
  BY Down1Is
<1> DEFINE Gone(i, x) == \E j \in 1..i : DropOrder[j] = x
           Good(i) == /\ IsWork(f[i]) /\ f[i].error = "none"
                      /\ \A x \in f[i].tables : x \in FirstTables /\ ~Gone(i, x)
                      /\ \A r \in f[i].references : r \in FirstReferences /\ ~Gone(i, r[1])
<1>2. Good(0)
  <2>1. IsWork(w) /\ w.tables = FirstTables /\ w.references = FirstReferences
    BY DEF At, TablesAt, ReferencesAt
  <2>2. \A x : ~Gone(0, x)
    OBVIOUS
  <2>3. f[0] = w
    BY <1>1
  <2> HIDE DEF Gone
  <2> QED BY <2>1, <2>2, <2>3
<1>3. ASSUME NEW i \in 1..17, Good(i - 1)
      PROVE  Good(i)
  <2> DEFINE x == DropOrder[i]
             u == f[i - 1]
  <2>1. f[i] = Drop(u, x)
    BY <1>1
  <2>2. \A y : Gone(i, y) <=> Gone(i - 1, y) \/ y = x
    <3>1. \A j : j \in 1..i <=> j \in 1..(i - 1) \/ j = i
      OBVIOUS
    <3> QED BY <3>1
  <2>3. \A r \in FirstReferences : x = r[2] => Gone(i - 1, r[1])
    BY OrderIs
  <2>4. /\ IsWork(u) /\ u.error = "none"
        /\ \A y \in u.tables : y \in FirstTables /\ ~Gone(i - 1, y)
        /\ \A r \in u.references : r \in FirstReferences /\ ~Gone(i - 1, r[1])
    BY <1>3
  <2> HIDE DEF x, u, Gone
  <2>5. Drop(u, x).error = u.error
    BY <2>3, <2>4, DropSucceeds
  <2>6. /\ IsWork(Drop(u, x)) /\ Drop(u, x).tables = u.tables \ {x}
        /\ Drop(u, x).references = {r \in u.references : r[1] # x}
    BY <2>4, DropDoes
  <2> QED BY <2>1, <2>2, <2>4, <2>5, <2>6
<1> HIDE DEF Good
<1>4. \A i \in 0..17 : Good(i)
  <2> DEFINE N == {i \in 0..17 : ~Good(i)}
  <2>1. N = {}
    <3> SUFFICES ASSUME N # {} PROVE FALSE
      OBVIOUS
    <3>1. N \in SUBSET Nat
      OBVIOUS
    <3>2. PICK m \in N : \A n \in N : m <= n
      <4> HIDE DEF N
      <4> QED BY <3>1, LeastNatural
    <3>3. m \in 1..17 /\ m - 1 \in 0..17
      BY <1>2
    <3>4. m - 1 \notin N
      <4> HIDE DEF N
      <4> QED BY <3>1, <3>2, <3>3
    <3>5. Good(m - 1)
      BY <3>3, <3>4
    <3>6. Good(m)
      BY <1>3, <3>3, <3>5
    <3> QED BY <3>6
  <2> QED BY <2>1
<1>5. f[17].error = "none" /\ f[17].tables = {}
  <2>1. Good(17)
    BY <1>4
  <2> QED BY <2>1, OrderIs DEF Good
<1> QED BY <1>1, <1>5, RefuseNothing

\* 0004's downgrade does too.
LEMMA Down4Succeeds ==
    ASSUME NEW w, At(4, w)
    PROVE  Down4(w).error = w.error
<1> DEFINE defaults == w.defaults \ BackupPeeks
           grants == w.grants \ (NarrowGrants \cup OnTables(BackupPeeks, w.tables))
           u == [w EXCEPT !.defaults = defaults, !.grants = grants]
           v == Drop(u, Releases)
<1>1. Down4(w) = Drop(v, BackupRuns)
  BY DEF Down4
<1>2. IsWork(w) /\ w.references = FirstReferences \cup Recording.references
  BY DEF At, ReferencesAt
<1> HIDE DEF defaults, grants
<1>3. IsWork(u) /\ u.references = w.references /\ u.error = w.error
  BY <1>2 DEF IsWork, Empty
<1> HIDE DEF u
<1>4. \A r \in w.references : r[2] # Releases /\ (r[2] = BackupRuns => r[1] = BackupRuns)
  <2>1. \A r \in FirstReferences : r[2] \in FirstTables
    <3>1. \A r \in FirstReferring.references : r[2] \in FirstTables
      BY FirstTablesAre DEF FirstReferring
    <3>2. \A r \in SecondReferring.references : r[2] \in FirstTables
      BY FirstTablesAre DEF SecondReferring
    <3>3. \A r \in Annotating.references : r[2] \in FirstTables
      BY FirstTablesAre DEF Annotating
    <3> QED BY <3>1, <3>2, <3>3 DEF FirstReferences
  <2>2. Recording.references = {<<BackupRuns, BackupRuns>>} /\ BackupRuns # Releases
    BY DEF Recording, BackupRuns, Releases
  <2> QED BY <1>2, <2>1, <2>2, FirstTablesAre
<1>5. IsWork(v) /\ v.error = u.error /\ v.references = {r \in u.references : r[1] # Releases}
  <2>1. \A r \in u.references : r[2] = Releases => r[1] = Releases
    BY <1>3, <1>4
  <2> QED BY <1>3, <2>1, DropDoes, DropSucceeds
<1> HIDE DEF v
<1>6. \A r \in v.references : r[2] = BackupRuns => r[1] = BackupRuns
  BY <1>3, <1>4, <1>5
<1> QED BY <1>1, <1>3, <1>5, <1>6, DropSucceeds

\* Only the downgrade of 0002 can fail.
LEMMA DownSucceeds ==
    ASSUME NEW n \in 1..7, NEW w, At(n, w), w.error = "none", NEW elsewhere \in BOOLEAN,
           n = 2 => w.inherit = Roles /\ ~elsewhere
    PROVE  Down(n, w, elsewhere).error = "none"
<1>1. IsWork(w)
  BY DEF At
<1>2. CASE n = 1
  BY <1>2, Down1Succeeds DEF Down
<1>3. CASE n = 2
  <2> DEFINE u == [w EXCEPT !.roles = {}, !.inherit = {}, !.defaults = {}, !.grants = {}]
  <2>1. Down(n, w, elsewhere)
          = Refuse(Refuse(u, w.inherit # Roles, "no inherit"), elsewhere, "roles in use")
    BY <1>3 DEF Down, Down2
  <2>2. u.error = "none"
    BY <1>1 DEF IsWork, Empty
  <2> HIDE DEF u
  <2>3. Refuse(u, w.inherit # Roles, "no inherit") = u
    BY <1>3, RefuseNothing
  <2> QED BY <1>3, <2>1, <2>2, <2>3 DEF Refuse
<1>4. CASE n = 3
  <2> DEFINE columns == w.columns \ {<<ToolCalls, "provider">>}
  <2>1. Down(n, w, elsewhere) = [w EXCEPT !.columns = columns]
    BY <1>4 DEF Down, Down3
  <2> HIDE DEF columns
  <2> QED BY <1>1, <2>1, ColumnsDo
<1>5. CASE n = 4
  BY <1>5, Down4Succeeds DEF Down
<1>6. CASE n = 5
  <2> DEFINE columns == w.columns \ {<<Releases, "replaces_release_id">>}
  <2>1. Down(n, w, elsewhere) = [w EXCEPT !.columns = columns]
    BY <1>6 DEF Down, Down5
  <2> HIDE DEF columns
  <2> QED BY <1>1, <2>1, ColumnsDo
<1>7. CASE n = 6
  <2> DEFINE columns == (w.columns \ {<<Releases, "artifact_ref">>})
                          \cup {<<Releases, "image_ref">>}
             u == [w EXCEPT !.columns = columns]
             missing == <<Releases, "artifact_ref">> \notin w.columns
  <2>1. Down(n, w, elsewhere) = Refuse(u, missing, "column")
    BY <1>7 DEF Down, Down6, Renamed
  <2>2. ~missing
    BY <1>7, ColumnsAre DEF At
  <2> HIDE DEF columns, missing
  <2>3. u.error = w.error
    BY <1>1, ColumnsDo
  <2> HIDE DEF u
  <2> QED BY <2>1, <2>2, <2>3 DEF Refuse
<1>8. CASE n = 7
  BY <1>8 DEF Down, Down7
<1>9. n = 1 \/ n = 2 \/ n = 3 \/ n = 4 \/ n = 5 \/ n = 6 \/ n = 7
  OBVIOUS
<1> QED BY <1>2, <1>3, <1>4, <1>5, <1>6, <1>7, <1>8, <1>9

\* Every database can go back to any revision it is past; to one before 0002
\* once it has been at the head and no other database uses the roles.
Reversible ==
    \A d \in Databases, to \in 0..HeadRevision :
        /\ to < rev[d]
        /\ 2 <= rev[d] /\ to < 2 => inherit = Roles /\ ~UsedElsewhere(d)
        => LET w == Downgraded(Work(d), rev[d], to, UsedElsewhere(d)) IN
           w.error = "none" /\ \A k \in Kept \ {"trail"} : w[k] = Fresh[to][k]

\* Every database can be upgraded, before 0003 unless the agent left a trail.
Upgradable ==
    \A d \in Databases, to \in 0..HeadRevision :
        /\ rev[d] < to
        /\ rev[d] < 3 => database[d].trail = FALSE
        => LET w == Upgraded(Work(d), rev[d], to) IN
           w.error = "none" /\ \A k \in Kept \ {"trail"} : w[k] = Fresh[to][k]

\* An upgrade fails only where a provider would be missing from a row.
LEMMA UpgradeSucceeds ==
    ASSUME NEW from \in 0..7, NEW to \in 0..7, from < to, NEW w, At(from, w),
           w.error = "none", from < 3 => w.trail = FALSE
    PROVE  Upgraded(w, from, to).error = "none"
<1> DEFINE after(n) == Upgraded(w, from, n)
           Good(n) == /\ At(n, after(n)) /\ after(n).error = "none"
                      /\ n < 3 => after(n).trail = FALSE
           N == {n \in from..7 : ~Good(n)}
<1>1. Good(from)
  <2>1. after(from) = w
    BY UpgradedIs
  <2> QED BY <2>1
<1>2. ASSUME NEW n \in 1..7, from < n, Good(n - 1)
      PROVE  Good(n)
  <2>1. after(n) = Up(n, after(n - 1))
    <3>1. from \in Nat /\ n \in Nat /\ from <= n
      BY <1>2
    <3> QED BY <1>2, <3>1, UpgradedIs
  <2>2. At(n, after(n))
    BY <1>2, UpgradeDoes
  <2>3. /\ At(n - 1, after(n - 1)) /\ after(n - 1).error = "none"
        /\ n <= 3 => after(n - 1).trail = FALSE
    BY <1>2
  <2> HIDE DEF after
  <2>4. Up(n, after(n - 1)).error = "none"
        /\ (n <= 3 => Up(n, after(n - 1)).trail = FALSE)
    BY <2>3, UpSucceeds
  <2>5. n < 3 => n <= 3
    OBVIOUS
  <2> QED BY <2>1, <2>2, <2>4, <2>5
<1> HIDE DEF Good
<1>3. N = {}
  <2> SUFFICES ASSUME N # {} PROVE FALSE
    OBVIOUS
  <2>1. N \in SUBSET Nat
    OBVIOUS
  <2>2. PICK n \in N : \A m \in N : n <= m
    <3> HIDE DEF N
    <3> QED BY <2>1, LeastNatural
  <2>3. n \in 1..7 /\ from < n /\ n - 1 \in from..7
    BY <1>1
  <2>4. n - 1 \notin N
    <3> HIDE DEF N
    <3> QED BY <2>1, <2>2, <2>3
  <2>5. Good(n - 1)
    BY <2>3, <2>4
  <2>6. Good(n)
    BY <1>2, <2>3, <2>5
  <2> QED BY <2>6
<1>4. Good(to)
  BY <1>3
<1> QED BY <1>4 DEF Good

\* A downgrade fails only for the roles.
LEMMA DowngradeSucceeds ==
    ASSUME NEW from \in 0..7, NEW to \in 0..7, to < from, NEW w, At(from, w),
           w.error = "none", NEW elsewhere \in BOOLEAN,
           2 <= from /\ to < 2 => w.inherit = Roles /\ ~elsewhere
    PROVE  Downgraded(w, from, to, elsewhere).error = "none"
<1> DEFINE after(n) == Downgraded(w, from, n, elsewhere)
           Good(n) == /\ At(n, after(n)) /\ after(n).error = "none"
                      /\ from < 2 \/ 2 <= n => after(n).inherit = w.inherit
           N == {k \in 0..(from - to) : ~Good(from - k)}
<1>1. Good(from)
  <2>1. after(from) = w
    BY DowngradedIs
  <2> QED BY <2>1
<1>2. ASSUME NEW n \in to..7, n < from, Good(n + 1)
      PROVE  Good(n)
  <2>1. n + 1 \in 1..7 /\ from \in Nat /\ n \in Nat /\ n <= from /\ n \in 0..7
    BY <1>2
  <2>2. after(n) = Down(n + 1, after(n + 1), elsewhere)
    BY <1>2, <2>1, DowngradedIs
  <2>3. At(n + 1, after(n + 1)) /\ after(n + 1).error = "none"
    BY <1>2
  <2>4. ASSUME n + 1 = 2
        PROVE  after(n + 1).inherit = Roles /\ ~elsewhere
    <3>1. 2 <= n + 1 /\ 2 <= from /\ to < 2
      BY <1>2, <2>1, <2>4
    <3> QED BY <1>2, <3>1
  <2>5. after(n).error = "none"
    <3> HIDE DEF after, Good
    <3> QED BY <2>1, <2>2, <2>3, <2>4, DownSucceeds
  <2>6. At(n, after(n)) /\ (from < 2 \/ 2 <= n => after(n).inherit = w.inherit)
    BY <1>2, <2>1, <2>5, DowngradeDoes
  <2> QED BY <2>5, <2>6
<1> HIDE DEF Good
<1>3. N = {}
  <2> SUFFICES ASSUME N # {} PROVE FALSE
    OBVIOUS
  <2>1. N \in SUBSET Nat
    OBVIOUS
  <2>2. PICK k \in N : \A j \in N : k <= j
    <3> HIDE DEF N
    <3> QED BY <2>1, LeastNatural
  <2>3. k \in 0..(from - to) /\ k # 0
    BY <1>1
  <2>4. k - 1 \in 0..(from - to) /\ k - 1 \notin N
    <3> HIDE DEF N
    <3> QED BY <2>1, <2>2, <2>3
  <2>5. from - k \in to..7 /\ from - k < from /\ from - (k - 1) = (from - k) + 1
    BY <2>3
  <2>6. Good((from - k) + 1)
    BY <2>4, <2>5
  <2>7. Good(from - k)
    <3> HIDE DEF N
    <3> QED BY <1>2, <2>5, <2>6
  <2> QED BY <2>7
<1>4. Good(to)
  <2>1. from - to \in 0..(from - to) /\ from - (from - to) = to
    OBVIOUS
  <2> QED BY <1>3, <2>1
<1> QED BY <1>4 DEF Good

\* What has the tables and privileges of a revision is what a fresh upgrade
\* to it is.
LEMMA AtIsFresh ==
    ASSUME NEW n \in 0..7, NEW w, At(n, w)
    PROVE  \A k \in Kept \ {"trail"} : w[k] = Fresh[n][k]
<1>1. At(n, Fresh[n])
  BY FreshIs
<1> QED BY <1>1 DEF At, Kept

\* What can be done from a database in the invariant.
LEMMA CatalogsReverse == SessionsInv /\ CatalogsInv => Reversible /\ Upgradable
<1> SUFFICES ASSUME SessionsInv, CatalogsInv PROVE Reversible /\ Upgradable
  OBVIOUS
<1>1. ASSUME NEW d \in Databases
      PROVE  /\ rev[d] \in 0..7 /\ At(rev[d], Work(d)) /\ Work(d).error = "none"
             /\ Work(d).inherit = inherit /\ Work(d).trail = database[d].trail
  <2>1. Work(d).trail = database[d].trail
    BY DEF Work
  <2>2. rev[d] \in 0..7
    BY DEF SessionsInv, ProcessTypes, HeadRevision
  <2> QED BY <2>1, <2>2, WorkIs DEF CatalogsInv, Has, At
<1>2. Reversible
  <2> SUFFICES ASSUME NEW d \in Databases, NEW to \in 0..7, to < rev[d],
                      2 <= rev[d] /\ to < 2 => inherit = Roles /\ ~UsedElsewhere(d)
               PROVE  LET w == Downgraded(Work(d), rev[d], to, UsedElsewhere(d)) IN
                      w.error = "none" /\ \A k \in Kept \ {"trail"} : w[k] = Fresh[to][k]
    BY DEF Reversible, HeadRevision
  <2> DEFINE elsewhere == UsedElsewhere(d)
             u == Work(d)
  <2>1. elsewhere \in BOOLEAN
    BY DEF UsedElsewhere
  <2>2. /\ rev[d] \in 0..7 /\ At(rev[d], u) /\ u.error = "none" /\ u.inherit = inherit
    BY <1>1
  <2>3. 2 <= rev[d] /\ to < 2 => u.inherit = Roles /\ ~elsewhere
    BY <2>2
  <2> HIDE DEF elsewhere, u
  <2>4. Downgraded(u, rev[d], to, elsewhere).error = "none"
    BY <2>1, <2>2, <2>3, DowngradeSucceeds
  <2>5. At(to, Downgraded(u, rev[d], to, elsewhere))
    BY <2>1, <2>2, <2>4, DowngradeDoes
  <2> QED BY <2>4, <2>5, AtIsFresh DEF elsewhere, u
<1>3. Upgradable
  <2> SUFFICES ASSUME NEW d \in Databases, NEW to \in 0..7, rev[d] < to,
                      rev[d] < 3 => database[d].trail = FALSE
               PROVE  LET w == Upgraded(Work(d), rev[d], to) IN
                      w.error = "none" /\ \A k \in Kept \ {"trail"} : w[k] = Fresh[to][k]
    BY DEF Upgradable, HeadRevision
  <2>1. Upgraded(Work(d), rev[d], to).error = "none"
    BY <1>1, UpgradeSucceeds
  <2>2. At(to, Upgraded(Work(d), rev[d], to))
    BY <1>1, UpgradeDoes
  <2> QED BY <2>1, <2>2, AtIsFresh
<1> QED BY <1>2, <1>3
-----------------------------------------------------------------------------
\* A database at a revision has the tables, columns and privileges of a fresh
\* upgrade to it, whatever upgrades and downgrades it has been through, and
\* the roles are there while one needs them: every migration's downgrade
\* undoes its upgrade, and 0007's leaves INHERIT on purpose
\* (migrations/versions; tests/integration/test_migration_reversibility.py).
THEOREM CatalogsAlwaysFollow == Spec => []CatalogFollowsRevision
<1>1. SessionsInv /\ CatalogsInv /\ [Next]_vars => SessionsInv' /\ CatalogsInv'
  BY SessionsStep, CatalogsStep
<1> QED BY <1>1, SessionsInitially, CatalogsInitially, CatalogsFollow, PTL DEF Spec

\* At the head the ORM finds the tables, foreign keys and columns it declares
\* (db/models), and each service may do what its statements do, on the tables
\* of 0004 too, which came after the grants (migrations/versions/0002, 0004).
THEOREM HeadAlwaysUsable == Spec => []HeadIsUsable
<1>1. SessionsInv /\ CatalogsInv /\ [Next]_vars => SessionsInv' /\ CatalogsInv'
  BY SessionsStep, CatalogsStep
<1>2. SessionsInv /\ CatalogsInv => HeadIsUsable
  <2> SUFFICES ASSUME CatalogsInv, NEW d \in Databases, rev[d] = 7
               PROVE  /\ database[d].tables = Models.tables
                      /\ database[d].references = Models.references
                      /\ database[d].columns = ModelColumns
                      /\ AppNeeds \cup AgentNeeds \cup ObserverNeeds \cup BackupNeeds
                           \subseteq database[d].grants
    BY DEF HeadIsUsable, HeadRevision
  <2>1. Has(7, database[d])
    BY DEF CatalogsInv
  <2> QED BY <2>1, HeadIsModelled, HeadServes DEF Has
<1> QED BY <1>1, <1>2, SessionsInitially, CatalogsInitially, PTL DEF Spec

\* At no revision may the agent write Plaid's facts or see operations, may the
\* observer see accounts or transactions, or may it or the backup write
\* (docs/security-model.md, invariants 1 and 5; migrations/versions/0002).
THEOREM PrivilegeStaysLeast == Spec => []LeastPrivilege
<1>1. SessionsInv /\ CatalogsInv /\ [Next]_vars => SessionsInv' /\ CatalogsInv'
  BY SessionsStep, CatalogsStep
<1>2. SessionsInv /\ CatalogsInv => LeastPrivilege
  <2> SUFFICES ASSUME SessionsInv, CatalogsInv, NEW d \in Databases,
                      NEW g \in database[d].grants
               PROVE  /\ g[1] = "finance_agent" => /\ g[3][1] # "ops"
                                                   /\ g[2] = "write" => g[3][1] # "plaid"
                      /\ g[1] = "finance_observer" => g[3] \notin {Accounts, Transactions}
                      /\ g[1] \in {"finance_observer", "finance_backup"} => g[2] # "write"
    BY DEF LeastPrivilege
  <2>1. rev[d] \in 0..7 /\ g \in GrantsAt(rev[d])
    BY DEF SessionsInv, ProcessTypes, HeadRevision, CatalogsInv, Has
  <2> QED BY <2>1, GrantsAreLeast
<1> QED BY <1>1, <1>2, SessionsInitially, CatalogsInitially, PTL DEF Spec

\* No migration has broken the way back or forward: from any database in use
\* every revision can be reached and is what a fresh upgrade to it makes, but
\* for the three refusals that are meant (0002's downgrade without INHERIT or
\* while another database has the roles, 0003's upgrade over a trail;
\* tests/integration/test_migration_reversibility.py).
THEOREM AlwaysReversible == Spec => [](Reversible /\ Upgradable)
<1>1. SessionsInv /\ CatalogsInv /\ [Next]_vars => SessionsInv' /\ CatalogsInv'
  BY SessionsStep, CatalogsStep
<1> QED BY <1>1, SessionsInitially, CatalogsInitially, CatalogsReverse, PTL DEF Spec
=============================================================================
