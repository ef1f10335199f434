------------------------------ MODULE Sessions ------------------------------
(***************************************************************************)
(* Which database a process reaches, and what it finds there: the settings *)
(* (config/env.py, config/settings.py), the engine and the sessionmaker    *)
(* each of db/session.py, agent/db.py and ops/db.py keeps in module        *)
(* globals, and Alembic's commands (migrations/env.py, Migrations).        *)
(*                                                                         *)
(* There is one process and the environment it lives in, which changes     *)
(* under its feet: get_settings() is read anew at every session, the       *)
(* engines built from it are kept.  A DSN names a database, and reaches    *)
(* one; the two differ when something outside its path (`dbname=`,         *)
(* `service=`, PGDATABASE) has the last word.                              *)
(***************************************************************************)
EXTENDS Migrations

CONSTANTS
    Databases,   \* of the PostgreSQL instance
    Production,  \* finance_prod
    Engines,     \* the engine caches in use, by the settings field they read
    EnvFiles,    \* what may be found at FINANCE_ENV_FILE, and ".env"
    Ambients,    \* DSNs the process environment may hold, by settings field
    Targets      \* the revisions Alembic is sent to

None == "none"

ASSUME DatabasesAssumption == Production \in Databases /\ None \notin Databases

Fields == {"database_url", "alembic_database_url", "agent_database_url",
           "observer_database_url", "backup_database_url"}

\* clear: nothing outside the path can redirect it.
Dsn == {dsn \in [names : Databases, reaches : Databases, clear : BOOLEAN] :
          dsn.clear => dsn.reaches = dsn.names}

NoDsn == [names |-> None, reaches |-> None, clear |-> FALSE]

To(d) == [names |-> d, reaches |-> d, clear |-> TRUE]

EnvFile == [readable : BOOLEAN, production : BOOLEAN, database : Databases]

ASSUME EnginesAssumption ==
    Engines \subseteq {"database_url", "agent_database_url", "observer_database_url"}
ASSUME EnvFilesAssumption ==
    ".env" \in DOMAIN EnvFiles /\ \A f \in DOMAIN EnvFiles : EnvFiles[f] \in EnvFile
ASSUME AmbientsAssumption ==
    \A a \in Ambients : DOMAIN a \subseteq Fields /\ \A f \in DOMAIN a : a[f] \in Dsn
ASSUME TargetsAssumption == Targets \subseteq 0..HeadRevision

VARIABLES
    file,      \* FINANCE_ENV_FILE, or ".env" when it is not set
    ambient,   \* the DSNs among the process's environment variables
    engine,    \* the DSN each cached engine was built from
    maker,     \* the DSN of the engine each cached sessionmaker is bound to
    last,      \* the database of each engine's last session since the
               \* environment changed (only for the properties)
    rev,       \* alembic_version, of each database
    database,  \* the rest of Migrations' works, by database
    roles, inherit

vars == <<file, ambient, engine, maker, last, rev, database, roles, inherit>>

process == <<file, ambient, engine, maker, last>>
instance == <<rev, database, roles, inherit>>

Kept == {"tables", "references", "columns", "grants", "defaults", "trail"}

Init ==
    /\ file = ".env" /\ ambient = <<>>
    /\ engine = [e \in Engines |-> NoDsn]
    /\ maker = [e \in Engines |-> NoDsn]
    /\ last = [e \in Engines |-> None]
    /\ rev = [d \in Databases |-> 0]
    /\ database = [d \in Databases |-> [k \in Kept |-> Empty[k]]]
    /\ roles = {} /\ inherit = {}
-----------------------------------------------------------------------------
(* Settings.                                                               *)

\* Only a file that is named, and says so itself.
OptIn == file # ".env" /\ EnvFiles[file].production

\* The process environment overrides the file.
Resolved(f) == IF f \in DOMAIN ambient THEN ambient[f] ELSE To(EnvFiles[file].database)

\* Faulty: the name is believed.
NamesProduction(dsn) == dsn.names = Production

Refuses(dsn) == ~dsn.clear \/ dsn.names = Production

\* get_settings() raises otherwise: whatever field names production, and
\* whichever is asked for.
SettingsAllow ==
    /\ EnvFiles[file].readable
    /\ OptIn \/ \A f \in Fields : ~Refuses(Resolved(f))

\* The environment of the process is changed.
ChangeEnv ==
    /\ last' = [e \in Engines |-> None]
    /\ UNCHANGED <<engine, maker, instance>>

SetFile(f) ==
    /\ file' = f
    /\ UNCHANGED ambient
    /\ ChangeEnv

SetAmbient(a) ==
    /\ ambient' = a
    /\ UNCHANGED file
    /\ ChangeEnv
-----------------------------------------------------------------------------
(* Engines and sessions.                                                   *)

\* Faulty: a new engine does not reset the sessionmaker.
KeptMaker(e) == maker[e]

\* get_engine: the cached sessionmaker survives only as long as its engine.
MakerAfterEngine(e) == IF engine[e] = Resolved(e) THEN maker[e] ELSE NoDsn

\* The privileges each service's statements take.
On(role, privileges, tables) ==
    ({role} \X privileges \X tables)
      \cup {<<role, "usage", Whole(x[1])>> : x \in tables}

AppNeeds ==
    On("finance_app", {"select", "write", "draw"},
       {Items, Accounts, Transactions, SyncState, SyncRuns, Errors, BackupRuns, Releases})
      \cup {<<"finance_app", "select", AlembicVersion>>}

AgentNeeds ==
    On("finance_agent", {"select", "write"},
       {Conversations, Messages, ToolCalls, Budgets, Overrides, Notes, Tags, Preferences})
      \cup On("finance_agent", {"draw"},
              {Conversations, Messages, ToolCalls, Budgets, Overrides, Notes, Tags})
      \cup On("finance_agent", {"select"}, {Transactions})

ObserverNeeds ==
    On("finance_observer", {"select"}, {SyncRuns, SyncState, Items, BackupRuns, Errors, Releases})
      \cup {<<"finance_observer", "select", AlembicVersion>>}

\* pg_dump reads every table and the sequences behind them.
BackupNeeds ==
    On("finance_backup", {"select"}, Models.tables)
      \cup On("finance_backup", {"peek"}, Models.tables \ {Preferences})
      \cup {<<"finance_backup", "select", AlembicVersion>>}

\* A session is opened in a database, which the agent's may leave with rows
\* in agent.tool_calls.
Open(e, d, audits) ==
    /\ e \in Engines
    /\ SettingsAllow
    /\ LET bound == IF MakerAfterEngine(e) = NoDsn THEN Resolved(e)
                                                  ELSE MakerAfterEngine(e)
       IN  /\ d = bound.reaches
           /\ engine' = [engine EXCEPT ![e] = Resolved(e)]
           /\ maker' = [maker EXCEPT ![e] = bound]
           /\ last' = [last EXCEPT ![e] = d]
           /\ database' = [database EXCEPT ![d].trail = @ \/ audits]
    /\ UNCHANGED <<file, ambient, rev, roles, inherit>>

\* session_scope.
AppSession(d) == Open("database_url", d, FALSE)

\* agent_session_scope; the agent can record its tool calls as they are now.
AgentSession(d) ==
    Open("agent_database_url", d,
         /\ AgentNeeds \subseteq database[d].grants
         /\ <<ToolCalls, "provider">> \in database[d].columns)

\* observer_session_scope.
ObserverSession(d) == Open("observer_database_url", d, FALSE)

\* dispose_engine and its two likes.
Dispose(e) ==
    /\ engine' = [engine EXCEPT ![e] = NoDsn]
    /\ maker' = [maker EXCEPT ![e] = NoDsn]
    /\ UNCHANGED <<file, ambient, last, instance>>
-----------------------------------------------------------------------------
(* Alembic.  A command that fails, or is killed, changes nothing.          *)

Work(d) ==
    LET kept == database[d]
    IN  [tables |-> kept.tables, references |-> kept.references, columns |-> kept.columns,
         grants |-> kept.grants, defaults |-> kept.defaults, trail |-> kept.trail,
         roles |-> roles, inherit |-> inherit, error |-> "none"]

\* The roles of a database's grants cannot be dropped for another's sake.
UsedElsewhere(d) == \E c \in Databases \ {d} : database[c].grants # {}

Alembic(to) ==
    LET d == Resolved("alembic_database_url").reaches
        w == IF rev[d] < to THEN Upgraded(Work(d), rev[d], to)
                            ELSE Downgraded(Work(d), rev[d], to, UsedElsewhere(d))
    IN  /\ SettingsAllow
        /\ rev[d] # to
        /\ w.error = "none"
        /\ rev' = [rev EXCEPT ![d] = to]
        /\ database' = [database EXCEPT ![d] = [k \in Kept |-> w[k]]]
        /\ roles' = w.roles
        /\ inherit' = w.inherit
        /\ UNCHANGED process

Next == \/ \E f \in DOMAIN EnvFiles : SetFile(f)
        \/ \E a \in Ambients : SetAmbient(a)
        \/ \E d \in Databases : AppSession(d) \/ AgentSession(d) \/ ObserverSession(d)
        \/ \E e \in Engines : Dispose(e)
        \/ \E to \in Targets : Alembic(to)

Spec == Init /\ [][Next]_vars
-----------------------------------------------------------------------------
TypeOK ==
    /\ file \in DOMAIN EnvFiles /\ ambient \in Ambients \cup {<<>>}
    /\ engine \in [Engines -> Dsn \cup {NoDsn}]
    /\ maker \in [Engines -> Dsn \cup {NoDsn}]
    /\ last \in [Engines -> Databases \cup {None}]
    /\ rev \in [Databases -> 0..HeadRevision]
    /\ roles \subseteq Roles /\ inherit \subseteq roles

\* A database at a revision is what a fresh upgrade to it makes, by whatever
\* upgrades and downgrades it got there; the roles are there while a
\* database needs them, and can be dropped again (INHERIT) while one is at
\* the head (tests/integration/test_migration_reversibility.py).
Fresh == [n \in 0..HeadRevision |-> Upgraded(Empty, 0, n)]

CatalogFollowsRevision ==
    \A d \in Databases :
        /\ \A k \in Kept \ {"trail"} : database[d][k] = Fresh[rev[d]][k]
        /\ rev[d] >= 2 => roles = Roles
        /\ rev[d] = HeadRevision => inherit = Roles

\* At the head the code of this commit finds the tables it declares, and
\* every service may do what its statements do, on tables that came after
\* the grants too.
HeadIsUsable ==
    \A d \in Databases : rev[d] = HeadRevision =>
        /\ database[d].tables = Models.tables
        /\ database[d].references = Models.references
        /\ database[d].columns = ModelColumns
        /\ AppNeeds \cup AgentNeeds \cup ObserverNeeds \cup BackupNeeds
             \subseteq database[d].grants

\* At no revision may the agent change Plaid's facts or look at operations,
\* may the observer see accounts and transactions, or may it or the backup
\* write at all (docs/security-model.md, invariants 1 and 5).
LeastPrivilege ==
    \A d \in Databases : \A g \in database[d].grants :
        /\ g[1] = "finance_agent" => /\ g[3][1] # "ops"
                                     /\ g[2] = "write" => g[3][1] # "plaid"
        /\ g[1] = "finance_observer" => g[3] \notin {Accounts, Transactions}
        /\ g[1] \in {"finance_observer", "finance_backup"} => g[2] # "write"

\* A session is in the database the settings name now, whatever engine an
\* earlier session left behind (get_settings' docstring).
SessionFollowsSettings ==
    \A e \in Engines : last[e] # None => last[e] = Resolved(e).reaches

\* Production is reached, by a session or by a migration, only while an
\* environment file that declares it is named (ADR-019).
ProductionNeedsOptIn ==
    [][\/ rev'[Production] # rev[Production]
       \/ \E e \in Engines : last'[e] = Production
       => OptIn']_vars
=============================================================================
