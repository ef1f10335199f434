---------------------------- MODULE DeployProofs ----------------------------
(***************************************************************************)
(* Proofs about Deploy, for any operators, releases, table size and faults.*)
(***************************************************************************)
EXTENDS Deploy, TLAPS

-----------------------------------------------------------------------------
(* What a query for one row returns.                                       *)

\* First of a set with at most one element is that element.
LEMMA FirstOfOne ==
    ASSUME NEW rows \in SUBSET Row, \A r, s \in rows : r = s
    PROVE  /\ First(rows) = NoRow <=> rows = {}
           /\ rows # {} => First(rows) \in rows
  <1>1. CASE rows = {}
    BY <1>1 DEF First
  <1>2. CASE rows # {}
    <2>1. PICK r \in rows : TRUE
      BY <1>2
    <2>2. r \in Row /\ \A s \in rows : s <= r
      BY <2>1, MaxDeploysAssumption DEF Row
    <2>3. \E x \in rows : \A s \in rows : s <= x
      BY <2>2
    <2>4. First(rows) \in rows
      BY <1>2, <2>3, Zenon DEF First
    <2>5. NoRow \notin Row
      BY MaxDeploysAssumption DEF Row, NoRow
    <2> QED
      BY <1>2, <2>4, <2>5
  <1> QED
    BY <1>1, <1>2

\* A status column in which "current" and "previous" occur at most once.
Unique(st) ==
    \A r, s \in Row : st[r] = st[s] /\ st[r] \in {"current", "previous"} => r = s

\* Then Current and TrackedPrevious are those rows.
LEMMA CurrentIsTheRow ==
    ASSUME NEW st \in [Row -> Status], Unique(st)
    PROVE  /\ Current(st) \in Row \cup {NoRow}
           /\ \A r \in Row : st[r] = "current" <=> r = Current(st)
           /\ TrackedPrevious(st) \in Row \cup {NoRow}
           /\ \A r \in Row : st[r] = "previous" <=> r = TrackedPrevious(st)
  <1>0. NoRow \notin Row
    BY MaxDeploysAssumption DEF Row, NoRow
  <1>1. /\ RowsIn(st, {"current"}) \in SUBSET Row
        /\ \A r, s \in RowsIn(st, {"current"}) : r = s
    BY DEF RowsIn, Unique
  <1>2. /\ RowsIn(st, {"previous"}) \in SUBSET Row
        /\ \A r, s \in RowsIn(st, {"previous"}) : r = s
    BY DEF RowsIn, Unique
  <1>3. /\ Current(st) = NoRow <=> RowsIn(st, {"current"}) = {}
        /\ RowsIn(st, {"current"}) # {} => Current(st) \in RowsIn(st, {"current"})
    BY <1>1, FirstOfOne DEF Current
  <1>4. /\ TrackedPrevious(st) = NoRow <=> RowsIn(st, {"previous"}) = {}
        /\ RowsIn(st, {"previous"}) # {}
              => TrackedPrevious(st) \in RowsIn(st, {"previous"})
    BY <1>2, FirstOfOne DEF TrackedPrevious
  <1>5. /\ Current(st) \in Row \cup {NoRow}
        /\ \A r \in Row : st[r] = "current" <=> r = Current(st)
    BY <1>0, <1>1, <1>3 DEF RowsIn
  <1>6. /\ TrackedPrevious(st) \in Row \cup {NoRow}
        /\ \A r \in Row : st[r] = "previous" <=> r = TrackedPrevious(st)
    BY <1>0, <1>2, <1>4 DEF RowsIn
  <1> QED
    BY <1>5, <1>6

\* The same facts about the table of a state that satisfies Inv.
LEMMA TableFacts ==
    ASSUME Inv
    PROVE  /\ Current(status) \in Row \cup {NoRow}
           /\ \A r \in Row : status[r] = "current" <=> r = Current(status)
           /\ TrackedPrevious(status) \in Row \cup {NoRow}
           /\ \A r \in Row : status[r] = "previous" <=> r = TrackedPrevious(status)
           /\ NoRow \notin Row
  <1>1. status \in [Row -> Status] /\ Unique(status)
    BY DEF Inv, TypeOK, OneOfEach, Unique
  <1>2. NoRow \notin Row
    BY MaxDeploysAssumption DEF Row, NoRow
  <1> QED
    BY <1>1, <1>2, CurrentIsTheRow

-----------------------------------------------------------------------------
(* Steps that put no row in service and take none out of it.               *)

Untried == {"absent", "pending", "failed"}

Quiet(st, new) ==
    \A r \in Row : \/ new[r] = st[r]
                   \/ st[r] \in Untried /\ new[r] \in {"pending", "failed"}

\* Such a change of the table touches no row that was ever in service, hence
\* none of the queries for the current and the previous row.
LEMMA QuietTable ==
    ASSUME NEW st \in [Row -> Status], NEW new \in [Row -> Status], Quiet(st, new)
    PROVE  /\ Current(new) = Current(st)
           /\ TrackedPrevious(new) = TrackedPrevious(st)
           /\ \A r \in Row : new[r] = "current" <=> st[r] = "current"
           /\ \A r \in Row : new[r] = "previous" <=> st[r] = "previous"
           /\ RowsIn(new, {"previous"}) = RowsIn(st, {"previous"})
           /\ RowsIn(new, {"current", "previous", "history", "rolled_back"})
                = RowsIn(st, {"current", "previous", "history", "rolled_back"})
  <1>1. \A r \in Row : new[r] = "current" <=> st[r] = "current"
    BY DEF Quiet, Untried
  <1>2. \A r \in Row : new[r] = "previous" <=> st[r] = "previous"
    BY DEF Quiet, Untried
  <1>3. RowsIn(new, {"current"}) = RowsIn(st, {"current"})
    BY <1>1 DEF RowsIn
  <1>4. RowsIn(new, {"previous"}) = RowsIn(st, {"previous"})
    BY <1>2 DEF RowsIn
  <1>5. RowsIn(new, {"current", "previous", "history", "rolled_back"})
          = RowsIn(st, {"current", "previous", "history", "rolled_back"})
    BY DEF RowsIn, Quiet, Untried
  <1> QED
    BY <1>1, <1>2, <1>3, <1>4, <1>5 DEF Current, TrackedPrevious

\* Such a change that inserts no row either.
Calm(st, new) ==
    \A r \in Row : \/ new[r] = st[r]
                   \/ st[r] \in {"pending", "failed"} /\ new[r] \in {"pending", "failed"}

\* A command that holds no row and no target.
Detached(c) ==
    c.pc = "idle" \/ (c.phase = "rollback" /\ c.pc \in {"resolve", "same", "back"})

\* Command c goes on as d: it keeps its rows and does not take the lock.
GoesOn(c, d) ==
    /\ d.pc \in {"migrate", "reject", "fail"} => d.phase = "deploy"
    /\ d.pc \notin {"same", "back", "expect"}
    /\ d.phase = c.phase /\ d.row = c.row /\ d.dest = c.dest
    /\ d.cur = c.cur /\ d.tgt = c.tgt
    /\ ~Detached(c) /\ c.pc \notin {"start", "expect"}
    /\ d.pc \notin {"commit", "start"}

\* If a step changes one command quietly and the table calmly, Inv survives.
LEMMA QuietStep ==
    ASSUME Inv, NEW p \in Operators, NEW d \in Command,
           op' = [op EXCEPT ![p] = d],
           Detached(d) \/ GoesOn(op[p], d),
           status' \in [Row -> Status], Calm(status, status'),
           link' \in Shas \cup {NoSha},
           schema' \in Nat,
           UNCHANGED <<sha, replaces>>
    PROVE  Inv'
  <1> USE DEF Inv
  <1>0. Quiet(status, status')
    BY DEF Calm, Quiet, Untried
  <1>1. /\ Current(status') = Current(status)
        /\ TrackedPrevious(status') = TrackedPrevious(status)
        /\ \A r \in Row : status'[r] = "current" <=> status[r] = "current"
        /\ \A r \in Row : status'[r] = "previous" <=> status[r] = "previous"
        /\ RowsInService' = RowsInService
    BY <1>0, QuietTable DEF TypeOK, RowsInService
  <1>2. /\ op \in [Operators -> Command] /\ op'[p] = d
        /\ \A q \in Operators : q # p => op'[q] = op[q]
    BY DEF TypeOK
  <1>3. TypeOK'
    BY <1>2 DEF TypeOK
  <1>4. OneOfEach'
    BY <1>1 DEF OneOfEach
  <1>5. StaysInService'
    BY <1>1 DEF StaysInService
  <1>6. \A q \in Operators : InDeploy(q)' =>
           /\ InDeploy(q) /\ op'[q].row = op[q].row /\ op'[q].dest = op[q].dest
           /\ op'[q].pc = "start" <=> op[q].pc = "start"
    BY <1>2 DEF InDeploy, Detached, GoesOn
  <1>7. OwnRows'
    <2>1. \A r \in Row : /\ status[r] \in {"pending", "failed"}
                               => status'[r] \in {"pending", "failed"}
                         /\ status[r] = "absent" => status'[r] = "absent"
      BY DEF Calm
    <2> SUFFICES ASSUME NEW q \in Operators, InDeploy(q)'
                 PROVE  /\ op'[q].row \in Row
                        /\ op'[q].dest \in Shas
                        /\ IF op'[q].pc = "start"
                           THEN status'[op'[q].row] = "absent"
                           ELSE /\ status'[op'[q].row] \in {"pending", "failed"}
                                /\ sha'[op'[q].row] = op'[q].dest
                        /\ \A u \in Operators :
                             InDeploy(u)' /\ op'[u].row = op'[q].row => u = q
      BY DEF OwnRows
    <2>2. /\ op[q].row \in Row /\ op[q].dest \in Shas
          /\ IF op[q].pc = "start"
             THEN status[op[q].row] = "absent"
             ELSE /\ status[op[q].row] \in {"pending", "failed"}
                  /\ sha[op[q].row] = op[q].dest
          /\ \A u \in Operators : InDeploy(u) /\ op[u].row = op[q].row => u = q
      BY <1>6 DEF OwnRows
    <2>3. \A u \in Operators : InDeploy(u)' /\ op'[u].row = op'[q].row => u = q
      BY <1>6, <2>2
    <2> QED
      BY <1>6, <2>1, <2>2, <2>3
  <1>8. Targets'
    <2>1. \A q \in Operators :
             /\ HasTarget(q)' => HasTarget(q) /\ op'[q].tgt = op[q].tgt
             /\ Resolved(q)' => Resolved(q) /\ op'[q].cur = op[q].cur
      BY <1>2 DEF HasTarget, Resolved, Detached, GoesOn
    <2> QED
      BY <1>1, <2>1 DEF Targets
  <1>9. LockHolder'
    <2>1. \A q \in Operators : op'[q].pc = "commit" => q # p
      BY <1>2 DEF Detached, GoesOn
    <2> QED
      BY <1>1, <1>2, <2>1 DEF LockHolder
  <1>10. Phases'
    BY <1>2 DEF Phases, Detached, GoesOn
  <1> QED
    BY <1>3, <1>4, <1>5, <1>7, <1>8, <1>9, <1>10

\* A command ends.
LEMMA EndStep ==
    ASSUME Inv, NEW p \in Operators, NEW how \in Exit, End(p, how),
           status' \in [Row -> Status], Calm(status, status'),
           link' \in Shas \cup {NoSha},
           schema' \in Nat,
           UNCHANGED <<sha, replaces>>
    PROVE  Inv'
  <1>1. Ended(how) \in Command /\ Detached(Ended(how))
    BY DEF Ended, Command, Detached, Pc
  <1> QED
    BY <1>1, QuietStep DEF End

\* A command goes on to another pc.
LEMMA GotoStep ==
    ASSUME Inv, NEW p \in Operators, NEW where \in Pc \ {"commit"},
           Goto(p, where), ~Detached(op[p]),
           where \notin {"start", "same", "back", "expect"},
           op[p].pc \notin {"start", "expect"},
           where \in {"migrate", "reject", "fail"} => IsDeploy(p),
           status' \in [Row -> Status], Calm(status, status'),
           link' \in Shas \cup {NoSha},
           schema' \in Nat,
           UNCHANGED <<sha, replaces>>
    PROVE  Inv'
  <1> DEFINE d == [op[p] EXCEPT !.pc = where]
  <1>1. op \in [Operators -> Command]
    BY DEF Inv, TypeOK
  <1>2. d \in Command /\ GoesOn(op[p], d)
    BY <1>1 DEF Command, GoesOn, IsDeploy
  <1>3. op' = [op EXCEPT ![p] = d]
    BY <1>1 DEF Goto
  <1> QED
    BY <1>2, <1>3, QuietStep

\* A table left alone, and one whose own row a deploy marks failed.
LEMMA QuietTables ==
    ASSUME Inv, NEW p \in Operators
    PROVE  /\ status \in [Row -> Status] /\ Calm(status, status)
           /\ InDeploy(p) /\ op[p].pc # "start" =>
                /\ MarkFailed(status, op[p].row) \in [Row -> Status]
                /\ Calm(status, MarkFailed(status, op[p].row))
           /\ link \in Shas \cup {NoSha} /\ schema \in Nat
           /\ op[p] \in Command
  BY DEF Inv, TypeOK, OwnRows, MarkFailed, Calm, Status

\* The steps QuietStep covers.
LEMMA QuietActions ==
    ASSUME Inv, NEW p \in Operators,
           \/ StartRollback(p) \/ Migrate(p) \/ Probe(p) \/ Repoint(p)
           \/ Verify(p) \/ Revert(p) \/ RecordFailure(p)
           \/ SelectLatest(p) \/ DatabaseError(p) \/ Kill(p)
    PROVE  Inv'
  <1> USE QuietTables DEF Pc, Exit
  <1>1. CASE StartRollback(p)
    <2> DEFINE d == [Ended("running") EXCEPT !.pc = "resolve", !.phase = "rollback"]
    <2>1. d \in Command /\ Detached(d)
      BY DEF Ended, Command, Detached
    <2>2. op' = [op EXCEPT ![p] = d]
      BY <1>1 DEF StartRollback
    <2> QED
      BY <1>1, <2>1, <2>2, QuietStep DEF StartRollback
  <1>2. CASE Migrate(p)
    <2>0. InDeploy(p) /\ schema' \in Nat
      <3>1. InDeploy(p)
        BY <1>2 DEF Migrate, InDeploy, Inv, Phases
      <3>2. HeadOf[op[p].dest] \in Nat
        BY <3>1, HeadAssumption DEF Inv, OwnRows
      <3> QED
        BY <1>2, <3>1, <3>2 DEF Migrate
    <2>1. CASE Goto(p, "probe") /\ UNCHANGED status
      BY <1>2, <2>0, <2>1, GotoStep DEF Migrate, Detached
    <2>2. CASE status' = MarkFailed(status, op[p].row) /\ End(p, "exit1")
      BY <1>2, <2>0, <2>2, EndStep DEF Migrate
    <2> QED
      BY <1>2, <2>1, <2>2 DEF Migrate
  <1>3. CASE Probe(p)
    <2>1. CASE op' = [op EXCEPT ![p].pc = "repoint", ![p].prev = link]
      <3> DEFINE d == [op[p] EXCEPT !.pc = "repoint", !.prev = link]
      <3>1. d \in Command /\ GoesOn(op[p], d)
        BY <1>3 DEF Command, GoesOn, Detached, Probe
      <3>2. op' = [op EXCEPT ![p] = d]
        BY <2>1 DEF Inv, TypeOK
      <3> QED
        BY <1>3, <3>1, <3>2, QuietStep DEF Probe
    <2>2. CASE Goto(p, "reject") /\ IsDeploy(p)
      BY <1>3, <2>2, GotoStep DEF Probe, Detached
    <2>3. CASE End(p, "exit1")
      BY <1>3, <2>3, EndStep DEF Probe
    <2> QED
      BY <1>3, <2>1, <2>2, <2>3 DEF Probe
  <1>4. CASE Repoint(p)
    <2>1. op[p].dest \in Shas \cup {NoSha} /\ ~Detached(op[p])
      BY <1>4 DEF Command, Repoint, Detached
    <2>2. PICK where \in {"verify", "fail", "revert"} :
            Goto(p, where) /\ (where = "fail" => IsDeploy(p))
      BY <1>4 DEF Repoint, Unwind
    <2>3. link' \in Shas \cup {NoSha}
      BY <1>4, <2>1 DEF Repoint
    <2> QED
      BY <1>4, <2>1, <2>2, <2>3, GotoStep DEF Repoint
  <1>5. CASE Verify(p)
    <2>1. PICK where \in {"promote", "fail", "revert"} :
            Goto(p, where) /\ (where = "fail" => IsDeploy(p))
      BY <1>5 DEF Verify, Unwind
    <2> QED
      BY <1>5, <2>1, GotoStep DEF Verify, Detached
  <1>6. CASE Revert(p)
    <2>1. link' \in Shas \cup {NoSha}
      BY <1>6 DEF Revert, Command
    <2>2. CASE Goto(p, "resolve")
      BY <1>6, <2>1, <2>2, GotoStep DEF Revert, Detached
    <2>3. CASE End(p, "exit1")
      BY <1>6, <2>1, <2>3, EndStep DEF Revert
    <2> QED
      BY <1>6, <2>2, <2>3 DEF Revert
  <1>7. CASE RecordFailure(p)
    <2>1. PICK where \in {"revert", "resolve"} : Goto(p, where)
      BY <1>7 DEF RecordFailure
    <2>2. InDeploy(p)
      BY <1>7 DEF RecordFailure, InDeploy, Inv, Phases
    <2> QED
      BY <1>7, <2>1, <2>2, GotoStep DEF RecordFailure, Detached
  <1>8. CASE DatabaseError(p)
    <2>1. PICK how \in {"exit1", "traceback"} : End(p, how)
      BY <1>8 DEF DatabaseError
    <2> QED
      BY <1>8, <2>1, EndStep DEF DatabaseError
  <1>9. CASE Kill(p)
    BY <1>9, EndStep DEF Kill
  <1>10. CASE SelectLatest(p)
    <2>1. PICK where \in {"same", "back"} :
            op' = [op EXCEPT ![p] = [@ EXCEPT !.pc = where, !.phase = "rollback",
                                              !.cur = NoRow, !.tgt = NoRow]]
      BY <1>10 DEF SelectLatest
    <2> DEFINE d == [op[p] EXCEPT !.pc = where, !.phase = "rollback",
                                  !.cur = NoRow, !.tgt = NoRow]
    <2>2. d \in Command /\ Detached(d)
      BY DEF Command, Detached
    <2>3. op' = [op EXCEPT ![p] = d]
      BY <2>1
    <2> QED
      BY <1>10, <2>2, <2>3, QuietStep DEF SelectLatest
  <1> QED
    BY <1>1, <1>2, <1>3, <1>4, <1>5, <1>6, <1>7, <1>8, <1>9, <1>10

-----------------------------------------------------------------------------
(* The steps that insert a row or read the table into the command.         *)

\* A deploy opens with a row number nobody has.
LEMMA StartDeployStep ==
    ASSUME Inv, NEW p \in Operators, NEW s \in Shas, NEW new \in Row,
           StartDeploy(p, s, new)
    PROVE  Inv'
  <1> DEFINE d == [Ended("running") EXCEPT !.pc = "start", !.row = new,
                                           !.dest = s, !.cur = Current(status)]
  <1>1. /\ op \in [Operators -> Command]
        /\ Current(status) \in Row \cup {NoRow}
        /\ UNCHANGED <<status, sha, replaces, link, schema>>
        /\ op[p].pc = "idle"
    BY TableFacts DEF Inv, TypeOK, StartDeploy
  <1>2. /\ d \in Command /\ d.pc = "start" /\ d.phase = "deploy" /\ d.row = new
        /\ d.dest = s
        /\ op' = [op EXCEPT ![p] = d]
    BY <1>1 DEF StartDeploy, Ended, Command, Pc, Exit
  <1> HIDE DEF d
  <1>3. /\ op'[p] = d
        /\ \A q \in Operators : q # p => op'[q] = op[q]
    BY <1>1, <1>2
  <1>4. /\ status[new] = "absent"
        /\ \A q \in Operators : op[q].row # new
    <2>1. new \in Nat /\ ~(new < new)
      BY MaxDeploysAssumption DEF Row
    <2> QED
      BY <2>1 DEF Inv, TypeOK, StartDeploy, IsNextKey, Inserted, RowsIn
  <1>5. TypeOK' /\ OneOfEach' /\ StaysInService'
    BY <1>1, <1>2 DEF Inv, TypeOK, OneOfEach, StaysInService, RowsInService
  <1>6. Phases'
    BY <1>2, <1>3 DEF Phases, Inv
  <1>7. OwnRows'
    <2> SUFFICES ASSUME NEW q \in Operators, InDeploy(q)'
                 PROVE  /\ op'[q].row \in Row
                        /\ op'[q].dest \in Shas
                        /\ IF op'[q].pc = "start"
                           THEN status'[op'[q].row] = "absent"
                           ELSE /\ status'[op'[q].row] \in {"pending", "failed"}
                                /\ sha'[op'[q].row] = op'[q].dest
                        /\ \A u \in Operators :
                             InDeploy(u)' /\ op'[u].row = op'[q].row => u = q
      BY DEF OwnRows
    <2>1. CASE q = p
      BY <1>1, <1>2, <1>3, <1>4, <2>1 DEF Inv, OwnRows
    <2>2. CASE q # p
      <3>1. InDeploy(q) /\ op'[q] = op[q]
        BY <1>3, <2>2 DEF InDeploy
      <3>2. \A u \in Operators : InDeploy(u)' /\ op'[u].row = op[q].row => u = q
        BY <1>2, <1>3, <1>4, <3>1 DEF Inv, OwnRows, InDeploy
      <3> QED
        BY <1>1, <3>1, <3>2 DEF Inv, OwnRows
    <2> QED
      BY <2>1, <2>2
  <1>8. Targets'
    <2>1. \A q \in Operators : /\ HasTarget(q)' => HasTarget(q) /\ op'[q] = op[q]
                               /\ Resolved(q)' => Resolved(q) /\ op'[q] = op[q]
      BY <1>2, <1>3 DEF HasTarget, Resolved
    <2> QED
      BY <1>1, <2>1 DEF Targets, Inv, RowsInService
  <1>9. LockHolder'
    BY <1>1, <1>2, <1>3 DEF LockHolder, Inv
  <1> QED
    BY <1>5, <1>6, <1>7, <1>8, <1>9 DEF Inv

\* What the transaction that inserts a deploy's row does to the table.
LEMMA InsertedRow ==
    ASSUME Inv, NEW p \in Operators, NEW oldest \in Row, Insert(p, oldest)
    PROVE  /\ InDeploy(p) /\ op[p].row \in Row /\ status[op[p].row] = "absent"
           /\ status' \in [Row -> Status]
           /\ \A x \in Row : status'[x] =
                IF x = op[p].row THEN "pending"
                ELSE IF x < oldest /\ status[x] = "pending" THEN "failed" ELSE status[x]
           /\ Quiet(status, status')
           /\ sha'[op[p].row] = op[p].dest
           /\ \A x \in Row : x # op[p].row => sha'[x] = sha[x]
           /\ sha' \in [Row -> Shas \cup {NoSha}]
           /\ replaces' \in [Row -> Shas \cup {NoSha}]
  <1>1. /\ InDeploy(p) /\ op[p].row \in Row /\ status[op[p].row] = "absent"
        /\ op[p].dest \in Shas
    BY DEF Insert, InDeploy, Inv, Phases, OwnRows
  <1>2. /\ status \in [Row -> Status] /\ sha \in [Row -> Shas \cup {NoSha}]
        /\ replaces \in [Row -> Shas \cup {NoSha}] /\ op[p].cur \in Row \cup {NoRow}
    BY DEF Inv, TypeOK, Command
  <1>3. \A x \in Row : status'[x] =
           IF x = op[p].row THEN "pending"
           ELSE IF x < oldest /\ status[x] = "pending" THEN "failed" ELSE status[x]
    BY DEF Insert, ReapAndInsert
  <1>4. status' \in [Row -> Status]
    BY <1>1, <1>2 DEF Insert, ReapAndInsert, Status
  <1>5. Quiet(status, status')
    BY <1>1, <1>3 DEF Quiet, Untried
  <1>6. /\ sha'[op[p].row] = op[p].dest
        /\ \A x \in Row : x # op[p].row => sha'[x] = sha[x]
        /\ sha' \in [Row -> Shas \cup {NoSha}]
    BY <1>1, <1>2 DEF Insert
  <1>7. replaces' \in [Row -> Shas \cup {NoSha}]
    <2>1. ShaOf(op[p].cur, sha) \in Shas \cup {NoSha}
      BY <1>2 DEF ShaOf
    <2> QED
      BY <1>1, <1>2, <2>1 DEF Insert
  <1> QED
    BY <1>1, <1>3, <1>4, <1>5, <1>6, <1>7

\* A deploy's own row is new, and reaping fails pending rows only.
LEMMA InsertStep ==
    ASSUME Inv, NEW p \in Operators, NEW oldest \in Row, Insert(p, oldest)
    PROVE  Inv'
  <1> DEFINE new == op[p].row
  <1>1. /\ InDeploy(p) /\ new \in Row /\ status[new] = "absent"
        /\ status' \in [Row -> Status]
        /\ Quiet(status, status')
        /\ sha'[new] = op[p].dest
        /\ \A x \in Row : x # new => sha'[x] = sha[x]
        /\ sha' \in [Row -> Shas \cup {NoSha}]
        /\ replaces' \in [Row -> Shas \cup {NoSha}]
        /\ status'[new] = "pending"
        /\ \A x \in Row : x # new /\ status[x] = "absent" => status'[x] = "absent"
    BY InsertedRow
  <1>2. /\ op \in [Operators -> Command] /\ op' \in [Operators -> Command]
        /\ op'[p].pc = "migrate" /\ op'[p].phase = op[p].phase
        /\ op'[p].row = new /\ op'[p].dest = op[p].dest
        /\ op[p].pc = "start" /\ op[p].phase = "deploy"
        /\ \A q \in Operators : q # p => op'[q] = op[q]
        /\ UNCHANGED <<link, schema>>
    <2> DEFINE d == [op[p] EXCEPT !.pc = "migrate", !.cur = NoRow]
    <2>1. op \in [Operators -> Command] /\ op[p] \in Command
      BY DEF Inv, TypeOK
    <2>2. /\ op[p].pc = "start" /\ UNCHANGED <<link, schema>>
          /\ op' = [op EXCEPT ![p] = d]
      BY <2>1 DEF Insert, Command
    <2>3. op[p].phase = "deploy"
      BY <1>1 DEF InDeploy
    <2>4. /\ d \in Command /\ d.pc = "migrate" /\ d.phase = op[p].phase
          /\ d.row = op[p].row /\ d.dest = op[p].dest
      BY <2>1 DEF Command, Pc, NoRow
    <2> HIDE DEF d
    <2> QED
      BY <2>1, <2>2, <2>3, <2>4
  <1>3. /\ Current(status') = Current(status)
        /\ TrackedPrevious(status') = TrackedPrevious(status)
        /\ \A r \in Row : status'[r] = "current" <=> status[r] = "current"
        /\ \A r \in Row : status'[r] = "previous" <=> status[r] = "previous"
        /\ RowsInService' = RowsInService
    BY <1>1, QuietTable DEF Inv, TypeOK, RowsInService
  <1>4. TypeOK'
    BY <1>1, <1>2 DEF Inv, TypeOK
  <1>5. OneOfEach' /\ StaysInService'
    BY <1>3 DEF OneOfEach, StaysInService, Inv
  <1>6. Phases'
    BY <1>2 DEF Phases, Inv
  <1>7. OwnRows'
    <2>0. \A q \in Operators : InDeploy(q)' => InDeploy(q) /\ op'[q].row = op[q].row
      BY <1>1, <1>2 DEF InDeploy
    <2>1. \A r \in Row : status[r] \in {"pending", "failed"}
                            => status'[r] \in {"pending", "failed"}
      BY <1>1 DEF Quiet
    <2> SUFFICES ASSUME NEW q \in Operators, InDeploy(q)'
                 PROVE  /\ op'[q].row \in Row
                        /\ op'[q].dest \in Shas
                        /\ IF op'[q].pc = "start"
                           THEN status'[op'[q].row] = "absent"
                           ELSE /\ status'[op'[q].row] \in {"pending", "failed"}
                                /\ sha'[op'[q].row] = op'[q].dest
                        /\ \A u \in Operators :
                             InDeploy(u)' /\ op'[u].row = op'[q].row => u = q
      BY DEF OwnRows
    <2>2. /\ op[q].row \in Row /\ op[q].dest \in Shas
          /\ IF op[q].pc = "start"
             THEN status[op[q].row] = "absent"
             ELSE /\ status[op[q].row] \in {"pending", "failed"}
                  /\ sha[op[q].row] = op[q].dest
          /\ \A u \in Operators : InDeploy(u) /\ op[u].row = op[q].row => u = q
      BY <2>0 DEF Inv, OwnRows
    <2>3. \A u \in Operators : InDeploy(u)' /\ op'[u].row = op'[q].row => u = q
      BY <2>0, <2>2
    <2>4. CASE q = p
      BY <1>1, <1>2, <2>2, <2>3, <2>4
    <2>5. CASE q # p
      <3>1. op[q].row # new /\ op'[q] = op[q]
        BY <1>1, <1>2, <2>2, <2>5
      <3> QED
        BY <1>1, <2>1, <2>2, <2>3, <3>1
    <2> QED
      BY <2>4, <2>5
  <1>8. Targets'
    <2>1. \A q \in Operators : /\ HasTarget(q)' => HasTarget(q) /\ op'[q] = op[q]
                               /\ Resolved(q)' => Resolved(q) /\ op'[q] = op[q]
      BY <1>2 DEF HasTarget, Resolved
    <2> QED
      BY <1>3, <2>1 DEF Targets, Inv
  <1>9. LockHolder'
    BY <1>2, <1>3 DEF LockHolder, Inv
  <1> QED
    BY <1>4, <1>5, <1>6, <1>7, <1>8, <1>9 DEF Inv

\* What get_previous returns, when it returns a row, was in service.
LEMMA ResolvedTarget ==
    ASSUME Inv, NEW unresolved, GetPrevious(status, replaces, unresolved) # NoRow
    PROVE  GetPrevious(status, replaces, unresolved) \in RowsInService
  <1> DEFINE t == GetPrevious(status, replaces, unresolved)
  <1>1. \/ t = Current(status)
        \/ t = TrackedPrevious(status)
    BY Zenon DEF GetPrevious
  <1>2. t \in Row
    BY <1>1, TableFacts
  <1> QED
    BY <1>1, <1>2, TableFacts DEF RowsInService, RowsIn

\* A command that reads the table, and whatever else is true of it after.
LEMMA ReadStep ==
    ASSUME Inv, NEW p \in Operators, NEW d \in Command,
           op' = [op EXCEPT ![p] = d],
           d.pc \notin {"idle", "start", "migrate", "reject", "fail"},
           d.pc \in {"same", "back", "expect"} => d.phase = "rollback",
           d.phase = "deploy" => /\ InDeploy(p) /\ op[p].pc # "start"
                                 /\ d.row = op[p].row /\ d.dest = op[p].dest,
           d.phase = "rollback" /\ d.pc \notin {"resolve", "same", "back"} =>
                /\ d.tgt \in RowsInService
                /\ d.pc # "expect" => d.cur \in RowsInService,
           d.pc = "commit" =>
                /\ LockFree
                /\ d.cur = Current(status)
                /\ d.phase = "deploy" => d.tgt = TrackedPrevious(status),
           UNCHANGED <<status, sha, replaces, link, schema>>
    PROVE  Inv'
  <1>1. /\ op \in [Operators -> Command] /\ op'[p] = d
        /\ \A q \in Operators : q # p => op'[q] = op[q]
    BY DEF Inv, TypeOK
  <1>2. TypeOK'
    BY <1>1 DEF Inv, TypeOK
  <1>3. OneOfEach' /\ StaysInService'
    BY DEF Inv, OneOfEach, StaysInService, RowsInService
  <1>4. Phases'
    BY <1>1 DEF Inv, Phases
  <1>5. OwnRows'
    <2>1. \A q \in Operators : InDeploy(q)' =>
             /\ InDeploy(q) /\ op'[q].row = op[q].row /\ op'[q].dest = op[q].dest
             /\ op'[q].pc = "start" <=> op[q].pc = "start"
      BY <1>1 DEF InDeploy
    <2> QED
      BY <2>1 DEF Inv, OwnRows
  <1>6. Targets'
    <2> SUFFICES ASSUME NEW q \in Operators
                 PROVE  /\ HasTarget(q)' => op'[q].tgt \in RowsInService
                        /\ Resolved(q)' => op'[q].cur \in RowsInService
      BY DEF Targets, RowsInService
    <2>1. CASE q = p
      BY <1>1, <2>1 DEF HasTarget, Resolved
    <2>2. CASE q # p
      BY <1>1, <2>2 DEF Inv, Targets, HasTarget, Resolved
    <2> QED
      BY <2>1, <2>2
  <1>7. LockHolder'
    <2>1. CASE d.pc = "commit"
      BY <1>1, <2>1 DEF LockHolder, LockFree
    <2>2. CASE d.pc # "commit"
      BY <1>1, <2>2 DEF Inv, LockHolder
    <2> QED
      BY <2>1, <2>2
  <1> QED
    BY <1>2, <1>3, <1>4, <1>5, <1>6, <1>7 DEF Inv

\* The steps that only read the table into the command.
LEMMA ReadActions ==
    ASSUME Inv, NEW p \in Operators,
           \/ SelectTarget(p) \/ SelectExpected(p)
           \/ LockForDeploy(p) \/ LockForRollback(p)
    PROVE  Inv'
  <1>1. /\ op \in [Operators -> Command] /\ op[p] \in Command
        /\ RowsInService \subseteq Row
        /\ sha \in [Row -> Shas \cup {NoSha}]
    BY DEF Inv, TypeOK, RowsInService, RowsIn
  <1>2. /\ Current(status) \in Row \cup {NoRow}
        /\ TrackedPrevious(status) \in Row \cup {NoRow}
    BY TableFacts
  <1>3. CASE SelectTarget(p)
    <2> DEFINE t == GetPrevious(status, replaces, op[p].pc = "same")
               d == [op[p] EXCEPT !.pc = "expect", !.dest = sha[t], !.tgt = t]
    <2>1. CASE t = NoRow
      <3>1. End(p, "exit1")
        BY <1>3, <2>1 DEF SelectTarget
      <3> QED
        BY <1>3, <3>1, EndStep, QuietTables DEF SelectTarget, Exit
    <2>2. CASE t # NoRow
      <3>1. op' = [op EXCEPT ![p] = d]
        BY <1>3, <2>2 DEF SelectTarget
      <3>2. t \in RowsInService
        BY <2>2, ResolvedTarget
      <3>3. /\ d \in Command /\ d.pc = "expect" /\ d.phase = op[p].phase
            /\ d.tgt = t
        BY <1>1, <3>2 DEF Command, Pc
      <3>4. UNCHANGED <<status, sha, replaces, link, schema>>
        BY <1>3 DEF SelectTarget
      <3>5. op[p].phase = "rollback"
        BY <1>3 DEF SelectTarget, Inv, Phases
      <3> HIDE DEF d, t
      <3> QED
        BY <3>1, <3>2, <3>3, <3>4, <3>5, ReadStep
    <2> QED
      BY <2>1, <2>2
  <1>6. CASE SelectExpected(p)
    <2> DEFINE d == [op[p] EXCEPT !.pc = "probe", !.cur = Current(status)]
    <2>1. op' = [op EXCEPT ![p] = d]
      BY <1>1, <1>6 DEF SelectExpected
    <2>2. /\ d \in Command /\ d.pc = "probe" /\ d.phase = op[p].phase
          /\ d.tgt = op[p].tgt /\ d.cur = Current(status)
      BY <1>1, <1>2 DEF Command, Pc
    <2>3. UNCHANGED <<status, sha, replaces, link, schema>>
      BY <1>6 DEF SelectExpected
    <2>4. op[p].phase = "rollback" /\ op[p].tgt \in RowsInService
      BY <1>6 DEF SelectExpected, Inv, Phases, Targets, HasTarget
    <2>5. Current(status) \in RowsInService
      BY <2>4, TableFacts DEF Inv, StaysInService, RowsInService, RowsIn
    <2> HIDE DEF d
    <2> QED
      BY <2>1, <2>2, <2>3, <2>4, <2>5, ReadStep
  <1>4. CASE LockForDeploy(p)
    <2>1. CASE ~LockFree
      BY <1>4, <2>1, GotoStep, QuietTables
         DEF LockForDeploy, Detached, IsDeploy, InDeploy, Pc
    <2>2. CASE LockFree
      <3> DEFINE d == [op[p] EXCEPT !.pc = "commit", !.cur = Current(status),
                                    !.tgt = TrackedPrevious(status)]
      <3>1. op' = [op EXCEPT ![p] = d]
        BY <1>1, <1>4, <2>2 DEF LockForDeploy
      <3>2. /\ d \in Command /\ d.pc = "commit" /\ d.phase = "deploy"
            /\ d.row = op[p].row /\ d.dest = op[p].dest
            /\ d.cur = Current(status) /\ d.tgt = TrackedPrevious(status)
        BY <1>1, <1>2, <1>4 DEF Command, Pc, LockForDeploy, IsDeploy
      <3>3. /\ UNCHANGED <<status, sha, replaces, link, schema>> /\ InDeploy(p)
            /\ op[p].pc # "start"
        BY <1>4, <2>2 DEF LockForDeploy, IsDeploy, InDeploy
      <3> HIDE DEF d
      <3> QED
        BY <2>2, <3>1, <3>2, <3>3, ReadStep
    <2> QED
      BY <2>1, <2>2
  <1>5. CASE LockForRollback(p)
    <2>0. /\ UNCHANGED <<status, sha, replaces, link, schema>>
          /\ op[p].pc = "promote" /\ op[p].phase = "rollback"
      BY <1>1, <1>5 DEF LockForRollback, IsDeploy, Command
    <2>1. CASE ~LockFree \/ CurrentMoved(p)
      BY <1>5, <2>0, <2>1, GotoStep, QuietTables DEF LockForRollback, Detached, Pc
    <2>2. CASE LockFree /\ ~CurrentMoved(p)
      <3> DEFINE d == [op[p] EXCEPT !.pc = "commit", !.cur = Current(status)]
      <3>1. op' = [op EXCEPT ![p] = d]
        BY <1>1, <1>5, <2>2 DEF LockForRollback
      <3>2. /\ d \in Command /\ d.pc = "commit" /\ d.phase = "rollback"
            /\ d.tgt = op[p].tgt /\ d.cur = Current(status)
        BY <1>1, <1>2, <2>0 DEF Command, Pc
      <3>3. /\ op[p].cur \in RowsInService /\ op[p].tgt \in RowsInService
        BY <2>0 DEF Inv, Targets, HasTarget, Resolved
      <3>4. op[p].cur = Current(status)
        BY <1>1, <2>2, <3>3, TableFacts DEF CurrentMoved
      <3> HIDE DEF d
      <3> QED
        BY <2>0, <2>2, <3>1, <3>2, <3>3, <3>4, ReadStep
    <2> QED
      BY <2>1, <2>2
  <1> QED
    BY <1>3, <1>4, <1>5, <1>6

-----------------------------------------------------------------------------
(* The steps that put another row in service.                              *)

\* What is left to show once the new table is known.
LEMMA PromotionStep ==
    ASSUME Inv, NEW p \in Operators, op[p].pc = "commit", End(p, "ok"),
           NEW r \in Row, status' \in [Row -> Status],
           \A x \in Row : status'[x] = "current" <=> x = r,
           Unique(status'),
           \A q \in Operators : q # p /\ InDeploy(q) =>
                status'[op[q].row] = status[op[q].row],
           RowsInService \subseteq RowsInService',
           UNCHANGED <<sha, replaces, link, schema>>
    PROVE  Inv'
  <1>1. /\ op \in [Operators -> Command] /\ op'[p] = Ended("ok")
        /\ \A q \in Operators : q # p => op'[q] = op[q]
    BY DEF Inv, TypeOK, End
  <1>2. TypeOK'
    BY DEF Inv, TypeOK, End, Ended, Command, Pc, Exit
  <1>3. OneOfEach'
    BY DEF Unique, OneOfEach
  <1>4. Phases'
    BY <1>1 DEF Inv, Phases, Ended
  <1>5. OwnRows'
    <2>1. \A u \in Operators : InDeploy(u)' => InDeploy(u) /\ u # p /\ op'[u] = op[u]
      BY <1>1 DEF InDeploy, Ended
    <2> SUFFICES ASSUME NEW q \in Operators, InDeploy(q)'
                 PROVE  /\ op'[q].row \in Row
                        /\ op'[q].dest \in Shas
                        /\ IF op'[q].pc = "start"
                           THEN status'[op'[q].row] = "absent"
                           ELSE /\ status'[op'[q].row] \in {"pending", "failed"}
                                /\ sha'[op'[q].row] = op'[q].dest
                        /\ \A u \in Operators :
                             InDeploy(u)' /\ op'[u].row = op'[q].row => u = q
      BY DEF OwnRows
    <2>2. /\ op[q].row \in Row /\ op[q].dest \in Shas
          /\ IF op[q].pc = "start"
             THEN status[op[q].row] = "absent"
             ELSE /\ status[op[q].row] \in {"pending", "failed"}
                  /\ sha[op[q].row] = op[q].dest
          /\ \A u \in Operators : InDeploy(u) /\ op[u].row = op[q].row => u = q
      BY <2>1 DEF Inv, OwnRows
    <2>3. status'[op[q].row] = status[op[q].row]
      BY <2>1
    <2> QED
      BY <2>1, <2>2, <2>3
  <1>6. Targets'
    <2>1. \A q \in Operators : /\ HasTarget(q)' => HasTarget(q) /\ op'[q] = op[q]
                               /\ Resolved(q)' => Resolved(q) /\ op'[q] = op[q]
      BY <1>1 DEF HasTarget, Resolved, Ended
    <2> QED
      BY <2>1 DEF Inv, Targets
  <1>7. LockHolder'
    BY <1>1 DEF Inv, LockHolder, Ended
  <1>8. StaysInService'
    <2>1. Current(status') \in Row \cup {NoRow}
          /\ \A x \in Row : status'[x] = "current" <=> x = Current(status')
      BY CurrentIsTheRow
    <2>2. NoRow \notin Row
      BY MaxDeploysAssumption DEF Row, NoRow
    <2> QED
      BY <2>1, <2>2 DEF StaysInService
  <1> QED
    BY <1>2, <1>3, <1>4, <1>5, <1>6, <1>7, <1>8 DEF Inv

\* The table mark_healthy leaves.
LEMMA HealthyTable ==
    ASSUME Inv, NEW r \in Row, status[r] \in {"pending", "failed"},
           status' = MarkHealthy(status, sha, r, Current(status),
                                 TrackedPrevious(status)),
           UNCHANGED sha
    PROVE  /\ status' \in [Row -> Status]
           /\ \A x \in Row : status'[x] = "current" <=> x = r
           /\ \A x \in Row : status'[x] = "previous" <=>
                x = IF SameShaRedeploy(sha, r, Current(status))
                    THEN TrackedPrevious(status) ELSE Current(status)
           /\ Unique(status')
           /\ RowsInService \subseteq RowsInService'
           /\ \A x \in Row : x # r /\ status[x] \in Untried => status'[x] = status[x]
  <1> DEFINE c == Current(status)
             v == TrackedPrevious(status)
  <1>1. /\ status \in [Row -> Status] /\ sha \in [Row -> Shas \cup {NoSha}]
        /\ c \in Row \cup {NoRow} /\ v \in Row \cup {NoRow} /\ NoRow \notin Row
        /\ \A x \in Row : status[x] = "current" <=> x = c
        /\ \A x \in Row : status[x] = "previous" <=> x = v
    BY TableFacts DEF Inv, TypeOK
  <1>2. c # r /\ v # r /\ (c \in Row => c # v)
    BY <1>1
  <1>4. CASE SameShaRedeploy(sha, r, c)
    <2>1. c \in Row /\ sha[c] = sha[r]
      BY <1>1, <1>4 DEF SameShaRedeploy
    <2>2. status' = [[status EXCEPT ![c] = "history"] EXCEPT ![r] = "current"]
      BY <1>4 DEF MarkHealthy
    <2>3. /\ status' \in [Row -> Status]
          /\ \A x \in Row : status'[x] = IF x = r THEN "current"
                                         ELSE IF x = c THEN "history"
                                         ELSE status[x]
      BY <1>1, <2>1, <2>2 DEF Status
    <2>4. /\ \A x \in Row : status'[x] = "current" <=> x = r
          /\ \A x \in Row : status'[x] = "previous" <=> x = v
      BY <1>1, <1>2, <2>3
    <2>5. Unique(status')
      BY <2>4 DEF Unique
    <2>8. RowsInService \subseteq RowsInService'
      BY <2>3 DEF RowsInService, RowsIn
    <2> QED
      BY <1>1, <1>4, <2>3, <2>4, <2>5, <2>8 DEF Untried
  <1>5. CASE ~SameShaRedeploy(sha, r, c)
    <2>1. c \in Row => sha[c] # sha[r]
      BY <1>1, <1>5 DEF SameShaRedeploy
    <2>2. status' = [[x \in Row |-> IF x = c THEN "previous"
                                    ELSE IF x = v THEN "history"
                                    ELSE status[x]] EXCEPT ![r] = "current"]
      BY <1>5 DEF MarkHealthy
    <2>3. /\ status' \in [Row -> Status]
          /\ \A x \in Row : status'[x] = IF x = r THEN "current"
                                         ELSE IF x = c THEN "previous"
                                         ELSE IF x = v THEN "history"
                                         ELSE status[x]
      BY <1>1, <2>2 DEF Status
    <2>4. /\ \A x \in Row : status'[x] = "current" <=> x = r
          /\ \A x \in Row : status'[x] = "previous" <=> x = c
      BY <1>1, <1>2, <2>3
    <2>5. Unique(status')
      BY <2>4 DEF Unique
    <2>8. RowsInService \subseteq RowsInService'
      BY <2>3 DEF RowsInService, RowsIn
    <2> QED
      BY <1>1, <1>5, <2>3, <2>4, <2>5, <2>8 DEF Untried
  <1> QED
    BY <1>4, <1>5

\* mark_healthy keeps Inv, and so does a clash in the index.
LEMMA CommitDeployStep ==
    ASSUME Inv, NEW p \in Operators, CommitDeploy(p)
    PROVE  Inv'
  <1> DEFINE r == op[p].row
  <1>1. /\ op[p].pc = "commit" /\ op[p].phase = "deploy"
        /\ op[p].cur = Current(status) /\ op[p].tgt = TrackedPrevious(status)
        /\ UNCHANGED <<sha, replaces, link, schema>>
    BY DEF CommitDeploy, IsDeploy, Inv, LockHolder
  <1>2. /\ r \in Row /\ status[r] \in {"pending", "failed"}
        /\ \A q \in Operators : InDeploy(q) /\ op[q].row = r => q = p
    BY <1>1 DEF Inv, OwnRows, InDeploy
  <1>3. CASE End(p, "traceback") /\ UNCHANGED status
    BY <1>1, <1>3, EndStep, QuietTables DEF Exit
  <1>4. CASE status' = MarkHealthy(status, sha, r, op[p].cur, op[p].tgt)
             /\ End(p, "ok")
    <2>1. /\ status' \in [Row -> Status]
          /\ \A x \in Row : status'[x] = "current" <=> x = r
          /\ Unique(status')
          /\ RowsInService \subseteq RowsInService'
          /\ \A x \in Row : x # r /\ status[x] \in Untried => status'[x] = status[x]
      BY <1>1, <1>2, <1>4, HealthyTable
    <2>2. \A q \in Operators : q # p /\ InDeploy(q) =>
              status'[op[q].row] = status[op[q].row]
      BY <1>2, <2>1 DEF Inv, OwnRows, Untried
    <2> QED
      BY <1>1, <1>2, <1>4, <2>1, <2>2, PromotionStep
  <1> QED
    BY <1>3, <1>4 DEF CommitDeploy

\* So does rollback: the row it promotes was in service, whatever has become
\* of it since it was resolved.
LEMMA CommitRollbackStep ==
    ASSUME Inv, NEW p \in Operators, CommitRollback(p)
    PROVE  Inv'
  <1> DEFINE t == op[p].tgt
             c == Current(status)
  <1>1. /\ op[p].pc = "commit" /\ op[p].phase = "rollback" /\ op[p].cur = c
        /\ status' = Rollback(status, t, c) /\ End(p, "ok")
        /\ UNCHANGED <<sha, replaces, link, schema>>
    BY DEF CommitRollback, IsDeploy, Inv, LockHolder, TypeOK, Command
  <1>2. /\ c \in Row /\ t \in Row /\ status[t] \notin {"absent", "pending", "failed"}
    BY <1>1 DEF Inv, Targets, HasTarget, Resolved, RowsInService, RowsIn
  <1>3. /\ status \in [Row -> Status]
        /\ \A x \in Row : status[x] = "current" <=> x = c
        /\ \A x, y \in Row : status[x] = "previous" /\ status[y] = "previous" => x = y
    BY TableFacts DEF Inv, TypeOK
  <1>4. CASE c = t
    <2>1. UNCHANGED status
      BY <1>1, <1>4 DEF Rollback
    <2> QED
      BY <1>1, <2>1, EndStep, QuietTables DEF Exit
  <1>5. CASE c # t
    <2>1. status' = [[x \in Row |-> IF x = c THEN "rolled_back" ELSE status[x]]
                        EXCEPT ![t] = "current"]
      BY <1>1, <1>5 DEF Rollback
    <2>2. /\ status' \in [Row -> Status]
          /\ \A x \in Row : status'[x] = IF x = t THEN "current"
                                         ELSE IF x = c THEN "rolled_back"
                                         ELSE status[x]
      BY <1>2, <1>3, <2>1 DEF Status
    <2>3. /\ \A x \in Row : status'[x] = "current" <=> x = t
          /\ \A x \in Row : status'[x] = "previous" => status[x] = "previous"
      BY <1>2, <1>3, <1>5, <2>2
    <2>4. Unique(status')
      BY <1>3, <2>3 DEF Unique
    <2>5. RowsInService \subseteq RowsInService'
      BY <2>2 DEF RowsInService, RowsIn
    <2>6. \A q \in Operators : q # p /\ InDeploy(q) =>
              status'[op[q].row] = status[op[q].row]
      BY <1>2, <1>3, <2>2 DEF Inv, OwnRows
    <2> QED
      BY <1>1, <1>2, <2>2, <2>3, <2>4, <2>5, <2>6, PromotionStep
  <1> QED
    BY <1>4, <1>5

-----------------------------------------------------------------------------
\* No row and no command yet.
LEMMA InitInv == Init => Inv
  <1> SUFFICES ASSUME Init PROVE Inv
    OBVIOUS
  <1>1. /\ \A r \in Row : status[r] = "absent"
        /\ \A p \in Operators : op[p] = Ended("none")
    BY DEF Init
  <1>2. TypeOK
    BY DEF Init, TypeOK, Status, Ended, Command, Pc, Exit
  <1>3. OneOfEach /\ StaysInService
    BY <1>1 DEF OneOfEach, StaysInService, RowsInService, RowsIn
  <1>4. Phases /\ OwnRows /\ Targets /\ LockHolder
    BY <1>1 DEF Phases, OwnRows, Targets, LockHolder, InDeploy,
                HasTarget, Resolved, Ended
  <1> QED
    BY <1>2, <1>3, <1>4 DEF Inv

\* One case per action of Next.
LEMMA NextInv == Inv /\ [Next]_vars => Inv'
  <1> SUFFICES ASSUME Inv, [Next]_vars PROVE Inv'
    OBVIOUS
  <1>1. CASE UNCHANGED vars
    BY <1>1 DEF vars, Inv, TypeOK, OneOfEach, StaysInService, Phases,
                OwnRows, Targets, LockHolder, InDeploy, HasTarget, Resolved,
                RowsInService
  <1>2. CASE Next
    <2>1. PICK p \in Operators :
            \/ \E s \in Shas, new \in Row : StartDeploy(p, s, new)
            \/ StartRollback(p)
            \/ Step(p)
            \/ DatabaseError(p)
            \/ Kill(p)
      BY <1>2 DEF Next
    <2>2. CASE \E s \in Shas, new \in Row : StartDeploy(p, s, new)
      BY <2>2, StartDeployStep
    <2>3. CASE StartRollback(p) \/ DatabaseError(p) \/ Kill(p)
      BY <2>3, QuietActions
    <2>4. CASE Step(p)
      BY <2>4, InsertStep, QuietActions, ReadActions, CommitDeployStep,
         CommitRollbackStep
         DEF Step
    <2> QED
      BY <2>1, <2>2, <2>3, <2>4
  <1> QED
    BY <1>1, <1>2

\* For any operators and any faults: the types, and what a lock holder, a
\* deploy and a rollback may rely on while the others run.
THEOREM Invariant == Spec => []Inv
  <1>1. Init => Inv
    BY InitInv
  <1>2. Inv /\ [Next]_vars => Inv'
    BY NextInv
  <1> QED
    BY <1>1, <1>2, PTL DEF Spec

\* At most one current and one previous release, for any operators and any
\* faults: mark_healthy and rollback never need the unique index to say so.
THEOREM AtMostOneOfEach == Spec => []OneOfEach
  <1>1. Inv => OneOfEach
    BY DEF Inv
  <1> QED
    BY <1>1, Invariant, PTL

-----------------------------------------------------------------------------
(* The table is a ledger: every step of Deploy is a step of ReleaseLedger. *)

\* What a step may do to the table.
LEMMA TableSteps ==
    ASSUME Inv, Inv', [Next]_vars
    PROVE  \/ /\ Quiet(status, status')
              /\ \A x \in RowsInService : sha'[x] = sha[x]
           \/ \E p \in Operators : CommitDeploy(p) \/ CommitRollback(p)
  <1> USE DEF Inv, TypeOK, RowsInService, RowsIn
  <1>1. CASE UNCHANGED vars
    BY <1>1 DEF vars, Quiet
  <1>2. CASE Next
    <2>1. PICK p \in Operators :
            \/ \E s \in Shas, new \in Row : StartDeploy(p, s, new)
            \/ StartRollback(p)
            \/ Step(p)
            \/ DatabaseError(p)
            \/ Kill(p)
      BY <1>2 DEF Next
    <2>2. ASSUME NEW oldest \in Row, Insert(p, oldest)
          PROVE  /\ Quiet(status, status')
                 /\ \A x \in RowsInService : sha'[x] = sha[x]
      BY <2>2, InsertedRow
    <2>3. InDeploy(p) /\ op[p].pc # "start"
             => Quiet(status, MarkFailed(status, op[p].row))
      BY QuietTables DEF Calm, Quiet, Untried
    <2>4. CASE \/ \E s \in Shas, new \in Row : StartDeploy(p, s, new)
               \/ StartRollback(p) \/ DatabaseError(p) \/ Kill(p) \/ Probe(p)
               \/ Repoint(p) \/ Verify(p) \/ Revert(p) \/ LockForRollback(p)
               \/ SelectLatest(p) \/ SelectTarget(p) \/ SelectExpected(p)
      BY <2>4 DEF StartDeploy, StartRollback, DatabaseError, Kill, Probe, Repoint,
                  Verify, Revert, SelectLatest, SelectTarget, SelectExpected,
                  LockForRollback, Quiet
    <2>5. CASE Migrate(p) \/ RecordFailure(p) \/ LockForDeploy(p)
      BY <2>3, <2>5 DEF Migrate, RecordFailure, LockForDeploy, IsDeploy,
                        InDeploy, Phases, Quiet
    <2> QED
      BY <2>1, <2>2, <2>4, <2>5 DEF Step
  <1> QED
    BY <1>1, <1>2

\* mark_healthy takes a step forward.
LEMMA DeployStepIsForward ==
    ASSUME Inv, Inv', NEW p \in Operators, CommitDeploy(p)
    PROVE  [Ledger!Next]_(Ledger!ledger)
  <1> DEFINE r == op[p].row
  <1>1. /\ op[p].pc = "commit" /\ op[p].phase = "deploy"
        /\ op[p].cur = Current(status) /\ op[p].tgt = TrackedPrevious(status)
        /\ UNCHANGED sha
    BY DEF CommitDeploy, IsDeploy, Inv, LockHolder
  <1>2. r \in Row /\ status[r] \in {"pending", "failed"}
    BY <1>1 DEF Inv, OwnRows, InDeploy
  <1>3. CASE UNCHANGED status
    BY <1>1, <1>3 DEF Ledger!ledger, RowsInService
  <1>4. CASE status' = MarkHealthy(status, sha, r, op[p].cur, op[p].tgt)
    <2> DEFINE c == Current(status)
               v == TrackedPrevious(status)
    <2>1. /\ status' \in [Row -> Status]
          /\ \A x \in Row : status'[x] = "current" <=> x = r
          /\ Unique(status')
      BY <1>1, <1>2, <1>4, HealthyTable
    <2>2. /\ Current(status') = r
          /\ TrackedPrevious(status') \in Row \cup {NoRow}
          /\ \A x \in Row : status'[x] = "previous" <=> x = TrackedPrevious(status')
      BY <1>2, <2>1, CurrentIsTheRow
    <2>3. /\ status \in [Row -> Status]
          /\ c \in Row \cup {NoRow} /\ v \in Row \cup {NoRow} /\ NoRow \notin Row
          /\ \A x \in Row : status[x] = "current" <=> x = c
          /\ \A x \in Row : status[x] = "previous" <=> x = v
      BY TableFacts DEF Inv, TypeOK
    <2>4. \A x \in Row : status'[x] =
              IF x = r THEN "current"
              ELSE IF x = c THEN IF SameShaRedeploy(sha, r, c) THEN "history"
                                                               ELSE "previous"
              ELSE IF x = v /\ ~SameShaRedeploy(sha, r, c) THEN "history"
              ELSE status[x]
      <3>1. CASE SameShaRedeploy(sha, r, c)
        BY <1>1, <1>2, <1>4, <2>3, <3>1 DEF MarkHealthy, SameShaRedeploy
      <3>2. CASE ~SameShaRedeploy(sha, r, c)
        BY <1>1, <1>2, <1>4, <2>3, <3>2 DEF MarkHealthy
      <3> QED
        BY <3>1, <3>2
    <2>5. RowsInService' = RowsInService \cup {r} /\ r \notin RowsInService
      BY <1>2, <2>3, <2>4 DEF RowsInService, RowsIn
    <2>6. TrackedPrevious(status') = IF SameShaRedeploy(sha, r, c) THEN v ELSE c
      <3>1. CASE SameShaRedeploy(sha, r, c)
        BY <1>2, <2>2, <2>3, <2>4, <3>1 DEF SameShaRedeploy
      <3>2. CASE ~SameShaRedeploy(sha, r, c)
        BY <1>2, <2>2, <2>3, <2>4, <3>2
      <3> QED
        BY <3>1, <3>2
    <2>7. Ledger!Forward(r)
      BY <1>1, <2>2, <2>5, <2>6 DEF Ledger!Forward, SameShaRedeploy
    <2> QED
      BY <1>2, <2>7 DEF Ledger!Next
  <1> QED
    BY <1>3, <1>4 DEF CommitDeploy

\* rollback takes a step back, or none when its target is current already.
LEMMA RollbackStepIsBack ==
    ASSUME Inv, Inv', NEW p \in Operators, CommitRollback(p)
    PROVE  [Ledger!Next]_(Ledger!ledger)
  <1> DEFINE t == op[p].tgt
             c == Current(status)
  <1>1. /\ op[p].pc = "commit" /\ op[p].phase = "rollback" /\ op[p].cur = c
        /\ status' = Rollback(status, t, c) /\ UNCHANGED sha
    BY DEF CommitRollback, IsDeploy, Inv, LockHolder, TypeOK, Command
  <1>2. /\ c \in Row /\ t \in RowsInService /\ t \in Row
    BY <1>1 DEF Inv, Targets, HasTarget, Resolved, RowsInService, RowsIn
  <1>3. CASE c = t
    <2>1. UNCHANGED status
      BY <1>1, <1>3 DEF Rollback
    <2> QED
      BY <1>1, <2>1 DEF Ledger!ledger, RowsInService
  <1>4. CASE c # t
    <2> DEFINE v == TrackedPrevious(status)
    <2>1. /\ status \in [Row -> Status] /\ status' \in [Row -> Status]
          /\ \A x \in Row : status[x] = "current" <=> x = c
          /\ v \in Row \cup {NoRow} /\ NoRow \notin Row
          /\ \A x \in Row : status[x] = "previous" <=> x = v
      BY TableFacts DEF Inv, TypeOK
    <2>2. \A x \in Row : status'[x] = IF x = t THEN "current"
                                      ELSE IF x = c THEN "rolled_back"
                                      ELSE status[x]
      BY <1>1, <1>2, <1>4, <2>1 DEF Rollback
    <2>3. /\ \A x \in Row : status'[x] = "current" <=> x = t
          /\ \A x \in Row : status'[x] = "previous" <=> x = v /\ x # t
      BY <1>2, <1>4, <2>1, <2>2
    <2>4. Unique(status')
      BY <2>3 DEF Unique
    <2>5. /\ Current(status') = t
          /\ TrackedPrevious(status') \in Row \cup {NoRow}
          /\ \A x \in Row : status'[x] = "previous" <=> x = TrackedPrevious(status')
      BY <1>2, <2>1, <2>3, <2>4, CurrentIsTheRow
    <2>6. TrackedPrevious(status') = IF t = v THEN NoRow ELSE v
      BY <1>2, <2>1, <2>3, <2>5
    <2>7. RowsInService' = RowsInService
      BY <1>2, <2>1, <2>2 DEF RowsInService, RowsIn
    <2>8. Ledger!Back(t)
      BY <1>1, <1>2, <1>4, <2>5, <2>6, <2>7 DEF Ledger!Back
    <2> QED
      BY <1>2, <2>8 DEF Ledger!Next
  <1> QED
    BY <1>3, <1>4

\* ops.releases implements the ledger, for any operators and any faults.
THEOREM TableIsALedger == Spec => IsALedger
  <1>1. Init => Ledger!Init
    <2> SUFFICES ASSUME Init PROVE Ledger!Init
      OBVIOUS
    <2>1. /\ RowsIn(status, {"current"}) = {} /\ RowsIn(status, {"previous"}) = {}
          /\ RowsInService = {}
      BY DEF Init, RowsIn, RowsInService
    <2>2. sha \in [Row -> Shas \cup {NoSha}]
      BY DEF Init
    <2> QED
      BY <2>1, <2>2 DEF Ledger!Init, Current, TrackedPrevious, First
  <1>2. Inv /\ Inv' /\ [Next]_vars => [Ledger!Next]_(Ledger!ledger)
    <2> SUFFICES ASSUME Inv, Inv', [Next]_vars PROVE [Ledger!Next]_(Ledger!ledger)
      OBVIOUS
    <2>1. CASE /\ Quiet(status, status')
               /\ \A x \in RowsInService : sha'[x] = sha[x]
      <3>1. /\ Current(status') = Current(status)
            /\ TrackedPrevious(status') = TrackedPrevious(status)
            /\ RowsInService' = RowsInService
            /\ sha' \in [Row -> Shas \cup {NoSha}]
        BY <2>1, QuietTable DEF Inv, TypeOK, RowsInService
      <3>2. Ledger!Attempt
        BY <2>1, <3>1 DEF Ledger!Attempt
      <3> QED
        BY <3>2 DEF Ledger!Next
    <2> QED
      BY <2>1, TableSteps, DeployStepIsForward, RollbackStepIsBack
  <1> QED
    BY <1>1, <1>2, Invariant, PTL DEF Spec, IsALedger, Ledger!Spec

-----------------------------------------------------------------------------
(* Migrations: the schema never falls behind a release that was in service. *)

\* A deploy that has migrated has its release's migrations applied.
Migrated(p) ==
    op[p].phase = "deploy"
    /\ op[p].pc \in {"probe", "repoint", "verify", "promote", "commit"}
        => HeadOf[op[p].dest] <= schema

SchemaInv ==
    /\ ServedIsMigrated
    /\ \A r \in RowsInService : sha[r] \in Shas
    /\ \A p \in Operators : Migrated(p)

\* Only a migration changes the schema, and never backwards.
LEMMA SchemaGrows ==
    ASSUME Inv, [Next]_vars
    PROVE  schema \in Nat /\ schema' \in Nat /\ schema <= schema'
  <1>1. schema \in Nat
    BY DEF Inv, TypeOK
  <1>2. CASE UNCHANGED vars
    BY <1>1, <1>2 DEF vars
  <1>3. ASSUME NEW p \in Operators, Migrate(p)
        PROVE  schema' \in Nat /\ schema <= schema'
    <2>1. HeadOf[op[p].dest] \in Nat
      BY <1>3, HeadAssumption DEF Migrate, InDeploy, Inv, Phases, OwnRows
    <2> QED
      BY <1>1, <1>3, <2>1 DEF Migrate
  <1>4. CASE Next /\ \A p \in Operators : ~Migrate(p)
    <2>1. UNCHANGED schema
      BY <1>4 DEF Next, Step, StartDeploy, StartRollback, Insert, Probe, Repoint,
                  Verify, Revert, RecordFailure, LockForDeploy, LockForRollback,
                  CommitDeploy, CommitRollback, SelectLatest, SelectTarget,
                  SelectExpected, DatabaseError, Kill
    <2> QED
      BY <1>1, <2>1
  <1> QED
    BY <1>1, <1>2, <1>3, <1>4

\* A deploy reaches the probe through its migration only.
LEMMA MigratedStep ==
    ASSUME Inv, [Next]_vars, NEW p \in Operators, Migrated(p)
    PROVE  Migrated(p)'
  <1> DEFINE Past == {"probe", "repoint", "verify", "promote", "commit"}
  <1>1. SUFFICES ASSUME op'[p].phase = "deploy", op'[p].pc \in Past
                 PROVE  HeadOf[op'[p].dest] <= schema'
    BY DEF Migrated
  <1>2. op \in [Operators -> Command]
    BY DEF Inv, TypeOK
  <1>6. /\ \A how : ~End(p, how)
        /\ \A where : Goto(p, where) =>
              /\ op'[p].pc = where /\ op'[p].phase = op[p].phase
              /\ op'[p].dest = op[p].dest
    BY <1>1, <1>2 DEF End, Ended, Goto, Command
  <1>3. ASSUME op[p].phase = "deploy", op[p].pc \in Past,
               op'[p].dest = op[p].dest
        PROVE  HeadOf[op'[p].dest] <= schema'
    <2>1. HeadOf[op[p].dest] \in Nat
      BY <1>3, HeadAssumption DEF InDeploy, Inv, OwnRows
    <2>2. HeadOf[op[p].dest] <= schema
      BY <1>3 DEF Migrated
    <2> QED
      BY <1>3, <2>1, <2>2, SchemaGrows
  <1>4. CASE UNCHANGED op
    BY <1>1, <1>3, <1>4
  <1>5. CASE Next
    <2>1. PICK q \in Operators :
            \/ \E s \in Shas, new \in Row : StartDeploy(q, s, new)
            \/ StartRollback(q)
            \/ Step(q)
            \/ DatabaseError(q)
            \/ Kill(q)
      BY <1>5 DEF Next
    <2>2. CASE q # p
      <3>1. op'[p] = op[p]
        BY <1>2, <2>1, <2>2
           DEF Step, StartDeploy, StartRollback, Insert, Migrate, Probe, Repoint,
               Verify, Revert, RecordFailure, LockForDeploy, LockForRollback, Unwind,
               CommitDeploy, CommitRollback, SelectLatest, SelectTarget,
               SelectExpected, DatabaseError, Kill, Goto, End
      <3> QED
        BY <1>1, <1>3, <3>1
    <2>3. CASE q = p /\ Migrate(p)
      <3>1. HeadOf[op[p].dest] \in Nat
        BY <2>3, HeadAssumption DEF Migrate, InDeploy, Inv, Phases, OwnRows
      <3>2. op'[p].dest = op[p].dest /\ schema' = HeadOf[op[p].dest]
        BY <1>6, <2>3 DEF Migrate
      <3> QED
        BY <3>1, <3>2
    <2>4. CASE q = p /\ (Repoint(p) \/ Verify(p) \/ Revert(p) \/ RecordFailure(p))
      BY <1>1, <1>3, <1>6, <2>4
         DEF Repoint, Verify, Revert, RecordFailure, Unwind, IsDeploy
    <2>5. CASE q = p /\ (Probe(p) \/ LockForDeploy(p) \/ LockForRollback(p))
      <3>1. CASE op'[p].dest = op[p].dest /\ op'[p].phase = op[p].phase
        BY <1>1, <1>3, <2>5, <3>1 DEF Probe, LockForDeploy, LockForRollback
      <3>2. CASE ~(op'[p].dest = op[p].dest /\ op'[p].phase = op[p].phase)
        BY <1>2, <1>6, <2>5, <3>2
           DEF Probe, LockForDeploy, LockForRollback, Command
      <3> QED
        BY <3>1, <3>2
    <2>6. CASE q = p /\ (CommitDeploy(p) \/ CommitRollback(p)
                          \/ DatabaseError(p) \/ Kill(p))
      BY <1>6, <2>6 DEF CommitDeploy, CommitRollback, DatabaseError, Kill
    <2>7. CASE q = p /\ (SelectLatest(p) \/ SelectTarget(p) \/ SelectExpected(p))
      <3>1. CASE SelectLatest(p)
        BY <1>1, <1>2, <3>1 DEF SelectLatest, Command
      <3>2. CASE SelectTarget(p)
        <4> DEFINE t == GetPrevious(status, replaces, op[p].pc = "same")
                   d == [op[p] EXCEPT !.pc = "expect", !.dest = sha[t], !.tgt = t]
        <4>1. op' = [op EXCEPT ![p] = d]
          BY <1>6, <3>2 DEF SelectTarget
        <4>2. op'[p] = d
          BY <1>2, <4>1
        <4>3. d.pc = "expect"
          BY <1>2 DEF Command
        <4> QED
          BY <1>1, <4>2, <4>3
      <3>3. CASE SelectExpected(p)
        <4>1. op[p].phase = "rollback"
          BY <3>3 DEF SelectExpected, Inv, Phases
        <4> QED
          BY <1>1, <1>2, <3>3, <4>1 DEF SelectExpected, Command
      <3> QED
        BY <2>7, <3>1, <3>2, <3>3
    <2>8. CASE q = p /\ \E oldest \in Row : Insert(p, oldest)
      BY <1>1, <1>2, <2>8 DEF Insert, Command
    <2>9. CASE q = p /\ (StartRollback(p)
                          \/ \E s \in Shas, new \in Row : StartDeploy(p, s, new))
      <3>1. CASE StartRollback(p)
        <4> DEFINE d == [Ended("running") EXCEPT !.pc = "resolve", !.phase = "rollback"]
        <4>1. d.pc = "resolve"
          BY DEF Ended
        <4>2. op' = [op EXCEPT ![p] = d]
          BY <3>1 DEF StartRollback
        <4> HIDE DEF d
        <4>3. op'[p] = d
          BY <1>2, <4>2
        <4> QED
          BY <1>1, <4>1, <4>3
      <3>2. ASSUME NEW s \in Shas, NEW new \in Row, StartDeploy(p, s, new)
            PROVE  FALSE
        <4> DEFINE d == [Ended("running") EXCEPT !.pc = "start", !.row = new,
                                                 !.dest = s, !.cur = Current(status)]
        <4>1. d.pc = "start"
          BY DEF Ended
        <4>2. op' = [op EXCEPT ![p] = d]
          BY <3>2 DEF StartDeploy
        <4> HIDE DEF d
        <4>3. op'[p] = d
          BY <1>2, <4>2
        <4> QED
          BY <1>1, <4>1, <4>3
      <3> QED
        BY <2>9, <3>1, <3>2
    <2> QED
      BY <2>1, <2>2, <2>3, <2>4, <2>5, <2>6, <2>7, <2>8, <2>9 DEF Step
  <1> QED
    BY <1>4, <1>5 DEF vars

\* The rows in service grow by the row of a deploy that has migrated.
LEMMA SchemaStep == Inv /\ Inv' /\ SchemaInv /\ [Next]_vars => SchemaInv'
  <1> SUFFICES ASSUME Inv, Inv', SchemaInv, [Next]_vars PROVE SchemaInv'
    OBVIOUS
  <1>1. schema \in Nat /\ schema' \in Nat /\ schema <= schema'
    BY SchemaGrows
  <1>2. \A p \in Operators : Migrated(p)'
    BY MigratedStep DEF SchemaInv
  <1>3. \A r \in RowsInService : sha[r] \in Shas /\ HeadOf[sha[r]] <= schema'
    <2>1. \A r \in RowsInService :
             /\ sha[r] \in Shas /\ HeadOf[sha[r]] \in Nat
             /\ HeadOf[sha[r]] <= schema
      BY HeadAssumption DEF SchemaInv, ServedIsMigrated, RowsInService
    <2> QED
      BY <1>1, <2>1
  <1>4. SUFFICES \A r \in RowsInService' :
                    sha'[r] \in Shas /\ HeadOf[sha'[r]] <= schema'
    BY <1>2 DEF SchemaInv, ServedIsMigrated, RowsInService
  <1>5. CASE /\ Quiet(status, status')
             /\ \A x \in RowsInService : sha'[x] = sha[x]
    <2>1. RowsInService' = RowsInService
      BY <1>5, QuietTable DEF Inv, TypeOK, RowsInService
    <2> QED
      BY <1>3, <1>5, <2>1
  <1>6. ASSUME NEW p \in Operators, CommitDeploy(p)
        PROVE  \A r \in RowsInService' :
                    sha'[r] \in Shas /\ HeadOf[sha'[r]] <= schema'
    <2> DEFINE new == op[p].row
    <2>1. /\ UNCHANGED <<sha, schema>> /\ InDeploy(p)
          /\ op[p].pc = "commit" /\ op[p].phase = "deploy"
      BY <1>6 DEF CommitDeploy, IsDeploy, InDeploy
    <2>2. sha[new] \in Shas /\ HeadOf[sha[new]] <= schema
      BY <2>1 DEF Inv, OwnRows, SchemaInv, Migrated
    <2>3. RowsInService' \subseteq RowsInService \cup {new}
      <3>1. /\ op[p].cur = Current(status) /\ op[p].tgt = TrackedPrevious(status)
            /\ status \in [Row -> Status]
        BY <2>1 DEF Inv, LockHolder, TypeOK
      <3>2. \A r \in Row : r # new /\ status'[r] # status[r]
                              => r \in RowsInService
        BY <1>6, <3>1, TableFacts
           DEF CommitDeploy, MarkHealthy, RowsInService, RowsIn
      <3> QED
        BY <3>2 DEF RowsInService, RowsIn
    <2> QED
      BY <1>3, <2>1, <2>2, <2>3
  <1>7. ASSUME NEW p \in Operators, CommitRollback(p)
        PROVE  \A r \in RowsInService' :
                    sha'[r] \in Shas /\ HeadOf[sha'[r]] <= schema'
    <2>1. /\ UNCHANGED <<sha, schema>>
          /\ op[p].tgt \in RowsInService /\ op[p].cur \in RowsInService
          /\ status' = Rollback(status, op[p].tgt, op[p].cur)
          /\ status \in [Row -> Status]
      BY <1>7 DEF CommitRollback, IsDeploy, Inv, Targets, HasTarget, Resolved, TypeOK,
                  Command
    <2>2. RowsInService' \subseteq RowsInService
      BY <2>1 DEF Rollback, RowsInService, RowsIn
    <2> QED
      BY <1>3, <2>1, <2>2
  <1> QED
    BY <1>5, <1>6, <1>7, TableSteps

\* Every release that is or was in service has its migrations applied, for
\* any operators, any faults and any chain of migrations.
THEOREM MigrationsBeforeService == Spec => []ServedIsMigrated
  <1>1. Init => SchemaInv
    BY DEF Init, SchemaInv, ServedIsMigrated, RowsInService, RowsIn, Migrated, Ended
  <1>2. SchemaInv => ServedIsMigrated
    BY DEF SchemaInv
  <1> QED
    BY <1>1, <1>2, SchemaStep, Invariant, PTL DEF Spec
=============================================================================
