-------------------------- MODULE DeploySoleProofs --------------------------
(***************************************************************************)
(* Proofs about Deploy with one operator, for any releases and table size: *)
(* what a command leaves behind, whatever became of the commands before.   *)
(***************************************************************************)
EXTENDS DeployProofs

IsSole == \A p, q \in Operators : p = q

\* The tracked previous release is another one than the current, and was
\* deployed before it.
Ordered ==
    \A r, s \in Row : status[r] = "previous" /\ status[s] = "current"
                        => r < s /\ sha[r] # sha[s]

\* What a command has found out holds until it ends, since no other moves
\* the symlink or the table.
Holds(p) ==
    /\ op[p].pc # "idle" => op[p].exit = "running"
    /\ op[p].pc = "idle" => op[p].phase = "deploy"
    /\ op[p].exit = "ok" => link = CurrentSha
    /\ op[p].pc \in {"promote", "commit"} => link = op[p].dest
    /\ HasTarget(p) =>
          /\ op[p].tgt \in Row /\ op[p].dest = sha[op[p].tgt]
          /\ op[p].tgt \in {Current(status), TrackedPrevious(status)}
          /\ op[p].row # NoRow => op[p].tgt = Current(status)
    /\ Resolved(p) => op[p].cur = Current(status)
    /\ InDeploy(p) => \A r \in Inserted(status) : r <= op[p].row
    /\ InDeploy(p) /\ op[p].pc \in {"revert", "resolve"}
          => status[op[p].row] = "failed"
    /\ op[p].phase = "rollback" /\ op[p].pc \in {"resolve", "back"}
          => op[p].row = NoRow

SoleInv == Ordered /\ \A p \in Operators : Holds(p)
-----------------------------------------------------------------------------
(* Data.                                                                   *)

\* What a command is after a jump, and after its end.
LEMMA GotoIs ==
    ASSUME Inv, NEW p \in Operators, NEW where, Goto(p, where)
    PROVE  /\ op'[p].pc = where /\ op'[p].phase = op[p].phase
           /\ op'[p].row = op[p].row /\ op'[p].dest = op[p].dest
           /\ op'[p].cur = op[p].cur /\ op'[p].tgt = op[p].tgt
           /\ op'[p].prev = op[p].prev /\ op'[p].exit = op[p].exit
  BY DEF Inv, TypeOK, Goto, Command

\* An ended command has no row and no phase of its own.
LEMMA EndIs ==
    ASSUME Inv, NEW p \in Operators, NEW how, End(p, how)
    PROVE  /\ op'[p].pc = "idle" /\ op'[p].phase = "deploy"
           /\ op'[p].row = NoRow /\ op'[p].exit = how
  BY DEF Inv, TypeOK, End, Ended

\* A step that puts no row in service changes neither the release in service
\* nor the order of the two that count.
LEMMA QuietKeeps ==
    ASSUME Inv, Inv', Quiet(status, status'),
           \A r \in Row : status[r] # "absent" => sha'[r] = sha[r]
    PROVE  /\ CurrentSha' = CurrentSha
           /\ Current(status') = Current(status)
           /\ TrackedPrevious(status') = TrackedPrevious(status)
           /\ Ordered => Ordered'
  <1>1. /\ status \in [Row -> Status] /\ status' \in [Row -> Status]
    BY DEF Inv, TypeOK
  <1>2. /\ Current(status') = Current(status)
        /\ TrackedPrevious(status') = TrackedPrevious(status)
        /\ \A r \in Row : status'[r] = "current" <=> status[r] = "current"
        /\ \A r \in Row : status'[r] = "previous" <=> status[r] = "previous"
    BY <1>1, QuietTable
  <1>3. Current(status) # NoRow => /\ Current(status) \in Row
                                   /\ status[Current(status)] = "current"
    BY TableFacts
  <1>4. CurrentSha' = CurrentSha
    BY <1>2, <1>3 DEF CurrentSha, ShaOf
  <1>5. Ordered => Ordered'
    <2>1. \A r \in Row : status'[r] \in {"current", "previous"} => sha'[r] = sha[r]
      BY <1>2
    <2> QED
      BY <1>2, <2>1 DEF Ordered
  <1> QED
    BY <1>2, <1>4, <1>5
-----------------------------------------------------------------------------
(* One operator alone: each action keeps what the command relies on.       *)

\* A command that ends without success leaves nothing to rely on.
LEMMA EndKeeps ==
    ASSUME Inv, Inv', SoleInv, NEW p \in Operators, NEW how,
           End(p, how), how # "ok",
           Quiet(status, status'), UNCHANGED sha
    PROVE  Ordered' /\ Holds(p)'
  <1>1. Ordered'
    BY QuietKeeps DEF SoleInv
  <1>2. op'[p].pc = "idle" /\ op'[p].phase = "deploy" /\ op'[p].exit # "ok"
    BY EndIs
  <1>3. Holds(p)'
    BY <1>2 DEF Holds, InDeploy, HasTarget, Resolved
  <1> QED
    BY <1>1, <1>3

\* A command that goes on in the same phase with the rows it has.
LEMMA GoingOnKeeps ==
    ASSUME Inv, Inv', SoleInv, NEW p \in Operators, op[p].pc # "idle",
           op'[p].pc # "idle", op'[p].phase = op[p].phase,
           op'[p].row = op[p].row, op'[p].dest = op[p].dest,
           op'[p].exit = op[p].exit,
           op[p].phase = "rollback" =>
                /\ op'[p].cur = op[p].cur /\ op'[p].tgt = op[p].tgt
                /\ Resolved(p) /\ Resolved(p)',
           op'[p].pc \in {"promote", "commit"} => link' = op[p].dest,
           InDeploy(p) /\ op'[p].pc \in {"revert", "resolve"}
                => status'[op[p].row] = "failed",
           Quiet(status, status'), Inserted(status') = Inserted(status),
           UNCHANGED sha
    PROVE  Ordered' /\ Holds(p)'
  <1>1. /\ Ordered'
        /\ Current(status') = Current(status)
        /\ TrackedPrevious(status') = TrackedPrevious(status)
    BY QuietKeeps DEF SoleInv
  <1>2. Holds(p)
    BY DEF SoleInv
  <1>3. op'[p].exit = "running"
    BY <1>2 DEF Holds
  <1>4. HasTarget(p)' =>
          /\ op'[p].tgt \in Row /\ op'[p].dest = sha'[op'[p].tgt]
          /\ op'[p].tgt \in {Current(status'), TrackedPrevious(status')}
          /\ op'[p].row # NoRow => op'[p].tgt = Current(status')
          /\ op'[p].cur = Current(status')
    BY <1>1, <1>2 DEF Holds, HasTarget, Resolved
  <1>5. InDeploy(p)' => \A r \in Inserted(status') : r <= op'[p].row
    BY <1>2 DEF Holds, InDeploy
  <1>6. InDeploy(p)' /\ op'[p].pc \in {"revert", "resolve"}
          => status'[op'[p].row] = "failed"
    BY DEF InDeploy
  <1>7. op'[p].phase = "rollback" => op'[p].pc \notin {"resolve", "back"}
    BY DEF Resolved, HasTarget
  <1>8. Holds(p)'
    BY <1>3, <1>4, <1>5, <1>6, <1>7 DEF Holds, Resolved
  <1> QED
    BY <1>1, <1>8

\* A deploy that marks its own row failed inserts no row.
LEMMA MarkingInsertsNothing ==
    ASSUME Inv, NEW p \in Operators, InDeploy(p), op[p].pc # "start"
    PROVE  /\ Quiet(status, MarkFailed(status, op[p].row))
           /\ Inserted(MarkFailed(status, op[p].row)) = Inserted(status)
           /\ MarkFailed(status, op[p].row)[op[p].row] = "failed"
  <1>1. /\ status \in [Row -> Status] /\ op[p].row \in Row
        /\ status[op[p].row] \in {"pending", "failed"}
    BY DEF Inv, TypeOK, OwnRows
  <1>2. \A r \in Row : MarkFailed(status, op[p].row)[r]
                          = IF r = op[p].row THEN "failed" ELSE status[r]
    BY <1>1 DEF MarkFailed
  <1>3. Quiet(status, MarkFailed(status, op[p].row))
    BY QuietTables DEF Calm, Quiet, Untried
  <1> QED
    BY <1>1, <1>2, <1>3 DEF Inserted, RowsIn, Status

\* The steps on the host, and the record of a failure.
LEMMA HostKeeps ==
    ASSUME Inv, Inv', SoleInv, NEW p \in Operators,
           \/ Migrate(p) \/ Probe(p) \/ Repoint(p) \/ Verify(p) \/ Revert(p)
           \/ RecordFailure(p) \/ DatabaseError(p) \/ Kill(p)
    PROVE  Ordered' /\ Holds(p)'
  <1>0. /\ op[p].pc # "idle" /\ UNCHANGED sha /\ Quiet(status, status)
        /\ op \in [Operators -> Command] /\ Holds(p)
        /\ op[p].pc \in {"migrate", "reject", "fail"} => op[p].phase = "deploy"
        /\ op[p].phase \in {"deploy", "rollback"}
    BY DEF Migrate, Probe, Repoint, Verify, Revert, RecordFailure, DatabaseError,
           Kill, Inv, TypeOK, Phases, Command, SoleInv, Quiet
  <1>1. CASE Migrate(p)
    <2>0. InDeploy(p) /\ op[p].pc = "migrate"
      BY <1>0, <1>1 DEF Migrate, InDeploy
    <2>1. CASE Goto(p, "probe") /\ UNCHANGED status
      BY <1>0, <2>0, <2>1, GotoIs, GoingOnKeeps DEF InDeploy
    <2>2. CASE status' = MarkFailed(status, op[p].row) /\ End(p, "exit1")
      BY <1>0, <2>0, <2>2, MarkingInsertsNothing, EndKeeps
    <2> QED
      BY <1>1, <2>1, <2>2 DEF Migrate
  <1>2. CASE Probe(p)
    <2>0. UNCHANGED status /\ op[p].pc = "probe"
      BY <1>2 DEF Probe
    <2>1. CASE op' = [op EXCEPT ![p].pc = "repoint", ![p].prev = link]
      <3>1. /\ op'[p].pc = "repoint" /\ op'[p].phase = op[p].phase
            /\ op'[p].row = op[p].row /\ op'[p].dest = op[p].dest
            /\ op'[p].cur = op[p].cur /\ op'[p].tgt = op[p].tgt
            /\ op'[p].exit = op[p].exit
        BY <1>0, <2>1 DEF Command
      <3> QED
        BY <1>0, <2>0, <3>1, GoingOnKeeps DEF Resolved, HasTarget
    <2>2. CASE Goto(p, "reject") /\ IsDeploy(p)
      BY <1>0, <2>0, <2>2, GotoIs, GoingOnKeeps DEF IsDeploy
    <2>3. CASE End(p, "exit1")
      BY <1>0, <2>0, <2>3, EndKeeps
    <2> QED
      BY <1>2, <2>1, <2>2, <2>3 DEF Probe
  <1>3. CASE Repoint(p)
    <2>0. UNCHANGED status /\ op[p].pc = "repoint"
      BY <1>3 DEF Repoint
    <2>1. PICK where \in {"verify", "fail", "revert"} :
            Goto(p, where) /\ (where = "revert" => ~IsDeploy(p))
      BY <1>3 DEF Repoint, Unwind
    <2> QED
      BY <1>0, <2>0, <2>1, GotoIs, GoingOnKeeps
         DEF IsDeploy, InDeploy, Resolved, HasTarget
  <1>4. CASE Verify(p)
    <2>0. UNCHANGED <<status, link>> /\ op[p].pc = "verify"
      BY <1>4 DEF Verify
    <2>1. PICK where \in {"promote", "fail", "revert"} :
            /\ Goto(p, where) /\ (where = "revert" => ~IsDeploy(p))
            /\ where = "promote" => link = op[p].dest
      BY <1>4 DEF Verify, Unwind
    <2> QED
      BY <1>0, <2>0, <2>1, GotoIs, GoingOnKeeps
         DEF IsDeploy, InDeploy, Resolved, HasTarget
  <1>5. CASE Revert(p)
    <2>0. UNCHANGED status /\ op[p].pc = "revert"
      BY <1>5 DEF Revert
    <2>1. CASE Goto(p, "resolve") /\ IsDeploy(p)
      <3>1. status[op[p].row] = "failed"
        BY <1>0, <2>0, <2>1 DEF Holds, InDeploy, IsDeploy
      <3> QED
        BY <1>0, <2>0, <2>1, <3>1, GotoIs, GoingOnKeeps DEF IsDeploy
    <2>2. CASE End(p, "exit1")
      BY <1>0, <2>0, <2>2, EndKeeps
    <2> QED
      BY <1>5, <2>1, <2>2 DEF Revert
  <1>6. CASE RecordFailure(p)
    <2>0. InDeploy(p) /\ op[p].phase = "deploy" /\ op[p].pc # "start"
      BY <1>0, <1>6 DEF RecordFailure, InDeploy
    <2>1. PICK where \in {"revert", "resolve"} : Goto(p, where)
      BY <1>6 DEF RecordFailure
    <2>2. status' = MarkFailed(status, op[p].row)
      BY <1>6 DEF RecordFailure
    <2> QED
      BY <1>0, <2>0, <2>1, <2>2, GotoIs, GoingOnKeeps, MarkingInsertsNothing
  <1>7. CASE DatabaseError(p)
    <2>1. PICK how \in {"exit1", "traceback"} : End(p, how)
      BY <1>7 DEF DatabaseError
    <2> QED
      BY <1>0, <1>7, <2>1, EndKeeps DEF DatabaseError
  <1>8. CASE Kill(p)
    BY <1>0, <1>8, EndKeeps DEF Kill
  <1> QED
    BY <1>1, <1>2, <1>3, <1>4, <1>5, <1>6, <1>7, <1>8

\* A new deploy reserves the row after all others.
LEMMA StartKeeps ==
    ASSUME Inv, Inv', SoleInv, NEW p \in Operators,
           \/ StartRollback(p)
           \/ \E s \in Shas, new \in Row : StartDeploy(p, s, new)
    PROVE  Ordered' /\ Holds(p)'
  <1>0. op \in [Operators -> Command]
    BY DEF Inv, TypeOK
  <1>1. CASE StartRollback(p)
    <2> DEFINE d == [Ended("running") EXCEPT !.pc = "resolve", !.phase = "rollback"]
    <2>1. /\ d.pc = "resolve" /\ d.phase = "rollback" /\ d.row = NoRow
          /\ d.exit = "running"
      BY DEF Ended
    <2>2. op' = [op EXCEPT ![p] = d] /\ UNCHANGED <<status, sha>>
      BY <1>1 DEF StartRollback
    <2> HIDE DEF d
    <2>3. op'[p] = d
      BY <1>0, <2>2
    <2>4. Ordered'
      BY <2>2 DEF SoleInv, Ordered
    <2>5. Holds(p)'
      BY <2>1, <2>3 DEF Holds, InDeploy, HasTarget, Resolved
    <2> QED
      BY <2>4, <2>5
  <1>2. ASSUME NEW s \in Shas, NEW new \in Row, StartDeploy(p, s, new)
        PROVE  Ordered' /\ Holds(p)'
    <2> DEFINE d == [Ended("running") EXCEPT !.pc = "start", !.row = new,
                                             !.dest = s, !.cur = Current(status)]
    <2>1. /\ d.pc = "start" /\ d.phase = "deploy" /\ d.row = new
          /\ d.exit = "running"
      BY DEF Ended
    <2>2. op' = [op EXCEPT ![p] = d] /\ UNCHANGED <<status, sha>>
      BY <1>2 DEF StartDeploy
    <2> HIDE DEF d
    <2>3. op'[p] = d
      BY <1>0, <2>2
    <2>4. Ordered'
      BY <2>2 DEF SoleInv, Ordered
    <2>5. \A r \in Inserted(status') : r <= new
      <3>1. \A r \in Inserted(status) : r < new
        BY <1>2 DEF StartDeploy, IsNextKey
      <3>2. new \in Nat /\ \A r \in Inserted(status) : r \in Nat
        BY MaxDeploysAssumption DEF Row, Inserted, RowsIn
      <3> QED
        BY <2>2, <3>1, <3>2
    <2>6. Holds(p)'
      BY <2>1, <2>3, <2>5 DEF Holds, InDeploy, HasTarget, Resolved
    <2> QED
      BY <2>4, <2>6
  <1> QED
    BY <1>1, <1>2

\* The row inserted is the latest.
LEMMA InsertKeeps ==
    ASSUME Inv, Inv', SoleInv, NEW p \in Operators, NEW oldest \in Row,
           Insert(p, oldest)
    PROVE  Ordered' /\ Holds(p)'
  <1> DEFINE new == op[p].row
             d == [op[p] EXCEPT !.pc = "migrate", !.cur = NoRow]
  <1>1. /\ InDeploy(p) /\ new \in Row /\ status[new] = "absent"
        /\ \A x \in Row : status'[x] =
              IF x = new THEN "pending"
              ELSE IF x < oldest /\ status[x] = "pending" THEN "failed" ELSE status[x]
        /\ Quiet(status, status')
        /\ \A x \in Row : x # new => sha'[x] = sha[x]
    BY InsertedRow
  <1>2. /\ op[p].pc = "start" /\ op \in [Operators -> Command] /\ Holds(p)
        /\ op[p].phase = "deploy"
    BY <1>1 DEF Insert, Inv, TypeOK, SoleInv, InDeploy
  <1>3. /\ op'[p] = d /\ d.pc = "migrate" /\ d.phase = "deploy" /\ d.row = new
        /\ d.exit = "running"
    BY <1>2 DEF Insert, Command, Holds
  <1> HIDE DEF d
  <1>4. Ordered'
    BY <1>1, QuietKeeps DEF SoleInv
  <1>5. \A r \in Inserted(status') : r <= new
    <2>1. \A r \in Inserted(status') : r \in Inserted(status) \/ r = new
      BY <1>1 DEF Inserted, RowsIn, Status
    <2>2. new <= new
      BY <1>1, MaxDeploysAssumption DEF Row
    <2> QED
      BY <1>1, <1>2, <2>1, <2>2 DEF Holds
  <1>6. Holds(p)'
    BY <1>3, <1>5 DEF Holds, InDeploy, HasTarget, Resolved
  <1> QED
    BY <1>4, <1>6

\* The queries of a resolution.  After its own failure a deploy finds its own
\* row to be the latest, so it is the release in service that it goes back to.
LEMMA SelectKeeps ==
    ASSUME Inv, Inv', SoleInv, NEW p \in Operators,
           SelectLatest(p) \/ SelectTarget(p) \/ SelectExpected(p)
    PROVE  Ordered' /\ Holds(p)'
  <1>0. /\ UNCHANGED <<status, sha>> /\ op[p].pc # "idle"
        /\ op \in [Operators -> Command] /\ Quiet(status, status) /\ Holds(p)
        /\ op[p].exit = "running"
    BY DEF SelectLatest, SelectTarget, SelectExpected, Inv, TypeOK, SoleInv, Quiet,
           Holds
  <1>1. Ordered'
    BY <1>0 DEF SoleInv, Ordered
  <1>2. CASE SelectLatest(p)
    <2>1. /\ op'[p].pc = IF LatestUnresolved(status) THEN "same" ELSE "back"
          /\ op'[p].phase = "rollback" /\ op'[p].row = op[p].row
          /\ op'[p].exit = "running"
      BY <1>0, <1>2 DEF SelectLatest, Command
    <2>2. op[p].row # NoRow => LatestUnresolved(status)
      <3>1. SUFFICES ASSUME op[p].row # NoRow PROVE LatestUnresolved(status)
        OBVIOUS
      <3>2. InDeploy(p) /\ op[p].pc = "resolve"
        BY <1>0, <1>2, <3>1 DEF SelectLatest, Holds, InDeploy, Command
      <3>3. /\ op[p].row \in Inserted(status) /\ op[p].row \in Row
            /\ status[op[p].row] = "failed"
            /\ \A r \in Inserted(status) : r <= op[p].row
        BY <1>0, <3>2 DEF Holds, Inserted, RowsIn, Inv, OwnRows, Status
      <3>4. First(Inserted(status)) = op[p].row
        <4>1. \A r, s \in Row : r <= s /\ s <= r => r = s
          BY MaxDeploysAssumption DEF Row
        <4>2. Inserted(status) \subseteq Row
          BY DEF Inserted, RowsIn
        <4>3. /\ First(Inserted(status)) \in Inserted(status)
              /\ \A s \in Inserted(status) : s <= First(Inserted(status))
          BY <3>3, Zenon DEF First
        <4> QED
          BY <3>3, <4>1, <4>2, <4>3
      <3> QED
        BY <3>1, <3>3, <3>4 DEF LatestUnresolved
    <2> QED
      BY <1>1, <2>1, <2>2 DEF Holds, InDeploy, HasTarget, Resolved
  <1>3. CASE SelectTarget(p)
    <2> DEFINE t == GetPrevious(status, replaces, op[p].pc = "same")
    <2>1. CASE End(p, "exit1")
      BY <1>0, <2>1, EndKeeps
    <2>2. CASE t # NoRow /\ op' = [op EXCEPT ![p] = [@ EXCEPT
                                !.pc = "expect", !.dest = sha[t], !.tgt = t]]
      <3>1. t \in {Current(status), TrackedPrevious(status)}
        BY <2>2, Zenon DEF GetPrevious
      <3>2. op[p].phase = "rollback" /\ op[p].pc \in {"same", "back"}
        BY <1>3 DEF SelectTarget, Inv, Phases
      <3>3. op[p].row # NoRow => t = Current(status)
        <4>1. op[p].row # NoRow => op[p].pc = "same"
          BY <1>0, <3>2 DEF Holds
        <4> QED
          BY <2>2, <4>1 DEF GetPrevious
      <3> HIDE DEF t
      <3>4. /\ op'[p].pc = "expect" /\ op'[p].phase = "rollback"
            /\ op'[p].dest = sha[t] /\ op'[p].tgt = t /\ op'[p].row = op[p].row
            /\ op'[p].exit = "running"
        BY <1>0, <2>2, <3>2 DEF Command
      <3>5. t \in Row
        BY <2>2, <3>1, TableFacts
      <3>6. Current(status') = Current(status)
            /\ TrackedPrevious(status') = TrackedPrevious(status) /\ sha' = sha
        BY <1>0
      <3> QED
        BY <1>1, <3>1, <3>3, <3>4, <3>5, <3>6
           DEF Holds, InDeploy, HasTarget, Resolved
    <2> QED
      BY <1>3, <2>1, <2>2 DEF SelectTarget
  <1>4. CASE SelectExpected(p)
    <2>1. op[p].phase = "rollback" /\ op[p].pc = "expect"
      BY <1>4 DEF SelectExpected, Inv, Phases
    <2>2. /\ op'[p].pc = "probe" /\ op'[p].phase = "rollback"
          /\ op'[p].dest = op[p].dest /\ op'[p].tgt = op[p].tgt
          /\ op'[p].row = op[p].row /\ op'[p].exit = "running"
          /\ op'[p].cur = Current(status)
      BY <1>0, <1>4, <2>1 DEF SelectExpected, Command
    <2>3. /\ op[p].tgt \in Row /\ op[p].dest = sha[op[p].tgt]
          /\ op[p].tgt \in {Current(status), TrackedPrevious(status)}
          /\ op[p].row # NoRow => op[p].tgt = Current(status)
      BY <1>0, <2>1 DEF Holds, HasTarget
    <2>4. Current(status') = Current(status)
          /\ TrackedPrevious(status') = TrackedPrevious(status) /\ sha' = sha
      BY <1>0
    <2> QED
      BY <1>1, <2>2, <2>3, <2>4 DEF Holds, InDeploy, HasTarget, Resolved
  <1> QED
    BY <1>2, <1>3, <1>4

\* The lock is free for who is alone, and the current row is where it was.
LEMMA LockKeeps ==
    ASSUME Inv, Inv', SoleInv, IsSole, NEW p \in Operators,
           LockForDeploy(p) \/ LockForRollback(p)
    PROVE  Ordered' /\ Holds(p)' /\ op'[p].pc = "commit"
  <1>0. /\ op[p].pc = "promote" /\ UNCHANGED <<sha, link>>
        /\ op \in [Operators -> Command] /\ op[p].phase \in {"deploy", "rollback"}
        /\ Quiet(status, status) /\ Holds(p)
        /\ LockFree
    BY DEF LockForDeploy, LockForRollback, Inv, TypeOK, Command, SoleInv, IsSole,
           LockFree, Quiet
  <1>1. CASE LockForDeploy(p)
    <2>1. /\ op' = [op EXCEPT ![p].pc = "commit",
                             ![p].cur = Current(status),
                             ![p].tgt = TrackedPrevious(status)]
          /\ UNCHANGED status /\ op[p].phase = "deploy"
      BY <1>0, <1>1 DEF LockForDeploy, IsDeploy
    <2>2. /\ op'[p].pc = "commit" /\ op'[p].phase = op[p].phase
          /\ op'[p].row = op[p].row /\ op'[p].dest = op[p].dest
          /\ op'[p].exit = op[p].exit
      BY <1>0, <2>1 DEF Command
    <2>3. link' = op[p].dest
      BY <1>0 DEF Holds
    <2> QED
      BY <1>0, <2>1, <2>2, <2>3, GoingOnKeeps
  <1>2. CASE LockForRollback(p)
    <2>0. Resolved(p) /\ op[p].phase = "rollback"
      BY <1>0, <1>2 DEF LockForRollback, IsDeploy, HasTarget, Resolved
    <2>1. ~CurrentMoved(p) /\ op[p].cur = Current(status)
      BY <1>0, <2>0 DEF Holds, CurrentMoved
    <2>2. op' = [op EXCEPT ![p].pc = "commit", ![p].cur = Current(status)]
          /\ UNCHANGED status
      BY <1>0, <1>2, <2>1 DEF LockForRollback
    <2>3. /\ op'[p].pc = "commit" /\ op'[p].phase = op[p].phase
          /\ op'[p].row = op[p].row /\ op'[p].dest = op[p].dest
          /\ op'[p].cur = op[p].cur /\ op'[p].tgt = op[p].tgt
          /\ op'[p].exit = op[p].exit
      BY <1>0, <2>1, <2>2 DEF Command
    <2>4. link' = op[p].dest
      BY <1>0 DEF Holds
    <2> QED
      BY <1>0, <2>0, <2>2, <2>3, <2>4, GoingOnKeeps DEF Resolved, HasTarget
  <1> QED
    BY <1>1, <1>2

\* A promotion puts the release that the symlink points at in service.
LEMMA CommitDeployKeeps ==
    ASSUME Inv, Inv', SoleInv, NEW p \in Operators, CommitDeploy(p)
    PROVE  Ordered' /\ Holds(p)' /\ op'[p].exit = "ok"
  <1> DEFINE r == op[p].row
             c == Current(status)
             v == TrackedPrevious(status)
  <1>0. /\ op[p].pc = "commit" /\ op[p].phase = "deploy" /\ InDeploy(p)
        /\ op[p].cur = c /\ op[p].tgt = v
        /\ UNCHANGED <<sha, link>>
        /\ status \in [Row -> Status] /\ Holds(p)
    BY DEF CommitDeploy, IsDeploy, InDeploy, Inv, LockHolder, TypeOK, SoleInv
  <1>1. /\ r \in Row /\ status[r] \in {"pending", "failed"}
        /\ sha[r] = op[p].dest /\ r \in Inserted(status)
    BY <1>0 DEF Inv, OwnRows, Inserted, RowsIn, Status
  <1>2. /\ c \in Row \cup {NoRow} /\ v \in Row \cup {NoRow} /\ NoRow \notin Row
        /\ \A x \in Row : status[x] = "current" <=> x = c
        /\ \A x \in Row : status[x] = "previous" <=> x = v
    BY TableFacts
  <1>3. ~DemotionClashes(sha, r, c, v)
    <2>1. c # NoRow /\ v # NoRow => v < c
      BY <1>2 DEF SoleInv, Ordered
    <2>2. \A x, y \in Row : x < y => ~(y < x)
      BY MaxDeploysAssumption DEF Row
    <2> QED
      BY <1>2, <2>1, <2>2 DEF DemotionClashes
  <1>4. status' = MarkHealthy(status, sha, r, c, v) /\ End(p, "ok")
    BY <1>0, <1>3 DEF CommitDeploy
  <1>5. /\ status' \in [Row -> Status]
        /\ \A x \in Row : status'[x] = "current" <=> x = r
        /\ \A x \in Row : status'[x] = "previous" =>
              x = IF SameShaRedeploy(sha, r, c) THEN v ELSE c
        /\ Unique(status')
    BY <1>0, <1>1, <1>4, HealthyTable
  <1>6. Current(status') = r
    BY <1>1, <1>5, CurrentIsTheRow
  <1>7. \A x \in Row : status'[x] = "previous"
                          => (x = c \/ x = v) /\ sha[x] # sha[r]
    <2>1. CASE SameShaRedeploy(sha, r, c)
      <3>1. c \in Row /\ sha[c] = sha[r]
        BY <1>2, <2>1 DEF SameShaRedeploy
      <3> QED
        BY <1>2, <1>5, <2>1, <3>1 DEF SoleInv, Ordered
    <2>2. CASE ~SameShaRedeploy(sha, r, c)
      BY <1>2, <1>5, <2>2 DEF SameShaRedeploy
    <2> QED
      BY <2>1, <2>2
  <1>8. \A x \in Row : x = c \/ x = v => x < r
    <2>1. \A x \in Row : x = c \/ x = v => x \in Inserted(status) /\ x # r
      BY <1>1, <1>2 DEF Inserted, RowsIn, Status
    <2>2. \A x \in Row : x <= r /\ x # r => x < r
      BY <1>1, MaxDeploysAssumption DEF Row
    <2> QED
      BY <1>0, <2>1, <2>2 DEF Holds
  <1>9. Ordered'
    BY <1>0, <1>5, <1>7, <1>8 DEF Ordered
  <1>10. /\ op'[p].pc = "idle" /\ op'[p].phase = "deploy" /\ op'[p].exit = "ok"
    BY <1>4, EndIs
  <1>11. link' = CurrentSha'
    <2>1. r # NoRow
      BY <1>1, <1>2
    <2>2. CurrentSha' = sha[r]
      BY <1>0, <1>6, <2>1 DEF CurrentSha, ShaOf
    <2> QED
      BY <1>0, <1>1, <2>2 DEF Holds
  <1>12. Holds(p)'
    BY <1>10, <1>11 DEF Holds, InDeploy, HasTarget, Resolved
  <1> QED
    BY <1>9, <1>10, <1>12

\* A rollback, too, and the release it goes back to was the tracked previous
\* one or the one in service.
LEMMA CommitRollbackKeeps ==
    ASSUME Inv, Inv', SoleInv, NEW p \in Operators, CommitRollback(p)
    PROVE  /\ Ordered' /\ Holds(p)' /\ op'[p].exit = "ok"
           /\ \A x \in Row : status'[x] = "current"
                                => status[x] \in {"current", "previous"}
  <1> DEFINE t == op[p].tgt
             c == Current(status)
  <1>0. /\ op[p].pc = "commit" /\ op[p].phase = "rollback" /\ HasTarget(p)
        /\ UNCHANGED <<sha, link>> /\ End(p, "ok")
        /\ status' = Rollback(status, t, c)
        /\ status \in [Row -> Status] /\ status' \in [Row -> Status] /\ Holds(p)
        /\ op[p].cur = c
    BY DEF CommitRollback, IsDeploy, HasTarget, Inv, LockHolder, TypeOK, SoleInv,
           Command
  <1>1. /\ t \in Row /\ op[p].dest = sha[t] /\ link = op[p].dest
        /\ t \in {c, TrackedPrevious(status)}
    BY <1>0 DEF Holds
  <1>2. /\ c \in Row \cup {NoRow} /\ NoRow \notin Row
        /\ \A x \in Row : status[x] = "current" <=> x = c
        /\ \A x \in Row : status[x] = "previous" <=> x = TrackedPrevious(status)
    BY TableFacts
  <1>3. status[t] \in {"current", "previous"}
    BY <1>1, <1>2
  <1>4. \A x \in Row : status'[x] = "current" => x = t
    BY <1>0, <1>1, <1>2 DEF Rollback
  <1>5. status'[t] = "current"
    BY <1>0, <1>1, <1>2 DEF Rollback
  <1>6. Unique(status')
    BY DEF Inv, OneOfEach, Unique
  <1>7. Current(status') = t
    BY <1>0, <1>1, <1>5, <1>6, CurrentIsTheRow
  <1>8. Ordered'
    <2>1. CASE c = t
      <3>1. status' = status
        BY <1>0, <2>1 DEF Rollback
      <3> QED
        BY <1>0, <3>1 DEF SoleInv, Ordered
    <2>2. CASE c # t
      <3>1. \A x \in Row : status'[x] # "previous"
        BY <1>0, <1>1, <1>2, <2>2 DEF Rollback
      <3> QED
        BY <3>1 DEF Ordered
    <2> QED
      BY <2>1, <2>2
  <1>9. /\ op'[p].pc = "idle" /\ op'[p].phase = "deploy" /\ op'[p].exit = "ok"
    BY <1>0, EndIs
  <1>10. link' = CurrentSha'
    <2>1. t # NoRow
      BY <1>1, <1>2
    <2>2. CurrentSha' = sha[t]
      BY <1>0, <1>7, <2>1 DEF CurrentSha, ShaOf
    <2> QED
      BY <1>0, <1>1, <2>2
  <1>11. Holds(p)'
    BY <1>9, <1>10 DEF Holds, InDeploy, HasTarget, Resolved
  <1> QED
    BY <1>3, <1>4, <1>8, <1>9, <1>11

-----------------------------------------------------------------------------
(* What one operator may rely on, whatever fails.                          *)

\* Every step keeps SoleInv.
LEMMA SoleStep ==
    IsSole => (Inv /\ Inv' /\ SoleInv /\ [Next]_vars => SoleInv')
  <1> SUFFICES ASSUME IsSole, Inv, Inv', SoleInv, [Next]_vars PROVE SoleInv'
    OBVIOUS
  <1>1. CASE UNCHANGED vars
    BY <1>1 DEF vars, SoleInv, Ordered, Holds, InDeploy, HasTarget, Resolved,
                CurrentSha
  <1>2. CASE Next
    <2>1. PICK p \in Operators :
            \/ \E s \in Shas, new \in Row : StartDeploy(p, s, new)
            \/ StartRollback(p)
            \/ Step(p)
            \/ DatabaseError(p)
            \/ Kill(p)
      BY <1>2 DEF Next
    <2>2. Ordered' /\ Holds(p)'
      BY <2>1, StartKeeps, HostKeeps, InsertKeeps, SelectKeeps, LockKeeps,
         CommitDeployKeeps, CommitRollbackKeeps DEF Step
    <2>3. \A q \in Operators : q = p
      BY DEF IsSole
    <2> QED
      BY <2>2, <2>3 DEF SoleInv
  <1> QED
    BY <1>1, <1>2

\* SoleInv is an invariant when one operator is alone.
LEMMA SoleInvariant == IsSole => (Spec => []SoleInv)
  <1> SUFFICES ASSUME IsSole PROVE Spec => []SoleInv
    OBVIOUS
  <1>1. Init => SoleInv
    <2> SUFFICES ASSUME Init PROVE SoleInv
      OBVIOUS
    <2>1. /\ \A r \in Row : status[r] = "absent"
          /\ \A p \in Operators : op[p] = Ended("none")
      BY DEF Init
    <2> QED
      BY <2>1 DEF SoleInv, Ordered, Holds, InDeploy, HasTarget, Resolved, Ended
  <1>2. Inv /\ Inv' /\ SoleInv /\ [Next]_vars => SoleInv'
    BY SoleStep
  <1> QED
    BY <1>1, <1>2, Invariant, PTL DEF Spec

\* A command of a sole operator that reports success leaves the symlink
\* where the table says, whatever became of the commands before it: killed,
\* cut off from the database, or unable to clean up.
THEOREM SuccessMeansAgreement == IsSole => (Spec => []SuccessAgrees)
  <1> SUFFICES ASSUME IsSole PROVE Spec => []SuccessAgrees
    OBVIOUS
  <1>1. SoleInv => SuccessAgrees
    BY DEF SoleInv, Holds, SuccessAgrees
  <1> QED
    BY <1>1, SoleInvariant, PTL

\* A sole operator's automatic rollback restores the release in service and
\* never skips past it to an older one (get_previous).
THEOREM AutomaticRollbackSkipsNothing ==
    IsSole => (Spec => []AutoRollbackKeepsCurrent)
  <1> SUFFICES ASSUME IsSole PROVE Spec => []AutoRollbackKeepsCurrent
    OBVIOUS
  <1>1. Inv /\ SoleInv => AutoRollbackKeepsCurrent
    <2> SUFFICES ASSUME Inv, SoleInv, NEW p \in Operators,
                        Resolved(p), op[p].row # NoRow
                 PROVE  op[p].tgt = op[p].cur
      BY DEF AutoRollbackKeepsCurrent
    <2> QED
      BY DEF SoleInv, Holds, Resolved
  <1> QED
    BY <1>1, SoleInvariant, Invariant, PTL

\* The release a sole operator could roll back to is never the one in service
\* (QA-5), and there is none without a release in service.
THEOREM PreviousDiffers == IsSole => (Spec => []PreviousIsAnotherRelease)
  <1> SUFFICES ASSUME IsSole PROVE Spec => []PreviousIsAnotherRelease
    OBVIOUS
  <1>1. Inv /\ SoleInv => PreviousIsAnotherRelease
    <2> SUFFICES ASSUME Inv, SoleInv, NEW r \in Row, status[r] = "previous"
                 PROVE  Current(status) # NoRow /\ sha[Current(status)] # sha[r]
      BY DEF PreviousIsAnotherRelease
    <2>1. Current(status) # NoRow
      BY DEF Inv, StaysInService, RowsInService, RowsIn
    <2>2. Current(status) \in Row /\ status[Current(status)] = "current"
      BY <2>1, TableFacts
    <2> QED
      BY <2>1, <2>2 DEF SoleInv, Ordered
  <1> QED
    BY <1>1, SoleInvariant, Invariant, PTL

\* A sole operator's rollback promotes the row tracked as previous or leaves
\* the current one where it is: no failed attempt, and none from further back.
THEOREM OnlyThePreviousComesBack == IsSole => (Spec => RollbackPromotesPrevious)
  <1> SUFFICES ASSUME IsSole PROVE Spec => RollbackPromotesPrevious
    OBVIOUS
  <1> DEFINE Promotes ==
        \A p \in Operators, r \in Row :
            op[p].phase = "rollback" /\ status'[r] = "current"
            => status[r] \in {"current", "previous"}
  <1>1. Inv /\ Inv' /\ SoleInv /\ [Next]_vars => Promotes
    <2> SUFFICES ASSUME Inv, Inv', SoleInv, [Next]_vars,
                        NEW p \in Operators, NEW r \in Row,
                        op[p].phase = "rollback", status'[r] = "current"
                 PROVE  status[r] \in {"current", "previous"}
      OBVIOUS
    <2>1. CASE Quiet(status, status')
      BY <2>1 DEF Quiet
    <2>2. ASSUME NEW q \in Operators, CommitDeploy(q)
          PROVE  FALSE
      BY <2>2 DEF CommitDeploy, IsDeploy, IsSole
    <2>3. ASSUME NEW q \in Operators, CommitRollback(q)
          PROVE  status[r] \in {"current", "previous"}
      BY <2>3, CommitRollbackKeeps
    <2> QED
      BY <2>1, <2>2, <2>3, TableSteps
  <1> QED
    BY <1>1, SoleInvariant, Invariant, PTL DEF Spec, RollbackPromotesPrevious

-----------------------------------------------------------------------------
(* One operator whose probes, migrations and host may fail, but who is not *)
(* killed, keeps the database and can move the symlink back.               *)

IsClean == Faults \subseteq {"probe", "host"}

\* The symlink names the release in service except between its move and its
\* return, when the command remembers where it was.
Tidy(p) ==
    /\ op[p].pc \in {"idle", "start", "migrate", "probe", "repoint", "reject",
                     "resolve", "same", "back", "expect"}
          => link = CurrentSha
    /\ op[p].pc \in {"repoint", "verify", "promote", "commit", "fail", "revert"}
          => op[p].prev = CurrentSha

TidyInv == TopologyAgrees /\ \A p \in Operators : Tidy(p)

\* A step that puts nothing in service leaves the release that is.
LEMMA ServiceStays ==
    ASSUME Inv, Inv', Quiet(status, status'),
           \A x \in RowsInService : sha'[x] = sha[x]
    PROVE  CurrentSha' = CurrentSha
  <1>1. Current(status') = Current(status)
    BY QuietTable DEF Inv, TypeOK
  <1>2. Current(status) # NoRow => Current(status) \in RowsInService
    BY TableFacts DEF RowsInService, RowsIn
  <1> QED
    BY <1>1, <1>2 DEF CurrentSha, ShaOf

\* A promotion ends its command with the symlink where the table says.
LEMMA PromotionIsTidy ==
    ASSUME Inv, Inv', SoleInv, NEW p \in Operators,
           CommitDeploy(p) \/ CommitRollback(p)
    PROVE  Tidy(p)' /\ op'[p].exit = "ok" /\ op'[p].pc = "idle"
  <1>1. Holds(p)' /\ op'[p].exit = "ok"
    BY CommitDeployKeeps, CommitRollbackKeeps
  <1>2. op'[p].pc = "idle"
    BY EndIs DEF CommitDeploy, CommitRollback
  <1> QED
    BY <1>1, <1>2 DEF Holds, Tidy

\* Every other step moves the symlink and the memory of it together.
LEMMA TidyKept ==
    ASSUME IsSole, IsClean, Inv, NEW p \in Operators, Tidy(p),
           \/ \E s \in Shas, new \in Row : StartDeploy(p, s, new)
           \/ StartRollback(p)
           \/ \E oldest \in Row : Insert(p, oldest)
           \/ Migrate(p) \/ Probe(p) \/ Repoint(p) \/ Verify(p) \/ Revert(p)
           \/ RecordFailure(p) \/ LockForDeploy(p) \/ LockForRollback(p)
           \/ SelectLatest(p) \/ SelectTarget(p) \/ SelectExpected(p),
           CurrentSha' = CurrentSha
    PROVE  Tidy(p)'
  <1>0. op \in [Operators -> Command] /\ op[p] \in Command
    BY DEF Inv, TypeOK
  <1>1. CASE StartRollback(p)
    <2> DEFINE d == [Ended("running") EXCEPT !.pc = "resolve", !.phase = "rollback"]
    <2>1. d.pc = "resolve"
      BY DEF Ended
    <2>2. op' = [op EXCEPT ![p] = d] /\ op[p].pc = "idle" /\ UNCHANGED link
      BY <1>1 DEF StartRollback
    <2> HIDE DEF d
    <2> QED
      BY <1>0, <2>1, <2>2 DEF Tidy
  <1>2. ASSUME NEW s \in Shas, NEW new \in Row, StartDeploy(p, s, new)
        PROVE  Tidy(p)'
    <2> DEFINE d == [Ended("running") EXCEPT !.pc = "start", !.row = new,
                                             !.dest = s, !.cur = Current(status)]
    <2>1. d.pc = "start"
      BY DEF Ended
    <2>2. op' = [op EXCEPT ![p] = d] /\ op[p].pc = "idle" /\ UNCHANGED link
      BY <1>2 DEF StartDeploy
    <2> HIDE DEF d
    <2> QED
      BY <1>0, <2>1, <2>2 DEF Tidy
  <1>3. CASE Migrate(p) \/ RecordFailure(p) \/ Verify(p)
    BY <1>3, GotoIs, EndIs DEF Migrate, RecordFailure, Verify, Unwind, Tidy
  <1>4. CASE Probe(p)
    <2>1. CASE op' = [op EXCEPT ![p].pc = "repoint", ![p].prev = link]
      <3>1. op'[p].pc = "repoint" /\ op'[p].prev = link
        BY <1>0, <2>1 DEF Command
      <3> QED
        BY <1>4, <3>1 DEF Probe, Tidy
    <2>2. CASE Goto(p, "reject") \/ End(p, "exit1")
      BY <1>4, <2>2, GotoIs, EndIs DEF Probe, Tidy
    <2> QED
      BY <1>4, <2>1, <2>2 DEF Probe
  <1>5. CASE Repoint(p)
    BY <1>5, GotoIs DEF Repoint, Unwind, Tidy
  <1>6. CASE Revert(p)
    <2>1. link' = op[p].prev
      BY <1>6 DEF Revert, IsClean
    <2> QED
      BY <1>6, <2>1, GotoIs, EndIs DEF Revert, Tidy
  <1>7. CASE LockForDeploy(p) \/ LockForRollback(p)
    <2>1. op[p].pc = "promote"
      BY <1>7 DEF LockForDeploy, LockForRollback
    <2>2. op'[p].pc \in {"commit", "revert"} /\ op'[p].prev = op[p].prev
      <3>1. CASE Goto(p, "revert")
        BY <3>1, GotoIs
      <3>2. CASE ~Goto(p, "revert")
        BY <1>0, <1>7, <3>2 DEF LockForDeploy, LockForRollback, Command
      <3> QED
        BY <3>1, <3>2
    <2> QED
      BY <2>1, <2>2 DEF Tidy
  <1>8. CASE SelectLatest(p) \/ SelectTarget(p) \/ SelectExpected(p)
    <2>1. op'[p].pc \in {"idle", "same", "back", "expect", "probe"}
      <3>1. CASE End(p, "exit1")
        BY <3>1, EndIs
      <3>2. CASE SelectLatest(p)
        BY <1>0, <3>2 DEF SelectLatest, Command
      <3>4. CASE SelectExpected(p)
        BY <1>0, <3>4 DEF SelectExpected, Command
      <3>3. CASE SelectTarget(p) /\ ~End(p, "exit1")
        <4> DEFINE t == GetPrevious(status, replaces, op[p].pc = "same")
                   d == [op[p] EXCEPT !.pc = "expect", !.dest = sha[t], !.tgt = t]
        <4>1. op'[p] = d
          BY <1>0, <3>3 DEF SelectTarget
        <4>2. d.pc = "expect"
          BY <1>0 DEF Command
        <4> QED
          BY <4>1, <4>2
      <3> QED
        BY <1>8, <3>1, <3>2, <3>3, <3>4
    <2> QED
      BY <1>8, <2>1 DEF SelectLatest, SelectTarget, SelectExpected, Tidy
  <1>9. ASSUME NEW oldest \in Row, Insert(p, oldest)
        PROVE  Tidy(p)'
    <2>1. op'[p].pc = "migrate"
      BY <1>0, <1>9 DEF Insert, Command
    <2> QED
      BY <1>9, <2>1 DEF Insert, Tidy
  <1> QED
    BY <1>1, <1>2, <1>3, <1>4, <1>5, <1>6, <1>7, <1>8, <1>9

\* TidyInv is an invariant, given that nothing interrupts a command.
LEMMA TidyStep ==
    IsSole /\ IsClean =>
        (Inv /\ Inv' /\ SoleInv /\ TidyInv /\ [Next]_vars => TidyInv')
  <1> SUFFICES ASSUME IsSole, IsClean, Inv, Inv', SoleInv, TidyInv, [Next]_vars
               PROVE  TidyInv'
    OBVIOUS
  <1>1. CASE UNCHANGED vars
    BY <1>1 DEF vars, TidyInv, Tidy, TopologyAgrees, CurrentSha
  <1>2. CASE Next
    <2>1. PICK p \in Operators :
            \/ \E s \in Shas, new \in Row : StartDeploy(p, s, new)
            \/ StartRollback(p)
            \/ Step(p)
            \/ DatabaseError(p)
            \/ Kill(p)
      BY <1>2 DEF Next
    <2>2. \A q \in Operators : q = p
      BY DEF IsSole
    <2>3. Tidy(p)'
      <3>1. CASE CommitDeploy(p) \/ CommitRollback(p)
        BY <3>1, PromotionIsTidy
      <3>2. CASE /\ Quiet(status, status')
                 /\ \A x \in RowsInService : sha'[x] = sha[x]
                 /\ ~CommitDeploy(p) /\ ~CommitRollback(p)
        <4>1. CurrentSha' = CurrentSha
          BY <3>2, ServiceStays
        <4>2. ~DatabaseError(p) /\ ~Kill(p)
          BY DEF DatabaseError, Kill, IsClean
        <4> QED
          BY <2>1, <3>2, <4>1, <4>2, TidyKept DEF Step, TidyInv
      <3> QED
        BY <2>2, <3>1, <3>2, TableSteps
    <2> QED
      BY <2>2, <2>3 DEF TidyInv, TopologyAgrees, Tidy
  <1> QED
    BY <1>1, <1>2

\* With it, all that is known of such an operator.
LEMMA CleanInvariant == IsSole /\ IsClean => (Spec => [](Inv /\ SoleInv /\ TidyInv))
  <1> SUFFICES ASSUME IsSole, IsClean PROVE Spec => [](Inv /\ SoleInv /\ TidyInv)
    OBVIOUS
  <1>1. Init => TidyInv
    <2> SUFFICES ASSUME Init PROVE TidyInv
      OBVIOUS
    <2>1. /\ \A p \in Operators : op[p] = Ended("none")
          /\ link = NoSha /\ RowsIn(status, {"current"}) = {}
      BY DEF Init, RowsIn
    <2> QED
      BY <2>1 DEF TidyInv, Tidy, TopologyAgrees, Ended, CurrentSha, ShaOf,
                  Current, First
  <1>2. Inv /\ Inv' /\ SoleInv /\ TidyInv /\ [Next]_vars => TidyInv'
    BY TidyStep
  <1> QED
    BY <1>1, <1>2, Invariant, SoleInvariant, PTL DEF Spec

\* Whatever the probes and the host do, a sole operator with no command
\* running finds the symlink where the table says, after failed deploys and
\* failed rollbacks as well (QA-49).
THEOREM IdleMeansAgreement == IsSole /\ IsClean => (Spec => []TopologyAgrees)
  <1> SUFFICES ASSUME IsSole, IsClean PROVE Spec => []TopologyAgrees
    OBVIOUS
  <1>1. TidyInv => TopologyAgrees
    BY DEF TidyInv
  <1> QED
    BY <1>1, CleanInvariant, PTL

\* A rollback that fails after it moved the symlink puts it back where it
\* found it (_do_rollback).
THEOREM FailuresPutTheLinkBack ==
    IsSole /\ IsClean => (Spec => FailedRollbackReverts)
  <1> SUFFICES ASSUME IsSole, IsClean PROVE Spec => FailedRollbackReverts
    OBVIOUS
  <1> DEFINE Reverts ==
        \A p \in Operators :
            op[p].pc \in {"verify", "promote", "commit", "revert"}
            /\ op[p].phase = "rollback"
            /\ op'[p].exit \in {"exit1", "traceback"}
            => link' = op[p].prev
  <1>1. Inv /\ Inv' /\ SoleInv /\ [Next]_vars => Reverts
    <2> SUFFICES ASSUME Inv, Inv', SoleInv, [Next]_vars, NEW p \in Operators,
                        op[p].pc \in {"verify", "promote", "commit", "revert"},
                        op[p].phase = "rollback",
                        op'[p].exit \in {"exit1", "traceback"}
                 PROVE  link' = op[p].prev
      OBVIOUS
    <2>1. op[p].exit = "running"
      BY DEF SoleInv, Holds
    <2>2. op' # op
      BY <2>1
    <2>3. \/ Step(p) \/ DatabaseError(p) \/ Kill(p)
      BY <2>2 DEF Next, vars, IsSole, StartDeploy, StartRollback
    <2>4. ~DatabaseError(p) /\ ~Kill(p)
      BY DEF DatabaseError, Kill, IsClean
    <2>5. /\ ~CommitDeploy(p) /\ ~CommitRollback(p)
      BY PromotionIsTidy
    <2>6. ~LockForDeploy(p) /\ ~LockForRollback(p)
      <3>1. CASE LockForDeploy(p)
        BY <3>1 DEF LockForDeploy, IsDeploy
      <3>2. CASE LockForRollback(p)
        <4>1. CASE Goto(p, "revert")
          BY <2>1, <4>1, GotoIs
        <4>2. CASE ~Goto(p, "revert")
          BY <2>1, <3>2, <4>2 DEF LockForRollback, Inv, TypeOK, Command
        <4> QED
          BY <4>1, <4>2
      <3> QED
        BY <3>1, <3>2
    <2>7. CASE Verify(p)
      BY <2>1, <2>7, GotoIs DEF Verify, Unwind
    <2>8. CASE Revert(p)
      BY <2>8 DEF Revert, IsClean
    <2> QED
      BY <2>3, <2>4, <2>5, <2>6, <2>7, <2>8
         DEF Step, Insert, Migrate, Probe, Repoint, RecordFailure, SelectLatest,
             SelectTarget, SelectExpected
  <1> QED
    BY <1>1, SoleInvariant, Invariant, PTL DEF Spec, FailedRollbackReverts

\* A deploy that moved the symlink does not end between the two releases: it
\* promotes its own or goes on to roll back (deploy).
THEOREM DeploysEndInService ==
    IsSole /\ IsClean => (Spec => FailedDeployRollsBack)
  <1> SUFFICES ASSUME IsSole, IsClean PROVE Spec => FailedDeployRollsBack
    OBVIOUS
  <1> DEFINE RollsBack ==
        \A p \in Operators :
            op[p].pc \in {"promote", "commit"} /\ op[p].phase = "deploy"
            /\ op'[p].pc = "idle"
            => op'[p].exit = "ok"
  <1>1. Inv /\ Inv' /\ SoleInv /\ [Next]_vars => RollsBack
    <2> SUFFICES ASSUME Inv, Inv', SoleInv, [Next]_vars, NEW p \in Operators,
                        op[p].pc \in {"promote", "commit"},
                        op[p].phase = "deploy", op'[p].pc = "idle"
                 PROVE  op'[p].exit = "ok"
      OBVIOUS
    <2>1. op' # op
      OBVIOUS
    <2>2. \/ Step(p) \/ DatabaseError(p) \/ Kill(p)
      BY <2>1 DEF Next, vars, IsSole, StartDeploy, StartRollback
    <2>3. ~DatabaseError(p) /\ ~Kill(p)
      BY DEF DatabaseError, Kill, IsClean
    <2>4. ~LockForDeploy(p) /\ ~LockForRollback(p)
      BY LockKeeps
    <2>5. CASE CommitDeploy(p) \/ CommitRollback(p)
      BY <2>5, PromotionIsTidy
    <2> QED
      BY <2>2, <2>3, <2>4, <2>5
         DEF Step, Insert, Migrate, Probe, Repoint, Verify, Revert, RecordFailure,
             SelectLatest, SelectTarget, SelectExpected
  <1> QED
    BY <1>1, SoleInvariant, Invariant, PTL DEF Spec, FailedDeployRollsBack
=============================================================================
