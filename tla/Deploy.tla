------------------------------- MODULE Deploy -------------------------------
(***************************************************************************)
(* `finops deploy` and `finops rollback` (src/finance_app/cli/finops.py).  *)
(*                                                                         *)
(* Each operator runs one command at a time.  A command alternates short   *)
(* database transactions on ops.releases with steps on the host: probes of *)
(* a release tree, and the `current` symlink that decides which release    *)
(* every timer starts.  Nothing protects the symlink, and the transactions *)
(* share only a try-lock taken while a release is promoted, so commands of *)
(* two operators interleave between any two steps.                         *)
(*                                                                         *)
(* Each step is one host operation, one transaction that writes, or one    *)
(* query of a transaction that runs several: they are READ COMMITTED, and  *)
(* without the lock each query sees what others committed before it.  The  *)
(* lock is held exactly by the operator whose pc is "commit".              *)
(***************************************************************************)
EXTENDS ReleaseTable

CONSTANTS
    Operators,   \* the shells that run finops
    Faults,      \* what may go wrong, a subset of AllFaults
    HeadOf       \* how many migrations a release ships beyond those applied
                 \* before the first deploy (its Alembic head)

\* "probe":  a migration or a selfcheck fails, or the host is unreachable
\* "host":   os.replace or systemctl fails
\* "revert": the same, in the clean-up of a failed promotion
\* "db":     a transaction raises
\* "kill":   the command's process dies (SIGKILL, reboot)
AllFaults == {"probe", "host", "revert", "db", "kill"}

ASSUME FaultsAssumption == Faults \subseteq AllFaults

\* Migrations form one chain; every release ships a prefix of it.
ASSUME HeadAssumption == HeadOf \in [Shas -> Nat]

VARIABLES
    status,      \* ops.releases.status
    sha,         \* ops.releases.release_id
    replaces,    \* ops.releases.replaces_release_id
    link,        \* the release `current` points at, or NoSha
    schema,      \* how many of those migrations the database has applied
    op           \* the command each operator runs

vars == <<status, sha, replaces, link, schema, op>>

\* "same", "back" and "expect" are between the queries of a resolution.
Pc == {"idle", "start", "migrate", "probe", "repoint", "verify", "promote",
       "commit", "reject", "fail", "revert", "resolve", "same", "back", "expect"}

Exit == {"none", "running", "ok", "exit1", "traceback", "killed"}

\* row, dest: the deploy's own row and the release now being promoted;
\* cur, tgt:  the current and the previous row the command read last (tgt
\*            is the row a rollback promotes, cur the one it expects);
\* prev:      where the symlink pointed before this command moved it;
\* exit:      how the operator's last command ended.
Command == [pc : Pc, phase : {"deploy", "rollback"},
            row : Row \cup {NoRow}, dest : Shas \cup {NoSha},
            cur : Row \cup {NoRow}, tgt : Row \cup {NoRow},
            prev : Shas \cup {NoSha}, exit : Exit]

Ended(how) == [pc |-> "idle", phase |-> "deploy", row |-> NoRow,
               dest |-> NoSha, cur |-> NoRow, tgt |-> NoRow, prev |-> NoSha,
               exit |-> how]

End(p, how) == op' = [op EXCEPT ![p] = Ended(how)]

Goto(p, where) == op' = [op EXCEPT ![p].pc = where]

LockFree == \A q \in Operators : op[q].pc # "commit"

IsDeploy(p) == op[p].phase = "deploy"

Init ==
    /\ status = [r \in Row |-> "absent"]
    /\ sha = [r \in Row |-> NoSha]
    /\ replaces = [r \in Row |-> NoSha]
    /\ link = NoSha
    /\ schema = 0
    /\ op = [p \in Operators |-> Ended("none")]
-----------------------------------------------------------------------------
(* The commands start.                                                     *)

\* The checks before the first transaction change nothing: a refused deploy
\* is not a step.  The transaction's start is the new row's deployed_at (its
\* key, drawn at the INSERT, is taken to follow that order); it reads the
\* current row, which the new one replaces.
StartDeploy(p, s, new) ==
    /\ op[p].pc = "idle"
    /\ IsNextKey(Inserted(status) \cup {op[q].row : q \in Operators}, new)
    /\ op' = [op EXCEPT ![p] = [Ended("running") EXCEPT
                !.pc = "start", !.row = new, !.dest = s, !.cur = Current(status)]]
    /\ UNCHANGED <<status, sha, replaces, link, schema>>

\* It commits.  Rows from oldest on are too young to be reaped; the reaped
\* ones are locked by the UPDATE that goes before the read.
Insert(p, oldest) ==
    LET new == op[p].row
    IN  /\ op[p].pc = "start"
        /\ status' = ReapAndInsert(status, oldest, new)
        /\ sha' = [sha EXCEPT ![new] = op[p].dest]
        /\ replaces' = [replaces EXCEPT ![new] = ShaOf(op[p].cur, sha)]
        /\ op' = [op EXCEPT ![p].pc = "migrate", ![p].cur = NoRow]
        /\ UNCHANGED <<link, schema>>

StartRollback(p) ==
    /\ op[p].pc = "idle"
    /\ op' = [op EXCEPT ![p] = [Ended("running") EXCEPT
                !.pc = "resolve", !.phase = "rollback"]]
    /\ UNCHANGED <<status, sha, replaces, link, schema>>

-----------------------------------------------------------------------------
(* Host steps, shared by a deploy and a rollback.                          *)

\* Faulty: the migration moves the schema to the release's own head, back
\* if need be.
MigrateEitherWay(p) ==
    /\ op[p].pc = "migrate"
    /\ schema' = HeadOf[op[p].dest]
    /\ Goto(p, "probe")
    /\ UNCHANGED <<status, sha, replaces, link>>

\* `alembic upgrade head` from the new release's tree.  A release that does
\* not ship the applied revision cannot locate it; a command that fails late
\* (killed, undecodable output) may have applied its migrations.
Migrate(p) ==
    /\ op[p].pc = "migrate"
    /\ \/ /\ schema <= HeadOf[op[p].dest]
          /\ schema' = HeadOf[op[p].dest]
          /\ Goto(p, "probe") /\ UNCHANGED status
       \/ /\ schema > HeadOf[op[p].dest] \/ "probe" \in Faults
          /\ schema' \in {schema, HeadOf[op[p].dest]} /\ schema' >= schema
          /\ status' = MarkFailed(status, op[p].row)
          /\ End(p, "exit1")
    /\ UNCHANGED <<sha, replaces, link>>

\* A release's selfcheck is healthy only at its own head: applied migrations
\* it does not know are "drift", like missing ones.
UpToDate(s) == schema = HeadOf[s]

\* The release is probed by its own path; when it is healthy the symlink is
\* read, to be restored if the promotion fails.
Probe(p) ==
    /\ op[p].pc = "probe"
    /\ \/ /\ UpToDate(op[p].dest)
          /\ op' = [op EXCEPT ![p].pc = "repoint", ![p].prev = link]
       \/ /\ ~UpToDate(op[p].dest) \/ "probe" \in Faults
          /\ IF IsDeploy(p) THEN Goto(p, "reject") ELSE End(p, "exit1")
    /\ UNCHANGED <<status, sha, replaces, link, schema>>

\* Faulty: a rollback that cannot finish leaves the symlink where it is.
UnwindDeployOnly(p) == IF IsDeploy(p) THEN Goto(p, "fail") ELSE End(p, "exit1")

\* A promotion that stops after the symlink was, or may have been, moved.
Unwind(p) == Goto(p, IF IsDeploy(p) THEN "fail" ELSE "revert")

Repoint(p) ==
    /\ op[p].pc = "repoint"
    /\ \/ link' = op[p].dest /\ Goto(p, "verify")
       \/ "host" \in Faults /\ UNCHANGED link /\ Unwind(p)
    /\ UNCHANGED <<status, sha, replaces, schema>>

\* systemctl restart, then a probe through the symlink, which reports the
\* release it finds there: another operator's release is "wrong_release".
Verify(p) ==
    /\ op[p].pc = "verify"
    /\ LET healthy == link = op[p].dest /\ UpToDate(op[p].dest)
       IN  \/ healthy /\ Goto(p, "promote")
           \/ (~healthy \/ Faults \cap {"probe", "host"} # {}) /\ Unwind(p)
    /\ UNCHANGED <<status, sha, replaces, link, schema>>

\* Faulty: a failed rollback tries again (QA-50).
RevertAndRetry(p) ==
    /\ op[p].pc = "revert"
    /\ link' = op[p].prev
    /\ Goto(p, "resolve")
    /\ UNCHANGED <<status, sha, replaces, schema>>

\* Best effort: a failure here is only printed.
Revert(p) ==
    /\ op[p].pc = "revert"
    /\ link' \in {op[p].prev} \cup (IF "revert" \in Faults THEN {link} ELSE {})
    /\ IF IsDeploy(p) THEN Goto(p, "resolve") ELSE End(p, "exit1")
    /\ UNCHANGED <<status, sha, replaces, schema>>
-----------------------------------------------------------------------------
(* Database steps.                                                         *)

\* Faulty: the symlink is left to the automatic rollback (QA-49).
RecordFailureOnly(p) ==
    /\ op[p].pc \in {"reject", "fail"}
    /\ status' = MarkFailed(status, op[p].row)
    /\ Goto(p, "resolve")
    /\ UNCHANGED <<sha, replaces, link, schema>>

\* The deploy's verdict was unhealthy, before or after the symlink moved.
RecordFailure(p) ==
    /\ op[p].pc \in {"reject", "fail"}
    /\ status' = MarkFailed(status, op[p].row)
    /\ Goto(p, IF op[p].pc = "fail" THEN "revert" ELSE "resolve")
    /\ UNCHANGED <<sha, replaces, link, schema>>

\* The promoting transaction: pg_try_advisory_xact_lock, then the reads.  A
\* deploy that finds the lock held records itself failed; a rollback gives
\* up, and also when the current row is not the one it found before (no
\* check, when it had found none).
CurrentMoved(p) == op[p].cur # NoRow /\ op[p].cur # Current(status)

LockForDeploy(p) ==
    /\ op[p].pc = "promote" /\ IsDeploy(p)
    /\ \/ /\ LockFree
          /\ op' = [op EXCEPT ![p].pc = "commit",
                             ![p].cur = Current(status),
                             ![p].tgt = TrackedPrevious(status)]
          /\ UNCHANGED status
       \/ /\ ~LockFree
          /\ status' = MarkFailed(status, op[p].row)
          /\ Goto(p, "revert")
    /\ UNCHANGED <<sha, replaces, link, schema>>

LockForRollback(p) ==
    /\ op[p].pc = "promote" /\ ~IsDeploy(p)
    /\ \/ /\ LockFree /\ ~CurrentMoved(p)
          /\ op' = [op EXCEPT ![p].pc = "commit", ![p].cur = Current(status)]
       \/ /\ ~LockFree \/ CurrentMoved(p)
          /\ Goto(p, "revert")
    /\ UNCHANGED <<status, sha, replaces, link, schema>>

\* mark_healthy writes and commits.  A clash in the index is caught by
\* nobody between mark_healthy and the shell.
CommitDeploy(p) ==
    LET c == op[p]
    IN  /\ c.pc = "commit" /\ IsDeploy(p)
        /\ \/ /\ ~DemotionClashes(sha, c.row, c.cur, c.tgt)
              /\ status' = MarkHealthy(status, sha, c.row, c.cur, c.tgt)
              /\ End(p, "ok")
           \/ /\ DemotionClashes(sha, c.row, c.cur, c.tgt)
              /\ End(p, "traceback")
              /\ UNCHANGED status
        /\ UNCHANGED <<sha, replaces, link, schema>>

\* Faulty: the row is looked up by its release id, which is not unique (QA-41).
CommitRollbackBySha(p) ==
    /\ op[p].pc = "commit" /\ ~IsDeploy(p)
    /\ \E r \in Inserted(status) :
            sha[r] = op[p].dest /\ status' = Rollback(status, r, op[p].cur)
    /\ End(p, "ok")
    /\ UNCHANGED <<sha, replaces, link, schema>>

CommitRollback(p) ==
    /\ op[p].pc = "commit" /\ ~IsDeploy(p)
    /\ status' = Rollback(status, op[p].tgt, op[p].cur)
    /\ End(p, "ok")
    /\ UNCHANGED <<sha, replaces, link, schema>>

(* First transaction of _do_rollback: get_previous's two queries, then the  *)
(* row that is current now, which the rollback will expect to replace.     *)

SelectLatest(p) ==
    /\ op[p].pc = "resolve"
    /\ op' = [op EXCEPT ![p] = [@ EXCEPT
                !.pc = IF LatestUnresolved(status) THEN "same" ELSE "back",
                !.phase = "rollback", !.cur = NoRow, !.tgt = NoRow]]
    /\ UNCHANGED <<status, sha, replaces, link, schema>>

SelectTarget(p) ==
    LET target == GetPrevious(status, replaces, op[p].pc = "same")
    IN  /\ op[p].pc \in {"same", "back"}
        /\ \/ target = NoRow /\ End(p, "exit1")
           \/ /\ target # NoRow
              /\ op' = [op EXCEPT ![p] = [@ EXCEPT
                          !.pc = "expect", !.dest = sha[target], !.tgt = target]]
        /\ UNCHANGED <<status, sha, replaces, link, schema>>

SelectExpected(p) ==
    /\ op[p].pc = "expect"
    /\ op' = [op EXCEPT ![p].pc = "probe", ![p].cur = Current(status)]
    /\ UNCHANGED <<status, sha, replaces, link, schema>>

\* A transaction raises (while "migrate": the one that records a failed
\* migration).  Only deploy's automatic rollback is guarded.
DatabaseError(p) ==
    /\ "db" \in Faults
    /\ op[p].pc \in {"start", "migrate", "reject", "fail", "promote", "commit",
                     "resolve", "same", "back", "expect"}
    /\ LET automatic == op[p].row # NoRow
                        /\ (op[p].pc = "resolve" \/ ~IsDeploy(p))
       IN  End(p, IF automatic THEN "exit1" ELSE "traceback")
    /\ UNCHANGED <<status, sha, replaces, link, schema>>

Kill(p) ==
    /\ "kill" \in Faults
    /\ op[p].pc # "idle"
    /\ End(p, "killed")
    /\ UNCHANGED <<status, sha, replaces, link, schema>>
-----------------------------------------------------------------------------
Step(p) == \/ \E oldest \in Row : Insert(p, oldest)
           \/ Migrate(p) \/ Probe(p) \/ Repoint(p) \/ Verify(p) \/ Revert(p)
           \/ RecordFailure(p)
           \/ LockForDeploy(p) \/ LockForRollback(p)
           \/ CommitDeploy(p) \/ CommitRollback(p)
           \/ SelectLatest(p) \/ SelectTarget(p) \/ SelectExpected(p)

Next == \E p \in Operators :
            \/ \E s \in Shas, new \in Row : StartDeploy(p, s, new)
            \/ StartRollback(p)
            \/ Step(p)
            \/ DatabaseError(p)
            \/ Kill(p)

\* A started command keeps running; nobody is obliged to start one, and
\* faults are never owed.
Spec == Init /\ [][Next]_vars /\ \A p \in Operators : WF_vars(Step(p))
-----------------------------------------------------------------------------
(* Properties, whoever runs the commands and whatever fails.               *)

TypeOK ==
    /\ status \in [Row -> Status]
    /\ sha \in [Row -> Shas \cup {NoSha}]
    /\ replaces \in [Row -> Shas \cup {NoSha}]
    /\ link \in Shas \cup {NoSha}
    /\ schema \in Nat
    /\ op \in [Operators -> Command]

\* The table never holds two current or two previous rows, by the order of
\* the updates and the lock, before the index of migration 0005 has to say.
OneOfEach ==
    \A r, s \in Row : status[r] = status[s] /\ status[r] \in {"current", "previous"}
                        => r = s

\* The release in service, and any other that ever was, has all of its
\* migrations applied, whichever releases were migrated, refused or rolled
\* back in the meantime.
ServedIsMigrated ==
    \A r \in RowsIn(status, {"current", "previous", "history", "rolled_back"}) :
        HeadOf[sha[r]] <= schema

\* A command never waits for another operator nor repeats itself: it ends.
EveryCommandEnds == \A p \in Operators : op[p].pc # "idle" ~> op[p].pc = "idle"

\* The inductive invariant of DeployProofs.
RowsInService == RowsIn(status, {"current", "previous", "history", "rolled_back"})

InDeploy(p) == op[p].pc # "idle" /\ op[p].phase = "deploy"

\* The target of a rollback, and the row it expects to replace, are known.
HasTarget(p) ==
    op[p].phase = "rollback" /\ op[p].pc \notin {"idle", "resolve", "same", "back"}

Resolved(p) == HasTarget(p) /\ op[p].pc # "expect"

\* Only a deploy inserts its row, runs the migration and records a verdict;
\* only a rollback resolves a target.
Phases ==
    \A p \in Operators :
        /\ op[p].pc \in {"start", "migrate", "reject", "fail"}
              => op[p].phase = "deploy"
        /\ op[p].pc \in {"same", "back", "expect"} => op[p].phase = "rollback"

\* A deploy works on a row of its own, made for its release, that was never
\* in service.
OwnRows ==
    \A p \in Operators : InDeploy(p) =>
        /\ op[p].row \in Row
        /\ op[p].dest \in Shas
        /\ IF op[p].pc = "start"
           THEN status[op[p].row] = "absent"
           ELSE /\ status[op[p].row] \in {"pending", "failed"}
                /\ sha[op[p].row] = op[p].dest
        /\ \A q \in Operators : InDeploy(q) /\ op[q].row = op[p].row => q = p

\* What a rollback has read was in service, and stays known to have been,
\* whatever others commit between its queries.
Targets ==
    \A p \in Operators :
        /\ HasTarget(p) => op[p].tgt \in RowsInService
        /\ Resolved(p) => op[p].cur \in RowsInService

\* Once a release was in service there is always one.
StaysInService == RowsInService # {} => Current(status) # NoRow

\* What the holder of the lock has read stays true until it commits.
LockHolder ==
    \A p \in Operators : op[p].pc = "commit" =>
        /\ op[p].cur = Current(status)
        /\ op[p].phase = "deploy" => op[p].tgt = TrackedPrevious(status)
        /\ \A q \in Operators : op[q].pc = "commit" => q = p

Inv == TypeOK /\ OneOfEach /\ StaysInService
       /\ Phases /\ OwnRows /\ Targets /\ LockHolder

\* The table is a ledger: no schedule and no fault makes it lose the release
\* in service, put back one that never was, or keep a step back it has taken.
Ledger == INSTANCE ReleaseLedger WITH
    Rows <- Row, None <- NoRow, Releases <- Shas \cup {NoSha},
    serving <- Current(status), fallback <- TrackedPrevious(status),
    proven <- RowsInService,
    release <- sha

IsALedger == Ledger!Spec
-----------------------------------------------------------------------------
(* Properties that need a sole operator; each is false of two.             *)

CurrentSha == ShaOf(Current(status), sha)

\* A release to fall back to is tracked only beside one to fall back from,
\* and it is a different release (QA-5): a rollback is never a redeploy of
\* what it rolls back.
PreviousIsAnotherRelease ==
    \A r \in Row : status[r] = "previous" =>
        /\ Current(status) # NoRow
        /\ sha[Current(status)] # sha[r]

\* A command that reports success leaves the symlink where the table says
\* (status.release_topology agrees), even when earlier ones were killed.
SuccessAgrees ==
    \A p \in Operators : op[p].exit = "ok" => link = CurrentSha

\* Without kills, database errors and failed clean-ups the symlink and the
\* table agree whenever no command runs, failed deploys included (QA-49).
TopologyAgrees ==
    (\A p \in Operators : op[p].pc = "idle") => link = CurrentSha

\* The automatic rollback of a failed deploy restores the release that is
\* still current and never skips past it to an older one (get_previous's
\* docstring, ops/release.py:119).
AutoRollbackKeepsCurrent ==
    \A p \in Operators :
        Resolved(p) /\ op[p].row # NoRow => op[p].tgt = op[p].cur

\* A rollback promotes the row tracked as previous (models/ops.py:91), or
\* leaves the current row where it is: never a failed attempt at the same
\* release (QA-41), never one from further back.
RollbackPromotesPrevious ==
    [][\A p \in Operators, r \in Row :
            op[p].phase = "rollback" /\ status'[r] = "current"
            => status[r] \in {"current", "previous"}]_vars

\* A rollback that fails after it moved the symlink, be it in the probe or
\* in its own transaction, puts the symlink back where it found it
\* (_do_rollback's docstring, finops.py:657).
FailedRollbackReverts ==
    [][\A p \in Operators :
            op[p].pc \in {"verify", "promote", "commit", "revert"}
            /\ op[p].phase = "rollback"
            /\ op'[p].exit \in {"exit1", "traceback"}
            => link' = op[p].prev]_vars

\* A deploy that moved the symlink and is neither killed nor cut off from
\* the database promotes its release or goes on to roll back (deploy's
\* docstring: "On any failure, roll back automatically").
FailedDeployRollsBack ==
    [][\A p \in Operators :
            op[p].pc \in {"promote", "commit"} /\ op[p].phase = "deploy"
            /\ op'[p].pc = "idle"
            => op'[p].exit = "ok"]_vars

\* While nothing fails, an operator alone can always step back to the tracked
\* previous release ("exactly one rollback step is guaranteed trivial",
\* docs/deployment.md:80).  It does not survive a deploy that migrated.
RollbackIsPossible ==
    [][\A p \in Operators :
            op[p].pc = "probe" /\ op[p].phase = "rollback"
            => op'[p].exit # "exit1"]_vars
=============================================================================
