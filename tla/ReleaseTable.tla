---------------------------- MODULE ReleaseTable ----------------------------
(***************************************************************************)
(* The pure part of src/finance_app/ops/release.py: what its queries       *)
(* select and what its updates write in the table ops.releases.            *)
(*                                                                         *)
(* A table is read through three of its columns, each a function of the    *)
(* row: st (status), sha (release_id) and rep (replaces_release_id).  Row  *)
(* numbers are the primary key.  Rows are inserted in the order of their   *)
(* deployed_at, so "ORDER BY deployed_at DESC, id DESC" is "largest row".  *)
(***************************************************************************)
EXTENDS Naturals

CONSTANTS
    MaxDeploys,  \* bound: rows the table may hold
    Shas,        \* release ids (Git SHAs)
    NoSha        \* SQL NULL in a release id column, or "no such symlink"

ASSUME MaxDeploysAssumption == MaxDeploys \in Nat
ASSUME NoShaAssumption == NoSha \notin Shas

Row == 1..MaxDeploys
NoRow == 0

\* "absent" is a row number not yet handed out by the sequence.
Status == {"absent", "pending", "current", "previous", "history", "failed",
           "rolled_back"}

RowsIn(st, which) == {r \in Row : st[r] \in which}

\* select ... order_by(deployed_at.desc(), id.desc()).first()
First(rows) == IF rows = {} THEN NoRow
               ELSE CHOOSE r \in rows : \A s \in rows : s <= r

Current(st) == First(RowsIn(st, {"current"}))

TrackedPrevious(st) == First(RowsIn(st, {"previous"}))

Inserted(st) == RowsIn(st, Status \ {"absent"})

ShaOf(r, sha) == IF r = NoRow THEN NoSha ELSE sha[r]

\* Row r comes next after the rows that are taken.
IsNextKey(taken, r) ==
    /\ \A x \in taken : x < r
    /\ r - 1 \in taken \cup {NoRow}

(***************************************************************************)
(* get_previous, the row a rollback should promote now, is two queries.    *)
(* The first asks whether the latest attempt is unresolved or failed.      *)
(* Then the second asks for the release still current, which is the answer *)
(* unless nothing preceded it; otherwise for the tracked previous release. *)
(***************************************************************************)
LatestUnresolved(st) ==
    LET latest == First(Inserted(st))
    IN  latest # NoRow /\ st[latest] \in {"failed", "pending"}

\* Faulty: the tracked previous row, whatever the latest attempt came to.
GetPreviousTracked(st, rep, unresolved) == TrackedPrevious(st)

GetPrevious(st, rep, unresolved) ==
    LET cur == Current(st)
    IN  IF unresolved
        THEN IF cur # NoRow /\ rep[cur] # NoSha THEN cur ELSE NoRow
        ELSE TrackedPrevious(st)

(***************************************************************************)
(* mark_healthy promotes row r.  It has read cur, the current row, and     *)
(* prev, the tracked previous one, and flushes their demotions before it   *)
(* updates r itself.                                                       *)
(***************************************************************************)
\* Faulty: no special case for the release that is current already.
EveryDeployDemotes(sha, r, cur) == FALSE

SameShaRedeploy(sha, r, cur) == cur # NoRow /\ sha[cur] = sha[r]

\* Faulty: the old previous row is not demoted.
MarkHealthyKeepsPrevious(st, sha, r, cur, prev) ==
    [x \in Row |-> IF x = r THEN "current"
                   ELSE IF x = cur THEN "previous" ELSE st[x]]

MarkHealthy(st, sha, r, cur, prev) ==
    LET demoted == IF SameShaRedeploy(sha, r, cur)
                   THEN [st EXCEPT ![cur] = "history"]
                   ELSE [x \in Row |-> IF x = cur THEN "previous"
                                       ELSE IF x = prev THEN "history"
                                       ELSE st[x]]
    IN  [demoted EXCEPT ![r] = "current"]

\* Faulty: the promotion is flushed together with the demotions.
PromotionClashes(sha, r, cur, prev) == cur # NoRow

(***************************************************************************)
(* The flush sends one UPDATE per demoted row, in primary key order, and   *)
(* ux_releases_current_previous is checked by each statement.  When the    *)
(* old current row has the smaller key it becomes "previous" while the old *)
(* previous row still is, and the statement fails.                         *)
(***************************************************************************)
DemotionClashes(sha, r, cur, prev) ==
    /\ ~SameShaRedeploy(sha, r, cur)
    /\ cur # NoRow
    /\ prev # NoRow
    /\ cur < prev

\* mark_failed.
MarkFailed(st, r) == [st EXCEPT ![r] = "failed"]

\* Faulty: the test for "already current" is inverted.
RollbackInverted(st, target, cur) ==
    IF cur = target THEN [st EXCEPT ![target] = "current"] ELSE st

\* rollback promotes target in the place of cur, if that is another row.
Rollback(st, target, cur) ==
    LET demoted == [x \in Row |-> IF x = cur THEN "rolled_back" ELSE st[x]]
    IN  IF cur = target THEN st ELSE [demoted EXCEPT ![target] = "current"]

(***************************************************************************)
(* start_deploy fails every pending row older than 15 minutes, whether or  *)
(* not its deploy still runs (a migration has no time limit), then inserts *)
(* row new.  The rows that are old enough are those before some row.       *)
(***************************************************************************)
ReapAndInsert(st, oldest, new) ==
    LET reaped == [x \in Row |-> IF x < oldest /\ st[x] = "pending"
                                 THEN "failed" ELSE st[x]]
    IN  [reaped EXCEPT ![new] = "pending"]
=============================================================================
