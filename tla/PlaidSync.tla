----------------------------- MODULE PlaidSync -----------------------------
(***************************************************************************)
(* `finance sync` (src/finance_app/plaid/sync.py): the loop that keeps     *)
(* plaid.transactions in step with Plaid.                                  *)
(*                                                                         *)
(* Plaid is a feed: an ever growing sequence of events about transactions. *)
(* A cursor is a position in the feed; /transactions/sync answers with the *)
(* events from a cursor up to some later position.  A row is modelled by   *)
(* the position of the event it reflects, so what it holds is that event's *)
(* content, and 0 is "no such row".  A row that reflects a "removed" event *)
(* is a tombstone (removed_at is set).                                     *)
(*                                                                         *)
(* An invocation is a sequence of short transactions with calls to Plaid   *)
(* between them, meant to exclude each other by an advisory lock that      *)
(* lives on a connection of its own.                                       *)
(***************************************************************************)
EXTENDS Naturals, Sequences

CONSTANTS
    Invokers,    \* who runs `finance sync`: the timer, a person
    Txns,        \* Plaid transaction ids
    MaxEvents,   \* bound: length of the feed
    Faults       \* what may go wrong, a subset of AllFaults

\* "plaid": a call to Plaid fails, its retries included
\* "db":    a transaction raises
\* "kill":  the process dies
\* "lock":  the connection that holds the lock is lost, the run goes on
AllFaults == {"plaid", "db", "kill", "lock"}

ASSUME SyncFaultsAssumption == Faults \subseteq AllFaults
ASSUME MaxEventsAssumption == MaxEvents \in Nat

Nobody == "nobody"
ASSUME NobodyAssumption == Nobody \notin Invokers

VARIABLES
    feed,      \* Plaid's events
    rows,      \* plaid.transactions
    cursor,    \* plaid.sync_state.cursor
    state,     \* plaid.sync_state.status
    item,      \* whether plaid.items holds the Item
    lock,      \* holder of the advisory lock
    op         \* what each invoker is doing

vars == <<feed, rows, cursor, state, item, lock, op>>

Event == [txn : Txns, kind : {"upsert", "removed"}]

Pc == {"idle", "item", "begin", "attempt", "fetch", "apply", "succeed",
       "finish", "fail", "abort"}

\* from, to, more: the cursor the invocation read, the next_cursor and
\* has_more of the page it fetched; run: its row in ops.sync_runs; exit: how
\* the invoker's last invocation ended.  since only serves the properties:
\* the length of the feed when the invocation took the lock.
Position == 0..MaxEvents
Invocation == [pc : Pc, from : Position, to : Position, more : BOOLEAN,
               run : {"none", "running", "success", "error"},
               exit : {"none", "running", "ok", "error", "busy", "killed"},
               since : Position]

NotRunning == [pc |-> "idle", from |-> 0, to |-> 0, more |-> FALSE,
               run |-> "none", exit |-> "none", since |-> 0]

Init ==
    /\ feed = <<>>
    /\ rows = [t \in Txns |-> 0]
    /\ cursor = 0
    /\ state = "idle"
    /\ item = FALSE
    /\ lock = Nobody
    /\ op = [p \in Invokers |-> NotRunning]
-----------------------------------------------------------------------------
(* Plaid.                                                                  *)

Events(t, kinds, from, to) ==
    {i \in (from + 1)..to : feed[i].txn = t /\ feed[i].kind \in kinds}

Latest(positions) ==
    IF positions = {} THEN 0
    ELSE CHOOSE i \in positions : \A j \in positions : j <= i

AnyKind == {"upsert", "removed"}

\* The event about t that a consumer who has read up to pos saw last.
LastSeen(t, pos) == Latest(Events(t, AnyKind, 0, pos))

\* A transaction is added, modified any number of times, and removed at
\* most once and for good: a posted transaction that replaces a pending one
\* has an id of its own.
Emit(t, kind) ==
    /\ Len(feed) < MaxEvents
    /\ Events(t, {"removed"}, 0, Len(feed)) = {}
    /\ kind = "removed" => Events(t, {"upsert"}, 0, Len(feed)) # {}
    /\ feed' = Append(feed, [txn |-> t, kind |-> kind])
    /\ UNCHANGED <<rows, cursor, state, item, lock, op>>
-----------------------------------------------------------------------------
(* One invocation.                                                         *)

Goto(p, where) == op' = [op EXCEPT ![p].pc = where]

\* Leaving run_sync gives the lock up, if it is still there to give up.
Leave(p, how) ==
    /\ op' = [op EXCEPT ![p].pc = "idle", ![p].exit = how]
    /\ lock' = IF lock = p THEN Nobody ELSE lock

\* Faulty: nothing keeps a second invocation out.
TakeNoLock(p) ==
    /\ op[p].pc = "idle"
    /\ lock' = p
    /\ op' = [op EXCEPT ![p] = [NotRunning EXCEPT
                !.pc = "item", !.exit = "running", !.since = Len(feed)]]
    /\ UNCHANGED <<feed, rows, cursor, state, item>>

\* Faulty: sync_state.status serves as the lock.
TakeLockByStatus(p) ==
    /\ state # "running"
    /\ TakeNoLock(p)

\* pg_try_advisory_lock: a second invocation fails at once.
TakeLock(p) ==
    /\ op[p].pc = "idle"
    /\ \/ /\ lock = Nobody
          /\ lock' = p
          /\ op' = [op EXCEPT ![p] = [NotRunning EXCEPT
                      !.pc = "item", !.exit = "running", !.since = Len(feed)]]
       \/ /\ lock # Nobody
          /\ op' = [op EXCEPT ![p] = [NotRunning EXCEPT !.exit = "busy"]]
          /\ UNCHANGED lock
    /\ UNCHANGED <<feed, rows, cursor, state, item>>

\* /item/get is called on the first sync only.
EnsureItem(p) ==
    /\ op[p].pc = "item"
    /\ \/ item' = TRUE /\ Goto(p, "begin") /\ UNCHANGED lock
       \/ "plaid" \in Faults /\ ~item /\ Leave(p, "error") /\ UNCHANGED item
    /\ UNCHANGED <<feed, rows, cursor, state>>

StartRun(p) ==
    /\ op[p].pc = "begin"
    /\ op' = [op EXCEPT ![p].pc = "attempt", ![p].run = "running"]
    /\ UNCHANGED <<feed, rows, cursor, state, item, lock>>

\* The cursor is read in one transaction and used in the next.
RecordAttempt(p) ==
    /\ op[p].pc = "attempt"
    /\ state' = "running"
    /\ op' = [op EXCEPT ![p].pc = "fetch", ![p].from = cursor]
    /\ UNCHANGED <<feed, rows, cursor, item, lock>>

\* Faulty: has_more is not looked at.
FetchOnePage(p) ==
    /\ op[p].pc = "fetch"
    /\ \E to \in op[p].from..Len(feed) :
          op' = [op EXCEPT ![p].pc = "apply", ![p].to = to, ![p].more = FALSE]
    /\ UNCHANGED <<feed, rows, cursor, state, item, lock>>

\* Up to three attempts, all from the same cursor.  A page that has more
\* behind it is not empty.
FetchPage(p) ==
    /\ op[p].pc = "fetch"
    /\ \/ \E to \in op[p].from..Len(feed) :
            /\ to > op[p].from \/ to = Len(feed)
            /\ op' = [op EXCEPT ![p].pc = "apply", ![p].to = to,
                                ![p].more = to < Len(feed)]
       \/ "plaid" \in Faults /\ Goto(p, "fail")
    /\ UNCHANGED <<feed, rows, cursor, state, item, lock>>

\* transactions.upsert for every transaction added or modified in the page.
Upserted(old, from, to) ==
    [t \in Txns |-> LET seen == Events(t, {"upsert"}, from, to)
                    IN  IF seen = {} THEN old[t] ELSE Latest(seen)]

\* transactions.mark_removed: nothing is remembered of an unknown id.
Tombstoned(old, from, to) ==
    [t \in Txns |-> LET seen == Events(t, {"removed"}, from, to)
                    IN  IF seen = {} \/ old[t] = 0 THEN old[t] ELSE Latest(seen)]

\* Faulty: the page's removals come first.
ApplyRemovalsFirst(p) ==
    LET from == op[p].from
        to   == op[p].to
    IN  /\ op[p].pc = "apply"
        /\ rows' = Upserted(Tombstoned(rows, from, to), from, to)
        /\ cursor' = to
        /\ Goto(p, IF op[p].more THEN "attempt" ELSE "succeed")
        /\ UNCHANGED <<feed, state, item, lock>>

\* One transaction: the page's rows and the cursor.
ApplyPage(p) ==
    LET from == op[p].from
        to   == op[p].to
    IN  /\ op[p].pc = "apply"
        /\ rows' = Tombstoned(Upserted(rows, from, to), from, to)
        /\ cursor' = to
        /\ Goto(p, IF op[p].more THEN "attempt" ELSE "succeed")
        /\ UNCHANGED <<feed, state, item, lock>>

RecordSuccess(p) ==
    /\ op[p].pc = "succeed"
    /\ state' = "idle"
    /\ Goto(p, "finish")
    /\ UNCHANGED <<feed, rows, cursor, item, lock>>

\* Releasing a lock whose connection is gone raises, after all is done.
FinishSuccess(p) ==
    /\ op[p].pc = "finish"
    /\ op' = [op EXCEPT ![p].pc = "idle", ![p].run = "success",
                        ![p].exit = IF lock = p THEN "ok" ELSE "error"]
    /\ lock' = IF lock = p THEN Nobody ELSE lock
    /\ UNCHANGED <<feed, rows, cursor, state, item>>

RecordFailure(p) ==
    /\ op[p].pc = "fail"
    /\ state' = "error"
    /\ Goto(p, "abort")
    /\ UNCHANGED <<feed, rows, cursor, item, lock>>

FinishFailure(p) ==
    /\ op[p].pc = "abort"
    /\ op' = [op EXCEPT ![p].pc = "idle", ![p].run = "error",
                        ![p].exit = "error"]
    /\ lock' = IF lock = p THEN Nobody ELSE lock
    /\ UNCHANGED <<feed, rows, cursor, state, item>>

\* A transaction raises and is rolled back.  Inside the loop the failure is
\* recorded; before it, and while recording, the exception just leaves.
DatabaseError(p) ==
    /\ "db" \in Faults
    /\ \/ /\ op[p].pc \in {"attempt", "apply", "succeed", "finish"}
          /\ Goto(p, "fail")
          /\ UNCHANGED lock
       \/ /\ op[p].pc \in {"item", "begin", "fail", "abort"}
          /\ Leave(p, "error")
    /\ UNCHANGED <<feed, rows, cursor, state, item>>

\* The server frees the locks of a dead process's connections.
Kill(p) ==
    /\ "kill" \in Faults
    /\ op[p].pc # "idle"
    /\ Leave(p, "killed")
    /\ UNCHANGED <<feed, rows, cursor, state, item>>

LoseLock(p) ==
    /\ "lock" \in Faults
    /\ lock = p
    /\ lock' = Nobody
    /\ UNCHANGED <<feed, rows, cursor, state, item, op>>
-----------------------------------------------------------------------------
Step(p) == \/ EnsureItem(p) \/ StartRun(p) \/ RecordAttempt(p) \/ FetchPage(p)
           \/ ApplyPage(p) \/ RecordSuccess(p) \/ FinishSuccess(p)
           \/ RecordFailure(p) \/ FinishFailure(p)

Next == \/ \E t \in Txns, kind \in AnyKind : Emit(t, kind)
        \/ \E p \in Invokers : \/ TakeLock(p) \/ Step(p)
                               \/ DatabaseError(p) \/ Kill(p) \/ LoseLock(p)

(***************************************************************************)
(* The timer fires every day, and a process that runs goes on running.  No *)
(* fault strikes every day at the same place: a step that is possible      *)
(* again and again succeeds some day.                                      *)
(***************************************************************************)
FetchSucceeds(p) == FetchPage(p) /\ op'[p].pc = "apply"
ItemKnown(p) == EnsureItem(p) /\ op'[p].pc = "begin"

Fairness ==
    \A p \in Invokers :
        /\ WF_vars(Step(p))
        /\ SF_vars(TakeLock(p) /\ lock' = p)
        /\ SF_vars(ItemKnown(p))
        /\ SF_vars(StartRun(p))
        /\ SF_vars(RecordAttempt(p))
        /\ SF_vars(FetchSucceeds(p))
        /\ SF_vars(ApplyPage(p))

Safety == Init /\ [][Next]_vars

Spec == Safety /\ Fairness
-----------------------------------------------------------------------------
TypeOK ==
    /\ feed \in Seq(Event) /\ Len(feed) <= MaxEvents
    /\ rows \in [Txns -> Position]
    /\ cursor \in Position
    /\ state \in {"idle", "running", "error"}
    /\ item \in BOOLEAN
    /\ lock \in Invokers \cup {Nobody}
    /\ op \in [Invokers -> Invocation]

\* The table is exactly what a reader of the feed up to the cursor knows: no
\* crash, failure or replay shows in it.
MirrorsTheFeed == \A t \in Txns : rows[t] = LastSeen(t, cursor)

\* The cursor never goes back.
CursorNeverRegresses == [][cursor' >= cursor]_vars

\* An invocation that ends well has brought in everything Plaid had when it
\* started.
SuccessIsCaughtUp ==
    [][\A p \in Invokers : op[p].pc = "finish" /\ op'[p].run = "success"
            => cursor >= op[p].since]_vars

\* Every event reaches the table, however often invocations fail on the way.
EveryEventArrives ==
    \A n \in 1..MaxEvents :
        Len(feed) >= n ~> cursor >= n /\ MirrorsTheFeed

\* What the proofs need of Plaid: a removal is the last event about a
\* transaction and never the first.
FeedIsSane ==
    \A i \in 1..Len(feed) : feed[i].kind = "removed" =>
        /\ \A j \in 1..Len(feed) : feed[j].txn = feed[i].txn => j <= i
        /\ \E j \in 1..Len(feed) : feed[j].txn = feed[i].txn /\ j < i

\* Whoever is at work holds the lock.
OneAtWork == \A p \in Invokers : op[p].pc # "idle" <=> lock = p

\* The cursor is still what the worker read, its page lies behind it, and the
\* last page reaches what Plaid had when the worker began.
Placed(p) ==
    /\ op[p].pc # "idle" => op[p].since <= Len(feed)
    /\ op[p].pc \in {"fetch", "apply"} => op[p].from = cursor
    /\ op[p].pc = "apply" => op[p].to \in cursor..Len(feed)
    /\ op[p].pc = "apply" /\ ~op[p].more => op[p].since <= op[p].to
    /\ op[p].pc \in {"succeed", "finish"} => op[p].since <= cursor

InPlace == \A p \in Invokers : Placed(p)

\* The inductive invariant behind the first three properties, as long as the
\* lock is not lost (PlaidSyncProofs): the one invocation at work stands where
\* the table and the cursor are.
SyncInv == TypeOK /\ cursor <= Len(feed) /\ FeedIsSane /\ MirrorsTheFeed
           /\ OneAtWork /\ InPlace
=============================================================================
