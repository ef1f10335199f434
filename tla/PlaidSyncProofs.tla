-------------------------- MODULE PlaidSyncProofs --------------------------
(***************************************************************************)
(* Proofs about PlaidSync, for any invokers, transactions, length of the   *)
(* feed and faults; what depends on the lock assumes that its connection   *)
(* is not lost.                                                            *)
(***************************************************************************)
EXTENDS PlaidSync, Integers, WellFoundedInduction, TLAPS

-----------------------------------------------------------------------------
(* Positions in the feed.                                                  *)

\* A set of naturals has a least element.
LEMMA LeastElement ==
    ASSUME NEW D \in SUBSET Nat, D # {}
    PROVE  \E d \in D : \A e \in D : d <= e
  <1> DEFINE R == OpToRel(<, Nat)
  <1>1. IsWellFoundedOn(R, Nat)
    BY NatLessThanWellFounded
  <1>2. \A x, y \in Nat : x < y => <<x, y>> \in R
    BY DEF OpToRel
  <1> HIDE DEF R
  <1>3. PICK d \in D : \A e \in D : <<e, d>> \notin R
    BY <1>1, WFMin
  <1>4. \A e \in D : ~(e < d)
    BY <1>2, <1>3
  <1> QED
    BY <1>4

\* Latest of a bounded set is its greatest element.
LEMMA LatestOf ==
    ASSUME NEW S \in SUBSET Nat, NEW n \in Nat, \A s \in S : s <= n, S # {}
    PROVE  Latest(S) \in S /\ \A s \in S : s <= Latest(S)
  <1> DEFINE D == {k \in Nat : \E s \in S : k = n - s}
  <1>1. D # {}
    <2>1. PICK s \in S : TRUE
      OBVIOUS
    <2>2. n - s \in D
      BY <2>1
    <2> QED
      BY <2>2
  <1>2. PICK d \in D : \A e \in D : d <= e
    <2> HIDE DEF D
    <2>1. D \in SUBSET Nat
      BY DEF D
    <2> QED
      BY <1>1, <2>1, LeastElement
  <1>3. PICK m \in S : d = n - m
    BY <1>2
  <1>4. \A s \in S : n - m <= n - s
    BY <1>2, <1>3
  <1>5. \A s \in S : s <= m
    BY <1>4
  <1>6. \E i \in S : \A s \in S : s <= i
    BY <1>5
  <1> QED
    BY <1>6, Zenon DEF Latest

\* An element with nothing above it is the latest.
LEMMA LatestIs ==
    ASSUME NEW S \in SUBSET Nat, NEW m \in S, \A s \in S : s <= m
    PROVE  Latest(S) = m
  <1>1. Latest(S) \in S /\ \A s \in S : s <= Latest(S)
    BY LatestOf
  <1>2. m \in Nat /\ Latest(S) \in Nat
    BY <1>1
  <1> QED
    BY <1>1, <1>2

\* Where the events of a stretch of the feed lie.
LEMMA EventPositions ==
    ASSUME NEW t, NEW kinds, NEW from \in Nat, NEW to \in Nat
    PROVE  LET E == Events(t, kinds, from, to)
           IN  /\ E \in SUBSET Nat
               /\ \A i \in E : from < i /\ i <= to
               /\ E = {} => Latest(E) = 0
               /\ E # {} => Latest(E) \in E /\ \A i \in E : i <= Latest(E)
               /\ Latest(E) \in 0..to
  <1> DEFINE E == Events(t, kinds, from, to)
  <1>1. E \in SUBSET Nat /\ \A i \in E : from < i /\ i <= to
    BY DEF Events
  <1>2. E = {} => Latest(E) = 0
    BY DEF Latest
  <1>3. E # {} => Latest(E) \in E /\ \A i \in E : i <= Latest(E)
    BY <1>1, LatestOf
  <1>4. Latest(E) \in 0..to
    BY <1>1, <1>2, <1>3
  <1> QED
    BY <1>1, <1>2, <1>3, <1>4

-----------------------------------------------------------------------------
(* Types.                                                                  *)

\* Steps of one invocation that leave Plaid and the table alone.
LEMMA OpType ==
    ASSUME TypeOK, NEW p \in Invokers,
           NEW pc \in Pc, op' = [op EXCEPT ![p].pc = pc]
    PROVE  op' \in [Invokers -> Invocation]
  BY DEF TypeOK, Invocation

\* An invocation that leaves is well-formed.
LEMMA LeaveType ==
    ASSUME TypeOK, NEW p \in Invokers,
           NEW how \in {"ok", "error", "busy", "killed"}, Leave(p, how)
    PROVE  /\ op' \in [Invokers -> Invocation]
           /\ lock' \in Invokers \cup {Nobody}
  <1>1. op \in [Invokers -> Invocation] /\ op[p] \in Invocation
    BY DEF TypeOK
  <1>2. [op[p] EXCEPT !.pc = "idle", !.exit = how] \in Invocation
    BY <1>1 DEF Invocation, Pc
  <1>3. op' = [op EXCEPT ![p] = [op[p] EXCEPT !.pc = "idle", !.exit = how]]
    BY <1>1 DEF Leave
  <1> QED
    BY <1>1, <1>2, <1>3 DEF Leave, TypeOK

\* One step per action.
LEMMA TypeStep == TypeOK /\ [Next]_vars => TypeOK'
  <1> SUFFICES ASSUME TypeOK, [Next]_vars PROVE TypeOK'
    OBVIOUS
  <1> USE MaxEventsAssumption
  <1>1. CASE UNCHANGED vars
    BY <1>1 DEF vars, TypeOK
  <1>2. ASSUME NEW t \in Txns, NEW kind \in AnyKind, Emit(t, kind) PROVE TypeOK'
    <2>1. [txn |-> t, kind |-> kind] \in Event
      BY DEF Event, AnyKind
    <2>2. feed' \in Seq(Event) /\ Len(feed') = Len(feed) + 1
      BY <1>2, <2>1 DEF Emit, TypeOK
    <2> QED
      BY <1>2, <2>2 DEF Emit, TypeOK
  <1>3. ASSUME NEW p \in Invokers, TakeLock(p) PROVE TypeOK'
    <2>1. Len(feed) \in Position
      BY DEF TypeOK, Position
    <2>0. NotRunning \in Invocation
      BY DEF NotRunning, Invocation, Pc, Position
    <2>2. /\ [NotRunning EXCEPT !.pc = "item", !.exit = "running",
                                !.since = Len(feed)] \in Invocation
          /\ [NotRunning EXCEPT !.exit = "busy"] \in Invocation
      BY <2>0, <2>1 DEF Invocation, Pc
    <2> QED
      BY <1>3, <2>2 DEF TakeLock, TypeOK
  <1>4. ASSUME NEW p \in Invokers, EnsureItem(p) PROVE TypeOK'
    <2>1. CASE item' = TRUE /\ Goto(p, "begin") /\ UNCHANGED lock
      <3>1. op' \in [Invokers -> Invocation]
        BY <2>1, OpType DEF Goto, Pc
      <3> QED
        BY <1>4, <2>1, <3>1 DEF EnsureItem, TypeOK
    <2>2. CASE Leave(p, "error") /\ UNCHANGED item
      BY <1>4, <2>2, LeaveType DEF EnsureItem, TypeOK
    <2> QED
      BY <1>4, <2>1, <2>2 DEF EnsureItem
  <1>5. ASSUME NEW p \in Invokers, StartRun(p) PROVE TypeOK'
    <2>1. op \in [Invokers -> Invocation] /\ op[p] \in Invocation
      BY DEF TypeOK
    <2>2. [op[p] EXCEPT !.pc = "attempt", !.run = "running"] \in Invocation
      BY <2>1 DEF Invocation, Pc
    <2>3. op' = [op EXCEPT ![p] = [op[p] EXCEPT !.pc = "attempt", !.run = "running"]]
      BY <1>5, <2>1 DEF StartRun
    <2> QED
      BY <1>5, <2>1, <2>2, <2>3 DEF StartRun, TypeOK
  <1>6. ASSUME NEW p \in Invokers, RecordAttempt(p) PROVE TypeOK'
    <2>1. op \in [Invokers -> Invocation] /\ op[p] \in Invocation
      BY DEF TypeOK
    <2>2. [op[p] EXCEPT !.pc = "fetch", !.from = cursor] \in Invocation
      BY <2>1 DEF TypeOK, Invocation, Pc
    <2>3. op' = [op EXCEPT ![p] = [op[p] EXCEPT !.pc = "fetch", !.from = cursor]]
      BY <1>6, <2>1 DEF RecordAttempt
    <2> QED
      BY <1>6, <2>1, <2>2, <2>3 DEF RecordAttempt, TypeOK
  <1>7. ASSUME NEW p \in Invokers, FetchPage(p) PROVE TypeOK'
    <2>1. CASE Goto(p, "fail")
      BY <1>7, <2>1, OpType DEF FetchPage, Goto, TypeOK, Pc
    <2>2. ASSUME NEW to \in op[p].from..Len(feed),
                 op' = [op EXCEPT ![p].pc = "apply", ![p].to = to,
                                  ![p].more = to < Len(feed)]
          PROVE  op' \in [Invokers -> Invocation]
      <3>1. op[p].from \in Position
        BY DEF TypeOK, Invocation
      <3>2. to \in Position /\ (to < Len(feed)) \in BOOLEAN
        BY <3>1 DEF TypeOK, Position
      <3>3. /\ op \in [Invokers -> Invocation]
            /\ op[p] \in Invocation
        BY DEF TypeOK
      <3>4. [op[p] EXCEPT !.pc = "apply", !.to = to, !.more = to < Len(feed)]
                \in Invocation
        BY <3>2, <3>3 DEF Invocation, Pc
      <3> QED
        BY <2>2, <3>3, <3>4
    <2> QED
      BY <1>7, <2>1, <2>2 DEF FetchPage, TypeOK
  <1>8. ASSUME NEW p \in Invokers, ApplyPage(p) PROVE TypeOK'
    <2>1. op[p].from \in Nat /\ op[p].to \in Nat /\ op[p].to \in Position
      BY DEF TypeOK, Invocation, Position
    <2>2. \A t \in Txns : rows'[t] \in Position
      <3> SUFFICES ASSUME NEW t \in Txns PROVE rows'[t] \in Position
        OBVIOUS
      <3>1. /\ Latest(Events(t, {"upsert"}, op[p].from, op[p].to)) \in 0..op[p].to
            /\ Latest(Events(t, {"removed"}, op[p].from, op[p].to)) \in 0..op[p].to
        BY <2>1, EventPositions
      <3>2. 0..op[p].to \subseteq Position
        BY <2>1 DEF Position
      <3> QED
        BY <1>8, <3>1, <3>2 DEF ApplyPage, Tombstoned, Upserted, TypeOK
    <2>3. op' \in [Invokers -> Invocation]
      BY <1>8, OpType DEF ApplyPage, Goto, Pc
    <2>4. rows' \in [Txns -> Position]
      BY <1>8, <2>2 DEF ApplyPage, Tombstoned
    <2> QED
      BY <1>8, <2>1, <2>3, <2>4 DEF ApplyPage, TypeOK
  <1>9. ASSUME NEW p \in Invokers, RecordSuccess(p) \/ RecordFailure(p) PROVE TypeOK'
    BY <1>9, OpType DEF RecordSuccess, RecordFailure, Goto, TypeOK, Pc
  <1>10. ASSUME NEW p \in Invokers, FinishSuccess(p) \/ FinishFailure(p) PROVE TypeOK'
    <2>1. PICK run \in {"success", "error"}, how \in {"ok", "error"} :
             op' = [op EXCEPT ![p].pc = "idle", ![p].run = run, ![p].exit = how]
      BY <1>10, Zenon DEF FinishSuccess, FinishFailure
    <2>2. op \in [Invokers -> Invocation] /\ op[p] \in Invocation
      BY DEF TypeOK
    <2>3. [op[p] EXCEPT !.pc = "idle", !.run = run, !.exit = how] \in Invocation
      BY <2>2 DEF Invocation, Pc
    <2>4. op' = [op EXCEPT ![p] = [op[p] EXCEPT !.pc = "idle", !.run = run,
                                                !.exit = how]]
      BY <2>1, <2>2
    <2> QED
      BY <1>10, <2>2, <2>3, <2>4 DEF FinishSuccess, FinishFailure, TypeOK
  <1>11. ASSUME NEW p \in Invokers, DatabaseError(p) PROVE TypeOK'
    BY <1>11, OpType, LeaveType DEF DatabaseError, Goto, TypeOK, Pc
  <1>12. ASSUME NEW p \in Invokers, Kill(p) PROVE TypeOK'
    BY <1>12, LeaveType DEF Kill, TypeOK
  <1>13. ASSUME NEW p \in Invokers, LoseLock(p) PROVE TypeOK'
    BY <1>13 DEF LoseLock, TypeOK
  <1> QED
    BY <1>1, <1>2, <1>3, <1>4, <1>5, <1>6, <1>7, <1>8, <1>9, <1>10, <1>11, <1>12,
       <1>13 DEF Next, Step

\* Nothing is read, nobody runs.
LEMMA InitTypes == Init => TypeOK
  <1> SUFFICES ASSUME Init PROVE TypeOK
    OBVIOUS
  <1>1. 0 \in Position
    BY MaxEventsAssumption DEF Position
  <1>2. NotRunning \in Invocation
    BY <1>1 DEF NotRunning, Invocation, Pc
  <1>3. feed \in Seq(Event) /\ Len(feed) <= MaxEvents
    BY MaxEventsAssumption DEF Init
  <1>4. item \in BOOLEAN
    BY DEF Init
  <1> QED
    BY <1>1, <1>2, <1>3, <1>4 DEF Init, TypeOK

\* The types, under every fault, the loss of the lock included.
THEOREM Types == Safety => []TypeOK
  <1>1. Init => TypeOK
    BY InitTypes
  <1>2. TypeOK /\ [Next]_vars => TypeOK'
    BY TypeStep
  <1> QED
    BY <1>1, <1>2, PTL DEF Safety

-----------------------------------------------------------------------------
(* The table and the feed.                                                 *)

\* Two stretches of the feed that follow each other.
LEMMA Stretches ==
    ASSUME NEW t, NEW kinds, NEW from \in Nat, NEW to \in Nat, from <= to
    PROVE  Events(t, kinds, 0, to) =
             Events(t, kinds, 0, from) \cup Events(t, kinds, from, to)
  BY DEF Events

\* A page that starts where the table stands brings it to where the page
\* ends.
LEMMA PageMirrors ==
    ASSUME TypeOK, FeedIsSane, NEW from \in Nat, NEW to \in from..Len(feed),
           \A t \in Txns : rows[t] = LastSeen(t, from)
    PROVE  \A t \in Txns :
             Tombstoned(Upserted(rows, from, to), from, to)[t] = LastSeen(t, to)
  <1> SUFFICES ASSUME NEW t \in Txns
               PROVE  Tombstoned(Upserted(rows, from, to), from, to)[t]
                        = LastSeen(t, to)
    OBVIOUS
  <1> DEFINE Old == Events(t, AnyKind, 0, from)
             Up  == Events(t, {"upsert"}, from, to)
             Rem == Events(t, {"removed"}, from, to)
             All == Events(t, AnyKind, 0, to)
             was == IF Up = {} THEN rows[t] ELSE Latest(Up)
  <1>1. Tombstoned(Upserted(rows, from, to), from, to)[t] =
          IF Rem = {} \/ was = 0 THEN was ELSE Latest(Rem)
    BY DEF Tombstoned, Upserted
  <1>2. rows[t] = Latest(Old) /\ LastSeen(t, to) = Latest(All)
    BY DEF LastSeen
  <1>3. All = Old \cup Up \cup Rem
    BY DEF Events, AnyKind
  <1>4. /\ Old \in SUBSET Nat /\ \A i \in Old : 0 < i /\ i <= from
        /\ Old = {} => Latest(Old) = 0
        /\ Old # {} => Latest(Old) \in Old /\ \A i \in Old : i <= Latest(Old)
    BY EventPositions
  <1>5. /\ Up \in SUBSET Nat /\ \A i \in Up : from < i /\ i <= to
        /\ Up # {} => Latest(Up) \in Up /\ \A i \in Up : i <= Latest(Up)
    BY EventPositions
  <1>6. /\ Rem \in SUBSET Nat /\ \A i \in Rem : from < i /\ i <= to
    BY EventPositions
  <1>7. All \in SUBSET Nat
    BY <1>3, <1>4, <1>5, <1>6
  <1>8. CASE Rem = {} /\ Up = {}
    BY <1>1, <1>2, <1>3, <1>8
  <1>9. CASE Rem = {} /\ Up # {}
    <2> HIDE DEF Old, Up, Rem, All
    <2>1. Latest(Up) \in All /\ \A i \in All : i <= Latest(Up)
      <3>1. Latest(Up) \in Up /\ Latest(Up) \in Nat /\ from < Latest(Up)
        BY <1>5, <1>9
      <3>2. \A i \in Old : i \in Nat /\ i <= Latest(Up)
        BY <1>4, <3>1
      <3> QED
        BY <1>3, <1>5, <1>9, <3>1, <3>2
    <2>2. Latest(All) = Latest(Up)
      BY <1>7, <2>1, LatestIs
    <2> QED
      BY <1>1, <1>2, <1>9, <2>2 DEF was
  <1>10. CASE Rem # {}
    <2>1. PICK r \in Rem : TRUE
      BY <1>10
    <2>2. /\ r \in 1..Len(feed) /\ feed[r].txn = t /\ feed[r].kind = "removed"
      BY <2>1, <1>6 DEF Events, TypeOK
    <2>3. \A j \in 1..Len(feed) : feed[j].txn = t => j <= r
      BY <2>2 DEF FeedIsSane
    <2>4. \A i \in All : i \in 1..Len(feed) /\ feed[i].txn = t
      BY DEF Events, TypeOK
    <2>5. \A i \in All : i <= r
      BY <2>3, <2>4
    <2>6. PICK j \in 1..Len(feed) : feed[j].txn = t /\ j < r
      BY <2>2 DEF FeedIsSane
    <2>7. feed[j].kind = "upsert"
      <3>1. feed[j] \in Event
        BY DEF TypeOK
      <3>2. feed[j].kind # "removed"
        BY <2>2, <2>6 DEF FeedIsSane
      <3> QED
        BY <3>1, <3>2 DEF Event
    <2>8. j \in Old \cup Up
      BY <2>1, <2>6, <2>7, <1>6 DEF Events, AnyKind
    <2> HIDE DEF Old, Up, Rem, All
    <2>9. was # 0
      BY <1>2, <1>4, <1>5, <2>8 DEF was
    <2>10. Latest(Rem) = r
      BY <1>3, <1>6, <2>1, <2>5, LatestIs
    <2>11. Latest(All) = r
      BY <1>3, <1>7, <2>1, <2>5, LatestIs
    <2> QED
      BY <1>1, <1>2, <1>10, <2>9, <2>10, <2>11
  <1> QED
    BY <1>8, <1>9, <1>10

\* Every position is a natural number.
LEMMA Counters ==
    ASSUME TypeOK, NEW p \in Invokers
    PROVE  /\ op[p].from \in Nat /\ op[p].to \in Nat /\ op[p].since \in Nat
           /\ cursor \in Nat /\ Len(feed) \in Nat
           /\ op \in [Invokers -> Invocation] /\ op[p] \in Invocation
  <1>1. op \in [Invokers -> Invocation] /\ op[p] \in Invocation
    BY DEF TypeOK
  <1>2. op[p].from \in Position /\ op[p].to \in Position /\ op[p].since \in Position
    BY <1>1 DEF Invocation
  <1>3. Position \subseteq Nat
    BY MaxEventsAssumption DEF Position
  <1>4. cursor \in Nat /\ Len(feed) \in Nat
    BY <1>3 DEF TypeOK
  <1> QED
    BY <1>1, <1>2, <1>3, <1>4

\* Plaid's next event leaves what was read of the feed alone.
LEMMA EmitStep ==
    ASSUME SyncInv, TypeOK', NEW t \in Txns, NEW kind \in AnyKind, Emit(t, kind)
    PROVE  SyncInv'
  <1> USE DEF SyncInv
  <1>1. /\ Len(feed) \in Nat /\ Len(feed') = Len(feed) + 1
        /\ \A i \in 1..Len(feed) : feed'[i] = feed[i]
        /\ feed'[Len(feed) + 1] = [txn |-> t, kind |-> kind]
    BY DEF Emit, TypeOK
  <1>2. cursor \in Nat /\ cursor' = cursor /\ rows' = rows
    BY DEF Emit, TypeOK, Position
  <1>3. /\ \A i \in 1..Len(feed) : feed[i].txn = t => feed[i].kind # "removed"
        /\ kind = "removed" => \E i \in 1..Len(feed) : feed[i].txn = t
    BY <1>1 DEF Emit, Events
  <1>4. FeedIsSane'
    <2> SUFFICES ASSUME NEW i \in 1..Len(feed'), feed'[i].kind = "removed"
                 PROVE  /\ \A j \in 1..Len(feed') : feed'[j].txn = feed'[i].txn => j <= i
                        /\ \E j \in 1..Len(feed') : feed'[j].txn = feed'[i].txn /\ j < i
      BY DEF FeedIsSane
    <2>1. CASE i \in 1..Len(feed)
      <3>1. feed'[i] = feed[i] /\ feed[i].txn # t
        BY <1>1, <1>3, <2>1
      <3>2. /\ \A j \in 1..Len(feed) : feed[j].txn = feed[i].txn => j <= i
            /\ \E j \in 1..Len(feed) : feed[j].txn = feed[i].txn /\ j < i
        BY <2>1, <3>1 DEF FeedIsSane
      <3>3. \A j \in 1..Len(feed') : j \in 1..Len(feed) \/ feed'[j].txn = t
        BY <1>1
      <3> QED
        BY <1>1, <3>1, <3>2, <3>3
    <2>2. CASE i = Len(feed) + 1
      BY <1>1, <1>3, <2>2
    <2> QED
      BY <1>1, <2>1, <2>2
  <1>5. MirrorsTheFeed'
    <2>1. ASSUME NEW u \in Txns
          PROVE  Events(u, AnyKind, 0, cursor)' = Events(u, AnyKind, 0, cursor)
      <3>1. \A i \in (0 + 1)..cursor : feed'[i] = feed[i]
        BY <1>1, <1>2
      <3> QED
        BY <1>2, <3>1 DEF Events
    <2> QED
      BY <1>2, <2>1 DEF MirrorsTheFeed, LastSeen
  <1>6. OneAtWork'
    BY DEF Emit, OneAtWork
  <1>7. InPlace'
    <2> SUFFICES ASSUME NEW p \in Invokers PROVE Placed(p)'
      BY DEF InPlace
    <2>1. Placed(p) /\ op' = op
      BY DEF Emit, InPlace
    <2>2. op[p].since \in Nat /\ op[p].to \in Nat
      BY Counters
    <2> QED
      BY <1>1, <1>2, <2>1, <2>2 DEF Placed
  <1> QED
    BY <1>1, <1>2, <1>4, <1>5, <1>6, <1>7

-----------------------------------------------------------------------------
(* The steps of the one invocation at work.                                *)

\* The others are idle.
LEMMA OneWorks ==
    ASSUME SyncInv, NEW p \in Invokers, op[p].pc # "idle" \/ lock = Nobody
    PROVE  /\ lock \in {p, Nobody}
           /\ \A q \in Invokers \ {p} : op[q].pc = "idle"
  <1>1. op[p].pc # "idle" => lock = p
    BY DEF SyncInv, OneAtWork
  <1> QED
    BY <1>1, NobodyAssumption DEF SyncInv, OneAtWork

\* So the invariant is about p alone.
LEMMA WorkStep ==
    ASSUME SyncInv, TypeOK', NEW p \in Invokers,
           op[p].pc # "idle" \/ lock = Nobody,
           UNCHANGED feed,
           \A q \in Invokers \ {p} : op'[q] = op[q],
           lock' = IF op'[p].pc = "idle" THEN Nobody ELSE p,
           MirrorsTheFeed', cursor' <= Len(feed), Placed(p)'
    PROVE  SyncInv'
  <1>1. \A q \in Invokers \ {p} : op[q].pc = "idle"
    BY OneWorks
  <1>2. OneAtWork'
    BY <1>1, NobodyAssumption DEF OneAtWork
  <1>3. InPlace'
    BY <1>1 DEF InPlace, Placed
  <1>4. FeedIsSane'
    BY DEF SyncInv, FeedIsSane
  <1> QED
    BY <1>2, <1>3, <1>4 DEF SyncInv

\* Most steps move neither the feed nor the table nor the cursor.
LEMMA QuietStep ==
    ASSUME SyncInv, TypeOK', NEW p \in Invokers,
           op[p].pc # "idle" \/ lock = Nobody,
           UNCHANGED <<feed, rows, cursor>>,
           \A q \in Invokers \ {p} : op'[q] = op[q],
           lock' = IF op'[p].pc = "idle" THEN Nobody ELSE p,
           Placed(p)'
    PROVE  SyncInv'
  <1>1. MirrorsTheFeed' /\ cursor' <= Len(feed)
    BY DEF SyncInv, MirrorsTheFeed, LastSeen, Events
  <1> QED
    BY <1>1, WorkStep

\* A step of the invocation at work: one case per action.
LEMMA WorkerStep ==
    ASSUME SyncInv, TypeOK', NEW p \in Invokers,
           Step(p) \/ DatabaseError(p) \/ Kill(p)
    PROVE  SyncInv'
  <1>1. /\ op \in [Invokers -> Invocation] /\ op[p] \in Invocation
        /\ op[p].from \in Nat /\ op[p].to \in Nat /\ op[p].since \in Nat
        /\ cursor \in Nat /\ Len(feed) \in Nat /\ cursor <= Len(feed)
    BY Counters DEF SyncInv
  <1>2. Placed(p)
    BY DEF SyncInv, InPlace
  <1>3. op[p].pc # "idle"
    BY DEF Step, EnsureItem, StartRun, RecordAttempt, FetchPage, ApplyPage,
           RecordSuccess, FinishSuccess, RecordFailure, FinishFailure,
           DatabaseError, Kill
  <1>4. lock = p
    BY <1>3 DEF SyncInv, OneAtWork
  \* Steps on to a place that needs nothing.
  <1>5. ASSUME NEW pc \in {"begin", "attempt", "fail", "abort"},
               \E run \in {op[p].run, "running"} :
                  op' = [op EXCEPT ![p].pc = pc, ![p].run = run],
               UNCHANGED <<feed, rows, cursor, lock>>
        PROVE  SyncInv'
    <2>1. /\ op'[p].pc = pc /\ op'[p].since = op[p].since
          /\ \A q \in Invokers \ {p} : op'[q] = op[q]
      BY <1>1, <1>5
    <2>2. Placed(p)'
      BY <1>2, <1>3, <1>5, <2>1 DEF Placed
    <2> QED
      BY <1>3, <1>4, <1>5, <2>1, <2>2, QuietStep
  \* Leaving.
  <1>6. ASSUME op'[p].pc = "idle", \A q \in Invokers \ {p} : op'[q] = op[q],
               lock' = IF lock = p THEN Nobody ELSE lock,
               UNCHANGED <<feed, rows, cursor>>
        PROVE  SyncInv'
    <2>1. Placed(p)'
      BY <1>6 DEF Placed
    <2> QED
      BY <1>3, <1>4, <1>6, <2>1, QuietStep
  <1>7. ASSUME NEW how, Leave(p, how), UNCHANGED <<feed, rows, cursor>>
        PROVE  SyncInv'
    <2>1. op'[p].pc = "idle" /\ \A q \in Invokers \ {p} : op'[q] = op[q]
      BY <1>1, <1>7 DEF Leave
    <2> QED
      BY <1>6, <1>7, <2>1 DEF Leave
  <1>8. ASSUME NEW pc \in {"begin", "attempt", "fail", "abort"}, Goto(p, pc),
               UNCHANGED <<feed, rows, cursor, lock>>
        PROVE  SyncInv'
    <2>1. op' = [op EXCEPT ![p].pc = pc, ![p].run = op[p].run]
      BY <1>1, <1>8 DEF Goto, Invocation
    <2> QED
      BY <1>5, <1>8, <2>1
  <1>9. CASE EnsureItem(p)
    BY <1>7, <1>8, <1>9 DEF EnsureItem
  <1>10. CASE StartRun(p)
    BY <1>5, <1>10 DEF StartRun
  <1>11. CASE RecordAttempt(p)
    <2>1. /\ op'[p].pc = "fetch" /\ op'[p].from = cursor
          /\ op'[p].since = op[p].since
          /\ \A q \in Invokers \ {p} : op'[q] = op[q]
          /\ UNCHANGED <<feed, rows, cursor, lock>>
      BY <1>1, <1>11 DEF RecordAttempt
    <2>2. Placed(p)'
      BY <1>2, <1>3, <2>1 DEF Placed
    <2> QED
      BY <1>3, <1>4, <2>1, <2>2, QuietStep
  <1>12. CASE FetchPage(p)
    <2>1. op[p].from = cursor /\ UNCHANGED <<feed, rows, cursor, lock>>
      BY <1>2, <1>12 DEF FetchPage, Placed
    <2>2. ASSUME NEW to \in op[p].from..Len(feed),
                 op' = [op EXCEPT ![p].pc = "apply", ![p].to = to,
                                  ![p].more = to < Len(feed)]
          PROVE  SyncInv'
      <3>1. /\ op'[p].pc = "apply" /\ op'[p].from = op[p].from
            /\ op'[p].to = to /\ op'[p].more = (to < Len(feed))
            /\ op'[p].since = op[p].since
            /\ \A q \in Invokers \ {p} : op'[q] = op[q]
        BY <1>1, <2>2
      <3>2. to \in cursor..Len(feed) /\ op[p].since <= Len(feed)
        BY <1>2, <1>3, <2>1 DEF Placed
      <3>3. ASSUME ~op'[p].more PROVE op[p].since <= to
        <4>1. ~(to < Len(feed))
          BY <3>1, <3>3, Zenon
        <4> QED
          BY <1>1, <3>2, <4>1
      <3>4. Placed(p)'
        BY <2>1, <3>1, <3>2, <3>3 DEF Placed
      <3> QED
        BY <1>3, <1>4, <2>1, <3>1, <3>4, QuietStep
    <2> QED
      BY <1>8, <1>12, <2>1, <2>2 DEF FetchPage
  <1>13. CASE ApplyPage(p)
    <2> DEFINE from == op[p].from
               to   == op[p].to
    <2>1. /\ from = cursor /\ to \in cursor..Len(feed)
          /\ ~op[p].more => op[p].since <= to
          /\ op[p].since <= Len(feed)
      BY <1>2, <1>13 DEF ApplyPage, Placed
    <2>2. /\ rows' = Tombstoned(Upserted(rows, from, to), from, to)
          /\ cursor' = to /\ feed' = feed /\ lock' = lock
      BY <1>13 DEF ApplyPage
    <2>3. /\ op'[p].pc = IF op[p].more THEN "attempt" ELSE "succeed"
          /\ op'[p].since = op[p].since
          /\ \A q \in Invokers \ {p} : op'[q] = op[q]
      BY <1>1, <1>13 DEF ApplyPage, Goto
    <2>4. \A t \in Txns : Tombstoned(Upserted(rows, from, to), from, to)[t]
                            = LastSeen(t, to)
      <3>1. \A t \in Txns : rows[t] = LastSeen(t, from)
        BY <2>1 DEF SyncInv, MirrorsTheFeed
      <3>2. TypeOK /\ FeedIsSane /\ from \in Nat /\ to \in from..Len(feed)
        BY <1>1, <2>1 DEF SyncInv
      <3> HIDE DEF from, to
      <3> QED
        BY <3>1, <3>2, PageMirrors
    <2>5. MirrorsTheFeed'
      BY <2>2, <2>4 DEF MirrorsTheFeed, LastSeen, Events
    <2>6. Placed(p)'
      BY <2>1, <2>2, <2>3 DEF Placed
    <2>7. cursor' <= Len(feed)
      BY <1>1, <2>1, <2>2
    <2>8. lock' = IF op'[p].pc = "idle" THEN Nobody ELSE p
      BY <1>4, <2>2, <2>3
    <2> QED
      BY <1>3, <2>2, <2>3, <2>5, <2>6, <2>7, <2>8, WorkStep
  <1>14. CASE RecordSuccess(p)
    <2>1. /\ op'[p].pc = "finish" /\ op'[p].since = op[p].since
          /\ \A q \in Invokers \ {p} : op'[q] = op[q]
          /\ UNCHANGED <<feed, rows, cursor, lock>>
      BY <1>1, <1>14 DEF RecordSuccess, Goto
    <2>2. Placed(p)'
      BY <1>2, <1>3, <1>14, <2>1 DEF Placed, RecordSuccess
    <2> QED
      BY <1>3, <1>4, <2>1, <2>2, QuietStep
  <1>15. CASE FinishSuccess(p) \/ FinishFailure(p)
    <2>1. op'[p].pc = "idle" /\ \A q \in Invokers \ {p} : op'[q] = op[q]
      <3>1. PICK run, how : op' = [op EXCEPT ![p].pc = "idle", ![p].run = run,
                                             ![p].exit = how]
        BY <1>15, Zenon DEF FinishSuccess, FinishFailure
      <3> QED
        BY <1>1, <3>1
    <2> QED
      BY <1>6, <1>15, <2>1 DEF FinishSuccess, FinishFailure
  <1>16. CASE RecordFailure(p)
    BY <1>8, <1>16 DEF RecordFailure
  <1>17. CASE DatabaseError(p)
    BY <1>7, <1>8, <1>17 DEF DatabaseError
  <1>18. CASE Kill(p)
    BY <1>7, <1>18 DEF Kill
  <1> QED
    BY <1>9, <1>10, <1>11, <1>12, <1>13, <1>14, <1>15, <1>16, <1>17, <1>18 DEF Step

\* One step per action.
LEMMA SyncStep ==
    ASSUME SyncInv, TypeOK', [Next]_vars, "lock" \notin Faults
    PROVE  SyncInv'
  <1>1. CASE UNCHANGED vars
    BY <1>1 DEF vars, SyncInv, FeedIsSane, MirrorsTheFeed, LastSeen, Events,
                OneAtWork, InPlace, Placed
  <1>2. ASSUME NEW t \in Txns, NEW kind \in AnyKind, Emit(t, kind) PROVE SyncInv'
    BY <1>2, EmitStep
  <1>3. ASSUME NEW p \in Invokers, TakeLock(p) PROVE SyncInv'
    <2>0. /\ NotRunning.pc = "idle" /\ op[p].pc = "idle"
          /\ op \in [Invokers -> Invocation] /\ Len(feed) \in Nat
      BY <1>3, Counters DEF TakeLock, NotRunning, SyncInv
    <2>1. CASE lock = Nobody /\ lock' = p
      <3> DEFINE begun == [NotRunning EXCEPT !.pc = "item", !.exit = "running",
                                             !.since = Len(feed)]
      <3>1. op' = [op EXCEPT ![p] = begun]
        BY <1>3, <2>1, NobodyAssumption DEF TakeLock
      <3>2. begun.pc = "item" /\ begun.since = Len(feed)
        BY DEF NotRunning
      <3> HIDE DEF begun
      <3>3. op'[p] = begun /\ \A q \in Invokers \ {p} : op'[q] = op[q]
        BY <2>0, <3>1
      <3>4. UNCHANGED <<feed, rows, cursor>>
        BY <1>3 DEF TakeLock
      <3>5. Placed(p)'
        BY <2>0, <3>2, <3>3, <3>4 DEF Placed
      <3> QED
        BY <2>1, <3>2, <3>3, <3>4, <3>5, QuietStep
    <2>2. CASE lock # Nobody /\ UNCHANGED lock
              /\ op' = [op EXCEPT ![p] = [NotRunning EXCEPT !.exit = "busy"]]
      <3>1. /\ op'[p].pc = "idle"
            /\ \A q \in Invokers \ {p} : op'[q] = op[q]
        BY <2>0, <2>2 DEF NotRunning
      <3>2. UNCHANGED <<feed, rows, cursor>>
        BY <1>3 DEF TakeLock
      <3>3. OneAtWork'
        BY <2>0, <2>2, <3>1 DEF SyncInv, OneAtWork
      <3>4. InPlace'
        BY <3>1, <3>2 DEF SyncInv, InPlace, Placed
      <3> QED
        BY <3>2, <3>3, <3>4 DEF SyncInv, FeedIsSane, MirrorsTheFeed, LastSeen, Events
    <2> QED
      BY <1>3, <2>1, <2>2 DEF TakeLock
  <1>4. ASSUME NEW p \in Invokers, Step(p) \/ DatabaseError(p) \/ Kill(p)
        PROVE  SyncInv'
    BY <1>4, WorkerStep
  <1> QED
    BY <1>1, <1>2, <1>3, <1>4 DEF Next, LoseLock

\* No invocation has begun and no event was emitted.
LEMMA InitSync == Init => SyncInv
  <1> SUFFICES ASSUME Init PROVE SyncInv
    OBVIOUS
  <1>1. TypeOK
    BY InitTypes
  <1>2. Len(feed) = 0 /\ cursor = 0 /\ \A t \in Txns : rows[t] = 0
    BY DEF Init
  <1>3. MirrorsTheFeed
    <2>1. \A t \in Txns : Events(t, AnyKind, 0, cursor) = {}
      BY <1>2 DEF Events
    <2> QED
      BY <1>2, <2>1 DEF MirrorsTheFeed, LastSeen, Latest
  <1>4. FeedIsSane
    BY <1>2 DEF FeedIsSane
  <1>5. \A p \in Invokers : op[p].pc = "idle"
    BY DEF Init, NotRunning
  <1>6. OneAtWork /\ InPlace
    BY <1>5, NobodyAssumption DEF Init, OneAtWork, InPlace, Placed
  <1> QED
    BY <1>1, <1>2, <1>3, <1>4, <1>6 DEF SyncInv

-----------------------------------------------------------------------------
(* The theorems.                                                           *)

\* As long as the lock's connection is not lost, whatever else fails: the
\* invocation at work is alone, and stands where the table and the cursor do.
THEOREM Invariant == "lock" \notin Faults => (Safety => []SyncInv)
  <1> SUFFICES ASSUME "lock" \notin Faults PROVE Safety => []SyncInv
    OBVIOUS
  <1>1. Init => SyncInv
    BY InitSync
  <1>2. SyncInv /\ [Next]_vars => SyncInv'
    BY SyncStep, TypeStep DEF SyncInv
  <1> QED
    BY <1>1, <1>2, PTL DEF Safety

\* The table is what a reader of the feed up to the cursor knows: no page is
\* lost, applied twice or applied in part (the transaction of a page in
\* _run_sync_locked).
THEOREM TableMirrorsFeed == "lock" \notin Faults => (Safety => []MirrorsTheFeed)
  <1> SUFFICES ASSUME "lock" \notin Faults PROVE Safety => []MirrorsTheFeed
    OBVIOUS
  <1>1. SyncInv => MirrorsTheFeed
    BY DEF SyncInv
  <1> QED
    BY <1>1, Invariant, PTL

\* The cursor never goes back: what the lock is for (plaid/sync.py, module
\* docstring, Concurrency).
THEOREM CursorAdvances == "lock" \notin Faults => (Safety => CursorNeverRegresses)
  <1> SUFFICES ASSUME "lock" \notin Faults PROVE Safety => CursorNeverRegresses
    OBVIOUS
  <1>1. ASSUME SyncInv, [Next]_vars PROVE [cursor' >= cursor]_vars
    <2>1. cursor \in Nat
      BY <1>1, MaxEventsAssumption DEF SyncInv, TypeOK, Position
    <2>2. ASSUME NEW p \in Invokers, ApplyPage(p) PROVE cursor' >= cursor
      <3>1. op[p].to \in cursor..Len(feed)
        BY <1>1, <2>2 DEF SyncInv, InPlace, Placed, ApplyPage
      <3> QED
        BY <2>1, <2>2, <3>1 DEF ApplyPage
    <2>3. CASE UNCHANGED cursor
      BY <2>1, <2>3
    <2>4. UNCHANGED cursor \/ \E p \in Invokers : ApplyPage(p)
      BY <1>1 DEF Next, Step, vars, Emit, TakeLock, EnsureItem, StartRun,
                  RecordAttempt, FetchPage, RecordSuccess, FinishSuccess,
                  RecordFailure, FinishFailure, DatabaseError, Kill, LoseLock
    <2> QED
      BY <2>2, <2>3, <2>4
  <1> QED
    BY <1>1, Invariant, PTL DEF Safety, CursorNeverRegresses

\* An invocation that ends well has brought in all that Plaid had when it
\* took the lock (the loop on has_more).
THEOREM SuccessIsComplete == "lock" \notin Faults => (Safety => SuccessIsCaughtUp)
  <1> SUFFICES ASSUME "lock" \notin Faults PROVE Safety => SuccessIsCaughtUp
    OBVIOUS
  <1> DEFINE CaughtUp == \A p \in Invokers :
                 op[p].pc = "finish" /\ op'[p].run = "success"
                     => cursor >= op[p].since
  <1>1. SyncInv => CaughtUp
    <2> SUFFICES ASSUME SyncInv, NEW p \in Invokers, op[p].pc = "finish"
                 PROVE  cursor >= op[p].since
      OBVIOUS
    <2>1. op[p].since <= cursor
      BY DEF SyncInv, InPlace, Placed
    <2> QED
      BY <2>1, Counters DEF SyncInv
  <1>2. SyncInv /\ [Next]_vars => [CaughtUp]_vars
    BY <1>1
  <1> QED
    BY <1>2, Invariant, PTL DEF Safety, SuccessIsCaughtUp
=============================================================================
