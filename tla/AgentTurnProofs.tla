-------------------------- MODULE AgentTurnProofs --------------------------
(***************************************************************************)
(* Proofs about AgentTurn, for any chats, spellings, amounts and faults:   *)
(* what any number of chats keep to, and what a sole chat does.            *)
(***************************************************************************)
EXTENDS AgentTurn, TLAPS

\* Rows of finance.budgets, and the lack of one.
Row == [amount : Amounts, active : BOOLEAN] \cup {NoBudget}

\* A request is complete from the lookup on, and is one of the turn's calls.
Complete(c) ==
    c.pc \in {"lookup", "write"} =>
        /\ c.tool \in Tool /\ c.name \in Names /\ c.amount \in Amounts
        /\ c.calls < MaxToolCalls
        /\ c.pc = "lookup" \/ c.tool = "create_budget" => c.seen = NoBudget

Types ==
    /\ budgets \in [Names -> Row]
    /\ writer \in [Names -> Chats \cup {Nobody}]
    /\ draft \in [Names -> Row]
    /\ audit \subseteq Claim
    /\ op \in [Chats -> Chat]
    /\ \A p \in Chats : Complete(op[p])

\* An open turn's version of a row neither loses nor revives it.
Drafts ==
    \A n \in Names : writer[n] # Nobody =>
        /\ draft[n] # NoBudget
        /\ budgets[n] # NoBudget /\ draft[n].active => budgets[n].active

\* The row a tool found is still there when it writes.
FoundStays ==
    \A p \in Chats : op[p].pc = "write" /\ op[p].tool # "create_budget"
        => Visible(p, op[p].name) # NoBudget

\* One of these calls, of one of these chats, claims the amount that row b of n
\* has.
Claimed(calls, n, b, who) ==
    \E e \in calls : e.by \in who /\ e.name = n /\ e.claims.amount = b.amount

\* What an open turn has written is claimed by a call that commits with it,
\* or has committed.
DraftsAreAudited ==
    \A n \in Names : writer[n] # Nobody
        => Claimed(audit, n, draft[n], {writer[n], Nobody})

TurnInv == Types /\ Drafts /\ FoundStays /\ DraftsAreAudited /\ WritesAreAudited
-----------------------------------------------------------------------------
(* Data.                                                                   *)

\* A turn outside its tools has no request.
LEMMA TurnType ==
    ASSUME NEW pc \in {"closed", "prompt", "model", "reply"},
           NEW calls \in 0..MaxToolCalls
    PROVE  /\ Turn(pc, calls) \in Chat /\ Complete(Turn(pc, calls))
           /\ Turn(pc, calls).pc = pc
  <1>1. NoBudget \in Budget
    BY DEF NoBudget, Budget
  <1> QED
    BY <1>1 DEF Turn, Chat, Complete, Pc

\* A budget has an amount.
LEMMA RowType == Row \subseteq Budget /\ NoBudget \in Row
                 /\ \A b \in Row : b # NoBudget => b.amount \in Amounts
  <1>1. NoBudget \in Budget
    BY DEF NoBudget, Budget
  <1>2. [amount : Amounts, active : BOOLEAN] \subseteq Budget
    BY DEF Budget
  <1>3. \A b \in [amount : Amounts, active : BOOLEAN] : b.amount \in Amounts
    OBVIOUS
  <1> QED
    BY <1>1, <1>2, <1>3 DEF Row

\* What a tool makes of a row is a budget; only create_budget makes one
\* active, and the amount is the one asked for or the one that was there.
LEMMA AppliedIs ==
    ASSUME Types, NEW p \in Chats, op[p].pc = "write", NEW b \in Budget
    PROVE  /\ Applied(p, b) \in Budget
           /\ b \in Row /\ (b = NoBudget => op[p].tool = "create_budget")
                => Applied(p, b) \in Row \ {NoBudget}
           /\ op[p].tool # "create_budget" /\ Applied(p, b).active => b.active
           /\ Applied(p, b).amount = IF op[p].tool = "archive_budget"
                                     THEN b.amount ELSE op[p].amount
  <1>1. op[p].tool \in Tool /\ op[p].amount \in Amounts /\ op[p].amount # 0
    BY AgentAssumption DEF Types, Complete
  <1>2. b.active \in BOOLEAN /\ b.amount \in Amounts \cup {0}
        /\ b = [amount |-> b.amount, active |-> b.active]
    BY DEF Budget
  <1>3. b \in Row /\ b # NoBudget => b.amount \in Amounts
    BY RowType
  <1>4. CASE op[p].tool = "create_budget"
    <2>1. Applied(p, b) = [amount |-> op[p].amount, active |-> TRUE]
      BY <1>4 DEF Applied
    <2> QED
      BY <1>1, <1>4, <2>1 DEF Row, Budget, NoBudget
  <1>5. CASE op[p].tool = "update_budget"
    <2>1. Applied(p, b) = [amount |-> op[p].amount, active |-> b.active]
      BY <1>2, <1>5 DEF Applied, Budget
    <2> QED
      BY <1>1, <1>2, <1>5, <2>1 DEF Row, Budget, NoBudget
  <1>6. CASE op[p].tool = "archive_budget"
    <2>1. Applied(p, b) = [amount |-> b.amount, active |-> FALSE]
      BY <1>2, <1>6 DEF Applied, Budget
    <2>2. 0 \notin Amounts
      BY AgentAssumption
    <2> QED
      BY <1>2, <1>3, <1>6, <2>1, <2>2 DEF Row, Budget, NoBudget
  <1> QED
    BY <1>1, <1>4, <1>5, <1>6 DEF Tool

\* A commit keeps every row of the audit trail, and gives up no name on it.
LEMMA SettledIs ==
    ASSUME Types, NEW p \in Chats
    PROVE  /\ Settled(p) \subseteq Claim
           /\ \A e \in audit : \E d \in Settled(p) :
                 /\ d.id = e.id /\ d.name = e.name /\ d.claims = e.claims
                 /\ d.by = IF e.by = p THEN Nobody ELSE e.by
           /\ \A d \in Settled(p) : \E e \in audit :
                 /\ d.id = e.id /\ d.name = e.name /\ d.claims = e.claims
                 /\ d.by = IF e.by = p THEN Nobody ELSE e.by
  <1> DEFINE At(e) == IF e.by = p THEN [e EXCEPT !.by = Nobody] ELSE e
  <1>1. ASSUME NEW e \in audit
        PROVE  /\ At(e) \in Claim
               /\ At(e).id = e.id /\ At(e).name = e.name
               /\ At(e).claims = e.claims
               /\ At(e).by = IF e.by = p THEN Nobody ELSE e.by
    <2>1. e \in Claim
      BY DEF Types
    <2> QED
      BY <2>1 DEF Claim
  <1>2. Settled(p) = {At(e) : e \in audit}
    BY DEF Settled
  <1> HIDE DEF At
  <1> QED
    BY <1>1, <1>2
-----------------------------------------------------------------------------
(* The steps.                                                              *)

\* A step of a turn that writes no row, and keeps what was audited.
LEMMA QuietStep ==
    ASSUME TurnInv, NEW p \in Chats, NEW c \in Chat,
           op' = [op EXCEPT ![p] = c], Complete(c),
           c.pc = "write" /\ c.tool # "create_budget"
             => Visible(p, c.name) # NoBudget,
           UNCHANGED <<budgets, writer, draft>>,
           audit \subseteq audit', audit' \subseteq Claim
    PROVE  TurnInv'
  <1>1. op \in [Chats -> Chat]
    BY DEF TurnInv, Types
  <1>2. op'[p] = c /\ \A q \in Chats : q # p => op'[q] = op[q]
    BY <1>1
  <1>3. Types'
    BY <1>1, <1>2 DEF TurnInv, Types
  <1>4. Drafts' /\ WritesAreAudited' /\ DraftsAreAudited'
    BY DEF TurnInv, Drafts, WritesAreAudited, DraftsAreAudited, Claimed
  <1>5. FoundStays'
    <2>1. ASSUME NEW q \in Chats, op'[q].pc = "write",
                 op'[q].tool # "create_budget"
          PROVE  (Visible(q, op[q].name) # NoBudget)'
      <3>1. CASE q = p
        BY <1>2, <2>1, <3>1 DEF Visible
      <3>2. CASE q # p
        BY <1>2, <2>1, <3>2 DEF TurnInv, FoundStays, Visible
      <3> QED
        BY <3>1, <3>2
    <2> QED
      BY <2>1 DEF FoundStays
  <1> QED
    BY <1>3, <1>4, <1>5 DEF TurnInv

\* The end of a tool call is such a step.
LEMMA CallEndsStep ==
    ASSUME TurnInv, NEW p \in Chats, op[p].calls < MaxToolCalls, CallEnds(p),
           UNCHANGED <<budgets, writer, draft>>,
           audit \subseteq audit', audit' \subseteq Claim
    PROVE  TurnInv'
  <1> DEFINE c == Turn("model", op[p].calls + 1)
  <1>1. op[p].calls + 1 \in 0..MaxToolCalls
    BY AgentAssumption DEF TurnInv, Types, Chat
  <1>2. c \in Chat /\ Complete(c) /\ c.pc = "model"
    BY <1>1, TurnType
  <1>3. op' = [op EXCEPT ![p] = c]
    BY DEF CallEnds, Goto
  <1> HIDE DEF c
  <1> QED
    BY <1>2, <1>3, QuietStep

\* A commit puts the turn's rows and its calls where every chat sees them.
LEMMA CommitStep ==
    ASSUME TurnInv, NEW p \in Chats, Commit(p),
           NEW c \in Chat, c.pc \notin {"lookup", "write"},
           op' = [op EXCEPT ![p] = c]
    PROVE  TurnInv'
  <1> USE DEF TurnInv
  <1>1. /\ budgets \in [Names -> Row] /\ draft \in [Names -> Row]
        /\ writer \in [Names -> Chats \cup {Nobody}] /\ Nobody \notin Chats
        /\ audit' = Settled(p) /\ op \in [Chats -> Chat]
        /\ NoBudget \in Row
    BY AgentAssumption, RowType DEF Types, Commit
  <1>2. \A n \in Names :
           /\ writer[n] = p => /\ writer'[n] = Nobody /\ draft'[n] = NoBudget
                               /\ budgets'[n] = draft[n]
           /\ writer[n] # p => /\ writer'[n] = writer[n]
                               /\ draft'[n] = draft[n]
                               /\ budgets'[n] = budgets[n]
    BY DEF Commit, Release
  <1>3. op'[p] = c /\ Complete(c) /\ \A q \in Chats : q # p => op'[q] = op[q]
    BY <1>1 DEF Complete
  <1>4. Types'
    <2>1. /\ budgets' \in [Names -> Row] /\ draft' \in [Names -> Row]
          /\ writer' \in [Names -> Chats \cup {Nobody}]
      BY <1>1 DEF Commit, Release
    <2>2. audit' \subseteq Claim
      BY <1>1, SettledIs
    <2> QED
      BY <1>1, <1>3, <2>1, <2>2 DEF Types
  <1>5. Drafts'
    BY <1>1, <1>2 DEF Drafts
  <1>6. FoundStays'
    <2>1. ASSUME NEW q \in Chats, op'[q].pc = "write",
                 op'[q].tool # "create_budget"
          PROVE  (Visible(q, op[q].name) # NoBudget)'
      <3>1. q # p /\ op'[q] = op[q]
        BY <1>3, <2>1
      <3>2. op[q].name \in Names /\ Visible(q, op[q].name) # NoBudget
        BY <2>1, <3>1 DEF FoundStays, Types, Complete
      <3> QED
        BY <1>1, <1>2, <3>1, <3>2 DEF Visible, Drafts
    <2> QED
      BY <2>1 DEF FoundStays
  <1>7. ASSUME NEW n, NEW b, NEW r, Claimed(audit, n, b, {r, Nobody})
        PROVE  Claimed(audit', n, b, {IF r = p THEN Nobody ELSE r, Nobody})
    <2>1. PICK e \in audit : /\ e.by \in {r, Nobody} /\ e.name = n
                             /\ e.claims.amount = b.amount
      BY <1>7 DEF Claimed
    <2>2. PICK d \in Settled(p) :
             /\ d.name = e.name /\ d.claims = e.claims
             /\ d.by = IF e.by = p THEN Nobody ELSE e.by
      BY SettledIs
    <2>3. d.by \in {IF r = p THEN Nobody ELSE r, Nobody}
      BY <2>1, <2>2
    <2> QED
      BY <1>1, <2>1, <2>2, <2>3 DEF Claimed
  <1>8. DraftsAreAudited'
    <2> SUFFICES ASSUME NEW n \in Names, writer'[n] # Nobody
                 PROVE  Claimed(audit', n, draft'[n], {writer'[n], Nobody})
      BY DEF DraftsAreAudited, Claimed
    <2>1. /\ writer[n] # p /\ writer[n] # Nobody
          /\ writer'[n] = writer[n] /\ draft'[n] = draft[n]
      BY <1>1, <1>2
    <2>2. Claimed(audit, n, draft[n], {writer[n], Nobody})
      BY <2>1 DEF DraftsAreAudited
    <2> QED
      BY <1>7, <2>1, <2>2
  <1>9. WritesAreAudited'
    <2> SUFFICES ASSUME NEW n \in Names, budgets'[n] # NoBudget
                 PROVE  Claimed(audit', n, budgets'[n], {Nobody, Nobody})
      BY DEF WritesAreAudited, Claimed
    <2>1. CASE writer[n] = p
      <3>1. Claimed(audit, n, draft[n], {p, Nobody})
        BY <1>1, <2>1 DEF DraftsAreAudited
      <3> QED
        BY <1>2, <1>7, <2>1, <3>1
    <2>2. CASE writer[n] # p
      <3>1. Claimed(audit, n, budgets[n], {Nobody, Nobody})
        BY <1>2, <2>2 DEF WritesAreAudited, Claimed
      <3> QED
        BY <1>1, <1>2, <1>7, <2>2, <3>1
    <2> QED
      BY <2>1, <2>2
  <1> QED
    BY <1>4, <1>5, <1>6, <1>8, <1>9

\* A rollback takes the turn's rows and its calls away.
LEMMA AbortStep ==
    ASSUME TurnInv, NEW p \in Chats, Abort(p),
           NEW c \in Chat, c.pc \notin {"lookup", "write"},
           op' = [op EXCEPT ![p] = c]
    PROVE  TurnInv'
  <1> USE DEF TurnInv
  <1>1. /\ budgets \in [Names -> Row] /\ draft \in [Names -> Row]
        /\ writer \in [Names -> Chats \cup {Nobody}] /\ Nobody \notin Chats
        /\ audit' = {e \in audit : e.by # p} /\ op \in [Chats -> Chat]
        /\ NoBudget \in Row /\ budgets' = budgets
    BY AgentAssumption, RowType DEF Types, Abort
  <1>2. \A n \in Names :
           /\ writer[n] = p => writer'[n] = Nobody /\ draft'[n] = NoBudget
           /\ writer[n] # p => writer'[n] = writer[n] /\ draft'[n] = draft[n]
    BY DEF Abort, Release
  <1>3. op'[p] = c /\ Complete(c) /\ \A q \in Chats : q # p => op'[q] = op[q]
    BY <1>1 DEF Complete
  <1>4. Types'
    <2>1. draft' \in [Names -> Row] /\ writer' \in [Names -> Chats \cup {Nobody}]
      BY <1>1 DEF Abort, Release
    <2> QED
      BY <1>1, <1>3, <2>1 DEF Types
  <1>5. Drafts'
    BY <1>1, <1>2 DEF Drafts
  <1>6. FoundStays'
    <2>1. ASSUME NEW q \in Chats, op'[q].pc = "write",
                 op'[q].tool # "create_budget"
          PROVE  (Visible(q, op[q].name) # NoBudget)'
      <3>1. q # p /\ op'[q] = op[q]
        BY <1>3, <2>1
      <3>2. op[q].name \in Names /\ Visible(q, op[q].name) # NoBudget
        BY <2>1, <3>1 DEF FoundStays, Types, Complete
      <3> QED
        BY <1>1, <1>2, <3>1, <3>2 DEF Visible
    <2> QED
      BY <2>1 DEF FoundStays
  <1>7. ASSUME NEW n, NEW b, NEW r, r # p, Claimed(audit, n, b, {r, Nobody})
        PROVE  Claimed(audit', n, b, {r, Nobody})
    BY <1>1, <1>7 DEF Claimed
  <1>8. DraftsAreAudited'
    <2> SUFFICES ASSUME NEW n \in Names, writer'[n] # Nobody
                 PROVE  Claimed(audit', n, draft'[n], {writer'[n], Nobody})
      BY DEF DraftsAreAudited, Claimed
    <2>1. /\ writer[n] # p /\ writer[n] # Nobody
          /\ writer'[n] = writer[n] /\ draft'[n] = draft[n]
      BY <1>1, <1>2
    <2>2. Claimed(audit, n, draft[n], {writer[n], Nobody})
      BY <2>1 DEF DraftsAreAudited
    <2> QED
      BY <1>7, <2>1, <2>2
  <1>9. WritesAreAudited'
    BY <1>1 DEF WritesAreAudited
  <1> QED
    BY <1>4, <1>5, <1>6, <1>8, <1>9

\* A write of a row that differs from what the tool saw.
LEMMA RowStep ==
    ASSUME TurnInv, NEW p \in Chats, op[p].pc = "write", Audited(p), CallEnds(p),
           writer[op[p].name] \in {Nobody, p},
           op[p].tool = "create_budget" => Visible(p, op[p].name) = NoBudget,
           writer' = [writer EXCEPT ![op[p].name] = p],
           draft' = [draft EXCEPT ![op[p].name] =
                        Applied(p, Visible(p, op[p].name))],
           budgets' = budgets
    PROVE  TurnInv'
  <1> USE DEF TurnInv
  <1> DEFINE m == op[p].name
             old == Visible(p, m)
             new == Applied(p, old)
             c == Turn("model", op[p].calls + 1)
  <1>1. /\ m \in Names /\ op[p].amount \in Amounts /\ op[p].tool \in Tool
        /\ op[p].seen \in Budget /\ op \in [Chats -> Chat]
        /\ op[p].calls + 1 \in 0..MaxToolCalls
        /\ writer \in [Names -> Chats \cup {Nobody}]
        /\ budgets \in [Names -> Row] /\ draft \in [Names -> Row]
        /\ Nobody \notin Chats
    BY AgentAssumption DEF Types, Complete, Chat
  <1>2. /\ old \in Row /\ old \in Budget
        /\ old = NoBudget <=> op[p].tool = "create_budget"
    BY <1>1, RowType DEF Visible, FoundStays
  <1>3. /\ new \in Row /\ new # NoBudget
        /\ op[p].tool # "create_budget" /\ new.active => old.active
        /\ new.amount = IF op[p].tool = "archive_budget"
                        THEN old.amount ELSE op[p].amount
    BY <1>2, AppliedIs
  <1>4. c \in Chat /\ Complete(c) /\ c.pc = "model" /\ op' = [op EXCEPT ![p] = c]
    BY <1>1, TurnType DEF CallEnds, Goto
  <1>5. PICK i \in 1..MaxAudit :
           audit' = audit \cup {[id |-> i, by |-> p, name |-> m,
                                 claims |-> Applied(p, op[p].seen)]}
    BY DEF Audited
  <1> DEFINE call == [id |-> i, by |-> p, name |-> m,
                      claims |-> Applied(p, op[p].seen)]
  <1>6. /\ call \in Claim /\ call.by = p /\ call.name = m
        /\ op[p].tool # "archive_budget" => call.claims.amount = op[p].amount
    BY <1>1, AppliedIs DEF Claim
  <1>7. audit' = audit \cup {call}
    BY <1>5
  <1>8. draft' = [draft EXCEPT ![m] = new]
    OBVIOUS
  <1> HIDE DEF new, old, c, call
  <1>9. /\ draft'[m] = new /\ writer'[m] = p
        /\ \A n \in Names : n # m => draft'[n] = draft[n] /\ writer'[n] = writer[n]
        /\ op'[p].pc = "model" /\ \A q \in Chats : q # p => op'[q] = op[q]
    BY <1>1, <1>4, <1>8
  <1>10. Types'
    BY <1>1, <1>3, <1>4, <1>6, <1>7, <1>8 DEF Types
  <1>11. Drafts'
    <2>1. budgets[m] # NoBudget /\ new.active => budgets[m].active
      BY <1>1, <1>2, <1>3 DEF Drafts, Visible, old
    <2> QED
      BY <1>3, <1>9, <2>1 DEF Drafts
  <1>12. FoundStays'
    <2>1. ASSUME NEW q \in Chats, op'[q].pc = "write",
                 op'[q].tool # "create_budget"
          PROVE  (Visible(q, op[q].name) # NoBudget)'
      <3>1. q # p /\ op'[q] = op[q]
        BY <1>9, <2>1
      <3>2. op[q].name \in Names /\ Visible(q, op[q].name) # NoBudget
        BY <2>1, <3>1 DEF FoundStays, Types, Complete
      <3> QED
        BY <1>1, <1>9, <3>1, <3>2 DEF Visible
    <2> QED
      BY <2>1 DEF FoundStays
  <1>13. Claimed(audit', m, new, {p, Nobody})
    <2>1. CASE op[p].tool = "archive_budget"
      <3>1. old # NoBudget
        BY <1>2, <2>1
      <3>2. Claimed(audit, m, old, {p, Nobody})
        BY <1>1, <3>1 DEF DraftsAreAudited, WritesAreAudited, Claimed, Visible, old
      <3> QED
        BY <1>3, <1>7, <2>1, <3>2 DEF Claimed
    <2>2. CASE op[p].tool # "archive_budget"
      BY <1>3, <1>6, <1>7, <2>2 DEF Claimed
    <2> QED
      BY <2>1, <2>2
  <1>14. DraftsAreAudited' /\ WritesAreAudited'
    BY <1>7, <1>9, <1>13 DEF DraftsAreAudited, WritesAreAudited, Claimed
  <1> QED
    BY <1>10, <1>11, <1>12, <1>14

\* An audited call is one more row of the trail.
LEMMA AuditedIs ==
    ASSUME Types, NEW p \in Chats, op[p].pc = "write", Audited(p)
    PROVE  audit \subseteq audit' /\ audit' \subseteq Claim
  <1>1. Applied(p, op[p].seen) \in Budget /\ op[p].name \in Names
    BY AppliedIs DEF Types, Chat, Complete
  <1> QED
    BY <1>1 DEF Audited, Claim, Types

\* A write.
LEMMA WriteStep ==
    ASSUME TurnInv, NEW p \in Chats, Write(p)
    PROVE  TurnInv'
  <1> DEFINE n == op[p].name
             dup == op[p].tool = "create_budget" /\ Visible(p, n) # NoBudget
             same == Applied(p, op[p].seen) = op[p].seen
  <1>1. /\ op[p].pc = "write" /\ ~Waits(p) /\ CallEnds(p) /\ budgets' = budgets
        /\ op[p].calls < MaxToolCalls
    BY DEF Write, TurnInv, Types, Complete
  <1>2. CASE same /\ Audited(p) /\ UNCHANGED <<writer, draft>>
    BY <1>1, <1>2, AuditedIs, CallEndsStep DEF TurnInv
  <1>3. CASE dup /\ UNCHANGED <<writer, draft, audit>>
    BY <1>1, <1>3, CallEndsStep DEF TurnInv, Types
  <1>4. CASE /\ ~same /\ ~dup
             /\ writer' = [writer EXCEPT ![n] = p]
             /\ draft' = [draft EXCEPT ![n] = Applied(p, Visible(p, n))]
             /\ Audited(p)
    <2>1. writer[n] \in {Nobody, p}
      BY <1>1, <1>4 DEF Waits
    <2> QED
      BY <1>1, <1>4, <2>1, RowStep
  <1> QED
    BY <1>2, <1>3, <1>4 DEF Write

\* A lookup leads on to the write of the row it found.
LEMMA LookupStep ==
    ASSUME TurnInv, NEW p \in Chats, Lookup(p)
    PROVE  TurnInv'
  <1> USE DEF TurnInv
  <1>1. /\ op[p].pc = "lookup" /\ op \in [Chats -> Chat] /\ op[p] \in Chat
        /\ Complete(op[p]) /\ op[p].seen = NoBudget
        /\ UNCHANGED <<budgets, writer, draft, audit>> /\ audit \subseteq Claim
    BY DEF Types, Lookup, Complete
  <1>2. ASSUME op[p].tool = "create_budget",
               op' = [op EXCEPT ![p].pc = "write"]
        PROVE  TurnInv'
    <2> DEFINE c == [op[p] EXCEPT !.pc = "write"]
    <2>1. c \in Chat /\ Complete(c) /\ c.tool = "create_budget"
      BY <1>1, <1>2 DEF Chat, Complete, Pc
    <2>2. op' = [op EXCEPT ![p] = c]
      BY <1>1, <1>2
    <2> HIDE DEF c
    <2> QED
      BY <1>1, <2>1, <2>2, QuietStep
  <1>3. ASSUME op[p].tool # "create_budget", NEW n \in Found(p),
               op' = [op EXCEPT ![p].pc = "write", ![p].name = n,
                                ![p].seen = Visible(p, n)]
        PROVE  TurnInv'
    <2> DEFINE c == [op[p] EXCEPT !.pc = "write", !.name = n,
                                  !.seen = Visible(p, n)]
    <2>1. n \in Names /\ Visible(p, n) # NoBudget
      BY <1>1, AgentAssumption DEF Found, SameCategory, Complete
    <2>2. Visible(p, n) \in Budget
      BY <2>1, RowType DEF Visible, Types
    <2>3. /\ c \in Chat /\ Complete(c) /\ c.name = n
      BY <1>1, <1>3, <2>1, <2>2 DEF Chat, Complete, Pc
    <2>4. op' = [op EXCEPT ![p] = c]
      BY <1>1, <1>3
    <2> HIDE DEF c
    <2> QED
      BY <1>1, <2>1, <2>3, <2>4, QuietStep
  <1>4. CASE CallEnds(p)
    BY <1>1, <1>4, CallEndsStep DEF Complete
  <1> QED
    BY <1>2, <1>3, <1>4 DEF Lookup

\* The other steps write nothing, or end the transaction.
LEMMA OtherSteps ==
    ASSUME TurnInv, NEW p \in Chats,
           \/ StartChat(p) \/ Exit(p) \/ Ask(p) \/ Final(p) \/ OtherCall(p)
           \/ Requests(p) \/ ProviderError(p) \/ DeadlockVictim(p)
           \/ Reply(p) \/ Crash(p)
    PROVE  TurnInv'
  <1> USE DEF Goto
  <1>1. /\ 0 \in 0..MaxToolCalls /\ op[p].calls \in 0..MaxToolCalls
        /\ audit \subseteq Claim
    BY AgentAssumption DEF TurnInv, Types, Chat
  <1>2. CASE StartChat(p) \/ Exit(p) \/ Ask(p) \/ Final(p)
    <2>1. PICK pc \in {"closed", "prompt", "model", "reply"}, k \in 0..MaxToolCalls :
             op' = [op EXCEPT ![p] = Turn(pc, k)]
      BY <1>1, <1>2 DEF StartChat, Exit, Ask, Final
    <2>2. UNCHANGED <<budgets, writer, draft, audit>>
      BY <1>2 DEF StartChat, Exit, Ask, Final
    <2> QED
      BY <1>1, <2>1, <2>2, TurnType, QuietStep
  <1>3. CASE OtherCall(p)
    BY <1>1, <1>3, CallEndsStep DEF OtherCall
  <1>4. CASE DeadlockVictim(p)
    BY <1>1, <1>4, CallEndsStep DEF DeadlockVictim, TurnInv, Types, Complete
  <1>5. CASE Requests(p)
    <2>1. PICK tool \in Tool, name \in Names, amount \in Amounts :
             Request(p, tool, name, amount)
      BY <1>5 DEF Requests
    <2> DEFINE c == [Turn("lookup", op[p].calls) EXCEPT
                       !.tool = tool, !.name = name, !.amount = amount]
    <2>2. NoBudget \in Budget /\ op[p].calls < MaxToolCalls
      BY <2>1 DEF NoBudget, Budget, Request
    <2>3. c \in Chat /\ Complete(c) /\ c.pc = "lookup"
      BY <1>1, <2>2 DEF Turn, Chat, Complete, Pc
    <2>4. /\ op' = [op EXCEPT ![p] = c]
          /\ UNCHANGED <<budgets, writer, draft, audit>>
      BY <2>1 DEF Request
    <2> HIDE DEF c
    <2> QED
      BY <1>1, <2>3, <2>4, QuietStep
  <1>6. CASE Reply(p) \/ ProviderError(p)
    <2>1. Commit(p) /\ op' = [op EXCEPT ![p] = Turn("prompt", 0)]
      BY <1>6 DEF Reply, ProviderError
    <2>2. Turn("prompt", 0) \in Chat /\ Turn("prompt", 0).pc = "prompt"
      BY <1>1, TurnType
    <2> QED
      BY <2>1, <2>2, CommitStep
  <1>7. CASE Crash(p)
    <2>1. Abort(p) /\ op' = [op EXCEPT ![p] = Turn("closed", 0)]
      BY <1>7 DEF Crash
    <2>2. Turn("closed", 0) \in Chat /\ Turn("closed", 0).pc = "closed"
      BY <1>1, TurnType
    <2> QED
      BY <2>1, <2>2, AbortStep
  <1> QED
    BY <1>2, <1>3, <1>4, <1>5, <1>6, <1>7

\* Every step keeps TurnInv.
LEMMA TurnStep == TurnInv /\ [Next]_vars => TurnInv'
  <1> SUFFICES ASSUME TurnInv, [Next]_vars PROVE TurnInv'
    OBVIOUS
  <1>1. CASE Next
    BY <1>1, WriteStep, LookupStep, OtherSteps DEF Next, Step
  <1>2. CASE UNCHANGED vars
    BY <1>2 DEF vars, TurnInv, Types, Drafts, FoundStays, DraftsAreAudited,
                WritesAreAudited, Claimed, Visible
  <1> QED
    BY <1>1, <1>2

\* The empty tables satisfy TurnInv.
LEMMA InitTurn == Init => TurnInv
  <1> SUFFICES ASSUME Init PROVE TurnInv
    OBVIOUS
  <1>1. 0 \in 0..MaxToolCalls
    BY AgentAssumption
  <1>2. Types
    BY <1>1, RowType, TurnType DEF Init, Types
  <1>3. \A p \in Chats : op[p].pc = "closed"
    BY <1>1, TurnType DEF Init
  <1> QED
    BY <1>2, <1>3 DEF Init, TurnInv, Drafts, FoundStays, DraftsAreAudited,
                      WritesAreAudited
-----------------------------------------------------------------------------
\* The invariant all else rests on: an open turn's rows were there when their
\* tool found them, and every amount has its call in the trail
\* (agent/tools/write.py and agent_session_scope).
THEOREM Invariant == Safety => []TurnInv
  <1> QED
    BY InitTurn, TurnStep, PTL DEF Safety

\* Whatever is in finance.budgets was claimed by a committed call, for any
\* number of chats at once (_audit_tool_call shares the tool's transaction).
THEOREM EveryWriteIsAudited == Safety => []WritesAreAudited
  <1>1. TurnInv => WritesAreAudited
    BY DEF TurnInv
  <1> QED
    BY <1>1, Invariant, PTL

\* No interleaving of calls brings an archived budget back, nor loses one.
THEOREM ArchivedStays == Safety => ArchivedForGood
  <1> DEFINE Kept == \A n \in Names : budgets[n] # NoBudget =>
                        /\ budgets'[n] # NoBudget
                        /\ budgets'[n].active => budgets[n].active
  <1>1. ASSUME TurnInv, Next PROVE Kept
    <2>1. PICK p \in Chats : StartChat(p) \/ Exit(p) \/ Ask(p) \/ Step(p) \/ Crash(p)
      BY <1>1 DEF Next
    <2>2. CASE Commit(p)
      <3>1. \A n \in Names :
               budgets'[n] = IF writer[n] = p THEN draft[n] ELSE budgets[n]
        BY <2>2 DEF Commit
      <3> QED
        BY <1>1, <3>1, AgentAssumption DEF TurnInv, Drafts
    <2>3. CASE UNCHANGED budgets
      BY <2>3
    <2> QED
      BY <2>1, <2>2, <2>3
         DEF StartChat, Exit, Ask, Crash, Abort, Step, Final, OtherCall, Requests,
             Request, ProviderError, Lookup, Write, DeadlockVictim, Reply
  <1>2. TurnInv /\ [Next]_vars => [Kept]_vars
    BY <1>1
  <1> QED
    BY <1>2, Invariant, PTL DEF Safety, ArchivedForGood
-----------------------------------------------------------------------------
(* A sole chat.                                                            *)

IsSole == \A p, q \in Chats : p = q

\* The last of these calls on n claims row b.
LastClaims(calls, n, b) ==
    \A e \in calls : e.name = n /\ (\A d \in calls : d.name = n => d.id <= e.id)
        => e.claims = b

\* The trail with the open turn's calls gives what the turn sees; nothing
\* moves between a lookup and its write; and no category is doubled inside a
\* turn either.
Sole(p) ==
    /\ \A n \in Names : LastClaims(audit, n, Visible(p, n))
    /\ op[p].pc = "write" =>
          /\ op[p].tool # "create_budget" => op[p].seen = Visible(p, op[p].name)
          /\ op[p].tool = "create_budget"
               => \A m \in SameCategory(op[p].name) : Visible(p, m) = NoBudget
    /\ \A m, n \in Plain :
          lower[m] = lower[n] /\ Visible(p, m) # NoBudget /\ Visible(p, n) # NoBudget
             => m = n

SoleInv == TrailReplays /\ OneBudgetPerCategory /\ \A p \in Chats : Sole(p)

\* TrailReplays in these terms.
LEMMA TrailIs ==
    TrailReplays <=> \A n \in Names :
        LastClaims({e \in audit : e.by = Nobody}, n, budgets[n])
  BY DEF TrailReplays, LastClaims

\* A call appended to the trail is the last of its name.
LEMMA LastOfMore ==
    ASSUME NEW calls \in SUBSET Claim, NEW call \in Claim,
           \A e \in calls : e.id < call.id
    PROVE  /\ LastClaims(calls \cup {call}, call.name, call.claims)
           /\ \A n, b : n # call.name /\ LastClaims(calls, n, b)
                 => LastClaims(calls \cup {call}, n, b)
  <1>1. \A e \in calls \cup {call} : e.id \in Nat
    BY AgentAssumption DEF Claim
  <1>2. ASSUME NEW e \in calls \cup {call}, e.name = call.name,
               \A d \in calls \cup {call} : d.name = call.name => d.id <= e.id
        PROVE  e = call
    <2>1. call.id <= e.id
      BY <1>2
    <2> QED
      BY <1>1, <2>1
  <1> QED
    BY <1>2 DEF LastClaims

\* A step of a sole chat that writes nothing.
LEMMA SoleQuiet ==
    ASSUME IsSole, SoleInv, NEW p \in Chats, NEW c,
           op \in [Chats -> Chat], op' = [op EXCEPT ![p] = c],
           UNCHANGED <<budgets, writer, draft, audit>>,
           c.pc = "write" =>
              /\ c.tool # "create_budget" => c.seen = Visible(p, c.name)
              /\ c.tool = "create_budget"
                   => \A m \in SameCategory(c.name) : Visible(p, m) = NoBudget
    PROVE  SoleInv'
  <1>1. op'[p] = c
    OBVIOUS
  <1>2. \A n : Visible(p, n)' = Visible(p, n)
    BY DEF Visible
  <1>3. Sole(p)
    BY DEF SoleInv
  <1>4. Sole(p)'
    <2>1. (\A n \in Names : LastClaims(audit, n, Visible(p, n)))'
      BY <1>2, <1>3 DEF Sole, LastClaims
    <2>2. (op[p].pc = "write" /\ op[p].tool # "create_budget"
             => op[p].seen = Visible(p, op[p].name))'
      BY <1>1 DEF Visible
    <2>3. (op[p].pc = "write" /\ op[p].tool = "create_budget"
             => \A m \in SameCategory(op[p].name) : Visible(p, m) = NoBudget)'
      BY <1>1 DEF Visible
    <2>4. (\A m, n \in Plain :
             lower[m] = lower[n] /\ Visible(p, m) # NoBudget /\ Visible(p, n) # NoBudget
                => m = n)'
      BY <1>2, <1>3 DEF Sole
    <2> QED
      BY <2>1, <2>2, <2>3, <2>4 DEF Sole
  <1>5. \A q \in Chats : Sole(q)'
    BY <1>4 DEF IsSole
  <1>6. TrailReplays' /\ OneBudgetPerCategory'
    BY DEF SoleInv, TrailReplays, OneBudgetPerCategory
  <1> QED
    BY <1>5, <1>6 DEF SoleInv

\* A write: the call that claims a row, and the row if the call changes it.
LEMMA SoleWrite ==
    ASSUME IsSole, TurnInv, SoleInv, NEW p \in Chats, Write(p)
    PROVE  SoleInv'
  <1> DEFINE m == op[p].name
             new == Applied(p, op[p].seen)
             c == Turn("model", op[p].calls + 1)
  <1>1. /\ op[p].pc = "write" /\ m \in Names /\ op \in [Chats -> Chat]
        /\ op[p].calls + 1 \in 0..MaxToolCalls /\ Nobody # p
        /\ writer \in [Names -> Chats \cup {Nobody}]
        /\ draft \in [Names -> Row] /\ budgets' = budgets
        /\ audit \in SUBSET Claim /\ new \in Budget
    BY AgentAssumption, AppliedIs DEF TurnInv, Types, Complete, Write, Chat
  <1>2. op' = [op EXCEPT ![p] = c] /\ c.pc = "model"
    BY <1>1, TurnType DEF Write, CallEnds, Goto
  <1> HIDE DEF c
  <1>3. op'[p].pc = "model"
    BY <1>1, <1>2
  <1>4. Sole(p) /\ new = Applied(p, Visible(p, m))
    BY <1>1 DEF SoleInv, Sole, Applied
  <1> HIDE DEF new
  <1>5. CASE UNCHANGED <<writer, draft, audit>>
    BY <1>1, <1>2, <1>5, SoleQuiet
  <1>6. ASSUME Audited(p),
               \A n \in Names : (IF writer'[n] = p THEN draft'[n] ELSE budgets[n])
                                 = IF n = m THEN new ELSE Visible(p, n),
               \A k, n \in Plain :
                  /\ lower[k] = lower[n]
                  /\ (IF k = m THEN new ELSE Visible(p, k)) # NoBudget
                  /\ (IF n = m THEN new ELSE Visible(p, n)) # NoBudget
                  => k = n
        PROVE  SoleInv'
    <2>1. PICK i \in 1..MaxAudit :
             /\ IsNextId(i)
             /\ audit' = audit \cup {[id |-> i, by |-> p, name |-> m,
                                   claims |-> new]}
      BY <1>6 DEF Audited, new
    <2> DEFINE call == [id |-> i, by |-> p, name |-> m, claims |-> new]
    <2>2. /\ call \in Claim /\ \A e \in audit : e.id < call.id
          /\ call.name = m /\ call.claims = new /\ call.by = p
      BY <1>1, <2>1 DEF Claim, IsNextId, Ids
    <2>3. audit' = audit \cup {call}
      BY <2>1
    <2> HIDE DEF call
    <2>4. \A n \in Names :
             LastClaims(audit', n, IF n = m THEN new ELSE Visible(p, n))
      BY <1>1, <1>4, <2>2, <2>3, LastOfMore DEF Sole
    <2>5. \A n \in Names :
             Visible(p, n)' = IF n = m THEN new ELSE Visible(p, n)
      BY <1>1, <1>6 DEF Visible
    <2>6. Sole(p)'
      <3>1. (\A n \in Names : LastClaims(audit, n, Visible(p, n)))'
        BY <2>4, <2>5
      <3>2. (\A k, n \in Plain :
               lower[k] = lower[n] /\ Visible(p, k) # NoBudget /\ Visible(p, n) # NoBudget => k = n)'
        BY <1>6, <2>5 DEF Plain
      <3> QED
        BY <1>3, <3>1, <3>2 DEF Sole
    <2>7. \A q \in Chats : Sole(q)'
      BY <2>6 DEF IsSole
    <2>8. {e \in audit' : e.by = Nobody} = {e \in audit : e.by = Nobody}
      BY <1>1, <2>2, <2>3
    <2>9. TrailReplays'
      BY <1>1, <2>8, TrailIs DEF SoleInv, TrailReplays
    <2> QED
      BY <1>1, <2>7, <2>9 DEF SoleInv, OneBudgetPerCategory
  <1>7. CASE Audited(p) /\ UNCHANGED <<writer, draft>> /\ new = op[p].seen
    <2>1. op[p].tool # "create_budget"
      <3>1. op[p].tool = "create_budget" => op[p].seen = NoBudget
        BY <1>1 DEF TurnInv, Types, Complete
      <3>2. NoBudget \in Budget /\ NoBudget \in Row
        BY RowType
      <3> QED
        BY <1>1, <1>7, <3>1, <3>2, AppliedIs DEF TurnInv, new
    <2>2. new = Visible(p, m)
      BY <1>1, <1>4, <1>7, <2>1 DEF Sole
    <2> QED
      BY <1>4, <1>6, <1>7, <2>2 DEF Sole, Visible
  <1>8. CASE /\ Audited(p)
             /\ writer' = [writer EXCEPT ![m] = p]
             /\ draft' = [draft EXCEPT ![m] = Applied(p, Visible(p, m))]
    <2>1. \A n \in Names : (IF writer'[n] = p THEN draft'[n] ELSE budgets[n])
                             = IF n = m THEN new ELSE Visible(p, n)
      BY <1>1, <1>4, <1>8 DEF Visible
    <2>2. ASSUME NEW n \in Plain, n # m, m \in Plain, lower[m] = lower[n],
                 Visible(p, n) # NoBudget
          PROVE  FALSE
      <3>1. op[p].tool # "create_budget"
        BY <1>1, <1>4, <2>2 DEF Sole, SameCategory, Plain
      <3>2. Visible(p, m) # NoBudget
        BY <1>1, <3>1 DEF TurnInv, FoundStays
      <3> QED
        BY <1>4, <2>2, <3>2 DEF Sole
    <2>3. \A k, n \in Plain :
             /\ lower[k] = lower[n]
             /\ (IF k = m THEN new ELSE Visible(p, k)) # NoBudget
             /\ (IF n = m THEN new ELSE Visible(p, n)) # NoBudget
             => k = n
      BY <1>4, <2>2 DEF Sole
    <2> QED
      BY <1>6, <1>8, <2>1, <2>3
  <1> QED
    BY <1>5, <1>7, <1>8 DEF Write, new

\* A commit shows everyone what the turn saw.
LEMMA SoleCommit ==
    ASSUME IsSole, TurnInv, SoleInv, NEW p \in Chats, Commit(p),
           NEW c, c.pc # "write", op' = [op EXCEPT ![p] = c]
    PROVE  SoleInv'
  <1>1. /\ Nobody # p /\ op'[p] = c /\ Sole(p)
        /\ writer \in [Names -> {p, Nobody}]
        /\ \A e \in audit : e.by \in {p, Nobody}
        /\ audit' = Settled(p)
    BY AgentAssumption
       DEF TurnInv, Types, SoleInv, IsSole, Claim, Commit
  <1>2. \A n \in Names : /\ writer'[n] = Nobody
                          /\ budgets'[n] = Visible(p, n)
    BY <1>1 DEF Commit, Release, Visible
  <1>3. \A n \in Names : Visible(p, n)' = Visible(p, n)
    BY <1>1, <1>2 DEF Visible
  <1>4. \A d \in audit' : d.by = Nobody
    BY <1>1, SettledIs DEF TurnInv
  <1>5. ASSUME NEW n \in Names
        PROVE  LastClaims(audit', n, Visible(p, n))
    <2>1. LastClaims(audit, n, Visible(p, n))
      BY <1>1 DEF Sole
    <2> SUFFICES ASSUME NEW d \in audit', d.name = n,
                        \A x \in audit' : x.name = n => x.id <= d.id
                 PROVE  d.claims = Visible(p, n)
      BY DEF LastClaims
    <2>2. PICK e \in audit : e.id = d.id /\ e.name = d.name
                             /\ e.claims = d.claims
      BY <1>1, SettledIs DEF TurnInv
    <2>3. \A x \in audit : x.name = n => x.id <= e.id
      <3> SUFFICES ASSUME NEW x \in audit, x.name = n PROVE x.id <= e.id
        OBVIOUS
      <3>1. PICK y \in audit' : y.id = x.id /\ y.name = x.name
        BY <1>1, SettledIs DEF TurnInv
      <3> QED
        BY <2>2, <3>1
    <2> QED
      BY <2>1, <2>2, <2>3 DEF LastClaims
  <1>6. Sole(p)'
    <2>1. (\A n \in Names : LastClaims(audit, n, Visible(p, n)))'
      BY <1>3, <1>5
    <2>2. (\A m, n \in Plain :
             lower[m] = lower[n] /\ Visible(p, m) # NoBudget /\ Visible(p, n) # NoBudget
                => m = n)'
      BY <1>1, <1>3 DEF Sole, Plain
    <2> QED
      BY <1>1, <2>1, <2>2 DEF Sole
  <1>7. \A q \in Chats : Sole(q)'
    BY <1>6 DEF IsSole
  <1>8. {e \in audit' : e.by = Nobody} = audit'
    BY <1>4
  <1>9. (\A n \in Names : LastClaims({e \in audit : e.by = Nobody}, n, budgets[n]))'
    BY <1>2, <1>5, <1>8
  <1>10. TrailReplays'
    BY <1>9 DEF TrailReplays, LastClaims
  <1>11. OneBudgetPerCategory'
    BY <1>1, <1>2 DEF OneBudgetPerCategory, Sole, Plain
  <1> QED
    BY <1>7, <1>10, <1>11 DEF SoleInv

\* A rollback leaves what had been committed.
LEMMA SoleAbort ==
    ASSUME IsSole, TurnInv, SoleInv, NEW p \in Chats, Abort(p),
           NEW c, c.pc # "write", op' = [op EXCEPT ![p] = c]
    PROVE  SoleInv'
  <1>1. /\ Nobody # p /\ op'[p] = c /\ budgets' = budgets
        /\ writer \in [Names -> {p, Nobody}]
        /\ \A e \in audit : e.by \in {p, Nobody}
        /\ audit' = {e \in audit : e.by # p}
    BY AgentAssumption
       DEF TurnInv, Types, SoleInv, IsSole, Claim, Abort
  <1>2. \A n \in Names : Visible(p, n)' = budgets[n]
    BY <1>1 DEF Abort, Release, Visible
  <1>3. /\ audit' = {e \in audit : e.by = Nobody}
        /\ {e \in audit' : e.by = Nobody} = audit'
    BY <1>1
  <1>4. \A n \in Names : LastClaims(audit', n, budgets[n])
    BY <1>3, TrailIs DEF SoleInv
  <1>5. Sole(p)'
    <2>1. (\A n \in Names : LastClaims(audit, n, Visible(p, n)))'
      BY <1>2, <1>4
    <2>2. (\A m, n \in Plain :
             lower[m] = lower[n] /\ Visible(p, m) # NoBudget /\ Visible(p, n) # NoBudget
                => m = n)'
      BY <1>2 DEF SoleInv, OneBudgetPerCategory, Plain
    <2> QED
      BY <1>1, <2>1, <2>2 DEF Sole
  <1>6. \A q \in Chats : Sole(q)'
    BY <1>5 DEF IsSole
  <1>7. (\A n \in Names : LastClaims({e \in audit : e.by = Nobody}, n, budgets[n]))'
    BY <1>1, <1>3, <1>4
  <1>8. TrailReplays'
    BY <1>7 DEF TrailReplays, LastClaims
  <1> QED
    BY <1>1, <1>6, <1>8 DEF SoleInv, OneBudgetPerCategory

\* A lookup finds all that its category has.
LEMMA SoleLookup ==
    ASSUME IsSole, TurnInv, SoleInv, NEW p \in Chats, Lookup(p)
    PROVE  SoleInv'
  <1>1. /\ op[p].pc = "lookup" /\ op \in [Chats -> Chat] /\ op[p] \in Chat
        /\ op[p].seen = NoBudget
        /\ UNCHANGED <<budgets, writer, draft, audit>>
    BY DEF TurnInv, Types, Lookup, Complete
  <1>2. ASSUME op[p].tool = "create_budget", Found(p) = {},
               op' = [op EXCEPT ![p].pc = "write"]
        PROVE  SoleInv'
    <2> DEFINE c == [op[p] EXCEPT !.pc = "write"]
    <2>1. c.tool = "create_budget" /\ c.name = op[p].name
      BY <1>1, <1>2 DEF Chat
    <2>2. op' = [op EXCEPT ![p] = c]
      BY <1>1, <1>2
    <2> HIDE DEF c
    <2>3. \A m \in SameCategory(op[p].name) : Visible(p, m) = NoBudget
      BY <1>2 DEF Found
    <2> QED
      BY <1>1, <2>1, <2>2, <2>3, SoleQuiet
  <1>3. ASSUME op[p].tool # "create_budget", NEW n \in Found(p),
               op' = [op EXCEPT ![p].pc = "write", ![p].name = n,
                                ![p].seen = Visible(p, n)]
        PROVE  SoleInv'
    <2> DEFINE c == [op[p] EXCEPT !.pc = "write", !.name = n,
                                  !.seen = Visible(p, n)]
    <2>1. c.seen = Visible(p, n) /\ c.name = n /\ c.tool # "create_budget"
      BY <1>1, <1>3 DEF Chat
    <2>2. op' = [op EXCEPT ![p] = c]
      BY <1>1, <1>3
    <2> HIDE DEF c
    <2> QED
      BY <1>1, <2>1, <2>2, SoleQuiet
  <1>4. CASE CallEnds(p)
    <2> DEFINE c == Turn("model", op[p].calls + 1)
    <2>1. c.pc = "model" /\ op' = [op EXCEPT ![p] = c]
      BY <1>4 DEF CallEnds, Goto, Turn
    <2> HIDE DEF c
    <2> QED
      BY <1>1, <2>1, SoleQuiet
  <1> QED
    BY <1>2, <1>3, <1>4 DEF Lookup

\* The other steps.
LEMMA SoleOthers ==
    ASSUME IsSole, TurnInv, SoleInv, NEW p \in Chats,
           \/ StartChat(p) \/ Exit(p) \/ Ask(p) \/ Final(p) \/ OtherCall(p)
           \/ Requests(p) \/ ProviderError(p) \/ DeadlockVictim(p)
           \/ Reply(p) \/ Crash(p)
    PROVE  SoleInv'
  <1>1. op \in [Chats -> Chat]
    BY DEF TurnInv, Types
  <1>2. CASE \/ StartChat(p) \/ Exit(p) \/ Ask(p) \/ Final(p) \/ OtherCall(p)
             \/ Requests(p) \/ DeadlockVictim(p)
    <2>1. \E c : c.pc # "write" /\ op' = [op EXCEPT ![p] = c]
      <3>1. CASE Requests(p)
        <4>1. PICK tool \in Tool, name \in Names, amount \in Amounts :
                 Request(p, tool, name, amount)
          BY <3>1 DEF Requests
        <4> DEFINE c == [Turn("lookup", op[p].calls) EXCEPT
                           !.tool = tool, !.name = name, !.amount = amount]
        <4>2. c.pc = "lookup"
          BY DEF Turn
        <4>3. op' = [op EXCEPT ![p] = c]
          BY <4>1 DEF Request, Goto
        <4> HIDE DEF c
        <4> QED
          BY <4>2, <4>3
      <3>2. \A pc, calls : Turn(pc, calls).pc = pc
        BY DEF Turn
      <3> QED
        BY <1>2, <3>1, <3>2
           DEF StartChat, Exit, Ask, Final, OtherCall, DeadlockVictim, CallEnds, Goto
    <2>2. UNCHANGED <<budgets, writer, draft, audit>>
      BY <1>2 DEF StartChat, Exit, Ask, Final, OtherCall, Requests, Request,
                  DeadlockVictim
    <2> QED
      BY <1>1, <2>1, <2>2, SoleQuiet
  <1>3. CASE Reply(p) \/ ProviderError(p)
    <2>1. Commit(p) /\ op' = [op EXCEPT ![p] = Turn("prompt", 0)]
      BY <1>3 DEF Reply, ProviderError, Goto
    <2>2. Turn("prompt", 0).pc = "prompt"
      BY DEF Turn
    <2> QED
      BY <2>1, <2>2, SoleCommit
  <1>4. CASE Crash(p)
    <2>1. Abort(p) /\ op' = [op EXCEPT ![p] = Turn("closed", 0)]
      BY <1>4 DEF Crash, Goto
    <2>2. Turn("closed", 0).pc = "closed"
      BY DEF Turn
    <2> QED
      BY <2>1, <2>2, SoleAbort
  <1> QED
    BY <1>2, <1>3, <1>4

\* Every step of a sole chat keeps SoleInv.
LEMMA SoleStep == IsSole => (TurnInv /\ SoleInv /\ [Next]_vars => SoleInv')
  <1> SUFFICES ASSUME IsSole, TurnInv, SoleInv, [Next]_vars PROVE SoleInv'
    OBVIOUS
  <1>1. CASE Next
    BY <1>1, SoleWrite, SoleLookup, SoleOthers DEF Next, Step
  <1>2. CASE UNCHANGED vars
    BY <1>2 DEF vars, SoleInv, Sole, TrailReplays, OneBudgetPerCategory,
                LastClaims, Visible
  <1> QED
    BY <1>1, <1>2

\* The empty tables satisfy SoleInv.
LEMMA InitSole == Init => SoleInv
  <1> SUFFICES ASSUME Init PROVE SoleInv
    OBVIOUS
  <1>1. \A p \in Chats : op[p].pc # "write"
    BY DEF Init, Turn
  <1>2. \A p \in Chats, n \in Names : Visible(p, n) = NoBudget
    BY DEF Init, Visible
  <1> QED
    BY <1>1, <1>2, AgentAssumption
       DEF Init, SoleInv, Sole, TrailReplays, OneBudgetPerCategory, LastClaims, Plain

\* SoleInv is an invariant of a sole chat.
LEMMA SoleInvariant == IsSole => (Safety => []SoleInv)
  <1> SUFFICES ASSUME IsSole PROVE Safety => []SoleInv
    OBVIOUS
  <1>1. TurnInv /\ SoleInv /\ [Next]_vars => SoleInv'
    BY SoleStep
  <1> QED
    BY <1>1, InitSole, Invariant, PTL DEF Safety

\* With one chat, the audit trail replayed in order gives finance.budgets,
\* whatever fails (agent/tools/write.py, 7).
THEOREM TrailOfSoleChat == IsSole => (Safety => []TrailReplays)
  <1> SUFFICES ASSUME IsSole PROVE Safety => []TrailReplays
    OBVIOUS
  <1>1. SoleInv => TrailReplays
    BY DEF SoleInv
  <1> QED
    BY <1>1, SoleInvariant, PTL

\* With one chat, a category has one budget however often it is asked for and
\* whatever its case (get_by_category before create), as long as PostgreSQL's
\* lower() and Python's casefold() agree on its spellings.
THEOREM SoleChatDoublesNothing == IsSole => (Safety => []OneBudgetPerCategory)
  <1> SUFFICES ASSUME IsSole PROVE Safety => []OneBudgetPerCategory
    OBVIOUS
  <1>1. SoleInv => OneBudgetPerCategory
    BY DEF SoleInv
  <1> QED
    BY <1>1, SoleInvariant, PTL
=============================================================================
