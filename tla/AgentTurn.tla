----------------------------- MODULE AgentTurn -----------------------------
(***************************************************************************)
(* `finance chat` (src/finance_app/cli/main.py) and the tool loop of one   *)
(* turn (src/finance_app/agent/loop.py), with the tools that write         *)
(* finance.budgets.                                                        *)
(*                                                                         *)
(* A turn is one database transaction, held open across the calls to the   *)
(* model.  Each tool call runs in a savepoint and is audited whatever its  *)
(* outcome.  A tool first looks its budget up, ignoring case, and then     *)
(* writes the row it found.  PostgreSQL runs the turns of several chats at *)
(* READ COMMITTED: a row (or a key of the unique constraint on category)   *)
(* written by an open turn makes every other writer of it wait.            *)
(***************************************************************************)
EXTENDS Naturals, FiniteSets

CONSTANTS
    Chats,         \* running `finance chat` processes
    Names,         \* spellings of budget categories
    lower,         \* lower() of a spelling, in PostgreSQL
    casefold,      \* str.casefold() of a spelling, in Python
    Amounts,       \* monthly amounts
    MaxToolCalls,  \* MAX_TOOL_CALLS_PER_TURN
    MaxTurns,      \* bound: turns that add to a conversation
    MaxAudit,      \* bound: audited writes
    Faults         \* what may go wrong, a subset of AllFaults

\* "provider": the model's API fails
\* "crash":    another exception leaves the turn
\* "kill":     the process dies
AllFaults == {"provider", "crash", "kill"}

Nobody == "nobody"

ASSUME AgentAssumption ==
    /\ Amounts \subseteq Nat \ {0}
    /\ MaxToolCalls \in Nat \ {0}
    /\ MaxTurns \in Nat /\ MaxAudit \in Nat
    /\ Faults \subseteq AllFaults
    /\ Nobody \notin Chats

VARIABLES
    budgets,   \* finance.budgets, as committed
    writer,    \* the chat whose open turn has written a row
    draft,     \* what that turn has written
    audit,     \* agent.tool_calls: writes that reported success
    said,      \* turns in agent.messages
    op         \* where each chat is

vars == <<budgets, writer, draft, audit, said, op>>

Budget == [amount : Amounts \cup {0}, active : BOOLEAN]
NoBudget == [amount |-> 0, active |-> FALSE]

Pc == {"closed", "prompt", "model", "lookup", "write", "reply"}
Tool == {"create_budget", "update_budget", "archive_budget"}

\* calls: provider calls of this turn that are spent; tool, name, amount:
\* the request; seen: the row as the lookup found it.
Chat == [pc : Pc, calls : 0..MaxToolCalls, tool : Tool \cup {"none"},
         name : Names \cup {"none"}, amount : Amounts \cup {0}, seen : Budget]

Turn(pc, calls) == [pc |-> pc, calls |-> calls, tool |-> "none",
                    name |-> "none", amount |-> 0, seen |-> NoBudget]

\* by: the chat whose turn is still open, or Nobody once it has committed.
Claim == [id : 1..MaxAudit, by : Chats \cup {Nobody}, name : Names,
          claims : Budget]

InTurn(p) == op[p].pc \notin {"closed", "prompt"}

Init ==
    /\ budgets = [n \in Names |-> NoBudget]
    /\ writer = [n \in Names |-> Nobody]
    /\ draft = [n \in Names |-> NoBudget]
    /\ audit = {}
    /\ said = 0
    /\ op = [p \in Chats |-> Turn("closed", 0)]
-----------------------------------------------------------------------------
(* Transactions.                                                           *)

Goto(p, where) == op' = [op EXCEPT ![p] = where]

Release(p) ==
    /\ writer' = [n \in Names |-> IF writer[n] = p THEN Nobody ELSE writer[n]]
    /\ draft' = [n \in Names |-> IF writer[n] = p THEN NoBudget ELSE draft[n]]

Settled(p) == {IF e.by = p THEN [e EXCEPT !.by = Nobody] ELSE e : e \in audit}

Commit(p) ==
    /\ Release(p)
    /\ budgets' = [n \in Names |-> IF writer[n] = p THEN draft[n] ELSE budgets[n]]
    /\ audit' = Settled(p)

\* Faulty: the audit trail is written by a transaction of its own.
AbortButAudit(p) ==
    /\ Release(p)
    /\ audit' = Settled(p)
    /\ UNCHANGED budgets

Abort(p) ==
    /\ Release(p)
    /\ audit' = {e \in audit : e.by # p}
    /\ UNCHANGED budgets

\* What a statement of p's turn reads.
Visible(p, n) == IF writer[n] = p THEN draft[n] ELSE budgets[n]
-----------------------------------------------------------------------------
(* The chat.                                                               *)

StartChat(p) ==
    /\ op[p].pc = "closed"
    /\ Goto(p, Turn("prompt", 0))
    /\ UNCHANGED <<budgets, writer, draft, audit, said>>

Exit(p) ==
    /\ op[p].pc = "prompt"
    /\ Goto(p, Turn("closed", 0))
    /\ UNCHANGED <<budgets, writer, draft, audit, said>>

Ask(p) ==
    /\ op[p].pc = "prompt"
    /\ said + Cardinality({q \in Chats : InTurn(q)}) < MaxTurns
    /\ Goto(p, Turn("model", 0))
    /\ UNCHANGED <<budgets, writer, draft, audit, said>>

\* append_turn, then the turn commits.
Reply(p) ==
    /\ op[p].pc = "reply"
    /\ said' = said + 1
    /\ Commit(p)
    /\ Goto(p, Turn("prompt", 0))

\* An error of the provider is caught inside the transaction, which
\* commits.
ProviderError(p) ==
    /\ "provider" \in Faults
    /\ op[p].pc = "model" /\ op[p].calls < MaxToolCalls
    /\ Commit(p)
    /\ Goto(p, Turn("prompt", 0))
    /\ UNCHANGED said

\* Any other exception leaves the transaction and the chat.
Crash(p) ==
    /\ {"crash", "kill"} \cap Faults # {}
    /\ op[p].pc # "closed"
    /\ op[p].pc \in {"model", "reply"} \/ "kill" \in Faults
    /\ Abort(p)
    /\ Goto(p, Turn("closed", 0))
    /\ UNCHANGED said
-----------------------------------------------------------------------------
(* The loop.                                                               *)

\* The model answers, or its calls are used up.
Final(p) ==
    /\ op[p].pc = "model"
    /\ Goto(p, Turn("reply", op[p].calls))
    /\ UNCHANGED <<budgets, writer, draft, audit, said>>

\* Faulty: the calls of a turn are not counted.
CallUncounted(p) == Goto(p, Turn("model", op[p].calls))

\* Audited and reported to the model, whatever the outcome.
CallEnds(p) == Goto(p, Turn("model", op[p].calls + 1))

\* A tool that writes nothing, an unknown tool, or invalid arguments.
OtherCall(p) ==
    /\ op[p].pc = "model" /\ op[p].calls < MaxToolCalls
    /\ CallEnds(p)
    /\ UNCHANGED <<budgets, writer, draft, audit, said>>

Ids == {e.id : e \in audit}

\* The next key, as a sequence of PostgreSQL gives it; gaps left by turns that
\* were rolled back are closed where no later row shows them.
IsNextId(i) == (\A j \in Ids : j < i) /\ (i = 1 \/ i - 1 \in Ids)

Request(p, tool, name, amount) ==
    /\ op[p].pc = "model" /\ op[p].calls < MaxToolCalls
    /\ \A i \in Ids \cup {0} :
          i + Cardinality({q \in Chats : op[q].pc \in {"lookup", "write"}})
            < MaxAudit
    /\ Goto(p, [Turn("lookup", op[p].calls) EXCEPT
                  !.tool = tool, !.name = name, !.amount = amount])
    /\ UNCHANGED <<budgets, writer, draft, audit, said>>

\* Faulty: the lookup respects case.
ExactCategory(name) == {name}

\* get_by_category: lower(category) in the table against casefold() of what was
\* asked for, which is another function (of a sharp s, for one).
SameCategory(name) == {n \in Names : lower[n] = casefold[name]}

\* The query fails when there are two.
Found(p) == {n \in SameCategory(op[p].name) : Visible(p, n) # NoBudget}

Lookup(p) ==
    /\ op[p].pc = "lookup"
    /\ \/ /\ op[p].tool = "create_budget" /\ Found(p) = {}
          /\ op' = [op EXCEPT ![p].pc = "write"]
       \/ /\ op[p].tool # "create_budget"
          /\ \E n \in Found(p) :
                /\ Found(p) = {n}
                /\ op' = [op EXCEPT ![p].pc = "write", ![p].name = n,
                                    ![p].seen = Visible(p, n)]
       \/ /\ IF op[p].tool = "create_budget" THEN Found(p) # {}
                                             ELSE Cardinality(Found(p)) # 1
          /\ CallEnds(p)
    /\ UNCHANGED <<budgets, writer, draft, audit, said>>

\* Faulty: an update makes the budget active again.
AppliedActive(p, row) ==
    IF op[p].tool = "archive_budget" THEN [row EXCEPT !.active = FALSE]
    ELSE [amount |-> op[p].amount, active |-> TRUE]

\* The attributes the tool sets on a row.
Applied(p, row) ==
    CASE op[p].tool = "create_budget"  -> [amount |-> op[p].amount, active |-> TRUE]
      [] op[p].tool = "update_budget"  -> [row EXCEPT !.amount = op[p].amount]
      [] op[p].tool = "archive_budget" -> [row EXCEPT !.active = FALSE]

\* Faulty: the result is taken before the change.
AuditedBefore(p) ==
    \E i \in 1..MaxAudit :
        /\ IsNextId(i)
        /\ audit' = audit \cup {[id |-> i, by |-> p, name |-> op[p].name,
                                 claims |-> op[p].seen]}

\* The result describes the object in memory.
Audited(p) ==
    \E i \in 1..MaxAudit :
        /\ IsNextId(i)
        /\ audit' = audit \cup {[id |-> i, by |-> p, name |-> op[p].name,
                                 claims |-> Applied(p, op[p].seen)]}

Waits(p) ==
    /\ op[p].pc = "write"
    /\ Applied(p, op[p].seen) # op[p].seen
    /\ writer[op[p].name] \notin {Nobody, p}

\* The flush: no statement is sent for attributes set to what they were; an
\* UPDATE changes only the others; an INSERT may meet the unique constraint.
Write(p) ==
    LET n    == op[p].name
        dup  == op[p].tool = "create_budget" /\ Visible(p, n) # NoBudget
        same == Applied(p, op[p].seen) = op[p].seen
    IN  /\ op[p].pc = "write" /\ ~Waits(p)
        /\ \/ same /\ Audited(p) /\ UNCHANGED <<writer, draft>>
           \/ dup /\ UNCHANGED <<writer, draft, audit>>
           \/ /\ ~same /\ ~dup
              /\ writer' = [writer EXCEPT ![n] = p]
              /\ draft' = [draft EXCEPT ![n] = Applied(p, Visible(p, n))]
              /\ Audited(p)
        /\ CallEnds(p)
        /\ UNCHANGED <<budgets, said>>

\* PostgreSQL fails one statement of a cycle of waiting turns; the savepoint
\* is rolled back and the turn goes on.
Deadlocked(p) ==
    \E S \in SUBSET Chats :
        /\ p \in S
        /\ \A q \in S : Waits(q) /\ writer[op[q].name] \in S
        /\ \A q \in S : \E r \in S : writer[op[r].name] = q

DeadlockVictim(p) ==
    /\ op[p].pc = "write" /\ Deadlocked(p)
    /\ CallEnds(p)
    /\ UNCHANGED <<budgets, writer, draft, audit, said>>
-----------------------------------------------------------------------------
Requests(p) == \E tool \in Tool, name \in Names, amount \in Amounts :
                    Request(p, tool, name, amount)

Step(p) == \/ Final(p) \/ OtherCall(p) \/ Requests(p) \/ ProviderError(p)
           \/ Lookup(p) \/ Write(p) \/ DeadlockVictim(p) \/ Reply(p)

Next == \E p \in Chats : StartChat(p) \/ Exit(p) \/ Ask(p) \/ Step(p) \/ Crash(p)

Safety == Init /\ [][Next]_vars

\* The model always answers or fails, and a lock goes to who waits for it.
Spec == Safety /\ \A p \in Chats : WF_vars(Step(p)) /\ SF_vars(Write(p))
-----------------------------------------------------------------------------
TypeOK ==
    /\ budgets \in [Names -> Budget]
    /\ writer \in [Names -> Chats \cup {Nobody}]
    /\ draft \in [Names -> Budget]
    /\ audit \subseteq Claim
    /\ said \in 0..MaxTurns
    /\ op \in [Chats -> Chat]

\* Whatever is in the table was claimed by a call in the audit trail, however
\* turns failed and interleaved.
WritesAreAudited ==
    \A n \in Names : budgets[n] # NoBudget =>
        \E e \in audit :
            e.by = Nobody /\ e.name = n /\ e.claims.amount = budgets[n].amount

\* No call brings an archived budget back, nor loses a budget.
ArchivedForGood ==
    [][\A n \in Names : budgets[n] # NoBudget =>
            /\ budgets'[n] # NoBudget
            /\ budgets'[n].active => budgets[n].active]_vars

\* A turn comes to an end although it holds locks while others wait.
EveryTurnEnds == \A p \in Chats : InTurn(p) ~> ~InTurn(p)
-----------------------------------------------------------------------------
(* Properties of a sole chat; each is false of two.                        *)

\* A call's result describes the change it applied (agent/tools/write.py, 7):
\* replayed in order, the audit trail gives the table.
TrailReplays ==
    \A n \in Names : \A e \in audit :
        /\ e.by = Nobody /\ e.name = n
        /\ \A d \in audit : d.by = Nobody /\ d.name = n => d.id <= e.id
        => e.claims = budgets[n]

\* Spellings that PostgreSQL and Python fold alike.
Plain == {n \in Names : lower[n] = casefold[n]}

\* A category has one budget, however its case is spelt, as long as the two
\* functions agree on the spelling: otherwise no tool finds either again.
OneBudgetPerCategory ==
    \A m, n \in Plain :
        lower[m] = lower[n] /\ budgets[m] # NoBudget /\ budgets[n] # NoBudget
            => m = n
=============================================================================
