---------------------------- MODULE FinanceViews ----------------------------
(***************************************************************************)
(* What analytics make of the database while it changes: rows written by   *)
(* `finance sync` (an abstraction of PlaidSync: any commit of a page), and *)
(* annotations written by the tools of a turn (agent/tools/write.py,       *)
(* db/repositories/user_annotations.py).                                   *)
(*                                                                         *)
(* A tool first reads whether the transaction is live and writes in a later*)
(* statement of the turn's transaction, which commits later still.         *)
(***************************************************************************)
EXTENDS Reports

CONSTANTS
    Txns,      \* rows of plaid.transactions, by id
    Facts,     \* what Plaid may say of one
    Picks,     \* categories a user picks, of Labels
    Budgets,   \* active budgets: categories to monthly amounts
    LastMonth  \* bound: months of year 1 that reports ask for

\* No row.
NoFact == [amount |-> 0, date |-> 0, name |-> NoLabel, merchant |-> NoLabel,
           pfc |-> NoLabel, pfcKind |-> "other", leaf |-> NoLabel, topKind |-> "other"]

ASSUME ViewsAssumption ==
    /\ Txns \subseteq Nat /\ IsFiniteSet(Txns)
    /\ Picks \subseteq Labels
    /\ \A b \in Budgets : DOMAIN b \subseteq Labels /\ \A c \in DOMAIN b : b[c] \in Int
    /\ Facts \subseteq Fact /\ NoFact \notin Facts
    /\ LastMonth \in 1..12

VARIABLES
    rows,      \* plaid.transactions
    removed,   \* rows whose removed_at is set
    override,  \* user.transaction_category_overrides
    tagged,    \* user.transaction_tags (user.transaction_notes is alike)
    budgets,   \* active rows of finance.budgets
    turn       \* the annotation a turn is about to write

vars == <<rows, removed, override, tagged, budgets, turn>>

\* to: the category to set, NoLabel to clear it, "tag" or "untag".
Annotation == Picks \cup {NoLabel, "tag", "untag"}

Turn == [pc : {"idle", "checked", "written"}, txn : Txns, to : Annotation]

NoTurn == [pc |-> "idle", txn |-> 0, to |-> NoLabel]

Init ==
    /\ rows = [t \in Txns |-> NoFact]
    /\ removed = {}
    /\ override = [t \in Txns |-> NoLabel]
    /\ tagged = {}
    /\ budgets \in Budgets
    /\ turn = NoTurn

Present == {t \in Txns : rows[t] # NoFact}

Live == Present \ removed
-----------------------------------------------------------------------------
(* A page of a sync commits, one transaction at a time: every state that   *)
(* shows is one that some sequence of pages commits.                       *)

\* upsert clears removed_at: a removed transaction may come back.
SyncUpsert(t, fact) ==
    /\ rows' = [rows EXCEPT ![t] = fact]
    /\ removed' = removed \ {t}
    /\ UNCHANGED <<override, tagged, budgets, turn>>

\* Faulty: the row is deleted.
SyncDelete(t) ==
    /\ t \in Present
    /\ rows' = [rows EXCEPT ![t] = NoFact]
    /\ removed' = removed \ {t}
    /\ UNCHANGED <<override, tagged, budgets, turn>>

SyncRemove(t) ==
    /\ t \in Present
    /\ removed' = removed \cup {t}
    /\ UNCHANGED <<rows, override, tagged, budgets, turn>>
-----------------------------------------------------------------------------
(* The annotation tools.                                                   *)

\* _ensure_transaction_exists, for the tools that set something.
CheckExists(t, to) ==
    /\ turn = NoTurn
    /\ to \in Picks \cup {"tag"} => t \in Live
    /\ turn' = [pc |-> "checked", txn |-> t, to |-> to]
    /\ UNCHANGED <<rows, removed, override, tagged, budgets>>

\* The upsert or delete of the row, seen by the turn alone until it commits.
WriteAnnotation ==
    /\ turn.pc = "checked"
    /\ turn' = [turn EXCEPT !.pc = "written"]
    /\ UNCHANGED <<rows, removed, override, tagged, budgets>>

SetOverride(t, to) ==
    IF to \in Picks \cup {NoLabel} THEN [override EXCEPT ![t] = to] ELSE override

Tagged(t, to) ==
    CASE to = "tag"   -> tagged \cup {t}
      [] to = "untag" -> tagged \ {t}
      [] OTHER        -> tagged

CommitTurn ==
    /\ turn.pc = "written"
    /\ override' = SetOverride(turn.txn, turn.to)
    /\ tagged' = Tagged(turn.txn, turn.to)
    /\ turn' = NoTurn
    /\ UNCHANGED <<rows, removed, budgets>>

AbortTurn ==
    /\ turn.pc # "idle"
    /\ turn' = NoTurn
    /\ UNCHANGED <<rows, removed, override, tagged, budgets>>
-----------------------------------------------------------------------------
Next == \/ \E t \in Txns, fact \in Facts : SyncUpsert(t, fact)
        \/ \E t \in Txns : SyncRemove(t)
        \/ \E t \in Txns, to \in Annotation : CheckExists(t, to)
        \/ WriteAnnotation \/ CommitTurn \/ AbortTurn

Spec == Init /\ [][Next]_vars
-----------------------------------------------------------------------------
TypeOK ==
    /\ rows \in [Txns -> Facts \cup {NoFact}]
    /\ removed \subseteq Txns
    /\ override \in [Txns -> Picks \cup {NoLabel}]
    /\ tagged \subseteq Txns
    /\ budgets \in Budgets
    /\ turn \in Turn \cup {NoTurn}

\* An annotation never hangs in the air: whatever a sync does between the
\* check, the write and the commit, its transaction is there, if only as a
\* tombstone.
AnnotationsHaveRows ==
    /\ \A t \in Txns : override[t] # NoLabel \/ t \in tagged => t \in Present
    /\ removed \subseteq Present

Database == [rows |-> rows, live |-> Live, override |-> override, budgets |-> budgets]

Month(m) == [year |-> 1, month |-> m]

MonthNumbers == 1..LastMonth

\* Periods between the first days of two months, backwards and empty ones too.
MonthPeriods ==
    {[start |-> MonthBounds(1, m).start, end |-> MonthBounds(1, n).start] :
        m \in MonthNumbers, n \in 1..(LastMonth + 1)}

\* Periods a model may ask for: the last is too wide by a day.
AnyPeriod == MonthPeriods \cup {[start |-> 0, end |-> MAX_PERIOD_DAYS + 1]}

Reportable == {p \in AnyPeriod : p.start < p.end /\ p.end - p.start <= MAX_PERIOD_DAYS}

\* What the tools and commands report of one state of the database agrees:
\* the categories of a period add up to its total, a category compared by name
\* is the sum of its spellings, and the command of a month says what the tool
\* says ("an effective-category/transfer/income rule can't drift between
\* spending.py and cashflow.py", _effective.py).  No period is cut short: one
\* that is backwards, empty or too wide gets no total at all (_validation.py).
TotalsAgree ==
    LET db == Database IN
    /\ \A p \in Reportable :
        LET summary == get_category_summary(db, p) IN
        /\ summary.total_spent = get_spending_summary(db, p).total_spent
        /\ summary.total_spent = compare_periods(db, db, p, p, NoLabel).amount_a
        /\ summary.total_spent = calculate_cashflow(db, db, p).spending
        /\ \A c \in Labels : compare_periods(db, db, p, p, c).amount_b =
             SumFunctionOnSet(summary.categories,
                {d \in DOMAIN summary.categories : casefold[d] = casefold[c]})
    /\ \A m \in MonthNumbers :
        LET tool == get_category_summary(db, MonthBounds(1, m))
            cli  == spending(db, db, Month(m), NoLabel)
        IN  cli = [by_category |-> tool.categories, total |-> tool.total_spent]
    /\ \A p \in AnyPeriod \ Reportable :
        \A answer \in {get_spending_summary(db, p), get_category_summary(db, p),
                       get_income_summary(db, p), calculate_cashflow(db, db, p),
                       compare_periods(db, db, p, p, NoLabel)} : "error" \in DOMAIN answer

\* No transaction is dropped or counted twice on the boundary of a month: the
\* reports of the months of a period add up to the report of the period.
MonthsAddUp ==
    LET db == Database IN
    \A p \in Reportable :
        LET inside == {m \in 1..LastMonth : p.start <= MonthBounds(1, m).start
                                            /\ MonthBounds(1, m).end <= p.end}
        IN  /\ get_spending_summary(db, p).total_spent =
                 SumFunction([m \in inside |-> spending(db, db, Month(m), NoLabel).total])
            /\ get_income_summary(db, p).total_income =
                 SumFunction([m \in inside |-> income(db, Month(m))])

\* Cash flow accounts for every live row except transfers, each once, and a
\* user's category decides what is a transfer in either direction
\* (docs/analytics.md, 28-49).
IsTransfer(t) ==
    IF override[t] # NoLabel THEN casefold[override[t]] = "transfer"
    ELSE /\ "transfer" \in {rows[t].pfcKind, rows[t].topKind}
         /\ "income" \notin {rows[t].pfcKind, rows[t].topKind}

CashflowBalances ==
    \A p \in Reportable :
        calculate_cashflow(Database, Database, p).net =
            -SumFunction([t \in {u \in Live : p.start <= rows[u].date /\ rows[u].date < p.end
                                            /\ ~IsTransfer(u)}
                            |-> rows[t].amount])

\* A budget is measured against the spending of its category in any case, as
\* long as the period has one spelling of it, and is reported used or not.
BudgetsAgree ==
    LET db == Database IN
    \A p \in Reportable :
        LET spent   == get_spending_by_category(db, p).categories
            report  == get_budget_status(db, db, p).budgets
        IN  /\ {status.category : status \in report} = DOMAIN budgets
            /\ \A status \in report :
                Cardinality({c \in DOMAIN spent :
                               casefold[c] = casefold[status.category]}) <= 1
                => LET actual == compare_periods(db, db, p, p, status.category).amount_a
                   IN  /\ status.actual_spent = actual
                       /\ status.remaining < 0 <=> status.over_budget
                       /\ status.remaining + actual = budgets[status.category]

\* A charge billed under one name is found again, and found once with all its
\* occurrences, although its enrichment comes and goes from month to month
\* (docs/analytics.md, 113-120), as long as Plaid gives the name one merchant,
\* and gives neither to charges of another name.
RecurringIsFound ==
    LET db == Database IN
    \A n \in MonthNumbers : \A k \in 2..n :
        LET txns == Effective(rows, Live, override,
                              [start |-> MonthBounds(1, 1).start, end |-> MonthBounds(1, n).end])
            found == find_recurring_transactions(db, Month(n), n, k).merchants
            merchants(name) == {t.fact.merchant : t \in {u \in txns : u.fact.name = name}}
                                  \ {NoLabel}
            bill(name) == {t \in txns : IsSpending(t) /\ t.fact.name = name}
            keys(name) == merchants(name) \cup {name}
            foreign(name) == {t \in txns : t.fact.name # name
                                /\ {t.fact.name, t.fact.merchant} \cap keys(name) # {}}
        IN  \A name \in {t.fact.name : t \in txns} :
                /\ Cardinality(merchants(name)) <= 1
                /\ foreign(name) = {}
                /\ bill(name) # {}
                /\ LooksRecurring(bill(name), k)
                => \E r \in found :
                      /\ r.occurrences = Cardinality(bill(name))
                      /\ {r} = {s \in found : s.merchant \in keys(name)}

\* The list of a period and its totals are about the same transactions, the live
\* ones of the period: a list with room for all of them shows each once, a
\* shorter one is their newest part, a search is to those whose name or
\* merchant contains the text what a list is to all, and `recent` shows what
\* the tool lists of the same days, for every limit that the tools accept and
\* that there are transactions to tell apart.
ListsAgree ==
    LET db == Database
        listed(p, limit) == get_transactions(db, p, limit).transactions
        later(t, u) == t.date > u.date \/ (t.date = u.date /\ t.transaction_id > u.transaction_id)
        limits == {n \in 1..(Cardinality(Txns) + 1) : n <= 200}
        newest(part, all, limit) ==
            /\ part \subseteq all
            /\ \A t \in part, u \in all \ part : later(t, u)
            /\ Cardinality(part) =
                 IF Cardinality(all) < limit THEN Cardinality(all) ELSE limit
    IN  \A p \in Reportable :
            LET all == {Record(t) : t \in View(db, p)} IN
            /\ {t.transaction_id : t \in all} =
                 {t \in Live : p.start <= rows[t].date /\ rows[t].date < p.end}
            /\ \A limit \in limits :
                /\ newest(listed(p, limit), all, limit)
                /\ \A query \in DOMAIN containing :
                     newest(search_transactions(db, query, p, limit).transactions,
                            {t \in all : \E text \in containing[query] :
                                           text \in {t.name, t.merchant_name}},
                            limit)
                /\ transactions_recent(db, p.end - 1, p.end - 1 - p.start, limit).transactions
                     = listed(p, limit)
=============================================================================
