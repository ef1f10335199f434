----------------------------- MODULE Analytics -----------------------------
(***************************************************************************)
(* src/finance_app/analytics: totals over the transactions of a period, as *)
(* operators on the set of live rows.                                      *)
(*                                                                         *)
(* A fact is what Plaid says of a transaction.  Its category is reduced to *)
(* what the code tells apart: pfc and leaf are the labels derived from     *)
(* Plaid's two taxonomies (or NoLabel), and pfcKind and topKind say whether*)
(* the primary and the top-level category count as transfer or as income.  *)
(* Amounts are cents, dates are days counted from the first of year 1.     *)
(***************************************************************************)
EXTENDS Integers, FiniteSets, FiniteSetsExt

CONSTANTS
    Labels,        \* spellings of categories
    casefold,      \* the label without regard to case
    containing,    \* for a text to search for: the names and merchants with it in
                   \* them, without regard to case
    DaysPerMonth   \* bound: length of a month

NoLabel == "none"
Uncategorized == "Uncategorized"

ASSUME LabelsAssumption ==
    /\ casefold \in [Labels -> STRING]
    /\ NoLabel \notin Labels /\ Uncategorized \in Labels
    /\ DaysPerMonth \in Nat \ {0}

ASSUME SearchAssumption ==
    \A query \in DOMAIN containing : containing[query] \subseteq STRING \ {NoLabel}

Kind == {"transfer", "income", "other"}

\* Amount, date and name are NOT NULL.
Fact == [amount : Int, date : Int, name : STRING \ {NoLabel}, merchant : STRING,
         pfc : Labels \cup {NoLabel}, pfcKind : Kind,
         leaf : Labels \cup {NoLabel}, topKind : Kind]
-----------------------------------------------------------------------------
(* Periods: half-open ranges of days.                                      *)

FirstDay(year, month) == ((year - 1) * 12 + month - 1) * DaysPerMonth

MonthBounds(year, month) ==
    [start |-> FirstDay(year, month),
     end |-> IF month = 12 THEN FirstDay(year + 1, 1) ELSE FirstDay(year, month + 1)]

PreviousMonth(ym) ==
    IF ym.month = 1 THEN [year |-> ym.year - 1, month |-> 12]
                    ELSE [ym EXCEPT !.month = @ - 1]

\* Faulty: the last day belongs to the period.
UpToEnd(date, period) == period.start <= date /\ date <= period.end

Within(date, period) == period.start <= date /\ date < period.end
-----------------------------------------------------------------------------
(* What a transaction is.                                                  *)

RawLabel(fact) ==
    IF fact.pfc # NoLabel THEN fact.pfc
    ELSE IF fact.leaf # NoLabel THEN fact.leaf
    ELSE Uncategorized

\* An override wins in either direction.
Classify(override, fact) ==
    IF override # NoLabel
    THEN [category |-> override,
          transfer |-> casefold[override] = "transfer",
          income |-> casefold[override] \in {"payroll", "income"}]
    ELSE [category |-> RawLabel(fact),
          transfer |-> "transfer" \in {fact.pfcKind, fact.topKind},
          income |-> "income" \in {fact.pfcKind, fact.topKind}]

\* Every live row of a period, with its override.
Effective(rows, live, override, period) ==
    {[id |-> t, fact |-> rows[t], class |-> Classify(override[t], rows[t])] :
        t \in {u \in live : Within(rows[u].date, period)}}

IsSpending(t) == ~t.class.transfer /\ ~t.class.income

AmountOf(txns) == SumFunction([t \in txns |-> t.fact.amount])
-----------------------------------------------------------------------------
(* Totals.                                                                 *)

SpendingSummary(txns) == AmountOf({t \in txns : IsSpending(t)})

IncomeSummary(txns) == -AmountOf({t \in txns : t.class.income})

SpentOn(txns, label) ==
    AmountOf({t \in txns : IsSpending(t) /\ t.class.category = label})

\* Faulty: a category that nets to a refund is left out as well.
ByCategoryPositive(txns) ==
    [c \in {c \in Labels : SpentOn(txns, c) > 0} |-> SpentOn(txns, c)]

\* Categories that net to zero are left out.
SpendingByCategory(txns) ==
    [c \in {c \in Labels : SpentOn(txns, c) # 0} |-> SpentOn(txns, c)]

\* A Decimal ratio that is None when its denominator is zero.
Ratio(amount, of) == IF of = 0 THEN "None" ELSE <<amount, of>>

\* Faulty: what is not spending is income.
CashflowOfTheRest(income, spending) ==
    LET total == -AmountOf({t \in income : ~IsSpending(t)})
        net   == total - SpendingSummary(spending)
    IN  [income |-> total, spending |-> SpendingSummary(spending),
         net |-> net, savings_rate |-> Ratio(net, total)]

\* Income and spending are read by a SELECT each.
Cashflow(income, spending) ==
    LET total == IncomeSummary(income)
        net   == total - SpendingSummary(spending)
    IN  [income |-> total, spending |-> SpendingSummary(spending),
         net |-> net, savings_rate |-> Ratio(net, total)]

\* compare_periods: one side of it, for one category in any case or for all.
AmountIn(txns, label) ==
    AmountOf({t \in txns : IsSpending(t)
                /\ (label # NoLabel => casefold[t.class.category] = casefold[label])})

\* Faulty: a budget finds its category in its own case only.
BudgetActualExact(txns, label) == SpentOn(txns, label)

\* A dict keyed by the casefolded label, filled in order of falling amounts:
\* of several spellings the one with the least amount remains.
BudgetActual(txns, label) ==
    LET byCategory == SpendingByCategory(txns)
        spellings  == {c \in DOMAIN byCategory : casefold[c] = casefold[label]}
    IN  IF spellings = {} THEN 0 ELSE Min({byCategory[c] : c \in spellings})
-----------------------------------------------------------------------------
(* Lists: newest first, cut off.                                           *)

Newer(t, u) == t.fact.date > u.fact.date \/ (t.fact.date = u.fact.date /\ t.id > u.id)

\* Faulty: oldest first, as the query returns them.
ListOldest(txns, limit) ==
    {t \in txns : Cardinality({u \in txns : Newer(t, u)}) < limit}

ListTransactions(txns, limit) ==
    {t \in txns : Cardinality({u \in txns : Newer(u, t)}) < limit}

SearchTransactions(txns, query, limit) ==
    ListTransactions(
        {t \in txns : {t.fact.name, t.fact.merchant} \cap containing[query] # {}}, limit)
-----------------------------------------------------------------------------
(* Recurring charges.                                                      *)

Window(as_of, lookback) ==
    LET back[n \in Nat] == IF n = 0 THEN as_of ELSE PreviousMonth(back[n - 1])
        first == back[lookback - 1]
    IN  [start |-> MonthBounds(first.year, first.month).start,
         end |-> MonthBounds(as_of.year, as_of.month).end]

\* Faulty: merchant_name or name.
SeriesByRow(txns, t) == IF t.fact.merchant # NoLabel THEN t.fact.merchant ELSE t.fact.name

\* The key of a row: its merchant, else the first merchant seen with the same
\* name (of whatever kind of transaction), else the name.
Series(txns, t) ==
    LET known == {u \in txns : u.fact.name = t.fact.name /\ u.fact.merchant # NoLabel}
        first == CHOOSE u \in known : \A v \in known : v = u \/ Newer(v, u)
    IN  IF t.fact.merchant # NoLabel THEN t.fact.merchant
        ELSE IF known # {} THEN first.fact.merchant
        ELSE t.fact.name

Entries(txns, key) == {t \in txns : IsSpending(t) /\ Series(txns, t) = key}

Months(entries) == {t.fact.date \div DaysPerMonth : t \in entries}

\* sorted(amounts)[len(amounts) // 2]
MedianIn(entries) ==
    LET half == Cardinality(entries) \div 2 IN
        CHOOSE a \in {t.fact.amount : t \in entries} :
            /\ Cardinality({t \in entries : t.fact.amount < a}) <= half
            /\ half < Cardinality({t \in entries : t.fact.amount <= a})

Magnitude(n) == IF n < 0 THEN -n ELSE n

\* Within 5% of the median, in enough distinct months.
LooksRecurring(entries, min_occurrences) ==
    /\ Cardinality(Months(entries)) >= min_occurrences
    /\ LET median == MedianIn(entries)
       IN  /\ median # 0
           /\ \A t \in entries :
                Magnitude(t.fact.amount - median) * 20 <= Magnitude(median)

FindRecurring(txns, min_occurrences) ==
    {[merchant |-> key,
      occurrences |-> Cardinality(Entries(txns, key)),
      average_amount |-> Ratio(AmountOf(Entries(txns, key)), Cardinality(Entries(txns, key))),
      last_date |-> Max({t.fact.date : t \in Entries(txns, key)})] :
        key \in {k \in {Series(txns, t) : t \in txns} :
                    LooksRecurring(Entries(txns, k), min_occurrences)}}
=============================================================================
