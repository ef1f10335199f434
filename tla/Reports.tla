------------------------------ MODULE Reports -------------------------------
(***************************************************************************)
(* The read tools of the agent (agent/tools/read.py, _validation.py) and   *)
(* the reporting commands (cli/main.py) on top of Analytics, each as the   *)
(* answer it gives of a database                                           *)
(*     db = [rows, live, override, budgets]                                *)
(* where budgets maps the active categories to their monthly amounts.      *)
(*                                                                         *)
(* A report that takes two SELECTs reads two databases, first and second:  *)
(* a sync may commit between them (READ COMMITTED).  Amounts stay cents:   *)
(* money() and the tables print them exactly.  Texts are left out.         *)
(***************************************************************************)
EXTENDS Analytics

CONSTANT MAX_PERIOD_DAYS   \* 3660 in the code

ASSUME MaxPeriodAssumption == MAX_PERIOD_DAYS \in Nat /\ DaysPerMonth <= MAX_PERIOD_DAYS

View(db, period) == Effective(db.rows, db.live, db.override, period)

\* The tool raises ToolInputError before it reads anything.
Refused == [error |-> "ToolInputError"]

Answer(valid, answer) == IF valid THEN answer ELSE Refused

require_period(period) ==
    /\ period.start < period.end
    /\ period.end - period.start <= MAX_PERIOD_DAYS

require_int(n, minimum, maximum) == minimum <= n /\ n <= maximum
-----------------------------------------------------------------------------
(* Tools that list transactions.                                           *)

Record(t) ==
    [transaction_id |-> t.id, date |-> t.fact.date, name |-> t.fact.name,
     merchant_name |-> t.fact.merchant, amount |-> t.fact.amount,
     effective_category |-> t.class.category]

Listing(txns) ==
    [count |-> Cardinality(txns), transactions |-> {Record(t) : t \in txns}]

get_transactions(db, period, limit) ==
    Answer(require_period(period) /\ require_int(limit, 1, 200),
           Listing(ListTransactions(View(db, period), limit)))

search_transactions(db, query, period, limit) ==
    Answer(require_period(period) /\ require_int(limit, 1, 200),
           Listing(SearchTransactions(View(db, period), query, limit)))
-----------------------------------------------------------------------------
(* Tools that add amounts up.                                              *)

get_spending_summary(db, period) ==
    Answer(require_period(period),
           [total_spent |-> SpendingSummary(View(db, period))])

get_spending_by_category(db, period) ==
    Answer(require_period(period),
           [categories |-> SpendingByCategory(View(db, period))])

\* The tool adds the categories up by itself.
get_category_summary(db, period) ==
    Answer(require_period(period),
           LET byCategory == SpendingByCategory(View(db, period))
           IN  [category_count |-> Cardinality(DOMAIN byCategory),
                total_spent |-> SumFunction(byCategory),
                categories |-> byCategory])

get_income_summary(db, period) ==
    Answer(require_period(period),
           [total_income |-> IncomeSummary(View(db, period))])

compare_periods(first, second, period_a, period_b, category) ==
    Answer(require_period(period_a) /\ require_period(period_b),
           LET a == AmountIn(View(first, period_a), category)
               b == AmountIn(View(second, period_b), category)
           IN  [amount_a |-> a, amount_b |-> b, change |-> b - a,
                change_pct |-> Ratio((b - a) * 100, a)])

calculate_cashflow(first, second, period) ==
    Answer(require_period(period), Cashflow(View(first, period), View(second, period)))

\* The budgets are read first, the transactions in a second statement.
BudgetStatus(first, second, period) ==
    LET txns == View(second, period)
        Of(c) == [category |-> c,
                  monthly_amount |-> first.budgets[c],
                  actual_spent |-> BudgetActual(txns, c),
                  remaining |-> first.budgets[c] - BudgetActual(txns, c),
                  over_budget |-> BudgetActual(txns, c) > first.budgets[c]]
    IN  {Of(c) : c \in DOMAIN first.budgets}

get_budget_status(first, second, period) ==
    Answer(require_period(period), [budgets |-> BudgetStatus(first, second, period)])

find_recurring_transactions(db, as_of, lookback_months, min_occurrences) ==
    Answer(require_int(lookback_months, 1, 24) /\ require_int(min_occurrences, 2, 24),
           [merchants |-> FindRecurring(View(db, Window(as_of, lookback_months)),
                                        min_occurrences)])
-----------------------------------------------------------------------------
(* Commands.                                                               *)

_resolve_period(ym) == MonthBounds(ym.year, ym.month)

\* The filter narrows the table and not the total.
spending(first, second, ym, category) ==
    LET byCategory == SpendingByCategory(View(first, _resolve_period(ym)))
        shown == {c \in DOMAIN byCategory :
                    category # NoLabel => casefold[c] = casefold[category]}
    IN  [by_category |-> [c \in shown |-> byCategory[c]],
         total |-> SpendingSummary(View(second, _resolve_period(ym)))]

income(db, ym) == IncomeSummary(View(db, _resolve_period(ym)))

cashflow(first, second, ym) ==
    Cashflow(View(first, _resolve_period(ym)), View(second, _resolve_period(ym)))

budget(first, second, ym) == BudgetStatus(first, second, _resolve_period(ym))

LastDays(today, days) == [start |-> today - days, end |-> today + 1]

transactions_recent(db, today, days, limit) ==
    Listing(ListTransactions(View(db, LastDays(today, days)), limit))

transactions_search(db, query, today, days, limit) ==
    Listing(SearchTransactions(View(db, LastDays(today, days)), query, limit))
=============================================================================
