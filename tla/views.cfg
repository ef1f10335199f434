SPECIFICATION Spec
CONSTANTS
    Labels <- MCLabels
    casefold <- MCcasefold
    containing <- MCcontaining
    DaysPerMonth = 3
    Txns = {1, 2}
    Facts <- MCFacts
    Picks = {"food", "transfer"}
    Budgets <- MCBudgets
    LastMonth = 2
    MAX_PERIOD_DAYS = 6
INVARIANTS AnnotationsHaveRows TotalsAgree MonthsAddUp CashflowBalances BudgetsAgree RecurringIsFound ListsAgree
