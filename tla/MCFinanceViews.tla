--------------------------- MODULE MCFinanceViews ---------------------------
(* A finite instance of FinanceViews for TLC: two months of three days, and *)
(* facts for each case of the classification.                               *)
EXTENDS FinanceViews

MCLabels == {"Food", "food", "Rent", "transfer", "Payroll", "Uncategorized"}

MCcasefold == [c \in MCLabels |->
    CASE c = "Food"          -> "food"
      [] c = "Rent"          -> "rent"
      [] c = "Payroll"       -> "payroll"
      [] c = "Uncategorized" -> "uncategorized"
      [] OTHER               -> c]

Raw(pfc, pfcKind, leaf, topKind) ==
    [pfc |-> pfc, pfcKind |-> pfcKind, leaf |-> leaf, topKind |-> topKind]

Purchase == Raw("Food", "other", NoLabel, "other")
Move == Raw("Uncategorized", "transfer", NoLabel, "other")
Wages == Raw(NoLabel, "income", "Payroll", "transfer")
Unknown == Raw(NoLabel, "other", NoLabel, "other")

Of(raw, amount, date, name, merchant) ==
    [amount |-> amount, date |-> date, name |-> name, merchant |-> merchant,
     pfc |-> raw.pfc, pfcKind |-> raw.pfcKind, leaf |-> raw.leaf, topKind |-> raw.topKind]

\* A charge of month 1 and its slightly dearer repetition on the first day of
\* month 2, with and without enrichment; a refund; a transfer; wages.
MCFacts == {Of(Purchase, 1000, 1, "sq", NoLabel), Of(Purchase, 1040, 3, "sq", "Square"),
            Of(Unknown, -1000, 2, "sq", NoLabel), Of(Move, 500, 3, "bank", NoLabel),
            Of(Wages, -3000, 2, "job", NoLabel)}

\* "sq" is found in both names of the merchant, "B" in two names.
MCcontaining == [query \in {"sq", "SQUARE", "B", "x"} |->
    CASE query = "sq"     -> {"sq", "Square"}
      [] query = "SQUARE" -> {"Square"}
      [] query = "B"      -> {"bank", "job"}
      [] OTHER            -> {}]

MCBudgets == {<<>>, [c \in {"food"} |-> 1500]}
=============================================================================
