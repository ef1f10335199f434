----------------------------- MODULE MCSessions -----------------------------
(* A finite instance of Sessions for TLC: two databases, environment files  *)
(* that are what they should be, undeclared, or unreadable, and stray DSNs  *)
(* in the process environment, one of them redirected.                     *)
EXTENDS Sessions, TLC

MCFile(production, d) == [readable |-> TRUE, production |-> production, database |-> d]

MCEnvFiles ==
    (".env" :> MCFile(FALSE, "finance_dev"))
 @@ ("prod.env" :> MCFile(TRUE, "finance_prod"))
 @@ ("stray.env" :> MCFile(FALSE, "finance_prod"))
 @@ ("typo.env" :> [MCFile(TRUE, "finance_prod") EXCEPT !.readable = FALSE])

Redirected == [names |-> "finance_dev", reaches |-> "finance_prod", clear |-> FALSE]

MCAmbients ==
    {<<>>, "database_url" :> To("finance_prod"), "agent_database_url" :> Redirected,
     "alembic_database_url" :> To("finance_dev")}
=============================================================================
