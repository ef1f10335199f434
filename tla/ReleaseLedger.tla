--------------------------- MODULE ReleaseLedger ---------------------------
(***************************************************************************)
(* What ops.releases promises whoever reads it (src/finance_app/db/models/ *)
(* ops.py, class Release; ADR-008): a release in service and at most one   *)
(* step back from it.                                                      *)
(*                                                                         *)
(* A row that has been in service is "proven" and keeps its release id for *)
(* good.  Service moves forward to a row never in service before, or back  *)
(* to a proven one; going back to the fallback uses it up.                 *)
(***************************************************************************)
EXTENDS Naturals

CONSTANTS Rows,     \* primary keys of the table
          None,     \* no row
          Releases  \* release ids

VARIABLES serving, fallback, proven, release

ledger == <<serving, fallback, proven, release>>

Init ==
    /\ serving = None
    /\ fallback = None
    /\ proven = {}
    /\ release \in [Rows -> Releases]

\* Attempts are recorded with whatever release id they name.
Attempt ==
    /\ release' \in [Rows -> Releases]
    /\ \A r \in proven : release'[r] = release[r]
    /\ UNCHANGED <<serving, fallback, proven>>

\* The same release deployed again keeps the step back it had.
Forward(r) ==
    /\ r \notin proven
    /\ proven' = proven \cup {r}
    /\ serving' = r
    /\ fallback' = IF serving # None /\ release[serving] = release[r]
                   THEN fallback ELSE serving
    /\ UNCHANGED release

Back(r) ==
    /\ r \in proven \ {serving}
    /\ serving' = r
    /\ fallback' = IF r = fallback THEN None ELSE fallback
    /\ UNCHANGED <<proven, release>>

Next == Attempt \/ \E r \in Rows : Forward(r) \/ Back(r)

Spec == Init /\ [][Next]_ledger
=============================================================================
