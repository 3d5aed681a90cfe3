-------------------------- MODULE LedgerUnderTest --------------------------
(***************************************************************************)
(* The ledger a fuzz target is linked with.  A target calls it and judges  *)
(* its answers, so the model leaves the answers open: Outcomes(st, tx) is  *)
(* the set of answers execute_check_on_state may give to tx in state st.   *)
(* A correct ledger gives exactly one, Execute(st, tx); a defective one    *)
(* may give any other.                                                     *)
(***************************************************************************)
EXTENDS Genesis

CONSTANT Outcomes(_, _)
=============================================================================
