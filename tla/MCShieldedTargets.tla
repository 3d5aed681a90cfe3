------------------------- MODULE MCShieldedTargets -------------------------
(***************************************************************************)
(* TLC instance of ShieldedTargets: a ledger that follows the rules.       *)
(***************************************************************************)
EXTENDS ShieldedTargets, TLC

\* Account ids, nullifiers and commitments are interchangeable.
MCSymmetry ==
    Permutations(AccountIds \ Reserved) \cup Permutations(Nullifiers) \cup Permutations(Commitments)

MCFaithful(st, t, block) == {ExecuteShielded(st, t, block)}
=============================================================================
