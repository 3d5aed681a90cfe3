----------------------------- MODULE MCLockstep -----------------------------
(***************************************************************************)
(* A TLC instance of Lockstep: a ledger that follows the rules until it    *)
(* answers wrongly, if it ever does.                                       *)
(***************************************************************************)
EXTENDS Lockstep, TLC

\* Ordinary account ids are interchangeable.
MCSymmetry == Permutations(AccountIds \ Reserved)

\* Outcomes of a defective ledger: either verdict, with the state that was there
\* or the state of the transfer, in which one account may be a unit or a nonce off.
MCDefective(st, tx) ==
    LET Off(x, y) == x - y \in {-1, 0, 1}
        near == UNION {{[base EXCEPT ![id] = acc] :
                           acc \in {acc \in Account : /\ Off(acc.balance, base[id].balance)
                                                     /\ Off(acc.nonce, base[id].nonce)}}
                          : base \in {st, Execute(st, tx).post}, id \in AccountIds}
    IN [ok : BOOLEAN, post : near]
=============================================================================
