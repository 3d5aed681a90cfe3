---------------------------- MODULE MCTxSequence ----------------------------
(***************************************************************************)
(* TLC instances of TxSequence: a ledger that follows the rules until it   *)
(* shows one of the defects the invariants are meant to catch, and one     *)
(* that forgets the nonces it has consumed.                                *)
(***************************************************************************)
EXTENDS TxSequence

\* Either verdict, with nothing done, the transfer done, or half of it done: the
\* recipient not credited, the sender not debited, the nonce kept or reset.
MCDefective(st, t) ==
    LET full   == Applied(st, t)
        halves == {[full EXCEPT ![t.to]   = st[t.to]],
                   [full EXCEPT ![t.from].balance = st[t.from].balance],
                   [full EXCEPT ![t.from].nonce = st[t.from].nonce],
                   [full EXCEPT ![t.from].nonce = 0]}
        posts  == IF t = UnsignedTx THEN {st} ELSE {st, full} \cup halves
    IN {Execute(st, t)} \cup [ok : BOOLEAN, post : posts \cap States]

\* A ledger that blocks a nonce only while it is the one before the current: a
\* transaction with an older nonce is executed as if it carried the current one, if
\* the balance allows it.
MCForgetful(st, t) ==
    LET current == st[t.from].nonce
        renewed == IF t.nonce + 1 < current THEN [t EXCEPT !.nonce = current] ELSE t
    IN {IF t = UnsignedTx THEN [ok |-> FALSE, post |-> st] ELSE Execute(st, renewed)}
=============================================================================
