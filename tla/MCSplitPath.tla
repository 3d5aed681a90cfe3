---------------------------- MODULE MCSplitPath ----------------------------
(***************************************************************************)
(* TLC instances of SplitPath: unsigned transactions and transactions with *)
(* one signer, and ledgers whose validation, execution and application go  *)
(* wrong independently of each other.                                      *)
(***************************************************************************)
EXTENDS SplitPath, TLC

\* Accounts are interchangeable: no definition singles one out.
MCSymmetry == Permutations(AccountIds \ Reserved)

Parties == AccountIds \ Reserved

\* Zero or one signer; one malformed transaction for the gate.
MCInputs ==
    {t \in Transactions :
        /\ Cardinality(t.signer_account_ids) <= 1
        /\ t.affected_public_account_ids \subseteq Parties
        /\ t.affected_public_account_ids # {}
        /\ t.signer_account_ids \subseteq Parties
        /\ ~t.passes_stateless_check => t.signer_account_ids = {}}

\* What an account may become: a unit more or less, and for a signer one nonce more.
Variants(st, t, id) ==
    {a \in Account :
        /\ a.balance \in st[id].balance - 1 .. st[id].balance + 1
        /\ a.nonce \in st[id].nonce .. st[id].nonce + (IF id \in t.signer_account_ids THEN 1 ELSE 0)}

VariantDiffs(st, t) ==
    UNION {{d \in [ids -> Account] : \A id \in ids : d[id] \in Variants(st, t, id)} :
              ids \in SUBSET Parties}

VariantStates(st, t) ==
    {p \in States : \A id \in AccountIds :
        IF id \in Parties THEN p[id] \in Variants(st, t, id) ELSE p[id] = st[id]}

Answer(ok, d, t) == [ok |-> ok, diff |-> [public_diff |-> d, signer_account_ids |-> t.signer_account_ids]]

Refusal == [ok |-> FALSE, diff |-> NoDiff]

\* The application of a diff does both steps, or forgets the nonces.
Applications(st, diff) == {ApplyDiff(st, diff), WriteAccounts(st, diff)}

MCBehaviours(st, t) ==
    UNION {
        {[from_public_transaction |-> v, validate |-> v,
          execute |-> [ok |-> TRUE, post |-> p], applied |-> a] :
              p \in VariantStates(st, t), a \in Applications(st, v.diff)}
        \cup
        {[from_public_transaction |-> f, validate |-> v,
          execute |-> [ok |-> ok, post |-> st], applied |-> a] :
              f \in {v, Refusal}, ok \in BOOLEAN, a \in Applications(st, v.diff)} :
        v \in {Answer(TRUE, d, t) : d \in VariantDiffs(st, t)} \cup {Refusal}}

\* A ledger that follows the rules of V03State: an accepted transaction moves one
\* unit from a signer to another affected account.
Transfer(st, t, from, to) ==
    [public_diff |-> [id \in {from, to} |->
        IF id = from THEN [st[id] EXCEPT !.balance = @ - 1] ELSE [st[id] EXCEPT !.balance = @ + 1]],
     signer_account_ids |-> t.signer_account_ids]

MCFaithful(st, t) ==
    LET Paths(v) ==
            [from_public_transaction |-> v, validate |-> v,
             execute |-> [ok |-> v.ok, post |-> ApplyDiff(st, v.diff)],
             applied |-> ApplyDiff(st, v.diff)]
        moves == {m \in t.signer_account_ids \X t.affected_public_account_ids :
                     m[1] # m[2] /\ st[m[1]].balance > 0}
    IN {Paths(Refusal)}
       \cup {Paths([ok |-> TRUE, diff |-> Transfer(st, t, m[1], m[2])]) : m \in moves}
=============================================================================
