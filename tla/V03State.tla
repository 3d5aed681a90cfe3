------------------------------ MODULE V03State ------------------------------
(***************************************************************************)
(* The public part of the ledger under test (nssa::V03State), as the       *)
(* harness observes it: every account id has a native balance and a nonce, *)
(* and execute_check_on_state accepts or rejects a native transfer.        *)
(*                                                                         *)
(* The ledger itself is not part of this repository.  The operators below  *)
(* are the rules the harness documents and relies on (the "Why the model   *)
(* is a sound oracle" section of fuzz_stateful_model_lockstep.rs).         *)
(***************************************************************************)
EXTENDS Integers

CONSTANTS
    AccountIds,      \* every account id a harness run can name
    Reserved,        \* genesis.rs: reserved_account_ids()
    Bridge,          \* the bridge account, funded with MaxU at genesis
    MaxU             \* u128::MAX, scaled down

U128 == 0..MaxU

Account == [balance : U128, nonce : U128]

States == [AccountIds -> Account]

Txs == [from : AccountIds, to : AccountIds, nonce : U128, amount : U128]

\* A public transaction that carries no signature.  arbitrary_transaction draws its
\* signatures at random, so only these get past the stateless check; the program
\* they call is a random id, which no ledger that follows the rules runs.
UnsignedTx == [signers |-> {}]

\* AccountId::from of each witness's public key (signer_account_ids).
Signers(tx) == IF tx = UnsignedTx THEN {} ELSE {tx.from}

\* An execution's answer: accepted or not, and the state it leaves behind.
Answers == [ok : BOOLEAN, post : States]

ASSUME MaxUAssumption == MaxU \in Nat \ {0}

ASSUME ReservedAssumption == Reserved \subseteq AccountIds

-----------------------------------------------------------------------------
\* Account::default() and Account::funded(balance).
DefaultAccount == [balance |-> 0, nonce |-> 0]

Funded(b) == [balance |-> b, nonce |-> 0]

\* u128 arithmetic: None of checked_add, saturating_add, wrapping_add.
Overflows(a, b) == a + b > MaxU

SaturatingAdd(a, b) == IF a + b > MaxU THEN MaxU ELSE a + b

WrappingAdd(a, b) == IF a + b > MaxU THEN a + b - (MaxU + 1) ELSE a + b

-----------------------------------------------------------------------------
(***************************************************************************)
(* The rules of a native transfer signed by tx.from: two distinct accounts *)
(* (duplicate shard selectors are refused), no system account, the         *)
(* declared nonce is the current one, checked_sub on the sender and        *)
(* checked_add on the recipient.                                           *)
(***************************************************************************)
Accepts(st, tx) ==
    /\ tx # UnsignedTx
    /\ tx.from # tx.to
    /\ {tx.from, tx.to} \cap Reserved = {}
    /\ tx.nonce = st[tx.from].nonce
    /\ tx.amount <= st[tx.from].balance
    /\ ~Overflows(st[tx.to].balance, tx.amount)

\* The state diff of an accepted transfer; the signer's nonce moves by one.
Applied(st, tx) ==
    [st EXCEPT ![tx.from] = [balance |-> st[tx.from].balance - tx.amount,
                             nonce   |-> WrappingAdd(st[tx.from].nonce, 1)],
               ![tx.to].balance = st[tx.to].balance + tx.amount]

\* execute_check_on_state of a ledger that follows the rules: a rejected
\* transaction leaves no trace.
Execute(st, tx) ==
    IF Accepts(st, tx) THEN [ok |-> TRUE,  post |-> Applied(st, tx)]
                       ELSE [ok |-> FALSE, post |-> st]

(***************************************************************************)
(* The same transaction in two steps (fuzz_apply_state_diff_split_path):   *)
(* validation borrows the state and returns a ValidatedStateDiff; applying *)
(* it first writes the accounts of public_diff, then increments the nonce  *)
(* of every signer.  The accounts in public_diff still carry their old     *)
(* nonces.                                                                 *)
(***************************************************************************)
PublicDiffs == UNION {[ids -> Account] : ids \in SUBSET AccountIds}

Diffs == [public_diff : PublicDiffs, signer_account_ids : SUBSET AccountIds]

NoDiff == [public_diff |-> [id \in {} |-> DefaultAccount], signer_account_ids |-> {}]

\* The diff of an accepted transfer.
TransferDiff(st, tx) ==
    [public_diff |-> [id \in {tx.from, tx.to} |->
                         [balance |-> Applied(st, tx)[id].balance, nonce |-> st[id].nonce]],
     signer_account_ids |-> Signers(tx)]

\* validate_on_state
Validate(st, tx) ==
    IF Accepts(st, tx) THEN [ok |-> TRUE,  diff |-> TransferDiff(st, tx)]
                       ELSE [ok |-> FALSE, diff |-> NoDiff]

\* apply_state_diff, step 1 and step 2.
WriteAccounts(st, diff) ==
    [id \in AccountIds |-> IF id \in DOMAIN diff.public_diff THEN diff.public_diff[id] ELSE st[id]]

IncrementNonces(st, ids) ==
    [id \in AccountIds |->
        IF id \in ids THEN [balance |-> st[id].balance, nonce |-> WrappingAdd(st[id].nonce, 1)]
        ELSE st[id]]

ApplyDiff(st, diff) == IncrementNonces(WriteAccounts(st, diff), diff.signer_account_ids)
=============================================================================
