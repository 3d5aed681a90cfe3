----------------------------- MODULE SplitPath -----------------------------
(***************************************************************************)
(* The three fuzz targets that run one transaction along two paths:        *)
(*   fuzz_validate_execute_consistency  validate against execute,          *)
(*   fuzz_apply_state_diff_split_path   validate + apply against execute,  *)
(*   fuzz_state_diff_computation        the diff against execute.          *)
(* They decode the same input into the same accounts and transaction, and  *)
(* each leaves cases to another one ("already covered by ...").  Here all  *)
(* three run on one input, linked with one ledger, in any order.           *)
(*                                                                         *)
(* The ledger is deterministic, so what it does with the transaction in    *)
(* the genesis state is chosen once, in the variable ledger.               *)
(***************************************************************************)
EXTENDS Genesis

CONSTANTS
    Inputs,             \* the transactions the input bytes can decode to
    Behaviours(_, _)    \* Behaviours(st, t): what a linked ledger may do with t in st

Transactions ==
    [signer_account_ids : SUBSET AccountIds,
     affected_public_account_ids : SUBSET AccountIds,
     passes_stateless_check : BOOLEAN]

ASSUME InputsAssumption == Inputs \subseteq Transactions

\* from_public_transaction, validate_on_state, execute_check_on_state, and the
\* state apply_state_diff makes of the genesis state with the validated diff.
LedgerBehaviours ==
    [from_public_transaction : [ok : BOOLEAN, diff : Diffs],
     validate : [ok : BOOLEAN, diff : Diffs],
     execute  : [ok : BOOLEAN, post : States],
     applied  : States]

Targets == {"consistency", "split_path", "diff_computation"}

VARIABLES
    fuzz_accs,      \* the generated accounts
    tx,             \* the decoded transaction
    ledger,         \* what the linked ledger does with it
    pc              \* each target: "start", "returned" or "panicked"

vars == <<fuzz_accs, tx, ledger, pc>>

TypeOK ==
    /\ fuzz_accs \in FuzzStates
    /\ tx \in Inputs
    /\ ledger \in LedgerBehaviours
    /\ pc \in [Targets -> {"start", "returned", "panicked"}]

-----------------------------------------------------------------------------
\* state, exec_state, split_state and public_diff of the targets.
state == Genesis(fuzz_accs)

exec_state == ledger.execute.post

split_state == ledger.applied

public_diff == ledger.validate.diff.public_diff

\* init_accs and the ids the diff declares.
KnownIds == Ids(fuzz_accs) \cup DOMAIN public_diff

Changed(ids) == {id \in ids : state[id] # exec_state[id]}

\* MUTANT of DiffMatchesExecution: only the balances are compared.
DiffMatchesExecution_Balances ==
    \A id \in DOMAIN public_diff : exec_state[id].balance = public_diff[id].balance

\* INVARIANT 2a: every account of the diff, whole, is as execution left it.
DiffMatchesExecution == \A id \in DOMAIN public_diff : exec_state[id] = public_diff[id]

\* INVARIANT 2b.
ChangesDeclared == Changed(KnownIds) \subseteq DOMAIN public_diff

\* INVARIANT 3: both checked sums are defined, and equal.
Total(st, ids) == SumFunction([id \in ids |-> st[id].balance])

TotalsAgree ==
    /\ Total(state, KnownIds) <= MaxU
    /\ Total(state, KnownIds) = Total(exec_state, KnownIds)

\* MUTANT of NoncesIncremented: the signers are not looked up.
NoncesIncremented_Everyone(snapshot, after) ==
    \A id \in snapshot :
        ~Overflows(state[id].nonce, 1) /\ after[id].nonce = state[id].nonce + 1

\* assert_nonce_increment_correctness: a signer outside the snapshot is skipped,
\* one at u128::MAX panics.
NoncesIncremented(snapshot, after) ==
    \A id \in tx.signer_account_ids \cap snapshot :
        ~Overflows(state[id].nonce, 1) /\ after[id].nonce = state[id].nonce + 1

-----------------------------------------------------------------------------
Init ==
    /\ fuzz_accs \in FuzzStates
    /\ tx \in Inputs
    /\ ledger \in Behaviours(state, tx)
    /\ pc = [t \in Targets |-> "start"]

\* The iteration of target t ends, with a panic if one of its asserts fails.
End(t, asserts) ==
    /\ pc[t] = "start"
    /\ pc' = [pc EXCEPT ![t] = IF asserts THEN "returned" ELSE "panicked"]
    /\ UNCHANGED <<fuzz_accs, tx, ledger>>

\* MUTANT of ConsistencyAsserts: the arm (Ok, Err) does nothing.
ConsistencyAsserts_OkErrIgnored ==
    tx.passes_stateless_check =>
        /\ ledger.execute.ok => ledger.validate.ok
        /\ ledger.execute.ok =>
               /\ DiffMatchesExecution /\ ChangesDeclared /\ TotalsAgree
               /\ NoncesIncremented(Ids(fuzz_accs), exec_state)

\* The verdicts agree; if both are Ok, invariants 2 to 4.  The snapshot of the
\* nonces is taken of the generated accounts.
ConsistencyAsserts ==
    tx.passes_stateless_check =>
        /\ ledger.validate.ok = ledger.execute.ok
        /\ ledger.validate.ok =>
               /\ DiffMatchesExecution /\ ChangesDeclared /\ TotalsAgree
               /\ NoncesIncremented(Ids(fuzz_accs), exec_state)

\* A refusal by either path returns, the one by execute after the check of the
\* signers' nonces, whose snapshot covers every signer.
SplitPathAsserts ==
    tx.passes_stateless_check /\ ledger.validate.ok =>
        /\ NoncesIncremented(tx.signer_account_ids, split_state)
        /\ ledger.execute.ok => \A id \in KnownIds : split_state[id] = exec_state[id]

\* MUTANT of DiffAsserts: no forward containment.
DiffAsserts_ReverseOnly ==
    LET declared == DOMAIN ledger.from_public_transaction.diff.public_diff
    IN ledger.from_public_transaction.ok /\ tx.passes_stateless_check /\ ledger.execute.ok =>
           Changed(tx.affected_public_account_ids) \subseteq declared

\* The diff is made before the stateless check, which guards the execution only.
DiffAsserts ==
    LET declared == DOMAIN ledger.from_public_transaction.diff.public_diff
    IN ledger.from_public_transaction.ok =>
           /\ declared \subseteq tx.affected_public_account_ids
           /\ tx.passes_stateless_check /\ ledger.execute.ok =>
                  Changed(tx.affected_public_account_ids) \subseteq declared

Next ==
    \/ End("consistency", ConsistencyAsserts)
    \/ End("split_path", SplitPathAsserts)
    \/ End("diff_computation", DiffAsserts)

Spec == Init /\ [][Next]_vars

-----------------------------------------------------------------------------
\* A ledger whose paths agree: all of them accept or none does, the diff stays
\* within the affected accounts, conserves the total and leaves the nonces to
\* step 2 of apply_state_diff, and executing is validating and applying.
FollowsRules ==
    LET diff == ledger.validate.diff
    IN /\ ledger.execute.ok = ledger.validate.ok
       /\ ledger.from_public_transaction = ledger.validate
       /\ ledger.validate.ok =>
              /\ DOMAIN public_diff \subseteq tx.affected_public_account_ids
              /\ \A id \in DOMAIN public_diff : public_diff[id].nonce = state[id].nonce
              /\ diff.signer_account_ids = tx.signer_account_ids
              /\ split_state = ApplyDiff(state, diff)
              /\ exec_state = split_state
              /\ TotalsAgree

\* The accounts an iteration looks at.
WatchedIds == KnownIds \cup tx.affected_public_account_ids

Returned(ts) == \A t \in ts : pc[t] = "returned"

\* The split-path target returns when either path refuses, and its comments leave
\* those cases to the consistency target.  Nothing falls between the two: if both
\* return, the paths have the same verdict and the same effect on every known
\* account, and the split path, which sums nothing, conserves the total.
NothingBetweenTargets ==
    Returned({"consistency", "split_path"}) /\ tx.passes_stateless_check =>
        /\ ledger.validate.ok = ledger.execute.ok
        /\ ledger.validate.ok =>
               /\ \A id \in KnownIds : split_state[id] = exec_state[id]
               /\ Total(split_state, KnownIds) = Total(state, KnownIds)

\* The diff target looks at the affected accounts only, the consistency target
\* never asks which accounts are affected.  If both return and the ledger derives
\* one diff, execution changed no known account the transaction does not declare.
UndeclaredUntouched ==
    /\ Returned({"consistency", "diff_computation"})
    /\ tx.passes_stateless_check /\ ledger.execute.ok
    /\ ledger.from_public_transaction = ledger.validate
    => Changed(KnownIds) \subseteq tx.affected_public_account_ids

\* The two targets cannot both be satisfied by an accepted transaction of a
\* generated signer, whatever validation and execution do: the consistency
\* target wants the diff to hold the incremented nonce, which apply_state_diff
\* would increment again.
SignedNeverPassesBoth ==
    /\ Returned({"consistency", "split_path"})
    /\ tx.passes_stateless_check /\ ledger.validate.ok
    /\ split_state = ApplyDiff(state, ledger.validate.diff)
    /\ tx.signer_account_ids \subseteq ledger.validate.diff.signer_account_ids
    => tx.signer_account_ids \cap Ids(fuzz_accs) = {}

\* No false alarm on a ledger whose paths agree, as long as no account an
\* iteration looks at has signed.
UnsignedNeverAccused ==
    FollowsRules /\ tx.signer_account_ids \cap WatchedIds = {} => \A t \in Targets : pc[t] # "panicked"

\* The module doc of the consistency target, lines 9 to 15, for every transaction
\* the target can decode: a ledger whose paths agree is not accused by it.
ConsistentLedgerNotAccused == FollowsRules => pc["consistency"] # "panicked"
=============================================================================
