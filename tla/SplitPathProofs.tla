-------------------------- MODULE SplitPathProofs --------------------------
(***************************************************************************)
(* Proofs about SplitPath: what two targets that return have shown         *)
(* together, for every ledger, every input and every set of accounts.      *)
(***************************************************************************)
EXTENDS SplitPath, LedgerProofs

\* Every answer of the ledger has its type.
TypedLedger ==
    \A st \in States, t \in Inputs : Behaviours(st, t) \subseteq LedgerBehaviours

\* A target that has returned has passed its asserts, one that has panicked has not.
Judged(t, asserts) ==
    /\ pc[t] = "returned" => asserts
    /\ pc[t] = "panicked" => ~asserts

IInv ==
    /\ TypeOK
    /\ Judged("consistency", ConsistencyAsserts)
    /\ Judged("split_path", SplitPathAsserts)
    /\ Judged("diff_computation", DiffAsserts)

\* The accounts, the transaction and the ledger's answers stay as they were chosen.
LEMMA AssertsStable ==
    ASSUME UNCHANGED <<fuzz_accs, tx, ledger>>
    PROVE  /\ ConsistencyAsserts' = ConsistencyAsserts
           /\ SplitPathAsserts' = SplitPathAsserts
           /\ DiffAsserts' = DiffAsserts
<1>1. /\ state' = state /\ exec_state' = exec_state /\ split_state' = split_state
      /\ public_diff' = public_diff /\ KnownIds' = KnownIds
  BY DEF state, exec_state, split_state, public_diff, KnownIds
<1>2. /\ DiffMatchesExecution' = DiffMatchesExecution
      /\ ChangesDeclared' = ChangesDeclared
      /\ TotalsAgree' = TotalsAgree
      /\ \A ids : Changed(ids)' = Changed(ids)
  BY <1>1 DEF DiffMatchesExecution, ChangesDeclared, TotalsAgree, Changed
<1>3. /\ NoncesIncremented(Ids(fuzz_accs), exec_state)' = NoncesIncremented(Ids(fuzz_accs), exec_state)
      /\ NoncesIncremented(tx.signer_account_ids, split_state)'
             = NoncesIncremented(tx.signer_account_ids, split_state)
  BY <1>1 DEF NoncesIncremented
<1>4. ConsistencyAsserts' = ConsistencyAsserts
  BY <1>2, <1>3 DEF ConsistencyAsserts
<1>5. SplitPathAsserts' = SplitPathAsserts
  BY <1>1, <1>3 DEF SplitPathAsserts
<1>6. DiffAsserts' = DiffAsserts
  BY <1>2 DEF DiffAsserts, Changed
<1> QED BY <1>4, <1>5, <1>6

\* Init => IInv
LEMMA InitIInv == ASSUME TypedLedger, Init PROVE IInv
<1>1. TypeOK
  BY GenesisFacts DEF Init, TypeOK, TypedLedger, state
<1>2. \A t \in Targets : pc[t] = "start"
  BY DEF Init
<1> QED BY <1>1, <1>2 DEF IInv, Judged, Targets

\* IInv /\ [Next]_vars => IInv'
LEMMA NextIInv == IInv /\ [Next]_vars => IInv'
<1> SUFFICES ASSUME IInv, [Next]_vars PROVE IInv'
  OBVIOUS
<1>1. UNCHANGED <<fuzz_accs, tx, ledger>>
  BY DEF Next, End, vars
<1>2. /\ ConsistencyAsserts' = ConsistencyAsserts
      /\ SplitPathAsserts' = SplitPathAsserts
      /\ DiffAsserts' = DiffAsserts
  BY <1>1, AssertsStable
<1>3. pc \in [Targets -> {"start", "returned", "panicked"}]
  BY DEF IInv, TypeOK
<1>4. TypeOK'
  BY <1>1 DEF IInv, TypeOK, Next, End, vars, Targets
<1>5. CASE End("consistency", ConsistencyAsserts)
  BY <1>2, <1>3, <1>4, <1>5 DEF IInv, Judged, End, Targets
<1>6. CASE End("split_path", SplitPathAsserts)
  BY <1>2, <1>3, <1>4, <1>6 DEF IInv, Judged, End, Targets
<1>7. CASE End("diff_computation", DiffAsserts)
  BY <1>2, <1>3, <1>4, <1>7 DEF IInv, Judged, End, Targets
<1>8. CASE UNCHANGED vars
  BY <1>2, <1>4, <1>8 DEF IInv, Judged, vars
<1> QED BY <1>5, <1>6, <1>7, <1>8 DEF Next

\* Every iteration that has ended, ended as its asserts say, for any typed ledger.
THEOREM SplitPathInvariant == ASSUME TypedLedger PROVE Spec => []IInv
BY InitIInv, NextIInv, PTL DEF Spec
-----------------------------------------------------------------------------
\* What the ledger's answers are made of.
LEMMA AnswerTypes ==
    ASSUME TypeOK
    PROVE  /\ state \in States /\ exec_state \in States /\ split_state \in States
           /\ DOMAIN public_diff \subseteq AccountIds
           /\ public_diff \in [DOMAIN public_diff -> Account]
           /\ Ids(fuzz_accs) \subseteq AccountIds
           /\ tx.signer_account_ids \subseteq AccountIds
<1>1. ledger.validate.diff \in Diffs
  BY DEF TypeOK, LedgerBehaviours
<1>2. public_diff \in PublicDiffs
  BY <1>1 DEF Diffs, public_diff
<1>3. DOMAIN public_diff \subseteq AccountIds /\ public_diff \in [DOMAIN public_diff -> Account]
  BY <1>2 DEF PublicDiffs
<1>4. tx.signer_account_ids \subseteq AccountIds
  BY InputsAssumption DEF TypeOK, Transactions
<1>5. state \in States /\ exec_state \in States /\ split_state \in States
  BY GenesisFacts DEF TypeOK, LedgerBehaviours, state, exec_state, split_state
<1> QED BY <1>3, <1>4, <1>5, IdsFacts DEF TypeOK

\* apply_state_diff, account by account.
LEMMA ApplyDiffFacts ==
    ASSUME NEW st, NEW diff, NEW id \in AccountIds
    PROVE  LET written == IF id \in DOMAIN diff.public_diff THEN diff.public_diff[id] ELSE st[id]
           IN  /\ id \notin diff.signer_account_ids => ApplyDiff(st, diff)[id] = written
               /\ id \in diff.signer_account_ids =>
                      ApplyDiff(st, diff)[id].nonce = WrappingAdd(written.nonce, 1)
BY DEF ApplyDiff, IncrementNonces, WriteAccounts

\* A genesis account has signed nothing yet.
LEMMA GenesisNonces ==
    ASSUME NEW accs, NEW id \in AccountIds
    PROVE  Genesis(accs)[id].nonce = 0
BY DEF Genesis, SystemAccount, Funded, DefaultAccount

\* Sums of equal balances are equal.
LEMMA TotalCongruence ==
    ASSUME NEW s1, NEW s2, NEW ids, \A id \in ids : s1[id] = s2[id]
    PROVE  Total(s1, ids) = Total(s2, ids)
<1>1. [id \in ids |-> s1[id].balance] = [id \in ids |-> s2[id].balance]
  OBVIOUS
<1> QED BY <1>1, Zenon DEF Total
-----------------------------------------------------------------------------
\* Whatever ledger is linked: what the split-path target leaves out, the
\* consistency target has judged.
THEOREM SplitPathNothingBetween ==
    ASSUME TypedLedger PROVE Spec => []NothingBetweenTargets
<1>1. ASSUME IInv, Returned({"consistency", "split_path"}), tx.passes_stateless_check
      PROVE  /\ ledger.validate.ok = ledger.execute.ok
             /\ ledger.validate.ok =>
                    /\ \A id \in KnownIds : split_state[id] = exec_state[id]
                    /\ Total(split_state, KnownIds) = Total(state, KnownIds)
  <2>1. ConsistencyAsserts /\ SplitPathAsserts
    BY <1>1 DEF IInv, Judged, Returned
  <2>2. ledger.validate.ok = ledger.execute.ok
    BY <1>1, <2>1 DEF ConsistencyAsserts
  <2>3. ASSUME ledger.validate.ok
        PROVE  /\ \A id \in KnownIds : split_state[id] = exec_state[id]
               /\ Total(split_state, KnownIds) = Total(state, KnownIds)
    <3>1. \A id \in KnownIds : split_state[id] = exec_state[id]
      BY <1>1, <2>1, <2>2, <2>3 DEF SplitPathAsserts
    <3>2. Total(split_state, KnownIds) = Total(exec_state, KnownIds)
      BY <3>1, TotalCongruence
    <3>3. Total(state, KnownIds) = Total(exec_state, KnownIds)
      BY <1>1, <2>1, <2>3 DEF ConsistencyAsserts, TotalsAgree
    <3> QED BY <3>1, <3>2, <3>3
  <2> QED BY <2>2, <2>3
<1>2. IInv => NothingBetweenTargets
  BY <1>1 DEF NothingBetweenTargets
<1> QED BY <1>2, SplitPathInvariant, PTL

\* Whatever ledger is linked, as long as it derives one diff: no known account
\* changes that the transaction does not declare.
THEOREM SplitPathUndeclared == ASSUME TypedLedger PROVE Spec => []UndeclaredUntouched
<1>1. ASSUME IInv,
             Returned({"consistency", "diff_computation"}),
             tx.passes_stateless_check, ledger.execute.ok,
             ledger.from_public_transaction = ledger.validate
      PROVE  Changed(KnownIds) \subseteq tx.affected_public_account_ids
  <2>1. ConsistencyAsserts /\ DiffAsserts
    BY <1>1 DEF IInv, Judged, Returned
  <2>2. ledger.validate.ok /\ ChangesDeclared
    BY <1>1, <2>1 DEF ConsistencyAsserts
  <2>3. DOMAIN public_diff \subseteq tx.affected_public_account_ids
    BY <1>1, <2>1, <2>2 DEF DiffAsserts, public_diff
  <2> QED BY <2>2, <2>3 DEF ChangesDeclared
<1>2. IInv => UndeclaredUntouched
  BY <1>1 DEF UndeclaredUntouched
<1> QED BY <1>2, SplitPathInvariant, PTL

\* An accepted transaction of a generated signer is accused by one of the two
\* targets, whatever the ledger does.
THEOREM SplitPathSigned == ASSUME TypedLedger PROVE Spec => []SignedNeverPassesBoth
<1>1. ASSUME IInv,
             Returned({"consistency", "split_path"}),
             tx.passes_stateless_check, ledger.validate.ok,
             split_state = ApplyDiff(state, ledger.validate.diff),
             tx.signer_account_ids \subseteq ledger.validate.diff.signer_account_ids,
             NEW id \in tx.signer_account_ids \cap Ids(fuzz_accs)
      PROVE  FALSE
  <2>1. ConsistencyAsserts /\ SplitPathAsserts
    BY <1>1 DEF IInv, Judged, Returned
  <2>2. /\ ledger.execute.ok /\ DiffMatchesExecution /\ ChangesDeclared
        /\ NoncesIncremented(Ids(fuzz_accs), exec_state)
    BY <1>1, <2>1 DEF ConsistencyAsserts
  <2>3. /\ id \in AccountIds /\ id \in KnownIds
        /\ state[id].nonce \in U128 /\ exec_state[id].nonce \in U128
    BY <1>1, AnswerTypes DEF IInv, KnownIds, States, Account
  <2>4. exec_state[id].nonce = state[id].nonce + 1
    BY <1>1, <2>2 DEF NoncesIncremented
  <2>5. CASE id \notin DOMAIN public_diff
    \* The execution changed an account that the diff does not declare.
    <3>1. exec_state[id] = state[id]
      BY <2>2, <2>3, <2>5 DEF ChangesDeclared, Changed
    <3> QED BY <2>3, <2>4, <3>1 DEF U128
  <2>6. CASE id \in DOMAIN public_diff
    \* The diff holds the final nonce, and applying it moves the nonce again.
    <3>1. exec_state[id] = public_diff[id] /\ split_state[id] = exec_state[id]
      BY <1>1, <2>1, <2>2, <2>3, <2>6 DEF DiffMatchesExecution, SplitPathAsserts
    <3>2. split_state[id].nonce = WrappingAdd(public_diff[id].nonce, 1)
      BY <1>1, <2>3, <2>6, ApplyDiffFacts DEF public_diff
    <3>3. \A n \in U128 : WrappingAdd(n, 1) # n
      BY MaxUAssumption DEF WrappingAdd, U128
    <3> QED BY <2>3, <3>1, <3>2, <3>3
  <2> QED BY <2>5, <2>6
<1>2. IInv => SignedNeverPassesBoth
  BY <1>1 DEF SignedNeverPassesBoth
<1> QED BY <1>2, SplitPathInvariant, PTL

\* Linked with a ledger whose paths agree, no target panics on a transaction none
\* of the watched accounts has signed.
THEOREM SplitPathSound == ASSUME TypedLedger PROVE Spec => []UnsignedNeverAccused
<1>1. ASSUME IInv, FollowsRules, tx.signer_account_ids \cap WatchedIds = {}
      PROVE  ConsistencyAsserts /\ SplitPathAsserts /\ DiffAsserts
  <2> DEFINE diff == ledger.validate.diff
  <2>1. CASE ~ledger.validate.ok
    BY <1>1, <2>1 DEF FollowsRules, ConsistencyAsserts, SplitPathAsserts, DiffAsserts
  <2>2. CASE ledger.validate.ok
    <3>1. /\ ledger.execute.ok /\ ledger.from_public_transaction.diff = diff
          /\ DOMAIN public_diff \subseteq tx.affected_public_account_ids
          /\ diff.signer_account_ids = tx.signer_account_ids
          /\ exec_state = ApplyDiff(state, diff) /\ split_state = ApplyDiff(state, diff)
          /\ TotalsAgree
      BY <1>1, <2>2 DEF FollowsRules
    <3>2. \A id \in WatchedIds \cap AccountIds : exec_state[id] =
              IF id \in DOMAIN public_diff THEN public_diff[id] ELSE state[id]
      BY <1>1, <3>1, ApplyDiffFacts DEF public_diff
    <3>3. /\ KnownIds \subseteq WatchedIds /\ KnownIds \subseteq AccountIds
          /\ DOMAIN public_diff \subseteq KnownIds /\ Ids(fuzz_accs) \subseteq KnownIds
          /\ tx.affected_public_account_ids \subseteq WatchedIds \cap AccountIds
      BY <1>1, AnswerTypes, InputsAssumption DEF IInv, TypeOK, Transactions, WatchedIds, KnownIds
    <3>4. DiffMatchesExecution
      BY <3>2, <3>3 DEF DiffMatchesExecution
    <3>5. ChangesDeclared
      BY <3>2, <3>3 DEF ChangesDeclared, Changed
    <3>6. NoncesIncremented(Ids(fuzz_accs), exec_state)
      BY <1>1, <3>3 DEF NoncesIncremented
    <3>7. NoncesIncremented(tx.signer_account_ids, split_state)
      <4> SUFFICES ASSUME NEW id \in tx.signer_account_ids
                   PROVE  ~Overflows(state[id].nonce, 1) /\ split_state[id].nonce = state[id].nonce + 1
        BY DEF NoncesIncremented
      <4>1. id \in AccountIds /\ id \notin DOMAIN public_diff
        BY <1>1, <3>3, AnswerTypes DEF IInv
      <4>2. state[id].nonce = 0
        BY <4>1, GenesisNonces DEF state
      <4>3. split_state[id].nonce = WrappingAdd(state[id].nonce, 1)
        BY <3>1, <4>1, ApplyDiffFacts DEF public_diff
      <4> QED BY <4>2, <4>3, MaxUAssumption DEF Overflows, WrappingAdd
    <3>8. Changed(tx.affected_public_account_ids) \subseteq DOMAIN public_diff
      BY <3>2, <3>3 DEF Changed
    <3>9. ConsistencyAsserts
      BY <2>2, <3>1, <3>4, <3>5, <3>6 DEF ConsistencyAsserts
    <3>10. SplitPathAsserts
      BY <3>1, <3>7 DEF SplitPathAsserts
    <3>11. DiffAsserts
      BY <3>1, <3>8 DEF DiffAsserts, public_diff
    <3> QED BY <3>9, <3>10, <3>11
  <2> QED BY <2>1, <2>2
<1>2. IInv => UnsignedNeverAccused
  BY <1>1 DEF IInv, Judged, Targets, UnsignedNeverAccused
<1> QED BY <1>2, SplitPathInvariant, PTL
=============================================================================
