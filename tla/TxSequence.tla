----------------------------- MODULE TxSequence -----------------------------
(***************************************************************************)
(* The targets that run a sequence of transactions under the invariant     *)
(* framework of fuzz_props/src/invariants.rs: fuzz_state_transition (no    *)
(* check after the loop), fuzz_multi_block_state_sequence (LongRange) and  *)
(* fuzz_replay_prevention (a sequence of length 1).                        *)
(*                                                                         *)
(* No reference model predicts the verdict here.  Each execution is        *)
(* judged by what it did to snapshots of the genesis accounts, and each    *)
(* accepted transaction is executed a second time, on the live state.      *)
(***************************************************************************)
EXTENDS LedgerUnderTest

CONSTANTS
    MaxTxs,       \* n_txs = u8 % 8 (state transition) or % 16 (multi block)
    LongRange     \* TRUE in fuzz_multi_block_state_sequence

ASSUME TxSequenceAssumption ==
    /\ MaxTxs \in Nat /\ MaxTxs < MaxU
    /\ LongRange \in BOOLEAN

VARIABLES
    init_accs,        \* the generated accounts
    state,            \* the ledger under test, mutated in place
    starting_total,   \* sum of the genesis balances
    i,                \* transactions drawn
    tx,               \* the transaction of this iteration of the loop
    before,           \* balances_before and nonces_before
    ok,               \* execution_result.is_ok()
    pc,               \* "loop", "check", "replay", "returned" or "panicked"
    accepted,         \* history: <<signer, nonce, i>> of the transactions accepted
    deviated          \* history: some answer was not the one of the rules

vars == <<init_accs, state, starting_total, i, tx, before, ok, pc, accepted, deviated>>

-----------------------------------------------------------------------------
GenesisIds == Ids(init_accs)

\* BalanceSnapshot and NonceSnapshot of the genesis accounts.
Snapshot(st) == [balances |-> [id \in GenesisIds |-> st[id].balance],
                 nonces   |-> [id \in GenesisIds |-> st[id].nonce]]

\* The sum that try_fold(0, checked_add) computes, or overflows on.
Total(balances) == SumFunction(balances)

\* The sum over the generated accounts of their balances in st.
TotalOf(st) ==
    SumFunction([k \in DOMAIN init_accs |-> st[init_accs[k].account_id].balance])

\* StateIsolationOnFailure::check and FailedTxNonceStability::check.
StateIsolationOnFailure(st) == ~ok => Snapshot(st).balances = before.balances

FailedTxNonceStability(st) == ~ok => Snapshot(st).nonces = before.nonces

\* BalanceConservation::check.  An overflow of either sum panics too.
BalanceConservation(st) ==
    ok => LET after == Total(Snapshot(st).balances)
          IN /\ Total(before.balances) <= MaxU
             /\ after <= MaxU
             /\ Total(before.balances) = after

\* MUTANT of NonceIncrementCorrectness: the recipient is taken for a signer too.
NonceIncrementCorrectness_Recipient(st) ==
    ok => \A id \in (Signers(tx) \cup (IF tx = UnsignedTx THEN {} ELSE {tx.to})) \cap GenesisIds :
              /\ before.nonces[id] < MaxU
              /\ st[id].nonce = before.nonces[id] + 1

\* assert_nonce_increment_correctness: signers outside the snapshot are skipped,
\* and expect() panics if the expected nonce does not exist.
NonceIncrementCorrectness(st) ==
    ok => \A id \in Signers(tx) \cap GenesisIds :
              /\ before.nonces[id] < MaxU
              /\ st[id].nonce = before.nonces[id] + 1
-----------------------------------------------------------------------------
NoSnapshot == [balances |-> <<>>, nonces |-> <<>>]

TypeOK ==
    /\ init_accs \in FuzzStates
    /\ state \in States
    /\ starting_total \in Nat
    /\ i \in 0..MaxTxs
    /\ tx \in Txs \cup {UnsignedTx}
    /\ before \in {NoSnapshot} \cup
           [balances : [GenesisIds -> U128], nonces : [GenesisIds -> U128]]
    /\ ok \in BOOLEAN
    /\ pc \in {"loop", "check", "replay", "returned", "panicked"}
    /\ accepted \subseteq AccountIds \X U128 \X (0..MaxTxs)
    /\ deviated \in BOOLEAN

Init ==
    /\ init_accs \in FuzzStates
    /\ state = Genesis(init_accs)
    /\ starting_total = TotalOf(state)
    /\ i = 0
    /\ tx = UnsignedTx
    /\ before = NoSnapshot
    /\ ok = FALSE
    /\ pc = IF LongRange => starting_total <= MaxU THEN "loop" ELSE "panicked"
    /\ accepted = {}
    /\ deviated = FALSE

\* arb_fuzz_native_transfer: a transfer between any two generated accounts, also
\* from one to itself.  The adversarial branch draws any nonce and amount; the
\* biased one draws from a subset of them.
NativeTransfers ==
    [from : GenesisIds, to : GenesisIds, nonce : U128, amount : U128]

\* arb_fuzz_native_transfer or arbitrary_transaction, past the stateless gate.
Draws == NativeTransfers \cup {UnsignedTx}

\* MUTANT of RefusedByGate: refused transactions do not count towards n_txs.
RefusedByGate_Unbounded ==
    /\ pc = "loop"
    /\ i' = i + 1
    /\ UNCHANGED <<init_accs, state, starting_total, tx, before, ok, pc, accepted, deviated>>

\* The stateless gate refuses the transaction: continue.
RefusedByGate ==
    /\ pc = "loop"
    /\ i < MaxTxs
    /\ i' = i + 1
    /\ UNCHANGED <<init_accs, state, starting_total, tx, before, ok, pc, accepted, deviated>>

\* Snapshots, then execute_check_on_state at block 1 + i.
ExecuteTx(t) ==
    /\ pc = "loop"
    /\ i < MaxTxs
    /\ tx' = t
    /\ before' = Snapshot(state)
    /\ \E ans \in Outcomes(state, t) :
           /\ state' = ans.post
           /\ ok' = ans.ok
           /\ deviated' = (deviated \/ ans # Execute(state, t))
    /\ pc' = "check"
    /\ UNCHANGED <<init_accs, starting_total, i, accepted>>

\* The locals of the loop body go out of scope.
NextIteration ==
    /\ i' = i + 1
    /\ tx' = UnsignedTx
    /\ before' = NoSnapshot
    /\ ok' = FALSE
    /\ pc' = "loop"

\* What assert_tx_execution_invariants asserts before it replays.
InvariantsHold(st) ==
    /\ StateIsolationOnFailure(st)
    /\ BalanceConservation(st)
    /\ FailedTxNonceStability(st)
    /\ NonceIncrementCorrectness(st)

CheckPanics ==
    /\ pc = "check"
    /\ ~InvariantsHold(state)
    /\ pc' = "panicked"
    /\ UNCHANGED <<init_accs, state, starting_total, i, tx, before, ok, accepted, deviated>>

CheckRejected ==
    /\ pc = "check"
    /\ InvariantsHold(state)
    /\ ~ok
    /\ NextIteration
    /\ UNCHANGED <<init_accs, state, starting_total, accepted, deviated>>

CheckAccepted ==
    /\ pc = "check"
    /\ InvariantsHold(state)
    /\ ok
    /\ pc' = "replay"
    /\ UNCHANGED <<init_accs, state, starting_total, i, tx, before, ok, accepted, deviated>>

\* assert_replay_rejection, at block 2 + i on the live state.  Nothing compares
\* the state before and after the replay.
Replay ==
    /\ pc = "replay"
    /\ \E ans \in Outcomes(state, tx) :
           /\ state' = ans.post
           /\ deviated' = (deviated \/ ans # Execute(state, tx))
           /\ accepted' = accepted \cup {<<id, tx.nonce, i>> : id \in Signers(tx)}
           /\ \/ /\ ans.ok
                 /\ pc' = "panicked"
                 /\ UNCHANGED <<i, tx, before, ok>>
              \/ /\ ~ans.ok
                 /\ NextIteration
    /\ UNCHANGED <<init_accs, starting_total>>

\* MUTANT of EndingTotalAgrees: tokens may be burnt.
EndingTotalAgrees_BurnAllowed ==
    TotalOf(state) <= starting_total

\* LongRangeBalanceConservation: a checked sum, then assert_eq.
EndingTotalAgrees ==
    LET ending_total == TotalOf(state)
    IN ending_total <= MaxU /\ ending_total = starting_total

\* The loop ends at n_txs or because the generator ran out of input.
EndLoop ==
    /\ pc = "loop"
    /\ pc' = IF LongRange => EndingTotalAgrees THEN "returned" ELSE "panicked"
    /\ UNCHANGED <<init_accs, state, starting_total, i, tx, before, ok, accepted, deviated>>

Next ==
    \/ RefusedByGate
    \/ \E t \in Draws : ExecuteTx(t)
    \/ CheckPanics
    \/ CheckRejected
    \/ CheckAccepted
    \/ Replay
    \/ EndLoop

Spec == Init /\ [][Next]_vars
-----------------------------------------------------------------------------
\* The framework raises no false alarm: whatever mix of valid, stale, self-directed,
\* unaffordable and unsigned transactions is drawn, an invariant of invariants.rs or
\* a checked sum panics only after the ledger has given an answer that is not the
\* one of the rules.
OnlyDeviationAccused == pc = "panicked" => deviated

\* Whatever ledger is linked, a multi-block iteration that returns has conserved
\* the balances that were drawn for the genesis accounts, even though nothing
\* compares the state before and after a replay on its own.
LongRangeConserved ==
    (LongRange /\ pc = "returned") =>
        SumFunction([id \in GenesisIds |-> state[id].balance])
            = SumFunction([k \in DOMAIN init_accs |-> init_accs[k].balance])

\* fuzz_multi_block_state_sequence.rs: every transaction applied is rejected "when
\* replayed immediately in the next block - confirming that nonces are permanently
\* consumed, not just temporarily blocked": an iteration that has passed all replay
\* checks and the final sum has accepted no nonce of a signer in two iterations of
\* its loop.
NoncesPermanentlyConsumed ==
    pc = "returned" =>
        \A p, q \in accepted : p[1] = q[1] /\ p[2] = q[2] => p[3] = q[3]
=============================================================================
