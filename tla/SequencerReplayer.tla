------------------------- MODULE SequencerReplayer -------------------------
(***************************************************************************)
(* fuzz_sequencer_vs_replayer: one block, built by the sequencer pipeline  *)
(* (validate_on_state, then apply_state_diff; rejected transactions are    *)
(* skipped) and replayed by the replayer pipeline (execute_check_on_state  *)
(* must accept everything the sequencer put in the block).  Both start     *)
(* from clones of one genesis state, and end with the clock invocation on  *)
(* the fraction of the inputs that asks for it.                            *)
(*                                                                         *)
(* The ledger's two pipelines are separate code paths, so their answers    *)
(* are separate parameters.  User transactions cannot modify the clock     *)
(* accounts; their contents, the block id they store, are seq_clock and    *)
(* rep_clock.                                                              *)
(***************************************************************************)
EXTENDS LedgerUnderTest

CONSTANTS
    MaxTxs,                 \* n_txs = u8 % 8: at most 7
    Validations(_, _),      \* [ok, diff]: what validate_on_state may answer
    Applications(_, _),     \* the states apply_state_diff may leave
    ClockOutcomes(_)        \* [ok, clock]: what the clock invocation may do

ASSUME SequencerAssumption == MaxTxs \in Nat

VARIABLES
    init_accs,      \* the generated accounts
    run_clock,      \* the input asks for the clock invocation
    touched_ids,    \* genesis accounts and those declared by accepted diffs
    accepted_txs,   \* the block: transactions the sequencer accepted, in order
    i,              \* transactions drawn
    k,              \* transactions replayed
    seq_state,
    seq_clock,
    rep_state,
    rep_clock,
    pc,             \* "sequence", "seq_clock", "replay", "rep_clock", "compare",
                    \* "abandoned", "equivalent" or "panicked"
    deviated        \* history: some answer was not the one of the rules

vars == <<init_accs, run_clock, touched_ids, accepted_txs, i, k,
          seq_state, seq_clock, rep_state, rep_clock, pc, deviated>>

input == <<init_accs, run_clock>>
sequencer == <<touched_ids, accepted_txs, i, seq_state, seq_clock>>
replayer == <<k, rep_state, rep_clock>>

\* arb_fuzz_native_transfer or arbitrary_transaction, past the stateless gate.
Draws ==
    [from : Ids(init_accs), to : Ids(init_accs), nonce : U128, amount : U128]
        \cup {UnsignedTx}

TypeOK ==
    /\ init_accs \in FuzzStates
    /\ run_clock \in BOOLEAN
    /\ Ids(init_accs) \subseteq touched_ids /\ touched_ids \subseteq AccountIds
    /\ accepted_txs \in Seq(Draws)
    /\ i \in 0..MaxTxs /\ Len(accepted_txs) <= i
    /\ k \in 0..Len(accepted_txs)
    /\ seq_state \in States /\ rep_state \in States
    /\ seq_clock \in 0..1 /\ rep_clock \in 0..1
    /\ pc \in {"sequence", "seq_clock", "replay", "rep_clock", "compare",
               "abandoned", "equivalent", "panicked"}
    /\ deviated \in BOOLEAN

-----------------------------------------------------------------------------
\* Genesis stores block id 0 in the clock accounts.
Init ==
    /\ init_accs \in FuzzStates
    /\ run_clock \in BOOLEAN
    /\ touched_ids = Ids(init_accs)
    /\ accepted_txs = <<>>
    /\ i = 0
    /\ k = 0
    /\ seq_state = Genesis(init_accs)
    /\ rep_state = Genesis(init_accs)
    /\ seq_clock = 0
    /\ rep_clock = 0
    /\ pc = "sequence"
    /\ deviated = FALSE

\* The clock program accepts the block after the one it stores; the target hands
\* it block 1.
ClockTick(clock) ==
    IF clock = 0 THEN [ok |-> TRUE, clock |-> 1] ELSE [ok |-> FALSE, clock |-> clock]

\* MUTANT of SkipTx: skipped transactions do not count towards n_txs.
SkipTx_Unbounded ==
    /\ pc = "sequence"
    /\ i' = i + 1
    /\ UNCHANGED <<input, touched_ids, accepted_txs, seq_state, seq_clock, replayer, pc, deviated>>

\* The stateless gate refuses the transaction, or validate_on_state does, which
\* only borrows the state: continue.  A wrong refusal is not recorded in deviated:
\* it may not lead to a panic.
SkipTx ==
    /\ pc = "sequence"
    /\ i < MaxTxs
    /\ i' = i + 1
    /\ UNCHANGED <<input, touched_ids, accepted_txs, seq_state, seq_clock, replayer, pc, deviated>>

\* MUTANT of SequenceTx: the accounts the diff declares are not recorded.
SequenceTx_NotRecorded(tx) ==
    /\ pc = "sequence"
    /\ i < MaxTxs
    /\ i' = i + 1
    /\ \E ans \in Validations(seq_state, tx) :
           /\ ans.ok
           /\ seq_state' \in Applications(seq_state, ans.diff)
           /\ deviated' = (deviated \/ ans # Validate(seq_state, tx)
                                   \/ seq_state' # ApplyDiff(seq_state, ans.diff))
    /\ accepted_txs' = Append(accepted_txs, tx)
    /\ UNCHANGED <<input, touched_ids, seq_clock, replayer, pc>>

\* The sequencer accepts: record the declared accounts, apply the diff (its
\* result is dropped) and put the transaction into the block.
SequenceTx(tx) ==
    /\ pc = "sequence"
    /\ i < MaxTxs
    /\ i' = i + 1
    /\ \E ans \in Validations(seq_state, tx) :
           /\ ans.ok
           /\ touched_ids' = touched_ids \cup DOMAIN ans.diff.public_diff
           /\ seq_state' \in Applications(seq_state, ans.diff)
           /\ deviated' = (deviated \/ ans # Validate(seq_state, tx)
                                   \/ seq_state' # ApplyDiff(seq_state, ans.diff))
    /\ accepted_txs' = Append(accepted_txs, tx)
    /\ UNCHANGED <<input, seq_clock, replayer, pc>>

\* n_txs reached, or the generator ran out of input.
EndOfMempool ==
    /\ pc = "sequence"
    /\ pc' = "seq_clock"
    /\ UNCHANGED <<input, sequencer, replayer, deviated>>

\* The sequencer appends the clock invocation; if that fails the block cannot be
\* produced and the iteration returns.
SequencerClock ==
    /\ pc = "seq_clock"
    /\ IF run_clock
       THEN \E ans \in ClockOutcomes(seq_clock) :
                /\ seq_clock' = ans.clock
                /\ pc' = IF ans.ok THEN "replay" ELSE "abandoned"
                /\ deviated' = (deviated \/ ans # ClockTick(seq_clock))
       ELSE pc' = "replay" /\ UNCHANGED <<seq_clock, deviated>>
    /\ UNCHANGED <<input, touched_ids, accepted_txs, i, seq_state, replayer>>

\* MUTANT of ReplayTx: the block is replayed from its end.
ReplayTx_Backwards ==
    /\ pc = "replay"
    /\ k < Len(accepted_txs)
    /\ \E ans \in Outcomes(rep_state, accepted_txs[Len(accepted_txs) - k]) :
           /\ rep_state' = ans.post
           /\ deviated' = (deviated \/ ans # Execute(rep_state, accepted_txs[Len(accepted_txs) - k]))
           /\ IF ans.ok THEN k' = k + 1 /\ UNCHANGED pc
                        ELSE pc' = "panicked" /\ UNCHANGED k
    /\ UNCHANGED <<input, sequencer, rep_clock>>

\* The replayer executes the next transaction of the block, and panics if it is
\* refused.  The stateless check it repeats reads no state.
ReplayTx ==
    /\ pc = "replay"
    /\ k < Len(accepted_txs)
    /\ \E ans \in Outcomes(rep_state, accepted_txs[k + 1]) :
           /\ rep_state' = ans.post
           /\ deviated' = (deviated \/ ans # Execute(rep_state, accepted_txs[k + 1]))
           /\ IF ans.ok THEN k' = k + 1 /\ UNCHANGED pc
                        ELSE pc' = "panicked" /\ UNCHANGED k
    /\ UNCHANGED <<input, sequencer, rep_clock>>

EndOfBlock ==
    /\ pc = "replay"
    /\ k = Len(accepted_txs)
    /\ pc' = "rep_clock"
    /\ UNCHANGED <<input, sequencer, replayer, deviated>>

\* The same clock invocation; here a failure panics.
ReplayerClock ==
    /\ pc = "rep_clock"
    /\ IF run_clock
       THEN \E ans \in ClockOutcomes(rep_clock) :
                /\ rep_clock' = ans.clock
                /\ pc' = IF ans.ok THEN "compare" ELSE "panicked"
                /\ deviated' = (deviated \/ ans # ClockTick(rep_clock))
       ELSE pc' = "compare" /\ UNCHANGED <<rep_clock, deviated>>
    /\ UNCHANGED <<input, sequencer, k, rep_state>>

\* SequencerReplayerEquivalence: the touched accounts, and the clock accounts if
\* the clock was invoked.
Compare ==
    /\ pc = "compare"
    /\ pc' = IF /\ \A id \in touched_ids : seq_state[id] = rep_state[id]
                /\ run_clock => seq_clock = rep_clock
             THEN "equivalent" ELSE "panicked"
    /\ UNCHANGED <<input, sequencer, replayer, deviated>>

Next ==
    \/ SkipTx
    \/ \E tx \in Draws : SequenceTx(tx)
    \/ EndOfMempool
    \/ SequencerClock
    \/ ReplayTx
    \/ EndOfBlock
    \/ ReplayerClock
    \/ Compare

Spec == Init /\ [][Next]_vars

-----------------------------------------------------------------------------
\* No false alarm: the target panics only after one of the pipelines or the clock
\* has given an answer that is not the one of the rules.  The replayer starts from
\* genesis when the sequencer has moved on, and accepts what the sequencer accepted
\* in a state it has left.
OnlyDeviationAccused == pc = "panicked" => deviated

\* Whatever two pipelines are linked, if the replayer writes only accounts that
\* the sequencer's diff declared, an iteration that ends in agreement has reached
\* one state: comparing the touched accounts compares all of them.
FullEquivalence ==
    pc = "equivalent" =>
        /\ seq_state = rep_state
        /\ run_clock => seq_clock = rep_clock

\* "ClockConsistency - the mandatory clock invocation appended at the end of every
\* block must succeed on both paths": an iteration that invokes the clock and does
\* not panic has advanced it on both states.
ClockConsistency ==
    (run_clock /\ pc \in {"abandoned", "equivalent"}) => seq_clock = 1 /\ rep_clock = 1
=============================================================================
