---------------------- MODULE SequencerReplayerProofs ----------------------
(***************************************************************************)
(* Proofs about SequencerReplayer, for every length of the block, every    *)
(* set of accounts and every pair of pipelines the assumptions allow.      *)
(***************************************************************************)
EXTENDS SequencerReplayer, LedgerProofs

AnyTx == Txs \cup {UnsignedTx}

\* Every answer of the two pipelines and of the clock has its type.
TypedPipelines ==
    /\ \A st \in States, tx \in AnyTx :
           /\ Validations(st, tx) \subseteq [ok : BOOLEAN, diff : Diffs]
           /\ Outcomes(st, tx) \subseteq Answers
    /\ \A st \in States, diff \in Diffs : Applications(st, diff) \subseteq States
    /\ \A clock \in 0..1 : ClockOutcomes(clock) \subseteq [ok : BOOLEAN, clock : 0..1]

\* The accounts that executing tx may write, in whatever state.
Writes(tx) ==
    {id \in AccountIds : \E st \in States : \E ans \in Outcomes(st, tx) :
        ans.post[id] # st[id]}

\* The replayer writes only what the sequencer's diff declares, and applying a
\* diff writes nothing else either.
ConfinedPipelines ==
    /\ \A st \in States, tx \in AnyTx : \A ans \in Validations(st, tx) :
           ans.ok => Writes(tx) \cup ans.diff.signer_account_ids
                         \subseteq DOMAIN ans.diff.public_diff
    /\ \A st \in States, diff \in Diffs : \A post \in Applications(st, diff) :
           \A id \in AccountIds \ (DOMAIN diff.public_diff \cup diff.signer_account_ids) :
               post[id] = st[id]

\* The two pipelines do the same to a state in which the sequencer accepts.
ConsistentPipelines ==
    /\ \A st \in States, tx \in AnyTx : \A ans \in Validations(st, tx) :
           ans.ok => \A post \in Applications(st, ans.diff) :
                         Outcomes(st, tx) = {[ok |-> TRUE, post |-> post]}
    /\ \A a, b \in ClockOutcomes(0) : a = b

-----------------------------------------------------------------------------
\* The draws are transactions of the ledger.
LEMMA DrawsType == TypeOK => Draws \subseteq AnyTx
BY IdsFacts DEF TypeOK, Draws, AnyTx, Txs

\* The genesis state and the empty block are well typed.
LEMMA InitType == Init => TypeOK
<1> SUFFICES ASSUME Init PROVE TypeOK
  OBVIOUS
<1>0. deviated \in BOOLEAN /\ run_clock \in BOOLEAN
  BY DEF Init
<1>1. /\ accepted_txs \in Seq(Draws) /\ Len(accepted_txs) = 0
      /\ Genesis(init_accs) \in States
      /\ Ids(init_accs) \subseteq AccountIds
  BY GenesisFacts, IdsFacts DEF Init
<1> QED BY <1>0, <1>1, SequencerAssumption DEF Init, TypeOK

\* What an accepted transaction adds to the sequencer's side.
LEMMA SequenceFacts ==
    ASSUME TypedPipelines, TypeOK, NEW tx \in Draws, SequenceTx(tx)
    PROVE  \E ans \in Validations(seq_state, tx) :
               /\ ans.ok /\ ans.diff \in Diffs /\ DOMAIN ans.diff.public_diff \subseteq AccountIds
               /\ touched_ids' = touched_ids \cup DOMAIN ans.diff.public_diff
               /\ seq_state' \in Applications(seq_state, ans.diff)
               /\ seq_state' \in States
               /\ deviated' = (deviated \/ ans # Validate(seq_state, tx)
                                       \/ seq_state' # ApplyDiff(seq_state, ans.diff))
<1>1. PICK ans \in Validations(seq_state, tx) :
        /\ ans.ok
        /\ touched_ids' = touched_ids \cup DOMAIN ans.diff.public_diff
        /\ seq_state' \in Applications(seq_state, ans.diff)
        /\ deviated' = (deviated \/ ans # Validate(seq_state, tx)
                                \/ seq_state' # ApplyDiff(seq_state, ans.diff))
  BY DEF SequenceTx
<1>2. tx \in AnyTx /\ seq_state \in States
  BY DrawsType DEF TypeOK
<1>3. ans.diff \in Diffs
  BY <1>1, <1>2 DEF TypedPipelines
<1>4. DOMAIN ans.diff.public_diff \subseteq AccountIds
  BY <1>3 DEF Diffs, PublicDiffs
<1>5. seq_state' \in States
  BY <1>1, <1>2, <1>3 DEF TypedPipelines
<1> QED BY <1>1, <1>3, <1>4, <1>5

\* What replaying one transaction does.
LEMMA ReplayFacts ==
    ASSUME TypedPipelines, TypeOK, ReplayTx
    PROVE  /\ accepted_txs[k + 1] \in Draws
           /\ k + 1 \in DOMAIN accepted_txs
           /\ \E ans \in Outcomes(rep_state, accepted_txs[k + 1]) :
                 /\ rep_state' = ans.post
                 /\ rep_state' \in States
                 /\ deviated' = (deviated \/ ans # Execute(rep_state, accepted_txs[k + 1]))
                 /\ IF ans.ok THEN k' = k + 1 /\ UNCHANGED pc
                              ELSE pc' = "panicked" /\ UNCHANGED k
<1>1. accepted_txs[k + 1] \in Draws /\ k + 1 \in DOMAIN accepted_txs
  BY DEF TypeOK, ReplayTx
<1>2. PICK ans \in Outcomes(rep_state, accepted_txs[k + 1]) :
        /\ rep_state' = ans.post
        /\ deviated' = (deviated \/ ans # Execute(rep_state, accepted_txs[k + 1]))
        /\ IF ans.ok THEN k' = k + 1 /\ UNCHANGED pc
                     ELSE pc' = "panicked" /\ UNCHANGED k
  BY DEF ReplayTx
<1>3. rep_state \in States /\ accepted_txs[k + 1] \in AnyTx
  BY <1>1, DrawsType DEF TypeOK
<1>4. ans.post \in States
  BY <1>2, <1>3 DEF TypedPipelines, Answers
<1> QED BY <1>1, <1>2, <1>4

\* Every step keeps the types.
LEMMA StepType == ASSUME TypedPipelines, TypeOK, [Next]_vars PROVE TypeOK'
<1>0. deviated' \in BOOLEAN
  BY DEF Next, SkipTx, SequenceTx, EndOfMempool, SequencerClock, ReplayTx, EndOfBlock,
         ReplayerClock, Compare, vars, TypeOK
<1> USE SequencerAssumption
<1>1. CASE SkipTx
  BY <1>1 DEF SkipTx, TypeOK, input, replayer, Draws
<1>2. ASSUME NEW tx \in Draws, SequenceTx(tx) PROVE TypeOK'
  <2>1. touched_ids' \subseteq AccountIds /\ touched_ids \subseteq touched_ids'
        /\ seq_state' \in States
    BY <1>2, SequenceFacts DEF TypeOK
  <2>2. /\ accepted_txs' \in Seq(Draws)
        /\ Len(accepted_txs') = Len(accepted_txs) + 1
        /\ Len(accepted_txs) \in Nat
    BY <1>2 DEF SequenceTx, TypeOK
  <2>3. /\ i' = i + 1 /\ i < MaxTxs /\ i \in 0..MaxTxs /\ Len(accepted_txs) <= i
        /\ k \in 0..Len(accepted_txs)
        /\ UNCHANGED <<init_accs, run_clock, seq_clock, k, rep_state, rep_clock, pc>>
    BY <1>2 DEF SequenceTx, TypeOK, input, replayer
  <2>4. Draws' = Draws
    BY <2>3 DEF Draws
  <2>5. i' \in 0..MaxTxs /\ Len(accepted_txs') <= i' /\ k' \in 0..Len(accepted_txs')
    BY <2>2, <2>3
  <2> QED BY <1>0, <2>1, <2>2, <2>3, <2>4, <2>5 DEF TypeOK
<1>3. CASE EndOfMempool
  BY <1>3 DEF EndOfMempool, TypeOK, input, sequencer, replayer, Draws
<1>4. CASE SequencerClock
  <2>1. seq_clock' \in 0..1 /\ pc' \in {"replay", "abandoned"}
    BY <1>4 DEF SequencerClock, TypeOK, TypedPipelines
  <2> QED BY <1>0, <1>4, <2>1 DEF SequencerClock, TypeOK, input, replayer, Draws
<1>5. CASE ReplayTx
  <2>1. rep_state' \in States /\ k' \in 0..Len(accepted_txs) /\ pc' \in {"replay", "panicked"}
    BY <1>5, ReplayFacts DEF ReplayTx, TypeOK
  <2> QED BY <1>0, <1>5, <2>1 DEF ReplayTx, TypeOK, input, sequencer, Draws
<1>6. CASE EndOfBlock
  BY <1>6 DEF EndOfBlock, TypeOK, input, sequencer, replayer, Draws
<1>7. CASE ReplayerClock
  <2>1. rep_clock' \in 0..1 /\ pc' \in {"compare", "panicked"}
    BY <1>7 DEF ReplayerClock, TypeOK, TypedPipelines
  <2> QED BY <1>0, <1>7, <2>1 DEF ReplayerClock, TypeOK, input, sequencer, Draws
<1>8. CASE Compare
  <2>1. pc' \in {"equivalent", "panicked"}
    BY <1>8 DEF Compare
  <2> QED BY <1>8, <2>1 DEF Compare, TypeOK, input, sequencer, replayer, Draws
<1>9. CASE UNCHANGED vars
  BY <1>9 DEF vars, TypeOK, Draws
<1> QED BY <1>1, <1>2, <1>3, <1>4, <1>5, <1>6, <1>7, <1>8, <1>9 DEF Next

\* Every variable of fuzz_sequencer_vs_replayer keeps its type.
THEOREM SequencerTypeOK == ASSUME TypedPipelines PROVE Spec => []TypeOK
<1>1. TypeOK /\ [Next]_vars => TypeOK'
  BY StepType
<1> QED BY InitType, <1>1, PTL DEF Spec
-----------------------------------------------------------------------------
(***************************************************************************)
(* Agreement on the touched accounts is agreement on all of them, because  *)
(* neither side has written an account outside touched_ids (Apart).  For   *)
(* that to survive the replay, touched_ids must cover what the             *)
(* transactions of the block will write when they are executed again       *)
(* (BlockDeclared).                                                        *)
(***************************************************************************)
Apart ==
    \A id \in AccountIds \ touched_ids :
        /\ seq_state[id] = Genesis(init_accs)[id]
        /\ rep_state[id] = Genesis(init_accs)[id]

BlockDeclared ==
    \A m \in DOMAIN accepted_txs : Writes(accepted_txs[m]) \subseteq touched_ids

Compared ==
    pc = "equivalent" =>
        /\ \A id \in touched_ids : seq_state[id] = rep_state[id]
        /\ run_clock => seq_clock = rep_clock

EInv == TypeOK /\ Apart /\ BlockDeclared /\ Compared

\* Genesis is where both sides start.
LEMMA EInitInv == Init => EInv
BY InitType DEF Init, EInv, Apart, BlockDeclared, Compared

\* The sequencer writes what it records, and records what a replay will write.
LEMMA SequenceApart ==
    ASSUME TypedPipelines, ConfinedPipelines, EInv, TypeOK', NEW tx \in Draws, SequenceTx(tx)
    PROVE  EInv'
<1>1. PICK ans \in Validations(seq_state, tx) :
        /\ ans.ok /\ ans.diff \in Diffs
        /\ touched_ids' = touched_ids \cup DOMAIN ans.diff.public_diff
        /\ seq_state' \in Applications(seq_state, ans.diff)
  BY SequenceFacts DEF EInv
<1>2. tx \in AnyTx /\ seq_state \in States
  BY DrawsType DEF EInv, TypeOK
<1>3. /\ accepted_txs' = Append(accepted_txs, tx)
      /\ accepted_txs \in Seq(Draws)
      /\ UNCHANGED <<init_accs, run_clock, seq_clock, rep_state, rep_clock, pc>>
      /\ pc = "sequence"
  BY DEF SequenceTx, EInv, TypeOK, input, replayer
<1>4. Apart'
  <2>1. \A id \in AccountIds \ DOMAIN ans.diff.public_diff : seq_state'[id] = seq_state[id]
    BY <1>1, <1>2 DEF ConfinedPipelines
  <2> QED BY <1>1, <1>3, <2>1 DEF EInv, Apart
<1>5. BlockDeclared'
  <2>1. Writes(tx) \subseteq touched_ids'
    BY <1>1, <1>2 DEF ConfinedPipelines
  <2>2. \A m \in DOMAIN accepted_txs' :
          accepted_txs'[m] = tx \/ (m \in DOMAIN accepted_txs /\ accepted_txs'[m] = accepted_txs[m])
    BY <1>3
  <2>3. \A m \in DOMAIN accepted_txs' : Writes(accepted_txs'[m]) \subseteq touched_ids'
    BY <1>1, <2>1, <2>2 DEF EInv, BlockDeclared
  <2> QED BY <2>3 DEF BlockDeclared, Writes
<1>6. Compared'
  BY <1>3 DEF Compared
<1> QED BY <1>4, <1>5, <1>6 DEF EInv

\* A replay writes touched accounts only.
LEMMA ReplayApart ==
    ASSUME TypedPipelines, EInv, TypeOK', ReplayTx
    PROVE  EInv'
<1>1. PICK ans \in Outcomes(rep_state, accepted_txs[k + 1]) : rep_state' = ans.post
  BY ReplayFacts DEF EInv
<1>2. k + 1 \in DOMAIN accepted_txs /\ rep_state \in States
  BY ReplayFacts DEF EInv, TypeOK
<1>3. \A id \in AccountIds \ touched_ids : rep_state'[id] = rep_state[id]
  BY <1>1, <1>2 DEF EInv, BlockDeclared, Writes
<1>4. /\ UNCHANGED <<init_accs, touched_ids, accepted_txs, seq_state>>
      /\ pc' # "equivalent"
  BY ReplayFacts DEF ReplayTx, EInv, input, sequencer
<1> QED BY <1>3, <1>4 DEF EInv, Apart, BlockDeclared, Compared, Writes

\* One case per action; only SequenceTx and ReplayTx write accounts.
LEMMA EStepInv ==
    ASSUME TypedPipelines, ConfinedPipelines, EInv, [Next]_vars
    PROVE  EInv'
<1>1. TypeOK'
  BY StepType DEF EInv
<1>2. CASE SkipTx
  BY <1>1, <1>2 DEF SkipTx, EInv, Apart, BlockDeclared, Compared, Writes, input, replayer
<1>3. ASSUME NEW tx \in Draws, SequenceTx(tx) PROVE EInv'
  BY <1>1, <1>3, SequenceApart
<1>4. CASE EndOfMempool
  BY <1>1, <1>4 DEF EndOfMempool, EInv, Apart, BlockDeclared, Compared, Writes,
                    input, sequencer, replayer
<1>5. CASE SequencerClock
  BY <1>1, <1>5 DEF SequencerClock, EInv, Apart, BlockDeclared, Compared, Writes,
                    input, replayer
<1>6. CASE ReplayTx
  BY <1>1, <1>6, ReplayApart
<1>7. CASE EndOfBlock
  BY <1>1, <1>7 DEF EndOfBlock, EInv, Apart, BlockDeclared, Compared, Writes,
                    input, sequencer, replayer
<1>8. CASE ReplayerClock
  BY <1>1, <1>8 DEF ReplayerClock, EInv, Apart, BlockDeclared, Compared, Writes,
                    input, sequencer
<1>9. CASE Compare
  BY <1>1, <1>9 DEF Compare, EInv, Apart, BlockDeclared, Compared, Writes,
                    input, sequencer, replayer
<1>10. CASE UNCHANGED vars
  BY <1>1, <1>10 DEF vars, EInv, Apart, BlockDeclared, Compared, Writes
<1> QED BY <1>2, <1>3, <1>4, <1>5, <1>6, <1>7, <1>8, <1>9, <1>10 DEF Next

\* fuzz_sequencer_vs_replayer compares the genesis accounts and those the diffs
\* declare; if the replayer writes no other, its agreement covers the whole state.
THEOREM SequencerFullEquivalence ==
    ASSUME TypedPipelines, ConfinedPipelines
    PROVE  Spec => []FullEquivalence
<1>1. EInv /\ [Next]_vars => EInv'
  BY EStepInv
<1>2. EInv => FullEquivalence
  <2> SUFFICES ASSUME EInv, pc = "equivalent"
               PROVE  seq_state = rep_state /\ (run_clock => seq_clock = rep_clock)
    BY DEF FullEquivalence
  <2>1. \A id \in AccountIds : seq_state[id] = rep_state[id]
    BY DEF EInv, Apart, Compared
  <2>2. seq_state \in States /\ rep_state \in States
    BY DEF EInv, TypeOK
  <2> QED BY <2>1, <2>2 DEF EInv, Compared, States
<1> QED BY EInitInv, <1>1, <1>2, PTL DEF Spec
-----------------------------------------------------------------------------
(* The two pipelines do the same by the rules of a native transfer. *)

\* Applying any diff yields a state, and writes only what the diff names.
LEMMA ApplyDiffType ==
    ASSUME NEW st \in States, NEW diff \in Diffs
    PROVE  /\ ApplyDiff(st, diff) \in States
           /\ \A id \in AccountIds \ (DOMAIN diff.public_diff \cup diff.signer_account_ids) :
                  ApplyDiff(st, diff)[id] = st[id]
<1> DEFINE w == WriteAccounts(st, diff)
<1>1. diff.public_diff \in PublicDiffs
  BY DEF Diffs
<1>2. \A id \in DOMAIN diff.public_diff : diff.public_diff[id] \in Account
  BY <1>1 DEF PublicDiffs
<1>3. w \in States
  BY <1>2 DEF WriteAccounts, States
<1>4. \A id \in AccountIds :
        [balance |-> w[id].balance, nonce |-> WrappingAdd(w[id].nonce, 1)] \in Account
  BY <1>3, MaxUAssumption DEF States, Account, WrappingAdd, U128
<1>5. \A id \in AccountIds : w[id] \in Account
  BY <1>3 DEF States
<1>6. /\ ApplyDiff(st, diff) =
             [id \in AccountIds |->
                 IF id \in diff.signer_account_ids
                 THEN [balance |-> w[id].balance, nonce |-> WrappingAdd(w[id].nonce, 1)]
                 ELSE w[id]]
      /\ \A id \in AccountIds \ DOMAIN diff.public_diff : w[id] = st[id]
  BY DEF ApplyDiff, IncrementNonces, WriteAccounts
<1> HIDE DEF w
<1> QED BY <1>4, <1>5, <1>6 DEF States

\* Validating and then applying the diff of an accepted transfer is executing it.
LEMMA SplitIsExecute ==
    ASSUME NEW st \in States, NEW tx \in AnyTx, Accepts(st, tx)
    PROVE  /\ tx \in Txs
           /\ Validate(st, tx).ok
           /\ Validate(st, tx).diff \in Diffs
           /\ DOMAIN Validate(st, tx).diff.public_diff = {tx.from, tx.to}
           /\ Validate(st, tx).diff.signer_account_ids = {tx.from}
           /\ ApplyDiff(st, Validate(st, tx).diff) = Applied(st, tx)
           /\ Applied(st, tx) \in States
<1>1. tx \in Txs /\ Signers(tx) = {tx.from}
  BY DEF Accepts, AnyTx, Signers
<1> DEFINE post == Applied(st, tx)
           d == TransferDiff(st, tx)
           moved(id) == [balance |-> post[id].balance, nonce |-> st[id].nonce]
<1>2. /\ post \in States
      /\ post[tx.from].nonce = WrappingAdd(st[tx.from].nonce, 1)
      /\ post[tx.to].nonce = st[tx.to].nonce
      /\ \A id \in AccountIds \ {tx.from, tx.to} : post[id] = st[id]
  BY <1>1, AppliedFacts
<1>3. /\ tx.from \in AccountIds /\ tx.to \in AccountIds /\ tx.from # tx.to
      /\ \A id \in AccountIds : post[id] \in Account /\ st[id] \in Account
  BY <1>1, <1>2 DEF Txs, States, Accepts
<1>4. Validate(st, tx).ok /\ Validate(st, tx).diff = d
  BY DEF Validate
<1>5. /\ d.public_diff = [id \in {tx.from, tx.to} |-> moved(id)]
      /\ d.signer_account_ids = {tx.from}
      /\ d = [public_diff |-> d.public_diff, signer_account_ids |-> d.signer_account_ids]
  BY <1>1 DEF TransferDiff
<1>6. \A id \in {tx.from, tx.to} : moved(id) \in Account
  BY <1>3 DEF Account
<1>7. d \in Diffs
  <2>1. d.public_diff \in [{tx.from, tx.to} -> Account]
    BY <1>5, <1>6
  <2>2. d.public_diff \in PublicDiffs
    BY <1>3, <2>1 DEF PublicDiffs
  <2> QED BY <1>3, <1>5, <2>2 DEF Diffs
<1> HIDE DEF post, d
<1>8. \A id \in AccountIds : ApplyDiff(st, d)[id] = post[id]
  <2>1. /\ ApplyDiff(st, d)[tx.from] =
              [balance |-> post[tx.from].balance, nonce |-> WrappingAdd(st[tx.from].nonce, 1)]
        /\ ApplyDiff(st, d)[tx.to] = moved(tx.to)
        /\ \A id \in AccountIds \ {tx.from, tx.to} : ApplyDiff(st, d)[id] = st[id]
    BY <1>3, <1>5 DEF ApplyDiff, IncrementNonces, WriteAccounts
  <2>2. \A acc \in Account : acc = [balance |-> acc.balance, nonce |-> acc.nonce]
    BY DEF Account
  <2> QED BY <1>2, <1>3, <2>1, <2>2
<1>9. ApplyDiff(st, d) = post
  BY <1>2, <1>8 DEF ApplyDiff, IncrementNonces, States
<1> QED BY <1>1, <1>2, <1>4, <1>5, <1>7, <1>9 DEF post

-----------------------------------------------------------------------------
(***************************************************************************)
(* No false alarm.  The sequencer has moved on by the time the block is    *)
(* replayed, so the invariant keeps the states it went through: there is a *)
(* history h that starts at genesis, that each transaction of the block    *)
(* continues, that ends in seq_state, and in which the replayer has        *)
(* reached the state after k transactions.                                 *)
(*                                                                         *)
(* There are two reasons to trust a pipeline: the two are consistent with  *)
(* each other, whatever their rules are; or nothing has deviated from the  *)
(* rules so far.  One invariant serves both.  Expected(deviates) says that *)
(* an answer counts: it deviates or not, and is to be trusted anyway.      *)
(***************************************************************************)
Expected(deviates) == ConsistentPipelines \/ ~deviates

\* All answers that count take st to post.
Leads(st, tx, post) ==
    \A ans \in Outcomes(st, tx) :
        Expected(ans # Execute(st, tx)) => ans = [ok |-> TRUE, post |-> post]

HistoryOf(h, block, last, done, at) ==
    /\ Len(h) = Len(block) + 1
    /\ h[Len(h)] = last
    /\ h[done + 1] = at
    /\ \A m \in DOMAIN block : Leads(h[m], block[m], h[m + 1])

Replayable ==
    \E h \in Seq(States) : HistoryOf(h, accepted_txs, seq_state, k, rep_state)

ClockReached ==
    /\ pc \in {"sequence", "seq_clock"} => seq_clock = 0
    /\ pc \in {"replay", "rep_clock"} => rep_clock = 0
    /\ (run_clock /\ pc \in {"replay", "rep_clock"}) =>
           \A ans \in ClockOutcomes(0) :
               Expected(ans # ClockTick(0)) => ans = [ok |-> TRUE, clock |-> seq_clock]
    /\ (run_clock /\ pc = "compare") => seq_clock = rep_clock

PSound ==
    /\ Replayable
    /\ pc \in {"sequence", "seq_clock"} => k = 0 /\ rep_clock = 0
    /\ pc \in {"rep_clock", "compare"} => k = Len(accepted_txs)
    /\ ClockReached
    /\ pc # "panicked"

PInv == TypeOK /\ (Expected(deviated) => PSound)

\* The empty block has a history of one state.
LEMMA PInitInv == Init => PInv
<1> SUFFICES ASSUME Init PROVE PInv
  OBVIOUS
<1> DEFINE h == <<Genesis(init_accs)>>
<1>1. Genesis(init_accs) \in States
  BY GenesisFacts DEF Init
<1>2. /\ h \in Seq(States) /\ Len(h) = 1 /\ h[1] = Genesis(init_accs)
      /\ Len(accepted_txs) = 0 /\ DOMAIN accepted_txs = {}
  BY <1>1 DEF Init
<1>3. HistoryOf(h, accepted_txs, seq_state, k, rep_state)
  BY <1>2 DEF Init, HistoryOf
<1>4. Replayable
  BY <1>2, <1>3 DEF Replayable
<1> QED BY <1>4, InitType DEF Init, PInv, PSound, ClockReached

\* What the sequencer accepts and applies, the replayer will do, if it is trusted.
LEMMA AcceptedLeads ==
    ASSUME NEW st \in States, NEW tx \in AnyTx, NEW ans \in Validations(st, tx), ans.ok,
           NEW post \in Applications(st, ans.diff),
           Expected(ans # Validate(st, tx) \/ post # ApplyDiff(st, ans.diff))
    PROVE  Leads(st, tx, post)
<1>1. CASE ConsistentPipelines
  BY <1>1 DEF ConsistentPipelines, Leads
<1>2. CASE ~ConsistentPipelines
  <2>1. ans = Validate(st, tx) /\ post = ApplyDiff(st, ans.diff)
    BY <1>2 DEF Expected
  <2>2. Accepts(st, tx)
    BY <2>1 DEF Validate
  <2>3. Execute(st, tx) = [ok |-> TRUE, post |-> post]
    BY <2>1, <2>2, SplitIsExecute DEF Execute
  <2> QED BY <1>2, <2>3 DEF Leads, Expected
<1> QED BY <1>1, <1>2

\* Accepting a transaction extends the history.
LEMMA SequenceHistory ==
    ASSUME TypedPipelines, TypeOK, PSound, TypeOK', NEW tx \in Draws, SequenceTx(tx),
           Expected(deviated')
    PROVE  PSound'
<1>1. PICK ans \in Validations(seq_state, tx) :
        /\ ans.ok /\ seq_state' \in Applications(seq_state, ans.diff)
        /\ seq_state' \in States
        /\ deviated' = (deviated \/ ans # Validate(seq_state, tx)
                                \/ seq_state' # ApplyDiff(seq_state, ans.diff))
  BY SequenceFacts
<1>2. PICK h \in Seq(States) : HistoryOf(h, accepted_txs, seq_state, k, rep_state)
  BY DEF PSound, Replayable
<1>3. tx \in AnyTx /\ seq_state \in States
  BY DrawsType DEF TypeOK
<1>4. Leads(seq_state, tx, seq_state')
  <2>1. Expected(ans # Validate(seq_state, tx) \/ seq_state' # ApplyDiff(seq_state, ans.diff))
    BY <1>1 DEF Expected
  <2> QED BY <1>1, <1>3, <2>1, AcceptedLeads
<1>5. /\ accepted_txs' = Append(accepted_txs, tx)
      /\ accepted_txs \in Seq(Draws)
      /\ UNCHANGED <<init_accs, run_clock, seq_clock, k, rep_state, rep_clock, pc>>
      /\ pc = "sequence" /\ k = 0 /\ rep_clock = 0 /\ seq_clock = 0
  BY DEF SequenceTx, PSound, ClockReached, TypeOK, input, replayer
<1> DEFINE l == Len(accepted_txs)
           g == Append(h, seq_state')
<1>6. /\ l \in Nat /\ Len(h) = l + 1 /\ DOMAIN accepted_txs = 1..l
      /\ Len(accepted_txs') = l + 1 /\ DOMAIN accepted_txs' = 1..l + 1
      /\ accepted_txs'[l + 1] = tx
      /\ \A m \in 1..l : accepted_txs'[m] = accepted_txs[m]
  BY <1>2, <1>5 DEF HistoryOf
<1>7. /\ g \in Seq(States) /\ Len(g) = l + 2 /\ g[l + 2] = seq_state'
      /\ \A m \in 1..l + 1 : g[m] = h[m]
  BY <1>1, <1>2, <1>6
<1>8. h[l + 1] = seq_state /\ h[1] = rep_state
  BY <1>2, <1>5, <1>6 DEF HistoryOf
<1> HIDE DEF g, l
<1>9. ASSUME NEW m \in 1..l + 1
      PROVE  Leads(g[m], accepted_txs'[m], g[m + 1])
  <2>1. CASE m = l + 1
    <3>1. g[m] = seq_state /\ g[m + 1] = seq_state' /\ accepted_txs'[m] = tx
      BY <1>6, <1>7, <1>8, <2>1
    <3> QED BY <1>4, <3>1
  <2>2. CASE m \in 1..l
    <3>1. g[m] = h[m] /\ g[m + 1] = h[m + 1] /\ accepted_txs'[m] = accepted_txs[m]
      BY <1>6, <1>7, <2>2
    <3>2. Leads(h[m], accepted_txs[m], h[m + 1])
      BY <1>2, <1>6, <2>2 DEF HistoryOf
    <3> QED BY <3>1, <3>2
  <2> QED BY <1>6, <2>1, <2>2
<1>10. HistoryOf(g, accepted_txs', seq_state', k', rep_state')
  <2>1. Len(g) = Len(accepted_txs') + 1 /\ g[Len(g)] = seq_state' /\ g[k' + 1] = rep_state'
    BY <1>5, <1>6, <1>7, <1>8
  <2>2. \A m \in DOMAIN accepted_txs' : Leads(g[m], accepted_txs'[m], g[m + 1])
    BY <1>6, <1>9
  <2> QED BY <2>1, <2>2 DEF HistoryOf
<1>11. Replayable'
  BY <1>7, <1>10 DEF Replayable
<1> QED BY <1>5, <1>11 DEF PSound, ClockReached

\* The next transaction of the block continues the history at the replayer's state.
LEMMA ReplayHistory ==
    ASSUME TypedPipelines, TypeOK, PSound, TypeOK', ReplayTx, Expected(deviated')
    PROVE  PSound'
<1>1. PICK h \in Seq(States) : HistoryOf(h, accepted_txs, seq_state, k, rep_state)
  BY DEF PSound, Replayable
<1>2. k + 1 \in DOMAIN accepted_txs /\ k \in Nat /\ pc = "replay"
  BY ReplayFacts DEF TypeOK, ReplayTx
<1>3. PICK ans \in Outcomes(rep_state, accepted_txs[k + 1]) :
        /\ rep_state' = ans.post
        /\ deviated' = (deviated \/ ans # Execute(rep_state, accepted_txs[k + 1]))
        /\ IF ans.ok THEN k' = k + 1 /\ UNCHANGED pc
                     ELSE pc' = "panicked" /\ UNCHANGED k
  BY ReplayFacts
<1>4. ans = [ok |-> TRUE, post |-> h[(k + 1) + 1]]
  <2>1. Expected(ans # Execute(rep_state, accepted_txs[k + 1]))
    BY <1>3 DEF Expected
  <2>2. Leads(rep_state, accepted_txs[k + 1], h[(k + 1) + 1])
    BY <1>1, <1>2 DEF HistoryOf
  <2> QED BY <1>3, <2>1, <2>2 DEF Leads
<1>5. k' = k + 1 /\ pc' = pc /\ rep_state' = h[k' + 1]
  BY <1>3, <1>4
<1>6. UNCHANGED <<run_clock, accepted_txs, seq_state, seq_clock, rep_clock>>
  BY DEF ReplayTx, input, sequencer
<1>7. Replayable'
  <2>1. HistoryOf(h, accepted_txs', seq_state', k', rep_state')
    BY <1>1, <1>5, <1>6 DEF HistoryOf
  <2> QED BY <2>1 DEF Replayable
<1> QED BY <1>2, <1>5, <1>6, <1>7 DEF PSound, ClockReached

\* The replayer's clock invocation repeats the sequencer's.
LEMMA ReplayerClockSound ==
    ASSUME TypeOK, PSound, TypeOK', ReplayerClock, Expected(deviated')
    PROVE  PSound'
<1>1. UNCHANGED <<run_clock, accepted_txs, seq_state, seq_clock, k, rep_state>>
      /\ pc = "rep_clock" /\ rep_clock = 0 /\ k = Len(accepted_txs)
  BY DEF ReplayerClock, input, sequencer, PSound, ClockReached
<1>2. Replayable'
  BY <1>1 DEF PSound, Replayable
<1>3. CASE ~run_clock
  BY <1>1, <1>2, <1>3 DEF ReplayerClock, PSound, ClockReached
<1>4. CASE run_clock
  <2>1. PICK ans \in ClockOutcomes(0) :
          /\ rep_clock' = ans.clock
          /\ pc' = IF ans.ok THEN "compare" ELSE "panicked"
          /\ deviated' = (deviated \/ ans # ClockTick(0))
    BY <1>1, <1>4 DEF ReplayerClock
  <2>2. ans = [ok |-> TRUE, clock |-> seq_clock]
    <3>1. Expected(ans # ClockTick(0))
      BY <2>1 DEF Expected
    <3> QED BY <1>1, <1>4, <2>1, <3>1 DEF PSound, ClockReached
  <2>3. pc' = "compare" /\ rep_clock' = seq_clock
    BY <2>1, <2>2
  <2> QED BY <1>1, <1>2, <1>4, <2>3 DEF PSound, ClockReached
<1> QED BY <1>3, <1>4 DEF TypeOK

\* The sequencer's clock invocation decides whether there is a block to replay.
LEMMA SequencerClockSound ==
    ASSUME TypedPipelines, TypeOK, PSound, TypeOK', SequencerClock, Expected(deviated')
    PROVE  PSound'
<1>1. UNCHANGED <<run_clock, accepted_txs, seq_state, k, rep_state, rep_clock>>
      /\ pc = "seq_clock" /\ seq_clock = 0 /\ rep_clock = 0 /\ k = 0
  BY DEF SequencerClock, input, replayer, PSound, ClockReached
<1>2. Replayable'
  BY <1>1 DEF PSound, Replayable
<1>3. CASE ~run_clock
  BY <1>1, <1>2, <1>3 DEF SequencerClock, PSound, ClockReached
<1>4. CASE run_clock
  <2>1. PICK ans \in ClockOutcomes(0) :
          /\ seq_clock' = ans.clock
          /\ pc' = IF ans.ok THEN "replay" ELSE "abandoned"
          /\ deviated' = (deviated \/ ans # ClockTick(0))
    BY <1>1, <1>4 DEF SequencerClock
  <2>2. ans \in [ok : BOOLEAN, clock : 0..1]
    BY <2>1 DEF TypedPipelines
  <2>3. ASSUME ans.ok, NEW other \in ClockOutcomes(0), Expected(other # ClockTick(0))
        PROVE  other = [ok |-> TRUE, clock |-> seq_clock']
    <3>1. ans = [ok |-> TRUE, clock |-> seq_clock']
      BY <2>1, <2>2, <2>3
    <3>2. other = ans
      BY <2>1, <2>3 DEF Expected, ConsistentPipelines
    <3> QED BY <3>1, <3>2
  <2> QED BY <1>1, <1>2, <1>4, <2>1, <2>3 DEF PSound, ClockReached
<1> QED BY <1>3, <1>4 DEF TypeOK

\* At the end of the block the two states are the same.
LEMMA CompareSound ==
    ASSUME PSound, TypeOK', Compare
    PROVE  PSound'
<1>1. UNCHANGED <<run_clock, accepted_txs, seq_state, seq_clock, k, rep_state, rep_clock>>
      /\ pc = "compare" /\ k = Len(accepted_txs)
      /\ (run_clock => seq_clock = rep_clock)
  BY DEF Compare, input, sequencer, replayer, PSound, ClockReached
<1>2. seq_state = rep_state
  BY <1>1 DEF PSound, Replayable, HistoryOf
<1>3. pc' = "equivalent"
  BY <1>1, <1>2 DEF Compare
<1>4. Replayable'
  BY <1>1 DEF PSound, Replayable
<1> QED BY <1>1, <1>3, <1>4 DEF PSound, ClockReached

\* One case per action of the two pipelines.  What is trusted after a step was
\* trusted before it.
LEMMA PStepInv ==
    ASSUME TypedPipelines, PInv, [Next]_vars
    PROVE  PInv'
<1>1. TypeOK'
  BY StepType DEF PInv
<1> SUFFICES ASSUME Expected(deviated') PROVE PSound'
  BY <1>1 DEF PInv
<1>2. TypeOK /\ PSound
  <2>1. deviated => deviated'
    BY DEF Next, SkipTx, SequenceTx, EndOfMempool, SequencerClock, ReplayTx, EndOfBlock,
           ReplayerClock, Compare, vars
  <2> QED BY <2>1 DEF PInv, Expected
<1>3. CASE SkipTx
  BY <1>2, <1>3 DEF SkipTx, PSound, Replayable, ClockReached, input, replayer
<1>4. ASSUME NEW tx \in Draws, SequenceTx(tx) PROVE PSound'
  BY <1>1, <1>2, <1>4, SequenceHistory
<1>5. CASE EndOfMempool
  BY <1>2, <1>5 DEF EndOfMempool, PSound, Replayable, ClockReached,
                    input, sequencer, replayer
<1>6. CASE SequencerClock
  BY <1>1, <1>2, <1>6, SequencerClockSound
<1>7. CASE ReplayTx
  BY <1>1, <1>2, <1>7, ReplayHistory
<1>8. CASE EndOfBlock
  BY <1>2, <1>8 DEF EndOfBlock, PSound, Replayable, ClockReached,
                    input, sequencer, replayer
<1>9. CASE ReplayerClock
  BY <1>1, <1>2, <1>9, ReplayerClockSound
<1>10. CASE Compare
  BY <1>1, <1>2, <1>10, CompareSound
<1>11. CASE UNCHANGED vars
  BY <1>2, <1>11 DEF vars, PSound, Replayable, ClockReached
<1> QED BY <1>3, <1>4, <1>5, <1>6, <1>7, <1>8, <1>9, <1>10, <1>11 DEF Next

\* Whatever pipelines are linked, fuzz_sequencer_vs_replayer panics only if one of
\* them, or the clock, has not followed the rules.
THEOREM SequencerOnlyDeviationAccused ==
    ASSUME TypedPipelines PROVE Spec => []OnlyDeviationAccused
<1>1. PInv /\ [Next]_vars => PInv'
  BY PStepInv
<1>2. PInv => OnlyDeviationAccused
  BY DEF PInv, PSound, OnlyDeviationAccused, Expected
<1> QED BY PInitInv, <1>1, <1>2, PTL DEF Spec

\* If execute_check_on_state does what validate_on_state and apply_state_diff do,
\* by whatever rules, fuzz_sequencer_vs_replayer never panics, whatever the block.
THEOREM SequencerConsistentNeverAccused ==
    ASSUME TypedPipelines, ConsistentPipelines
    PROVE  Spec => [](pc # "panicked")
<1>1. PInv /\ [Next]_vars => PInv'
  BY PStepInv
<1>2. PInv => pc # "panicked"
  BY DEF PInv, PSound, Expected
<1> QED BY PInitInv, <1>1, <1>2, PTL DEF Spec
-----------------------------------------------------------------------------
(* The assumptions hold of a ledger that follows the rules. *)

FaithfulPipelines ==
    /\ \A st \in States, tx \in AnyTx :
           /\ Validations(st, tx) = {Validate(st, tx)}
           /\ Outcomes(st, tx) = {Execute(st, tx)}
    /\ \A st \in States, diff \in Diffs : Applications(st, diff) = {ApplyDiff(st, diff)}
    /\ ClockOutcomes(0) = {[ok |-> TRUE, clock |-> 1]}
    /\ ClockOutcomes(1) = {[ok |-> FALSE, clock |-> 1]}

\* Pipelines that follow the rules meet the assumptions of the theorems above.
LEMMA FaithfulPipelinesFacts ==
    FaithfulPipelines => TypedPipelines /\ ConsistentPipelines /\ ConfinedPipelines
<1> SUFFICES ASSUME FaithfulPipelines
             PROVE  TypedPipelines /\ ConsistentPipelines /\ ConfinedPipelines
  OBVIOUS
<1>1. ASSUME NEW st \in States, NEW tx \in AnyTx
      PROVE  /\ Validate(st, tx) \in [ok : BOOLEAN, diff : Diffs]
             /\ Execute(st, tx) \in Answers
             /\ Validate(st, tx).ok => Accepts(st, tx)
  <2>1. CASE Accepts(st, tx)
    <3> DEFINE d == Validate(st, tx).diff
    <3>1. Validate(st, tx) = [ok |-> TRUE, diff |-> d]
      BY <2>1 DEF Validate
    <3>2. d \in Diffs /\ Applied(st, tx) \in States
      BY <2>1, SplitIsExecute
    <3> HIDE DEF d
    <3>3. Validate(st, tx) \in [ok : BOOLEAN, diff : Diffs]
      BY <3>1, <3>2
    <3>4. Execute(st, tx) \in Answers
      BY <2>1, <3>2 DEF Execute, Answers
    <3> QED BY <2>1, <3>3, <3>4
  <2>2. CASE ~Accepts(st, tx)
    <3>1. [id \in {} |-> DefaultAccount] \in [{} -> Account]
      OBVIOUS
    <3>2. NoDiff \in Diffs
      BY <3>1 DEF Diffs, PublicDiffs, NoDiff
    <3> QED BY <2>2, <3>2 DEF Validate, Execute, Answers
  <2> QED BY <2>1, <2>2
<1>2. TypedPipelines
  <2>1. \A st \in States, diff \in Diffs : Applications(st, diff) \subseteq States
    BY ApplyDiffType DEF FaithfulPipelines
  <2>2. \A clock \in 0..1 : ClockOutcomes(clock) \subseteq [ok : BOOLEAN, clock : 0..1]
    <3> DEFINE answers == [ok : BOOLEAN, clock : 0..1]
    <3>0. [ok |-> TRUE, clock |-> 1] \in answers /\ [ok |-> FALSE, clock |-> 1] \in answers
      OBVIOUS
    <3> HIDE DEF answers
    <3>1. ClockOutcomes(0) \subseteq answers
      BY <3>0, Zenon DEF FaithfulPipelines
    <3>2. ClockOutcomes(1) \subseteq answers
      BY <3>0, Zenon DEF FaithfulPipelines
    <3> SUFFICES ASSUME NEW clock \in 0..1 PROVE ClockOutcomes(clock) \subseteq answers
      BY DEF answers
    <3>3. clock = 0 \/ clock = 1
      OBVIOUS
    <3> QED BY <3>1, <3>2, <3>3
  <2> QED BY <1>1, <2>1, <2>2 DEF TypedPipelines, FaithfulPipelines
<1>3. ConsistentPipelines
  <2>1. ASSUME NEW st \in States, NEW tx \in AnyTx, Validate(st, tx).ok
        PROVE  \A post \in Applications(st, Validate(st, tx).diff) :
                   Outcomes(st, tx) = {[ok |-> TRUE, post |-> post]}
    <3>1. Accepts(st, tx)
      BY <1>1, <2>1
    <3>2. Applications(st, Validate(st, tx).diff) = {Applied(st, tx)}
      BY <3>1, SplitIsExecute DEF FaithfulPipelines
    <3>3. Outcomes(st, tx) = {[ok |-> TRUE, post |-> Applied(st, tx)]}
      BY <3>1 DEF FaithfulPipelines, Execute
    <3> QED BY <3>2, <3>3
  <2>2. \A a, b \in ClockOutcomes(0) : a = b
    BY DEF FaithfulPipelines
  <2>3. \A st \in States, tx \in AnyTx : Validations(st, tx) = {Validate(st, tx)}
    BY DEF FaithfulPipelines
  <2> QED BY <2>1, <2>2, <2>3 DEF ConsistentPipelines
<1>4. ConfinedPipelines
  <2>1. ASSUME NEW st \in States, NEW tx \in AnyTx, Validate(st, tx).ok
        PROVE  Writes(tx) \cup Validate(st, tx).diff.signer_account_ids
                   \subseteq DOMAIN Validate(st, tx).diff.public_diff
    <3>1. /\ Accepts(st, tx) /\ tx \in Txs
          /\ DOMAIN Validate(st, tx).diff.public_diff = {tx.from, tx.to}
          /\ Validate(st, tx).diff.signer_account_ids = {tx.from}
      BY <1>1, <2>1, SplitIsExecute
    <3>2. ASSUME NEW s2 \in States, NEW id \in AccountIds \ {tx.from, tx.to}
          PROVE  Execute(s2, tx).post[id] = s2[id]
      BY <3>1, AppliedFacts DEF Execute
    <3> QED BY <3>1, <3>2 DEF Writes, FaithfulPipelines
  <2>2. \A st \in States, diff \in Diffs : \A post \in Applications(st, diff) :
          \A id \in AccountIds \ (DOMAIN diff.public_diff \cup diff.signer_account_ids) :
              post[id] = st[id]
    BY ApplyDiffType DEF FaithfulPipelines
  <2> QED BY <2>1, <2>2 DEF ConfinedPipelines, FaithfulPipelines
<1> QED BY <1>2, <1>3, <1>4

\* Linked with pipelines that follow the rules of a native transfer,
\* fuzz_sequencer_vs_replayer never panics, and agrees on every account.
THEOREM SequencerSoundForTheRules ==
    ASSUME FaithfulPipelines
    PROVE  Spec => [](pc # "panicked") /\ []FullEquivalence
<1>1. TypedPipelines /\ ConsistentPipelines /\ ConfinedPipelines
  BY FaithfulPipelinesFacts
<1> QED BY <1>1, SequencerConsistentNeverAccused, SequencerFullEquivalence
=============================================================================
