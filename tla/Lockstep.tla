------------------------------ MODULE Lockstep ------------------------------
(***************************************************************************)
(* fuzz_stateful_model_lockstep: one fuzz iteration that steps the ledger  *)
(* under test and an independent reference model through the same schedule *)
(* of commands, and panics as soon as they disagree on the verdict or on   *)
(* the balance or nonce of a generated account.                            *)
(*                                                                         *)
(* The input bytes choose the accounts, the schedule and its length, so    *)
(* they are nondeterministic choices here.  Panicking ends the process.    *)
(***************************************************************************)
EXTENDS LedgerUnderTest

CONSTANTS
    MaxCmds,        \* n_cmds = u8 % 32: at most 31 commands
    MaxDelta,       \* NonceKind::Off(u8): at most 255
    ExcessSpan,     \* AmountKind::Excessive: raw % 1024
    MaxJump         \* AdvanceBlock(u8): at most 255

ASSUME LockstepAssumption ==
    /\ MaxCmds \in Nat /\ MaxCmds < MaxU
    /\ MaxDelta \in Nat \ {0} /\ MaxDelta <= MaxU
    /\ ExcessSpan \in Nat \ {0} /\ ExcessSpan <= MaxU
    /\ MaxJump \in Nat

NonceKinds ==
    [kind : {"Correct"}] \cup [kind : {"Off"}, d : 0..MaxDelta] \cup [kind : {"Raw"}, n : U128]

AmountKinds ==
    [kind : {"Zero", "All"}] \cup [kind : {"WithinBalance", "Excessive", "Raw"}, raw : U128]

VARIABLES
    fuzz_accs,      \* the generated accounts
    state,          \* the ledger under test
    model,          \* the reference model: id -> balance and nonce
    block_id,
    timestamp,
    last_applied,   \* {tx} for the transaction accepted last, {} if there is none
    step,           \* commands executed
    pc,             \* "loop", "returned" or "panicked"
    applied,        \* history: <<sender, nonce>> of every accepted transaction
    executed_at,    \* history: block_id of the latest execution, 0 if there is none
    deviated        \* history: some answer of the ledger was not the one of the rules

vars == <<fuzz_accs, state, model, block_id, timestamp, last_applied, step, pc,
          applied, executed_at, deviated>>

TypeOK ==
    /\ fuzz_accs \in FuzzStates
    /\ state \in States
    /\ model \in [Ids(fuzz_accs) -> Account]
    /\ block_id \in Nat /\ timestamp \in Nat /\ executed_at \in Nat
    /\ last_applied \subseteq Txs
    /\ step \in 0..MaxCmds
    /\ pc \in {"loop", "returned", "panicked"}
    /\ applied \subseteq AccountIds \X U128
    /\ deviated \in BOOLEAN

-----------------------------------------------------------------------------
\* The reference model.
NewModel(accs) ==
    [id \in Ids(accs) |->
        Funded(accs[CHOOSE i \in DOMAIN accs : accs[i].account_id = id].balance)]

\* MUTANT of Predict: the declared nonce is not compared.
Predict_AnyNonce(m, tx) ==
    tx.amount <= m[tx.from].balance /\ ~Overflows(m[tx.to].balance, tx.amount)

\* Model::predict: TRUE for Predict::Accept.
Predict(m, tx) ==
    /\ tx.nonce = m[tx.from].nonce
    /\ tx.amount <= m[tx.from].balance
    /\ ~Overflows(m[tx.to].balance, tx.amount)

\* Model::apply_transfer.  Its u128 arithmetic is unchecked in the source:
\* NonceFits says that the addition to the nonce does not overflow.
ApplyTransfer(m, tx) ==
    [m EXCEPT ![tx.from] = [balance |-> m[tx.from].balance - tx.amount,
                            nonce   |-> m[tx.from].nonce + 1],
              ![tx.to].balance = m[tx.to].balance + tx.amount]

-----------------------------------------------------------------------------
\* MUTANT of ResolveRecipient: the offset starts at 0.
ResolveRecipient_SelfAllowed(raw, from_idx, len) ==
    1 + (((from_idx - 1) + (raw % (len - 1))) % len)

\* resolve_recipient, over indices that start at 1: never from_idx.
ResolveRecipient(raw, from_idx, len) ==
    1 + (((from_idx - 1) + (1 + (raw % (len - 1)))) % len)

\* resolve_nonce
ResolveNonce(kind, current) ==
    CASE kind.kind = "Correct" -> current
      [] kind.kind = "Off"     -> WrappingAdd(current, IF kind.d = 0 THEN 1 ELSE kind.d)
      [] kind.kind = "Raw"     -> kind.n

\* MUTANT of ResolveAmount: Excessive starts at the balance itself.
ResolveAmount_ExcessiveOffByOne(kind, bal) ==
    CASE kind.kind = "Zero"          -> 0
      [] kind.kind = "All"           -> bal
      [] kind.kind = "WithinBalance" -> kind.raw % SaturatingAdd(bal, 1)
      [] kind.kind = "Excessive"     -> SaturatingAdd(bal, kind.raw % ExcessSpan)
      [] kind.kind = "Raw"           -> kind.raw

\* resolve_amount
ResolveAmount(kind, bal) ==
    CASE kind.kind = "Zero"          -> 0
      [] kind.kind = "All"           -> bal
      [] kind.kind = "WithinBalance" -> kind.raw % SaturatingAdd(bal, 1)
      [] kind.kind = "Excessive"     -> SaturatingAdd(SaturatingAdd(bal, 1), kind.raw % ExcessSpan)
      [] kind.kind = "Raw"           -> kind.raw

\* MUTANT of StateAgreement: balances are not compared.
StateAgreement_NoncesOnly(st, m) == \A id \in DOMAIN m : st[id].nonce = m[id].nonce

\* assert_state_agreement: only the generated accounts are compared.
StateAgreement(st, m) ==
    \A id \in DOMAIN m : st[id].balance = m[id].balance /\ st[id].nonce = m[id].nonce
-----------------------------------------------------------------------------
Init ==
    /\ fuzz_accs \in FuzzStates
    /\ state = Genesis(fuzz_accs)
    /\ model = NewModel(fuzz_accs)
    /\ block_id = 1
    /\ timestamp = 0
    /\ last_applied = {}
    /\ step = 0
    /\ pc = IF Len(fuzz_accs) >= 2 THEN "loop" ELSE "returned"
    /\ applied = {}
    /\ executed_at = 0
    /\ deviated = FALSE

\* MUTANT of NextCommand: the schedule may be one command too long.
NextCommand_OneTooMany ==
    /\ pc = "loop"
    /\ step <= MaxCmds
    /\ step' = step + 1
    /\ UNCHANGED fuzz_accs

\* The loop draws one more command.
NextCommand ==
    /\ pc = "loop"
    /\ step < MaxCmds
    /\ step' = step + 1
    /\ UNCHANGED fuzz_accs

\* MUTANT of Conclude: the clock does not move.
Conclude_ClockStopped(ticks, st, m) ==
    /\ UNCHANGED <<block_id, timestamp>>
    /\ pc' = IF StateAgreement(st, m) THEN "loop" ELSE "panicked"

\* The end of a command: the clock moves by ticks, then assert_state_agreement.
Conclude(ticks, st, m) ==
    /\ block_id' = block_id + ticks
    /\ timestamp' = timestamp + 1000 * ticks
    /\ pc' = IF StateAgreement(st, m) THEN "loop" ELSE "panicked"

\* A failed assert! on the verdict, before anything else is updated.
VerdictPanic ==
    /\ pc' = "panicked"
    /\ UNCHANGED <<model, block_id, timestamp, last_applied>>

AdvanceBlock(jump) ==
    /\ NextCommand
    /\ Conclude(1 + jump, state, model)
    /\ UNCHANGED <<state, model, last_applied, applied, executed_at, deviated>>

\* ReplayLast before anything was accepted: continue, with no clock movement.
NothingToReplay ==
    /\ NextCommand
    /\ last_applied = {}
    /\ UNCHANGED <<state, model, block_id, timestamp, last_applied, pc, applied, executed_at,
                   deviated>>

ReplayLast ==
    /\ NextCommand
    /\ \E tx \in last_applied : \E ans \in Outcomes(state, tx) :
           /\ state' = ans.post
           /\ deviated' = (deviated \/ ans # Execute(state, tx))
           /\ \/ /\ ans.ok
                 /\ VerdictPanic
              \/ /\ ~ans.ok
                 /\ Conclude(1, ans.post, model)
                 /\ UNCHANGED <<model, last_applied>>
    /\ executed_at' = block_id
    /\ UNCHANGED applied

\* The transaction of Command::Transfer, signed with the sender's own key.
TransferTx(from_idx, to, nonce, amount) ==
    LET from_id == fuzz_accs[from_idx].account_id
        to_idx  == ResolveRecipient(to, from_idx, Len(fuzz_accs))
    IN [from   |-> from_id,
        to     |-> fuzz_accs[to_idx].account_id,
        nonce  |-> ResolveNonce(nonce, model[from_id].nonce),
        amount |-> ResolveAmount(amount, model[from_id].balance)]

\* Predict, execute, compare the verdicts; if both accept, commit to the model
\* and remember the transaction; then compare the states.
Transfer(tx) ==
    /\ NextCommand
    /\ \E ans \in Outcomes(state, tx) :
           /\ state' = ans.post
           /\ deviated' = (deviated \/ ans # Execute(state, tx))
           /\ applied' = IF ans.ok THEN applied \cup {<<tx.from, tx.nonce>>} ELSE applied
           /\ \/ /\ ans.ok # Predict(model, tx)
                 /\ VerdictPanic
              \/ /\ ans.ok /\ Predict(model, tx)
                 /\ model' = ApplyTransfer(model, tx)
                 /\ last_applied' = {tx}
                 /\ Conclude(1, ans.post, model')
              \/ /\ ~ans.ok /\ ~Predict(model, tx)
                 /\ UNCHANGED <<model, last_applied>>
                 /\ Conclude(1, ans.post, model)
    /\ executed_at' = block_id

\* n_cmds reached, or Command::arbitrary failed: the input decides which of
\* the lengths 0..MaxCmds the schedule has.
Return ==
    /\ pc = "loop"
    /\ pc' = "returned"
    /\ UNCHANGED <<fuzz_accs, state, model, block_id, timestamp, last_applied, step,
                   applied, executed_at, deviated>>

\* Command::Transfer over every draw: from % len is any index; a recipient byte
\* up to MaxAccounts - 1 takes every residue modulo len - 1 and wraps once.
Transfers ==
    {TransferTx(from_idx, to, nonce, amount) :
        from_idx \in DOMAIN fuzz_accs, to \in 0..MaxAccounts - 1,
        nonce \in NonceKinds, amount \in AmountKinds}

Next ==
    \/ \E jump \in 0..MaxJump : AdvanceBlock(jump)
    \/ NothingToReplay
    \/ ReplayLast
    \/ pc = "loop" /\ \E tx \in Transfers : Transfer(tx)
    \/ Return

Spec == Init /\ [][Next]_vars

-----------------------------------------------------------------------------
\* The model is a sound oracle (module doc, "no false positives"): whatever ledger
\* is linked and whatever the schedule, the target panics only after the ledger has
\* given an answer that is not the one of the rules.
OracleSound == pc = "panicked" => deviated

\* The command grammar drives the paths its comments promise, in every reachable
\* state.  With the correct nonce, Zero, WithinBalance and All are predicted to be
\* accepted, so "no recipient overflow" can fire, and Excessive to be rejected,
\* although it saturates at u128::MAX; Off is rejected even for amount zero.
KindsReachTheirPath ==
    pc = "loop" =>
        \A from_idx \in DOMAIN fuzz_accs, to \in 0..MaxAccounts - 1 :
            LET Accepted(nonce, amount) ==
                    Predict(model, TransferTx(from_idx, to, nonce, amount))
            IN /\ \A amount \in AmountKinds : amount.kind # "Raw" =>
                      (Accepted([kind |-> "Correct"], amount) <=> amount.kind # "Excessive")
               /\ \A nonce \in NonceKinds : nonce.kind = "Off" =>
                      ~Accepted(nonce, [kind |-> "Zero"])

\* Whatever ledger is linked, an iteration that has not panicked has seen each
\* account consume its nonces 0, 1, 2, ... in turn: none skipped, none reused by
\* a replay, none burnt by a rejected transaction.
NoncesConsumedInTurn ==
    pc # "panicked" =>
        applied = {p \in Ids(fuzz_accs) \X U128 : p[2] < state[p[1]].nonce}

\* Whatever ledger is linked, the native balance of the generated accounts is
\* conserved for as long as the target does not panic.
TotalConserved ==
    pc # "panicked" =>
        SumFunction([id \in Ids(fuzz_accs) |-> state[id].balance])
            = SumFunction([i \in DOMAIN fuzz_accs |-> fuzz_accs[i].balance])

\* "Monotonic clock": every execution is at a block id greater than the one of
\* the execution before.
ClockAheadOfLedger == pc = "loop" => executed_at < block_id

\* Whatever ledger is linked, what it does to the generated accounts is what
\* NativeLedger promises, for as long as the target does not panic.
Certified == INSTANCE NativeLedger WITH
    balance  <- [id \in Ids(fuzz_accs) |-> state[id].balance],
    nonce    <- [id \in Ids(fuzz_accs) |-> state[id].nonce],
    reported <- pc = "panicked"

CertifiedLedger == Certified!Spec
=============================================================================
