--------------------------- MODULE LockstepProofs ---------------------------
(***************************************************************************)
(* Proofs about Lockstep, for every value of its constants.                *)
(***************************************************************************)
EXTENDS Lockstep, LedgerProofs

\* Whatever it answers, the ledger answers with a verdict and a state.
TypedLedger == \A st \in States, tx \in Txs : Outcomes(st, tx) \subseteq Answers

\* The ledger under test follows the rules.
FaithfulLedger ==
    \A st \in States, tx \in Txs : Outcomes(st, tx) = {Execute(st, tx)}

-----------------------------------------------------------------------------
(* Arithmetic of the command grammar. *)

\* x % len for x below 2 * len, as resolve_recipient uses it.
LEMMA ModStep ==
    ASSUME NEW len \in Nat \ {0}, NEW x \in Nat, x < len + len
    PROVE  x % len = IF x < len THEN x ELSE x - len
<1> DEFINE q == x \div len
<1>1. q \in Int /\ x % len \in Int /\ 0 <= x % len /\ x % len < len /\ x = (len * q) + (x % len)
  OBVIOUS
<1> HIDE DEF q
<1>2. CASE q <= -1
  <2>1. len * q <= -len
    BY <1>1, <1>2
  <2> QED BY <1>1, <2>1
<1>3. CASE q >= 2
  <2>1. len * q >= len + len
    BY <1>1, <1>3
  <2> QED BY <1>1, <2>1
<1>4. CASE q = 0
  <2>1. len * q = 0
    BY <1>4
  <2> QED BY <1>1, <2>1
<1>5. CASE q = 1
  <2>1. len * q = len
    BY <1>5
  <2> QED BY <1>1, <2>1
<1> QED BY <1>1, <1>2, <1>3, <1>4, <1>5

\* resolve_recipient picks an existing account other than the sender.
LEMMA RecipientDiffers ==
    ASSUME NEW len \in Nat, len >= 2, NEW from_idx \in 1..len, NEW raw \in Nat
    PROVE  /\ ResolveRecipient(raw, from_idx, len) \in 1..len
           /\ ResolveRecipient(raw, from_idx, len) # from_idx
<1> DEFINE r == raw % (len - 1)
           x == (from_idx - 1) + (1 + r)
<1>1. r \in Nat /\ r < len - 1
  OBVIOUS
<1>2. x \in Nat /\ x < len + len /\ from_idx <= x /\ x < from_idx + len - 1
  BY <1>1
<1>3. ResolveRecipient(raw, from_idx, len) = 1 + (x % len)
  BY DEF ResolveRecipient
<1> HIDE DEF x
<1>4. x % len = IF x < len THEN x ELSE x - len
  <2>1. len \in Nat \ {0} /\ x \in Nat /\ x < len + len
    BY <1>2
  <2> QED BY <2>1, ModStep, Zenon
<1> QED BY <1>2, <1>3, <1>4

\* resolve_nonce and resolve_amount yield u128 values.
LEMMA ResolvedNonceType ==
    ASSUME NEW kind \in NonceKinds, NEW current \in U128
    PROVE  ResolveNonce(kind, current) \in U128
BY MaxUAssumption, LockstepAssumption DEF ResolveNonce, NonceKinds, U128, WrappingAdd

\* resolve_amount returns a u128, whatever the kind: no arm of the match overflows.
LEMMA ResolvedAmountType ==
    ASSUME NEW kind \in AmountKinds, NEW bal \in U128
    PROVE  ResolveAmount(kind, bal) \in U128
<1>1. CASE kind.kind = "WithinBalance"
  <2>1. kind.raw \in Nat /\ kind.raw <= MaxU
    BY <1>1 DEF AmountKinds, U128
  <2> DEFINE m == SaturatingAdd(bal, 1)
  <2>2. m \in Nat /\ m >= 1 /\ m <= MaxU
    BY MaxUAssumption DEF SaturatingAdd, U128
  <2>3. ResolveAmount(kind, bal) = kind.raw % m
    BY <1>1 DEF ResolveAmount
  <2> HIDE DEF m
  <2>4. kind.raw % m \in Nat /\ kind.raw % m < m
    BY <2>1, <2>2
  <2> QED BY <2>2, <2>3, <2>4, MaxUAssumption DEF U128
<1>2. CASE kind.kind = "Excessive"
  <2>1. kind.raw \in Nat
    BY <1>2 DEF AmountKinds, U128
  <2>2. kind.raw % ExcessSpan \in Nat
    BY <2>1, LockstepAssumption
  <2> QED BY <1>2, <2>2, MaxUAssumption DEF ResolveAmount, SaturatingAdd, U128
<1>3. CASE kind.kind = "Zero"
  BY <1>3, MaxUAssumption DEF ResolveAmount, U128
<1>4. CASE kind.kind = "All"
  BY <1>4 DEF ResolveAmount
<1>5. CASE kind.kind = "Raw"
  BY <1>5 DEF ResolveAmount, AmountKinds
<1> QED BY <1>1, <1>2, <1>3, <1>4, <1>5 DEF AmountKinds
-----------------------------------------------------------------------------
\* The model starts from what genesis stores.
LEMMA GenesisAgrees ==
    ASSUME NEW accs \in FuzzStates
    PROVE  /\ Genesis(accs) \in States
           /\ NewModel(accs) \in [Ids(accs) -> Account]
           /\ \A id \in Ids(accs) : /\ NewModel(accs)[id].nonce = 0
                                    /\ Genesis(accs)[id] = NewModel(accs)[id]
<1>1. ASSUME NEW m \in DOMAIN accs
      PROVE  (CHOOSE i \in DOMAIN accs : accs[i].account_id = accs[m].account_id) = m
  BY FuzzStatesFacts DEF Distinct
<1>2. ASSUME NEW id \in Ids(accs)
      PROVE  /\ id \in AccountIds
             /\ Genesis(accs)[id] = NewModel(accs)[id]
             /\ NewModel(accs)[id].nonce = 0
  <2>1. PICK m \in DOMAIN accs : id = accs[m].account_id
    BY DEF Ids
  <2>2. NewModel(accs)[id] = Funded(accs[m].balance)
    BY <1>1, <2>1 DEF NewModel
  <2>3. Genesis(accs)[id] = Funded(accs[m].balance)
    BY <2>1, GenesisFacts
  <2> QED BY <2>2, <2>3, IdsFacts DEF Funded
<1>3. Genesis(accs) \in States
  BY GenesisFacts
<1>4. NewModel(accs) \in [Ids(accs) -> Account]
  BY <1>2, <1>3 DEF NewModel, States
<1> QED BY <1>2, <1>3, <1>4
-----------------------------------------------------------------------------
(***************************************************************************)
(* The inductive invariant.  The properties of Lockstep are not inductive: *)
(* that the ledger agrees with the model says nothing of the commands to   *)
(* come.  What a replay needs is that last_applied declares a nonce below  *)
(* the current one (LastConsumed); what the unchecked nonce + 1 of the     *)
(* model needs is that no nonce exceeds the number of commands executed    *)
(* (NoncesBounded); the history of accepted nonces is then determined by   *)
(* the model (HistoryExact).                                               *)
(***************************************************************************)
NoncesBounded == \A id \in Ids(fuzz_accs) : model[id].nonce <= step

LastConsumed ==
    \A tx \in last_applied : /\ tx.from \in Ids(fuzz_accs)
                             /\ tx.nonce < model[tx.from].nonce

Consumed(m, ids) == {p \in ids \X U128 : p[2] < m[p[1]].nonce}

HistoryExact == pc # "panicked" => applied = Consumed(model, Ids(fuzz_accs))

Agreement == pc # "panicked" => StateAgreement(state, model)

EnoughAccounts == pc = "loop" => Len(fuzz_accs) >= 2

IInv ==
    /\ TypeOK
    /\ EnoughAccounts
    /\ NoncesBounded
    /\ LastConsumed
    /\ HistoryExact
    /\ Agreement
    /\ ClockAheadOfLedger

\* Every transfer the grammar can express joins two distinct generated accounts.
LEMMA TransfersType ==
    ASSUME TypeOK, EnoughAccounts, pc = "loop", NEW tx \in Transfers
    PROVE  /\ tx \in Txs
           /\ tx.from \in Ids(fuzz_accs)
           /\ tx.to \in Ids(fuzz_accs)
           /\ tx.from # tx.to
<1>1. PICK from_idx \in DOMAIN fuzz_accs, to \in 0..MaxAccounts - 1,
           nonce \in NonceKinds, amount \in AmountKinds :
        tx = TransferTx(from_idx, to, nonce, amount)
  BY DEF Transfers
<1> DEFINE to_idx == ResolveRecipient(to, from_idx, Len(fuzz_accs))
           from_id == fuzz_accs[from_idx].account_id
           to_id == fuzz_accs[to_idx].account_id
<1>2. fuzz_accs \in FuzzStates
  BY DEF TypeOK
<1>3. Len(fuzz_accs) \in Nat /\ Len(fuzz_accs) >= 2 /\ from_idx \in 1..Len(fuzz_accs)
  BY <1>2, FuzzStatesFacts, GeneratorAssumption DEF EnoughAccounts
<1>4. to \in Nat
  BY GeneratorAssumption
<1>5. to_idx \in DOMAIN fuzz_accs /\ to_idx # from_idx
  BY <1>2, <1>3, <1>4, RecipientDiffers, FuzzStatesFacts
<1> HIDE DEF to_idx
<1>6. from_id \in Ids(fuzz_accs) /\ to_id \in Ids(fuzz_accs)
  BY <1>5 DEF Ids
<1>7. from_id # to_id
  BY <1>2, <1>5, FuzzStatesFacts DEF Distinct
<1>8. model[from_id] \in Account
  BY <1>6 DEF TypeOK
<1>9. ResolveNonce(nonce, model[from_id].nonce) \in U128
  BY <1>8, ResolvedNonceType DEF Account
<1>10. ResolveAmount(amount, model[from_id].balance) \in U128
  BY <1>8, ResolvedAmountType DEF Account
<1>11. tx = [from   |-> from_id,
             to     |-> to_id,
             nonce  |-> ResolveNonce(nonce, model[from_id].nonce),
             amount |-> ResolveAmount(amount, model[from_id].balance)]
  BY <1>1 DEF TransferTx, to_idx
<1>12. from_id \in AccountIds /\ to_id \in AccountIds
  BY <1>2, <1>6, IdsFacts
<1> HIDE DEF from_id, to_id
<1> QED BY <1>6, <1>7, <1>9, <1>10, <1>11, <1>12 DEF Txs

\* apply_transfer keeps the model well typed and moves one nonce by one.
LEMMA ApplyTransferFacts ==
    ASSUME TypeOK, NoncesBounded, step < MaxCmds,
           NEW tx \in Txs, tx.from \in Ids(fuzz_accs), tx.to \in Ids(fuzz_accs),
           tx.from # tx.to, Predict(model, tx)
    PROVE  LET m == ApplyTransfer(model, tx)
           IN /\ m \in [Ids(fuzz_accs) -> Account]
              /\ m[tx.from].nonce = model[tx.from].nonce + 1
              /\ m[tx.from].balance = model[tx.from].balance - tx.amount
              /\ m[tx.to].nonce = model[tx.to].nonce
              /\ m[tx.to].balance = model[tx.to].balance + tx.amount
              /\ \A id \in Ids(fuzz_accs) \ {tx.from, tx.to} : m[id] = model[id]
              /\ model[tx.from].nonce < MaxU
<1> DEFINE m == ApplyTransfer(model, tx)
           ids == Ids(fuzz_accs)
<1>1. model \in [ids -> Account] /\ step \in 0..MaxCmds
  BY DEF TypeOK
<1>2. /\ tx.amount \in U128
      /\ model[tx.from].balance \in U128 /\ model[tx.from].nonce \in U128
      /\ model[tx.to].balance \in U128 /\ model[tx.to].nonce \in U128
  BY <1>1 DEF Account, Txs
<1>3. model[tx.from].nonce < MaxU
  BY <1>1, <1>2, LockstepAssumption, MaxUAssumption DEF NoncesBounded, U128
<1>4. /\ model[tx.from].balance - tx.amount \in U128
      /\ model[tx.from].nonce + 1 \in U128
      /\ model[tx.to].balance + tx.amount \in U128
  BY <1>2, <1>3, MaxUAssumption DEF Predict, Overflows, U128
<1>5. /\ m[tx.from] = [balance |-> model[tx.from].balance - tx.amount,
                       nonce   |-> model[tx.from].nonce + 1]
      /\ m[tx.to] = [model[tx.to] EXCEPT !.balance = model[tx.to].balance + tx.amount]
      /\ \A id \in ids \ {tx.from, tx.to} : m[id] = model[id]
      /\ m = [id \in ids |-> m[id]]
  BY <1>1 DEF ApplyTransfer
<1> HIDE DEF m
<1>6. m[tx.from] \in Account /\ m[tx.to] \in Account
  BY <1>1, <1>2, <1>4, <1>5 DEF Account
<1>7. m \in [ids -> Account]
  <2>1. \A id \in ids : m[id] \in Account
    BY <1>1, <1>5, <1>6
  <2> QED BY <1>5, <2>1
<1>8. /\ m[tx.to].nonce = model[tx.to].nonce
      /\ m[tx.to].balance = model[tx.to].balance + tx.amount
  BY <1>1, <1>5 DEF Account
<1>9. /\ m[tx.from].nonce = model[tx.from].nonce + 1
      /\ m[tx.from].balance = model[tx.from].balance - tx.amount
  BY <1>5
<1> QED BY <1>3, <1>5, <1>7, <1>8, <1>9 DEF m
-----------------------------------------------------------------------------
\* The invariant holds when the loop starts: genesis state and model agree.
LEMMA InitInv == Init => IInv
<1> SUFFICES ASSUME Init PROVE IInv
  OBVIOUS
<1>1. fuzz_accs \in FuzzStates
  BY DEF Init
<1>2. /\ state \in States
      /\ model \in [Ids(fuzz_accs) -> Account]
      /\ \A id \in Ids(fuzz_accs) : model[id].nonce = 0 /\ state[id] = model[id]
  BY <1>1, GenesisAgrees DEF Init
<1>3. TypeOK
  <2>1. deviated \in BOOLEAN
    BY DEF Init
  <2>2. pc \in {"loop", "returned", "panicked"} /\ step \in 0..MaxCmds
    BY LockstepAssumption DEF Init
  <2> QED BY <1>1, <1>2, <2>1, <2>2 DEF Init, TypeOK
<1>4. EnoughAccounts
  BY DEF Init, EnoughAccounts
<1>5. NoncesBounded
  BY <1>2 DEF Init, NoncesBounded
<1>6. LastConsumed
  BY DEF Init, LastConsumed
<1>7. HistoryExact
  <2>1. Consumed(model, Ids(fuzz_accs)) = {}
    BY <1>2, MaxUAssumption DEF Consumed, U128
  <2> QED BY <2>1 DEF Init, HistoryExact
<1>8. Agreement
  BY <1>2 DEF Agreement, StateAgreement
<1>9. ClockAheadOfLedger
  BY DEF Init, ClockAheadOfLedger
<1> QED BY <1>3, <1>4, <1>5, <1>6, <1>7, <1>8, <1>9 DEF IInv

\* A command that leaves the model and the history alone.
LEMMA QuietCommand ==
    ASSUME IInv, NextCommand, UNCHANGED <<model, last_applied, applied>>,
           state' \in States, block_id' \in Nat, timestamp' \in Nat, executed_at' \in Nat,
           deviated' \in BOOLEAN, pc' \in {"loop", "panicked"},
           pc' = "loop" => StateAgreement(state', model) /\ executed_at' < block_id'
    PROVE  IInv'
<1> USE DEF IInv, NextCommand
<1>1. TypeOK'
  BY LockstepAssumption DEF TypeOK
<1>2. EnoughAccounts'
  BY DEF EnoughAccounts
<1>3. NoncesBounded'
  <2>1. ASSUME NEW id \in Ids(fuzz_accs) PROVE model[id].nonce <= step'
    <3>1. model[id].nonce \in U128 /\ step \in 0..MaxCmds /\ model[id].nonce <= step
      BY DEF TypeOK, Account, NoncesBounded
    <3> QED BY <3>1, MaxUAssumption, LockstepAssumption DEF U128
  <2> QED BY <2>1 DEF NoncesBounded
<1>4. LastConsumed'
  BY DEF LastConsumed
<1>5. HistoryExact'
  BY DEF HistoryExact, Consumed
<1>6. Agreement'
  BY DEF Agreement, StateAgreement
<1>7. ClockAheadOfLedger'
  BY DEF ClockAheadOfLedger
<1> QED BY <1>1, <1>2, <1>3, <1>4, <1>5, <1>6, <1>7

\* AdvanceBlock moves the clock only.
LEMMA AdvanceBlockInv ==
    ASSUME IInv, NEW jump \in 0..MaxJump, AdvanceBlock(jump)
    PROVE  IInv'
<1>1. block_id' \in Nat /\ timestamp' \in Nat /\ block_id' > block_id
  BY LockstepAssumption DEF IInv, TypeOK, AdvanceBlock, Conclude
<1>2. pc' = "loop" => StateAgreement(state', model) /\ executed_at' < block_id'
  BY <1>1 DEF IInv, TypeOK, AdvanceBlock, NextCommand, Conclude, ClockAheadOfLedger
<1> QED BY <1>1, <1>2, QuietCommand DEF IInv, TypeOK, AdvanceBlock, Conclude

\* ReplayLast with nothing to replay only counts the command.
LEMMA NothingToReplayInv ==
    ASSUME IInv, NothingToReplay
    PROVE  IInv'
<1>1. StateAgreement(state', model) /\ executed_at' < block_id'
  BY DEF IInv, NothingToReplay, NextCommand, Agreement, ClockAheadOfLedger, StateAgreement
<1> QED BY <1>1, QuietCommand DEF IInv, TypeOK, NothingToReplay, NextCommand

\* A replay either panics or leaves the model alone and is compared with it.
LEMMA ReplayLastInv ==
    ASSUME TypedLedger, IInv, ReplayLast
    PROVE  IInv'
<1>0. PICK tx \in last_applied : \E ans \in Outcomes(state, tx) :
        /\ state' = ans.post
        /\ \/ ans.ok /\ VerdictPanic
           \/ ~ans.ok /\ Conclude(1, ans.post, model) /\ UNCHANGED <<model, last_applied>>
  BY DEF ReplayLast
<1>1. PICK ans \in Outcomes(state, tx) :
        /\ state' = ans.post
        /\ \/ ans.ok /\ VerdictPanic
           \/ ~ans.ok /\ Conclude(1, ans.post, model) /\ UNCHANGED <<model, last_applied>>
  BY <1>0
<1>2. tx \in Txs /\ state \in States
  BY DEF IInv, TypeOK
<1>3. state' \in States
  BY <1>1, <1>2 DEF TypedLedger, Answers
<1>4. NextCommand /\ executed_at' = block_id /\ UNCHANGED applied /\ block_id \in Nat
      /\ timestamp \in Nat /\ deviated' \in BOOLEAN
  BY DEF ReplayLast, IInv, TypeOK
<1>5. CASE VerdictPanic
  BY <1>3, <1>4, <1>5, QuietCommand DEF VerdictPanic
<1>6. CASE Conclude(1, ans.post, model) /\ UNCHANGED <<model, last_applied>>
  BY <1>1, <1>3, <1>4, <1>6, QuietCommand DEF Conclude
<1> QED BY <1>1, <1>5, <1>6

\* Both verdicts accept: the model follows the transfer.
LEMMA AcceptedInv ==
    ASSUME IInv, NextCommand, NEW tx \in Transfers, NEW st \in States,
           Predict(model, tx),
           state' = st,
           model' = ApplyTransfer(model, tx),
           last_applied' = {tx},
           applied' = applied \cup {<<tx.from, tx.nonce>>},
           Conclude(1, st, model'),
           executed_at' = block_id, deviated' \in BOOLEAN
    PROVE  IInv'
<1> DEFINE ids == Ids(fuzz_accs)
<1> USE DEF NextCommand
<1>1. TypeOK /\ EnoughAccounts /\ NoncesBounded /\ pc = "loop" /\ step < MaxCmds
  BY DEF IInv
<1>2. /\ tx \in Txs
      /\ tx.from \in ids /\ tx.to \in ids /\ tx.from # tx.to
  BY <1>1, TransfersType
<1>3. /\ model' \in [ids -> Account]
      /\ model'[tx.from].nonce = model[tx.from].nonce + 1
      /\ \A id \in ids \ {tx.from} : model'[id].nonce = model[id].nonce
      /\ model[tx.from].nonce < MaxU
  BY <1>1, <1>2, ApplyTransferFacts
<1>4. tx.nonce = model[tx.from].nonce /\ tx.nonce \in U128 /\ tx.from \in AccountIds
  BY <1>2 DEF Predict, Txs
<1>5. fuzz_accs' = fuzz_accs /\ step' = step + 1 /\ step \in 0..MaxCmds
  BY <1>1 DEF TypeOK
<1>6. TypeOK'
  <2>1. block_id' \in Nat /\ timestamp' \in Nat /\ executed_at' \in Nat
        /\ pc' \in {"loop", "panicked"}
    BY <1>1 DEF Conclude, TypeOK
  <2>2. applied' \subseteq AccountIds \X U128
    BY <1>1, <1>4 DEF TypeOK
  <2>3. step' \in 0..MaxCmds
    BY <1>1, <1>5, LockstepAssumption
  <2> QED BY <1>1, <1>2, <1>3, <1>5, <2>1, <2>2, <2>3 DEF TypeOK
<1>7. EnoughAccounts'
  BY <1>1, <1>5 DEF EnoughAccounts
<1>8. NoncesBounded'
  <2>1. ASSUME NEW id \in ids PROVE model'[id].nonce <= step'
    <3>1. model[id].nonce \in U128 /\ model[id].nonce <= step
      BY <1>1 DEF TypeOK, Account, NoncesBounded
    <3> QED BY <1>2, <1>3, <1>5, <3>1, MaxUAssumption, LockstepAssumption DEF U128
  <2> QED BY <1>5, <2>1 DEF NoncesBounded
<1>9. LastConsumed'
  BY <1>2, <1>3, <1>4, <1>5, MaxUAssumption DEF LastConsumed, U128
<1>10. HistoryExact'
  <2>1. applied = Consumed(model, ids)
    BY <1>1 DEF IInv, HistoryExact
  <2>2. \A id \in ids : model[id].nonce \in U128
    BY <1>1 DEF TypeOK, Account
  <2>3. ASSUME NEW id \in ids, NEW k \in U128
        PROVE  k < model'[id].nonce <=> (k < model[id].nonce \/ <<id, k>> = <<tx.from, tx.nonce>>)
    BY <1>2, <1>3, <1>4, <2>2, MaxUAssumption DEF U128
  <2>4. Consumed(model', ids) = Consumed(model, ids) \cup {<<tx.from, tx.nonce>>}
    BY <1>2, <1>4, <2>3 DEF Consumed
  <2> QED BY <1>5, <2>1, <2>4 DEF HistoryExact
<1>11. Agreement'
  BY DEF Agreement, Conclude, StateAgreement
<1>12. ClockAheadOfLedger'
  BY <1>1 DEF ClockAheadOfLedger, Conclude, TypeOK
<1> QED BY <1>6, <1>7, <1>8, <1>9, <1>10, <1>11, <1>12 DEF IInv

\* The verdicts differ: the target panics with the model as it was.
LEMMA VerdictPanicInv ==
    ASSUME IInv, NextCommand, VerdictPanic, state' \in States, executed_at' \in Nat,
           deviated' \in BOOLEAN, applied' \subseteq AccountIds \X U128
    PROVE  IInv'
<1> USE DEF NextCommand, VerdictPanic
<1>1. TypeOK'
  BY LockstepAssumption DEF IInv, TypeOK
<1>2. NoncesBounded'
  <2>1. ASSUME NEW id \in Ids(fuzz_accs) PROVE model[id].nonce <= step'
    <3>1. model[id].nonce \in U128 /\ step \in 0..MaxCmds /\ model[id].nonce <= step
      BY DEF IInv, TypeOK, Account, NoncesBounded
    <3> QED BY <3>1, MaxUAssumption, LockstepAssumption DEF U128
  <2> QED BY <2>1 DEF NoncesBounded
<1>3. LastConsumed'
  BY DEF IInv, LastConsumed
<1>4. EnoughAccounts' /\ HistoryExact' /\ Agreement' /\ ClockAheadOfLedger'
  BY DEF EnoughAccounts, HistoryExact, Agreement, ClockAheadOfLedger
<1> QED BY <1>1, <1>2, <1>3, <1>4 DEF IInv

\* A transfer: the two verdicts agree, the model follows, the states are compared.
LEMMA TransferInv ==
    ASSUME TypedLedger, IInv, pc = "loop", NEW tx \in Transfers, Transfer(tx)
    PROVE  IInv'
<1>1. PICK ans \in Outcomes(state, tx) :
        /\ state' = ans.post
        /\ applied' = IF ans.ok THEN applied \cup {<<tx.from, tx.nonce>>} ELSE applied
        /\ \/ /\ ans.ok # Predict(model, tx)
              /\ VerdictPanic
           \/ /\ ans.ok /\ Predict(model, tx)
              /\ model' = ApplyTransfer(model, tx)
              /\ last_applied' = {tx}
              /\ Conclude(1, ans.post, model')
           \/ /\ ~ans.ok /\ ~Predict(model, tx)
              /\ UNCHANGED <<model, last_applied>>
              /\ Conclude(1, ans.post, model)
  BY DEF Transfer
<1>2. tx \in Txs /\ state \in States /\ tx.from \in AccountIds /\ tx.nonce \in U128
  BY TransfersType DEF IInv, TypeOK, Txs
<1>3. ans.post \in States /\ ans.ok \in BOOLEAN
  BY <1>1, <1>2 DEF TypedLedger, Answers
<1>4. /\ NextCommand
      /\ executed_at' = block_id
      /\ block_id \in Nat /\ timestamp \in Nat
      /\ applied \subseteq AccountIds \X U128
      /\ deviated' \in BOOLEAN
  BY DEF Transfer, IInv, TypeOK
<1>5. CASE VerdictPanic
  <2>1. applied' \subseteq AccountIds \X U128
    BY <1>1, <1>2, <1>4
  <2> QED BY <1>1, <1>3, <1>4, <1>5, <2>1, VerdictPanicInv
<1>6. CASE /\ ans.ok /\ Predict(model, tx)
           /\ model' = ApplyTransfer(model, tx)
           /\ last_applied' = {tx}
           /\ Conclude(1, ans.post, model')
  BY <1>1, <1>3, <1>4, <1>6, AcceptedInv
<1>7. CASE /\ ~ans.ok /\ ~Predict(model, tx)
           /\ UNCHANGED <<model, last_applied>>
           /\ Conclude(1, ans.post, model)
  BY <1>1, <1>3, <1>4, <1>7, QuietCommand DEF Conclude
<1> QED BY <1>1, <1>5, <1>6, <1>7

\* Returning changes the program counter only.
LEMMA ReturnInv == ASSUME IInv, Return PROVE IInv'
BY DEF IInv, Return, TypeOK, EnoughAccounts, NoncesBounded, LastConsumed, HistoryExact,
       Consumed, Agreement, StateAgreement, ClockAheadOfLedger

\* A stuttering step changes nothing.
LEMMA StutterInv == ASSUME IInv, UNCHANGED vars PROVE IInv'
BY DEF vars, IInv, TypeOK, EnoughAccounts, NoncesBounded, LastConsumed, HistoryExact,
       Consumed, Agreement, StateAgreement, ClockAheadOfLedger

\* Every step of the target preserves the invariant.
LEMMA StepInv == ASSUME TypedLedger, IInv, [Next]_vars PROVE IInv'
BY AdvanceBlockInv, NothingToReplayInv, ReplayLastInv, TransferInv, ReturnInv, StutterInv
   DEF Next
-----------------------------------------------------------------------------
(* Theorems that hold for any ledger that answers with a verdict and a state. *)

\* The inductive invariant holds in every reachable state.
THEOREM LockstepInvariant == ASSUME TypedLedger PROVE Spec => []IInv
<1>1. IInv /\ [Next]_vars => IInv'
  BY StepInv
<1> QED BY InitInv, <1>1, PTL DEF Spec

\* Every variable of the target keeps its type; in particular the unchecked
\* u128 arithmetic of Model::apply_transfer never leaves its range.
THEOREM LockstepTypeOK == ASSUME TypedLedger PROVE Spec => []TypeOK
<1>1. IInv => TypeOK
  BY DEF IInv
<1> QED BY LockstepInvariant, <1>1, PTL

\* Without a panic, each generated account has consumed its nonces in turn in
\* the ledger under test: assert_state_agreement after every command is enough.
THEOREM LockstepNonces == ASSUME TypedLedger PROVE Spec => []NoncesConsumedInTurn
<1>1. IInv => NoncesConsumedInTurn
  <2> SUFFICES ASSUME IInv, pc # "panicked"
               PROVE  applied = {p \in Ids(fuzz_accs) \X U128 : p[2] < state[p[1]].nonce}
    BY DEF NoncesConsumedInTurn
  <2>1. applied = Consumed(model, Ids(fuzz_accs))
    BY DEF IInv, HistoryExact
  <2>2. \A id \in Ids(fuzz_accs) : state[id].nonce = model[id].nonce
    BY DEF IInv, TypeOK, Agreement, StateAgreement
  <2> QED BY <2>1, <2>2 DEF Consumed
<1> QED BY LockstepInvariant, <1>1, PTL

\* Executions happen at increasing block ids.
THEOREM LockstepClock == ASSUME TypedLedger PROVE Spec => []ClockAheadOfLedger
<1>1. IInv => ClockAheadOfLedger
  BY DEF IInv
<1> QED BY LockstepInvariant, <1>1, PTL

-----------------------------------------------------------------------------
(***************************************************************************)
(* Conservation.  The invariant above says nothing of a total: a transfer  *)
(* has to be followed over a sum of all the accounts.  The reference model *)
(* conserves the drawn balances at all times, even after a panic, because  *)
(* it only ever changes by a transfer that it predicted.                   *)
(***************************************************************************)
ModelConserves == HeldTotal(model, Ids(fuzz_accs)) = DrawnTotal(fuzz_accs)

\* The model starts with what was drawn.
LEMMA ModelTotalInit == Init => ModelConserves
<1> SUFFICES ASSUME Init PROVE ModelConserves
  OBVIOUS
<1>1. fuzz_accs \in FuzzStates /\ model = NewModel(fuzz_accs)
  BY DEF Init
<1>2. \A id \in Ids(fuzz_accs) : model[id].balance = Genesis(fuzz_accs)[id].balance
  BY <1>1, GenesisAgrees
<1>3. HeldTotal(model, Ids(fuzz_accs)) = HeldTotal(Genesis(fuzz_accs), Ids(fuzz_accs))
  BY <1>2, HeldTotalCongruence
<1> QED BY <1>1, <1>3, GenesisTotal DEF ModelConserves

\* Only an accepted transfer that was predicted changes the model.
LEMMA ModelSteps ==
    ASSUME IInv, [Next]_vars
    PROVE  /\ fuzz_accs' = fuzz_accs
           /\ \/ model' = model
              \/ /\ pc = "loop" /\ step < MaxCmds
                 /\ \E tx \in Transfers : Predict(model, tx) /\ model' = ApplyTransfer(model, tx)
<1>1. CASE \E jump \in 0..MaxJump : AdvanceBlock(jump)
  BY <1>1 DEF AdvanceBlock, NextCommand
<1>2. CASE NothingToReplay
  BY <1>2 DEF NothingToReplay, NextCommand
<1>3. CASE ReplayLast
  BY <1>3 DEF ReplayLast, NextCommand, VerdictPanic
<1>4. ASSUME pc = "loop", NEW tx \in Transfers, Transfer(tx)
      PROVE  /\ fuzz_accs' = fuzz_accs /\ step < MaxCmds
             /\ \/ model' = model
                \/ Predict(model, tx) /\ model' = ApplyTransfer(model, tx)
  BY <1>4 DEF Transfer, NextCommand, VerdictPanic
<1>5. CASE Return
  BY <1>5 DEF Return
<1>6. CASE UNCHANGED vars
  BY <1>6 DEF vars
<1> QED BY <1>1, <1>2, <1>3, <1>4, <1>5, <1>6 DEF Next

\* Every step conserves the total of the model.
LEMMA ModelTotalStep ==
    ASSUME IInv, ModelConserves, [Next]_vars
    PROVE  ModelConserves'
<1> DEFINE ids == Ids(fuzz_accs)
<1>1. fuzz_accs' = fuzz_accs
  BY ModelSteps
<1>2. CASE model' = model
  BY <1>1, <1>2 DEF ModelConserves
<1>3. ASSUME pc = "loop", step < MaxCmds, NEW tx \in Transfers, Predict(model, tx),
             model' = ApplyTransfer(model, tx)
      PROVE  HeldTotal(model', ids) = HeldTotal(model, ids)
  <2>1. TypeOK /\ EnoughAccounts /\ NoncesBounded
    BY DEF IInv
  <2>2. tx \in Txs /\ tx.from \in ids /\ tx.to \in ids /\ tx.from # tx.to /\ tx.amount \in U128
    BY <1>3, <2>1, TransfersType DEF Txs
  <2>3. /\ model'[tx.from].balance = model[tx.from].balance - tx.amount
        /\ model'[tx.to].balance = model[tx.to].balance + tx.amount
        /\ \A id \in ids \ {tx.from, tx.to} : model'[id].balance = model[id].balance
    BY <1>3, <2>1, <2>2, ApplyTransferFacts
  <2>4. IsFiniteSet(ids) /\ \A id \in ids : model[id] \in Account
    BY <2>1, FuzzStatesFinite DEF TypeOK
  <2> HIDE DEF ids
  <2> QED BY <2>2, <2>3, <2>4, TransferConserves
<1>4. HeldTotal(model', ids) = HeldTotal(model, ids)
  BY <1>2, <1>3, ModelSteps
<1> QED BY <1>1, <1>4 DEF ModelConserves

\* The reference model conserves the total.
THEOREM LockstepModelConserves == ASSUME TypedLedger PROVE Spec => []ModelConserves
<1>1. IInv /\ ModelConserves /\ [Next]_vars => ModelConserves'
  BY ModelTotalStep
<1> QED BY LockstepInvariant, ModelTotalInit, <1>1, PTL DEF Spec

\* Whatever ledger is linked, a run that has not panicked has conserved the native
\* balance: assert_state_agreement compares every term of the sum.
THEOREM LockstepTotalConserved == ASSUME TypedLedger PROVE Spec => []TotalConserved
<1>1. IInv /\ ModelConserves => TotalConserved
  <2> SUFFICES ASSUME IInv, ModelConserves, pc # "panicked"
               PROVE  HeldTotal(state, Ids(fuzz_accs)) = DrawnTotal(fuzz_accs)
    BY DEF TotalConserved, HeldTotal, DrawnTotal
  <2>1. \A id \in Ids(fuzz_accs) : state[id].balance = model[id].balance
    BY DEF IInv, TypeOK, Agreement, StateAgreement
  <2>2. HeldTotal(state, Ids(fuzz_accs)) = HeldTotal(model, Ids(fuzz_accs))
    BY <2>1, HeldTotalCongruence
  <2> QED BY <2>2 DEF ModelConserves
<1> QED BY LockstepInvariant, LockstepModelConserves, <1>1, PTL
-----------------------------------------------------------------------------
(* The command grammar. *)

\* u128::MAX leaves the remainder 7 when divided by 8: the capped balances of all
\* the accounts together stay below u128::MAX, not just at it.
CapHasRemainder == MaxU % CapDivisor # 0

\* Then no account can hold u128::MAX, and no two accounts more than that.
LEMMA BalancesBelowMax ==
    ASSUME CapHasRemainder, TypeOK, ModelConserves,
           NEW a \in Ids(fuzz_accs), NEW b \in Ids(fuzz_accs), a # b
    PROVE  /\ model[a].balance + model[b].balance <= MaxU
           /\ model[a].balance < MaxU
<1> DEFINE ids == Ids(fuzz_accs)
           F == [id \in ids |-> model[id].balance]
<1>1. IsFiniteSet(ids) /\ fuzz_accs \in FuzzStates
  BY FuzzStatesFinite DEF TypeOK
<1>2. \A id \in ids : F[id] \in 0..MaxU /\ F[id] \in Int
  BY MaxUAssumption DEF TypeOK, Account, U128
<1>3. HeldTotal(model, ids) = SumFunctionOnSet(F, ids)
  BY DEF HeldTotal, SumFunction
<1>4. F[a] = model[a].balance /\ F[b] = model[b].balance
  OBVIOUS
<1>5. HeldTotal(model, ids) < MaxU
  BY <1>1, DrawnBelowMax DEF ModelConserves, CapHasRemainder
<1> HIDE DEF F, ids
<1>6. a \in ids /\ b \in ids
  BY DEF ids
<1>7. SumFunctionOnSet(F, ids) = F[a] + SumFunctionOnSet(F, ids \ {a})
  BY <1>1, <1>2, <1>6, SumAny
<1>8. SumFunctionOnSet(F, ids \ {a}) = F[b] + SumFunctionOnSet(F, (ids \ {a}) \ {b})
  <2>1. IsFiniteSet(ids \ {a}) /\ b \in ids \ {a} /\ \A id \in ids \ {a} : F[id] \in Int
    BY <1>1, <1>2, <1>6, FS_Subset
  <2> QED BY <2>1, SumAny
<1>9. SumFunctionOnSet(F, (ids \ {a}) \ {b}) \in Nat
  <2> DEFINE R == (ids \ {a}) \ {b}
  <2>1. IsFiniteSet(R) /\ MaxU \in Nat /\ \A id \in R : F[id] \in 0..MaxU
    BY <1>1, <1>2, FS_Subset, MaxUAssumption
  <2> HIDE DEF R
  <2>2. SumFunctionOnSet(F, R) \in Nat
    BY <2>1, SumBound
  <2> QED BY <2>2 DEF R
<1>10. F[a] \in 0..MaxU /\ F[b] \in 0..MaxU
  BY <1>2, <1>6
<1> QED BY <1>3, <1>4, <1>5, <1>7, <1>8, <1>9, <1>10, MaxUAssumption

\* What each kind of nonce and amount resolves to.
LEMMA ResolvedKinds ==
    ASSUME NEW current \in U128, NEW bal \in U128, bal < MaxU
    PROVE  /\ ResolveNonce([kind |-> "Correct"], current) = current
           /\ \A nonce \in NonceKinds : nonce.kind = "Off" =>
                  ResolveNonce(nonce, current) # current
           /\ \A amount \in AmountKinds : amount.kind \in {"Zero", "All", "WithinBalance"} =>
                  ResolveAmount(amount, bal) \in 0..bal
           /\ \A amount \in AmountKinds : amount.kind = "Excessive" =>
                  ResolveAmount(amount, bal) > bal
<1>1. bal \in Nat /\ bal + 1 <= MaxU /\ MaxU \in Nat /\ current \in 0..MaxU
  BY MaxUAssumption DEF U128
<1>2. ResolveNonce([kind |-> "Correct"], current) = current
  BY DEF ResolveNonce
<1>3. ASSUME NEW nonce \in NonceKinds, nonce.kind = "Off"
      PROVE  ResolveNonce(nonce, current) # current
  <2>1. nonce.d \in 0..MaxDelta
    BY <1>3 DEF NonceKinds
  <2> DEFINE d == IF nonce.d = 0 THEN 1 ELSE nonce.d
  <2>2. d \in 1..MaxU
    BY <2>1, <1>1, LockstepAssumption
  <2>3. ResolveNonce(nonce, current) = WrappingAdd(current, d)
    BY <1>3 DEF ResolveNonce
  <2> HIDE DEF d
  <2> QED BY <1>1, <2>2, <2>3 DEF WrappingAdd
<1>4. ASSUME NEW amount \in AmountKinds, amount.kind \in {"Zero", "All", "WithinBalance"}
      PROVE  ResolveAmount(amount, bal) \in 0..bal
  <2>1. CASE amount.kind = "Zero"
    BY <1>1, <2>1 DEF ResolveAmount
  <2>2. CASE amount.kind = "All"
    BY <1>1, <2>2 DEF ResolveAmount
  <2>3. CASE amount.kind = "WithinBalance"
    <3>1. ResolveAmount(amount, bal) = amount.raw % (bal + 1)
      BY <1>1, <2>3 DEF ResolveAmount, SaturatingAdd
    <3>2. amount.raw \in Nat
      BY <2>3 DEF AmountKinds, U128
    <3> QED BY <1>1, <3>1, <3>2
  <2> QED BY <1>4, <2>1, <2>2, <2>3
<1>5. ASSUME NEW amount \in AmountKinds, amount.kind = "Excessive"
      PROVE  ResolveAmount(amount, bal) > bal
  <2>1. amount.raw \in Nat
    BY <1>5 DEF AmountKinds, U128
  <2>2. amount.raw % ExcessSpan \in Nat
    BY <2>1, LockstepAssumption
  <2>3. ResolveAmount(amount, bal) = SaturatingAdd(bal + 1, amount.raw % ExcessSpan)
    BY <1>1, <1>5 DEF ResolveAmount, SaturatingAdd
  <2> QED BY <1>1, <2>2, <2>3 DEF SaturatingAdd
<1> QED BY <1>2, <1>3, <1>4, <1>5

\* Whatever ledger is linked, each kind of the grammar reaches the path its comment
\* promises.  This rests on the remainder of the cap: were u128::MAX a multiple of
\* the divisor, one account could come to hold all of it and Excessive, which
\* saturates there, would be accepted.
THEOREM LockstepKinds ==
    ASSUME TypedLedger, CapHasRemainder
    PROVE  Spec => []KindsReachTheirPath
<1>1. ASSUME IInv, ModelConserves, pc = "loop",
             NEW from_idx \in DOMAIN fuzz_accs, NEW to \in 0..MaxAccounts - 1
      PROVE  LET Accepted(nonce, amount) ==
                     Predict(model, TransferTx(from_idx, to, nonce, amount))
             IN /\ \A amount \in AmountKinds : amount.kind # "Raw" =>
                       (Accepted([kind |-> "Correct"], amount) <=> amount.kind # "Excessive")
                /\ \A nonce \in NonceKinds : nonce.kind = "Off" =>
                       ~Accepted(nonce, [kind |-> "Zero"])
  <2> DEFINE from_id == fuzz_accs[from_idx].account_id
             to_idx == ResolveRecipient(to, from_idx, Len(fuzz_accs))
             to_id == fuzz_accs[to_idx].account_id
             current == model[from_id].nonce
             bal == model[from_id].balance
  <2>1. TypeOK /\ EnoughAccounts /\ fuzz_accs \in FuzzStates
    BY <1>1 DEF IInv, TypeOK
  <2>2. from_id \in Ids(fuzz_accs) /\ to_id \in Ids(fuzz_accs) /\ from_id # to_id
    <3>1. Len(fuzz_accs) \in Nat /\ Len(fuzz_accs) >= 2 /\ from_idx \in 1..Len(fuzz_accs)
          /\ to \in Nat
      BY <1>1, <2>1, FuzzStatesFacts, GeneratorAssumption DEF EnoughAccounts
    <3>2. to_idx \in DOMAIN fuzz_accs /\ to_idx # from_idx
      BY <2>1, <3>1, RecipientDiffers, FuzzStatesFacts
    <3> HIDE DEF to_idx
    <3> QED BY <2>1, <3>2, FuzzStatesFacts DEF Ids, Distinct
  <2>3. \A nonce, amount :
          TransferTx(from_idx, to, nonce, amount) =
              [from |-> from_id, to |-> to_id, nonce |-> ResolveNonce(nonce, current),
               amount |-> ResolveAmount(amount, bal)]
    BY DEF TransferTx
  <2>4. model[from_id] \in Account /\ model[to_id] \in Account
    BY <2>1, <2>2 DEF TypeOK
  <2>5. /\ current \in U128 /\ bal \in U128 /\ model[to_id].balance \in U128
    BY <2>4 DEF Account
  <2>6. bal + model[to_id].balance <= MaxU /\ bal < MaxU
    BY <1>1, <2>1, <2>2, BalancesBelowMax
  <2> HIDE DEF from_id, to_id, to_idx
  <2>7. \A nonce, amount :
          Predict(model, TransferTx(from_idx, to, nonce, amount)) <=>
              /\ ResolveNonce(nonce, current) = current
              /\ ResolveAmount(amount, bal) <= bal
              /\ ~Overflows(model[to_id].balance, ResolveAmount(amount, bal))
    BY <2>3 DEF Predict
  <2> DEFINE held == model[to_id].balance
  <2> HIDE DEF current, bal, held
  <2>8. ASSUME NEW amount \in AmountKinds, amount.kind # "Raw"
        PROVE  Predict(model, TransferTx(from_idx, to, [kind |-> "Correct"], amount))
                   <=> amount.kind # "Excessive"
    <3>1. CASE amount.kind = "Excessive"
      <4>1. ResolveAmount(amount, bal) > bal /\ ResolveAmount(amount, bal) \in U128
        BY <2>5, <2>6, <3>1, ResolvedKinds, ResolvedAmountType
      <4>2. ~(ResolveAmount(amount, bal) <= bal)
        BY <2>5, <4>1, MaxUAssumption DEF U128
      <4> QED BY <2>7, <3>1, <4>2
    <3>2. CASE amount.kind \in {"Zero", "All", "WithinBalance"}
      <4>1. ResolveAmount(amount, bal) \in 0..bal
        BY <2>5, <2>6, <3>2, ResolvedKinds
      <4>2. /\ ResolveAmount(amount, bal) <= bal
            /\ ~Overflows(held, ResolveAmount(amount, bal))
        BY <2>5, <2>6, <4>1, MaxUAssumption DEF U128, Overflows, held
      <4>3. ResolveNonce([kind |-> "Correct"], current) = current
        BY <2>5, <2>6, ResolvedKinds
      <4> QED BY <2>7, <3>2, <4>2, <4>3 DEF held
    <3>3. amount.kind \in {"Zero", "All", "WithinBalance", "Excessive"}
      BY <2>8 DEF AmountKinds
    <3> QED BY <3>1, <3>2, <3>3
  <2>9. ASSUME NEW nonce \in NonceKinds, nonce.kind = "Off"
        PROVE  ~Predict(model, TransferTx(from_idx, to, nonce, [kind |-> "Zero"]))
    <3>1. ResolveNonce(nonce, current) # current
      BY <2>5, <2>6, <2>9, ResolvedKinds
    <3> QED BY <2>7, <3>1
  <2> QED BY <2>8, <2>9
<1>2. IInv /\ ModelConserves => KindsReachTheirPath
  BY <1>1 DEF KindsReachTheirPath
<1> QED BY LockstepInvariant, LockstepModelConserves, <1>2, PTL

-----------------------------------------------------------------------------
(* The oracle is sound for a ledger that follows the rules. *)

\* A ledger that follows the rules answers with a verdict and a state.
LEMMA FaithfulIsTyped == FaithfulLedger => TypedLedger
<1> SUFFICES ASSUME FaithfulLedger, NEW st \in States, NEW tx \in Txs
             PROVE  Execute(st, tx) \in Answers
  BY DEF FaithfulLedger, TypedLedger
<1> QED BY AppliedFacts DEF Execute, Answers

\* The rules refuse a replay: its nonce is below the current one.
LEMMA ReplayRefused ==
    ASSUME IInv, pc # "panicked", NEW tx \in last_applied
    PROVE  ~Execute(state, tx).ok /\ StateAgreement(Execute(state, tx).post, model)
<1>1. tx \in Txs /\ state \in States
  BY DEF IInv, TypeOK
<1>3. StateAgreement(state, model)
  BY DEF IInv, Agreement
<1>4. tx.from \in Ids(fuzz_accs) /\ tx.nonce < model[tx.from].nonce
  BY DEF IInv, LastConsumed
<1>5. tx.nonce \in U128 /\ model[tx.from].nonce \in U128
      /\ state[tx.from].nonce = model[tx.from].nonce
  BY <1>1, <1>3, <1>4 DEF IInv, TypeOK, Account, Txs, StateAgreement
<1>6. ~Accepts(state, tx)
  BY <1>4, <1>5, MaxUAssumption DEF Accepts, U128
<1> QED BY <1>3, <1>6 DEF Execute

\* The reference model predicts the verdict of the rules, and follows them.
LEMMA PredictionExact ==
    ASSUME IInv, pc = "loop", step < MaxCmds, NEW tx \in Transfers,
           NEW ans, ans = Execute(state, tx)
    PROVE  /\ ans.ok = Predict(model, tx)
           /\ ans.ok => StateAgreement(ans.post, ApplyTransfer(model, tx))
           /\ ~ans.ok => StateAgreement(ans.post, model)
<1> DEFINE ids == Ids(fuzz_accs)
<1>1. TypeOK /\ EnoughAccounts /\ NoncesBounded /\ StateAgreement(state, model)
  BY DEF IInv, Agreement
<1>2. /\ tx \in Txs /\ tx # UnsignedTx
      /\ tx.from \in ids /\ tx.to \in ids /\ tx.from # tx.to
  BY <1>1, TransfersType, UnsignedIsNoTransfer
<1>3. ids \subseteq AccountIds /\ ids \cap Reserved = {}
  BY <1>1, IdsFacts DEF TypeOK
<1>4. ans = Execute(state, tx)
  OBVIOUS
<1>5. DOMAIN model = ids
  BY <1>1 DEF TypeOK
<1>6. \A id \in ids : state[id].balance = model[id].balance /\ state[id].nonce = model[id].nonce
  BY <1>1, <1>5 DEF StateAgreement
<1>7. Accepts(state, tx) <=> Predict(model, tx)
  BY <1>2, <1>3, <1>6 DEF Accepts, Predict
<1>8. CASE ~Accepts(state, tx)
  BY <1>1, <1>4, <1>7, <1>8 DEF Execute, Predict
<1>9. CASE Accepts(state, tx)
  <2> DEFINE m == ApplyTransfer(model, tx)
             post == Applied(state, tx)
  <2>1. ans.ok = TRUE /\ ans.post = post /\ Predict(model, tx) = TRUE
    BY <1>4, <1>7, <1>9 DEF Execute, Predict
  <2>2. state \in States /\ Predict(model, tx)
    BY <1>1, <1>7, <1>9 DEF TypeOK
  <2>3. /\ post[tx.from].balance = state[tx.from].balance - tx.amount
        /\ post[tx.from].nonce = WrappingAdd(state[tx.from].nonce, 1)
        /\ post[tx.to].balance = state[tx.to].balance + tx.amount
        /\ post[tx.to].nonce = state[tx.to].nonce
        /\ \A id \in AccountIds \ {tx.from, tx.to} : post[id] = state[id]
    BY <1>2, <1>9, <2>2, AppliedFacts
  <2>4. /\ m \in [ids -> Account]
        /\ m[tx.from].nonce = model[tx.from].nonce + 1
        /\ m[tx.from].balance = model[tx.from].balance - tx.amount
        /\ m[tx.to].nonce = model[tx.to].nonce
        /\ m[tx.to].balance = model[tx.to].balance + tx.amount
        /\ \A id \in ids \ {tx.from, tx.to} : m[id] = model[id]
        /\ model[tx.from].nonce < MaxU
    BY <1>1, <1>2, <2>2, ApplyTransferFacts
  <2>5. model[tx.from].nonce \in U128
    BY <1>1, <1>2 DEF TypeOK, Account
  <2>6. WrappingAdd(model[tx.from].nonce, 1) = model[tx.from].nonce + 1
    BY <2>4, <2>5, MaxUAssumption DEF WrappingAdd, U128
  <2> HIDE DEF m, post
  <2>7. ASSUME NEW id \in ids
        PROVE  post[id].balance = m[id].balance /\ post[id].nonce = m[id].nonce
    <3>1. CASE id = tx.from
      BY <1>2, <1>6, <2>3, <2>4, <2>6, <3>1
    <3>2. CASE id = tx.to
      BY <1>2, <1>6, <2>3, <2>4, <3>2
    <3>3. CASE id \notin {tx.from, tx.to}
      BY <1>3, <1>6, <2>3, <2>4, <3>3
    <3> QED BY <3>1, <3>2, <3>3
  <2>8. StateAgreement(post, m)
    BY <2>4, <2>7 DEF StateAgreement
  <2> QED BY <2>1, <2>8 DEF m
<1> QED BY <1>8, <1>9

\* A step that panics is one in which the ledger deviates, or comes after one.
LEMMA StepSound ==
    ASSUME IInv, OracleSound, [Next]_vars
    PROVE  OracleSound'
<1> SUFFICES ASSUME ~deviated', pc' = "panicked" PROVE FALSE
  BY DEF OracleSound
<1>1. ~deviated
  BY DEF Next, AdvanceBlock, NothingToReplay, ReplayLast, Transfer, Return, vars
<1>2. pc # "panicked" /\ StateAgreement(state, model)
  BY <1>1 DEF IInv, Agreement, OracleSound
<1>3. ASSUME NEW jump \in 0..MaxJump, AdvanceBlock(jump) PROVE FALSE
  BY <1>2, <1>3 DEF AdvanceBlock, Conclude
<1>4. CASE NothingToReplay
  BY <1>2, <1>4 DEF NothingToReplay
<1>5. CASE ReplayLast
  <2>1. PICK tx \in last_applied : \E ans \in Outcomes(state, tx) :
          /\ deviated' = (deviated \/ ans # Execute(state, tx))
          /\ ans.ok \/ Conclude(1, ans.post, model)
    BY <1>5 DEF ReplayLast
  <2>2. ~Execute(state, tx).ok /\ StateAgreement(Execute(state, tx).post, model)
    BY <1>2, ReplayRefused
  <2> QED BY <2>1, <2>2 DEF Conclude
<1>6. ASSUME pc = "loop", NEW tx \in Transfers, Transfer(tx) PROVE FALSE
  <2>1. step < MaxCmds
    BY <1>6 DEF Transfer, NextCommand
  <2>2. PICK ans \in Outcomes(state, tx) :
          /\ deviated' = (deviated \/ ans # Execute(state, tx))
          /\ \/ ans.ok # Predict(model, tx)
             \/ /\ ans.ok
                /\ model' = ApplyTransfer(model, tx)
                /\ Conclude(1, ans.post, model')
             \/ /\ ~ans.ok
                /\ Conclude(1, ans.post, model)
    BY <1>6 DEF Transfer
  <2>3. ans = Execute(state, tx)
    BY <2>2
  <2>4. /\ ans.ok = Predict(model, tx)
        /\ ans.ok => StateAgreement(ans.post, ApplyTransfer(model, tx))
        /\ ~ans.ok => StateAgreement(ans.post, model)
    BY <1>6, <2>1, <2>3, PredictionExact
  <2> QED BY <2>2, <2>4 DEF Conclude
<1>7. CASE Return
  BY <1>7 DEF Return
<1>8. CASE UNCHANGED vars
  BY <1>2, <1>8 DEF vars
<1> QED BY <1>3, <1>4, <1>5, <1>6, <1>7, <1>8 DEF Next

\* Whatever ledger is linked, fuzz_stateful_model_lockstep panics only if the ledger
\* has not followed the rules, for all accounts, schedules and widths of integers.
THEOREM LockstepOracleSound == ASSUME TypedLedger PROVE Spec => []OracleSound
<1>1. Init => OracleSound
  BY DEF Init, OracleSound
<1>2. IInv /\ OracleSound /\ [Next]_vars => OracleSound'
  BY StepSound
<1> QED BY <1>1, <1>2, LockstepInvariant, PTL DEF Spec

\* A ledger that follows the rules never deviates, so the target never panics.
THEOREM LockstepFaithfulNeverAccused ==
    ASSUME FaithfulLedger PROVE Spec => [](pc # "panicked")
<1>1. TypedLedger
  BY FaithfulIsTyped
<1>2. Init => ~deviated
  BY DEF Init
<1>3. IInv /\ ~deviated /\ [Next]_vars => ~deviated'
  <2> SUFFICES ASSUME IInv, ~deviated, [Next]_vars PROVE ~deviated'
    OBVIOUS
  <2>1. CASE ReplayLast
    <3>1. PICK tx \in last_applied : \E ans \in Outcomes(state, tx) :
            deviated' = (deviated \/ ans # Execute(state, tx))
      BY <2>1 DEF ReplayLast
    <3>2. tx \in Txs /\ state \in States
      BY DEF IInv, TypeOK
    <3> QED BY <3>1, <3>2 DEF FaithfulLedger
  <2>2. ASSUME pc = "loop", NEW tx \in Transfers, Transfer(tx) PROVE ~deviated'
    <3>1. PICK ans \in Outcomes(state, tx) :
            deviated' = (deviated \/ ans # Execute(state, tx))
      BY <2>2 DEF Transfer
    <3>2. tx \in Txs /\ state \in States
      BY <2>2, TransfersType DEF IInv, TypeOK
    <3> QED BY <3>1, <3>2 DEF FaithfulLedger
  <2> QED BY <2>1, <2>2 DEF Next, AdvanceBlock, NothingToReplay, Return, vars
<1>4. OracleSound /\ ~deviated => pc # "panicked"
  BY DEF OracleSound
<1>5. Spec => []IInv /\ []OracleSound
  BY <1>1, LockstepInvariant, LockstepOracleSound
<1> QED BY <1>2, <1>3, <1>4, <1>5, PTL DEF Spec
-----------------------------------------------------------------------------
(* The refinement of NativeLedger. *)

\* The ledger's view of the generated accounts, as the abstract variables.
AbsBalance == [id \in Ids(fuzz_accs) |-> state[id].balance]

AbsNonce == [id \in Ids(fuzz_accs) |-> state[id].nonce]

\* The accounts the generator returned are an initial ledger.
LEMMA InitImplements == Init => Certified!Init
<1> SUFFICES ASSUME Init PROVE Certified!Init
  OBVIOUS
<1> DEFINE ids == Ids(fuzz_accs)
<1>1. fuzz_accs \in FuzzStates
  BY DEF Init
<1>2. ids \in SUBSET AccountIds /\ \A id \in ids : state[id] \in Account /\ state[id].nonce = 0
  BY <1>1, GenesisAgrees, IdsFacts DEF Init
<1>3. [id \in ids |-> state[id].balance] \in [ids -> 0..MaxU]
  BY <1>2 DEF Account, U128
<1>4. [id \in ids |-> state[id].nonce] = [id \in ids |-> 0]
  BY <1>2
<1>5. (pc = "panicked") = FALSE
  BY DEF Init
<1> QED BY <1>2, <1>3, <1>4, <1>5 DEF Certified!Init

\* Two states that agree with one model show the owners the same ledger.
LEMMA SameView ==
    ASSUME TypeOK, StateAgreement(state, model),
           NEW st, StateAgreement(st, model)
    PROVE  /\ [id \in Ids(fuzz_accs) |-> st[id].balance] = AbsBalance
           /\ [id \in Ids(fuzz_accs) |-> st[id].nonce] = AbsNonce
BY DEF StateAgreement, TypeOK, AbsBalance, AbsNonce

\* A step after which the model is as it was: the owners see nothing, or a report.
LEMMA QuietImplements ==
    ASSUME IInv, IInv', pc = "loop", UNCHANGED <<fuzz_accs, model>>
    PROVE  [Certified!Next]_(Certified!ledgerVars)
<1>1. CASE pc' = "panicked"
  <2>1. ~(pc = "panicked") /\ (pc = "panicked")' = TRUE
    BY <1>1
  <2> QED BY <2>1 DEF Certified!Next
<1>2. CASE pc' # "panicked"
  <2>1. TypeOK /\ StateAgreement(state, model) /\ StateAgreement(state', model)
    BY <1>2 DEF IInv, Agreement, StateAgreement
  <2>2. /\ [id \in Ids(fuzz_accs) |-> state'[id].balance] = AbsBalance
        /\ [id \in Ids(fuzz_accs) |-> state'[id].nonce] = AbsNonce
    BY <2>1, SameView
  <2>3. UNCHANGED <<AbsBalance, AbsNonce, pc = "panicked">>
    BY <1>2, <2>2 DEF AbsBalance, AbsNonce
  <2> QED BY <2>3 DEF AbsBalance, AbsNonce, Certified!ledgerVars
<1> QED BY <1>1, <1>2

\* A transfer both verdicts accept, after which the states agree, is a transfer of
\* the abstract ledger.
LEMMA TransferImplements ==
    ASSUME IInv, IInv', NextCommand, NEW tx \in Transfers, Predict(model, tx),
           model' = ApplyTransfer(model, tx), pc' # "panicked"
    PROVE  Certified!Next
<1> DEFINE ids == Ids(fuzz_accs)
<1>1. /\ TypeOK /\ EnoughAccounts /\ NoncesBounded /\ pc = "loop" /\ step < MaxCmds
      /\ StateAgreement(state, model) /\ StateAgreement(state', model')
      /\ fuzz_accs' = fuzz_accs
  BY DEF IInv, NextCommand, Agreement, StateAgreement
<1>2. /\ tx \in Txs /\ tx.amount \in U128
      /\ tx.from \in ids /\ tx.to \in ids /\ tx.from # tx.to
  BY <1>1, TransfersType DEF Txs
<1>3. /\ model' \in [ids -> Account]
      /\ model'[tx.from].nonce = model[tx.from].nonce + 1
      /\ model'[tx.from].balance = model[tx.from].balance - tx.amount
      /\ model'[tx.to].nonce = model[tx.to].nonce
      /\ model'[tx.to].balance = model[tx.to].balance + tx.amount
      /\ \A id \in ids \ {tx.from, tx.to} : model'[id] = model[id]
  BY <1>1, <1>2, ApplyTransferFacts
<1>4. \A id \in ids : /\ state[id].balance = model[id].balance
                       /\ state[id].nonce = model[id].nonce
  BY <1>1 DEF StateAgreement, TypeOK
<1>5. \A id \in ids : /\ state'[id].balance = model'[id].balance
                       /\ state'[id].nonce = model'[id].nonce
  BY <1>1, <1>3 DEF StateAgreement
<1>6. AbsBalance' = [AbsBalance EXCEPT ![tx.from] = @ - tx.amount, ![tx.to] = @ + tx.amount]
  BY <1>1, <1>2, <1>3, <1>4, <1>5 DEF AbsBalance
<1>7. AbsNonce' = [AbsNonce EXCEPT ![tx.from] = @ + 1]
  BY <1>1, <1>2, <1>3, <1>4, <1>5 DEF AbsNonce
<1>8. /\ tx.amount <= AbsBalance[tx.from]
      /\ AbsBalance[tx.to] + tx.amount <= MaxU
  <2>1. /\ AbsBalance[tx.from] = model[tx.from].balance
        /\ AbsBalance[tx.to] = model[tx.to].balance
    BY <1>2, <1>4 DEF AbsBalance
  <2>2. model[tx.to].balance \in U128 /\ model[tx.from].balance \in U128
    BY <1>1, <1>2 DEF TypeOK, Account
  <2> QED BY <1>2, <2>1, <2>2, MaxUAssumption DEF Predict, Overflows, U128
<1>9. (pc = "panicked")' = FALSE /\ ~(pc = "panicked")
  BY <1>1
<1>10. Certified!Transfer(tx.from, tx.to, tx.amount)
  BY <1>2, <1>6, <1>7, <1>8, <1>9 DEF AbsBalance, AbsNonce, Certified!Transfer
<1>11. tx.from \in DOMAIN AbsBalance /\ tx.to \in DOMAIN AbsBalance /\ tx.amount \in 0..MaxU
  BY <1>2 DEF AbsBalance, U128
<1> QED BY <1>9, <1>10, <1>11 DEF AbsBalance, Certified!Next

\* Every step of the target is a step of the abstract ledger, or none.
LEMMA StepImplements ==
    ASSUME IInv, IInv', [Next]_vars
    PROVE  [Certified!Next]_(Certified!ledgerVars)
<1>1. ASSUME NEW jump \in 0..MaxJump, AdvanceBlock(jump)
      PROVE  [Certified!Next]_(Certified!ledgerVars)
  BY <1>1, QuietImplements DEF AdvanceBlock, NextCommand
<1>2. CASE NothingToReplay
  BY <1>2, QuietImplements DEF NothingToReplay, NextCommand
<1>3. CASE ReplayLast
  BY <1>3, QuietImplements DEF ReplayLast, NextCommand, VerdictPanic
<1>4. ASSUME pc = "loop", NEW tx \in Transfers, Transfer(tx)
      PROVE  [Certified!Next]_(Certified!ledgerVars)
  <2>1. CASE UNCHANGED model
    BY <1>4, <2>1, QuietImplements DEF Transfer, NextCommand
  <2>2. CASE Predict(model, tx) /\ model' = ApplyTransfer(model, tx)
    <3>1. CASE pc' = "panicked"
      <4>1. ~(pc = "panicked") /\ (pc = "panicked")' = TRUE
        BY <1>4, <3>1
      <4> QED BY <4>1 DEF Certified!Next
    <3>2. CASE pc' # "panicked"
      BY <1>4, <2>2, <3>2, TransferImplements DEF Transfer
    <3> QED BY <3>1, <3>2
  <2> QED BY <1>4, <2>1, <2>2 DEF Transfer, VerdictPanic
<1>5. CASE Return
  BY <1>5, QuietImplements DEF Return
<1>6. CASE UNCHANGED vars
  BY <1>6 DEF vars, Certified!ledgerVars
<1> QED BY <1>1, <1>2, <1>3, <1>4, <1>5, <1>6 DEF Next

\* Whatever ledger is linked, for as long as fuzz_stateful_model_lockstep does not
\* panic the ledger has done to the generated accounts what NativeLedger allows:
\* comparing verdicts and states after each command leaves no room for anything else.
THEOREM LockstepImplementsNativeLedger ==
    ASSUME TypedLedger PROVE Spec => CertifiedLedger
<1>1. IInv /\ IInv' /\ [Next]_vars => [Certified!Next]_(Certified!ledgerVars)
  BY StepImplements
<1>2. Spec => []IInv
  BY LockstepInvariant
<1> QED BY InitImplements, <1>1, <1>2, PTL DEF Spec, CertifiedLedger, Certified!Spec
=============================================================================
