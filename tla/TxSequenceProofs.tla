-------------------------- MODULE TxSequenceProofs --------------------------
(***************************************************************************)
(* Proofs about the account generator and about the targets that run a     *)
(* sequence of transactions, for every number of accounts and every width  *)
(* of the balances.                                                        *)
(*                                                                         *)
(* The promise of arbitrary_fuzz_state comes first: the harness modules    *)
(* may start from any member of FuzzStates and from nothing else.  Then    *)
(* the invariant framework: it raises no false alarm, and a multi-block    *)
(* run that returns has conserved what was drawn.                          *)
(***************************************************************************)
EXTENDS TxSequence, FuzzState, LedgerProofs

(***************************************************************************)
(* The promise is about the accounts returned; along the loop it needs     *)
(* that every id kept is recorded in seen, and that no more accounts are   *)
(* kept than were drawn.                                                   *)
(***************************************************************************)
KeptAccount(acc) ==
    acc \in [account_id : seen \ Reserved, balance : 0..BalanceCap]

GenInv ==
    /\ GenTypeOK
    /\ gpc = "start" => n = 0
    /\ Len(accounts) <= drawn
    /\ \A m \in DOMAIN accounts : KeptAccount(accounts[m])
    /\ Distinct(accounts)

\* Dividing by CapDivisor caps the balance.
LEMMA DivMonotonic ==
    ASSUME NEW raw \in U128
    PROVE  Balance(raw) \in 0..BalanceCap
<1> DEFINE c == CapDivisor
           q == raw \div c
           r == raw % c
           bigq == MaxU \div c
           bigr == MaxU % c
<1>1. c \in Nat /\ c > 0 /\ raw \in Nat /\ raw <= MaxU /\ MaxU \in Nat
  BY GeneratorAssumption, MaxUAssumption DEF U128
<1>2. /\ q \in Int /\ r \in Int /\ 0 <= r /\ r < c /\ raw = (c * q) + r
      /\ bigq \in Int /\ bigr \in Int /\ 0 <= bigr /\ bigr < c /\ MaxU = (c * bigq) + bigr
  BY <1>1
<1> HIDE DEF c, q, r, bigq, bigr
<1>3. q >= 0
  <2>1. CASE q <= -1
    <3>1. c * q <= -c
      BY <1>1, <1>2, <2>1
    <3> QED BY <1>1, <1>2, <3>1
  <2> QED BY <1>2, <2>1
<1>4. q <= bigq
  <2>1. CASE q >= bigq + 1
    <3>1. c * q >= (c * bigq) + c
      <4>1. c * q >= c * (bigq + 1)
        BY <1>1, <1>2, <2>1
      <4> QED BY <1>1, <1>2, <4>1
    <3> QED BY <1>1, <1>2, <3>1
  <2> QED BY <1>2, <2>1
<1> QED BY <1>2, <1>3, <1>4 DEF Balance, BalanceCap, q, bigq, c

\* No account is drawn yet.
LEMMA GenInitInv == GenInit => GenInv
<1> SUFFICES ASSUME GenInit PROVE GenInv
  OBVIOUS
<1>1. /\ accounts = <<>> /\ Len(accounts) = 0 /\ DOMAIN accounts = {}
      /\ accounts \in Seq(FuzzAccount)
  BY DEF GenInit
<1> QED BY <1>1, GeneratorAssumption DEF GenInit, GenInv, GenTypeOK, Distinct

\* One draw: a kept account is new to seen, so the ids stay distinct.
LEMMA DrawInv ==
    ASSUME GenInv, NEW id \in AccountIds, NEW raw \in U128, DrawAccount(id, raw)
    PROVE  GenInv'
<1> DEFINE acc == [account_id |-> id, balance |-> Balance(raw)]
<1>1. /\ n \in 0..MaxAccounts /\ drawn \in 0..n /\ drawn' = drawn + 1 /\ drawn < n
      /\ seen \subseteq AccountIds /\ seen \subseteq seen' /\ seen' \subseteq AccountIds
      /\ accounts \in Seq(FuzzAccount)
      /\ UNCHANGED <<n, gpc>>
  BY DEF GenInv, GenTypeOK, DrawAccount
<1>2. drawn' \in 0..n'
  BY <1>1, GeneratorAssumption
<1>3. CASE ~Kept(id)
  <2>1. accounts' = accounts
    BY <1>3 DEF DrawAccount
  <2> QED BY <1>1, <1>2, <2>1, GeneratorAssumption DEF GenInv, GenTypeOK, KeptAccount, Distinct
<1>4. CASE Kept(id)
  <2>1. accounts' = Append(accounts, acc) /\ seen' = seen \cup {id} /\ id \notin Reserved
        /\ id \notin seen
    BY <1>4 DEF DrawAccount, Kept
  <2>2. acc \in [account_id : seen' \ Reserved, balance : 0..BalanceCap]
    BY <2>1, DivMonotonic
  <2>3. acc \in FuzzAccount
    BY CapType, DivMonotonic, MaxUAssumption DEF FuzzAccount, U128
  <2> HIDE DEF acc
  <2>4. /\ accounts' \in Seq(FuzzAccount)
        /\ Len(accounts') = Len(accounts) + 1
        /\ Len(accounts) \in Nat
        /\ DOMAIN accounts' = 1..Len(accounts) + 1
        /\ DOMAIN accounts = 1..Len(accounts)
        /\ accounts'[Len(accounts) + 1] = acc
        /\ \A m \in DOMAIN accounts : accounts'[m] = accounts[m]
    BY <1>1, <2>1, <2>3
  <2>5. \A m \in DOMAIN accounts : KeptAccount(accounts[m])
    BY DEF GenInv
  <2>6. \A m \in DOMAIN accounts' : KeptAccount(accounts[m])'
    <3> SUFFICES ASSUME NEW m \in DOMAIN accounts'
                 PROVE  accounts'[m] \in [account_id : seen' \ Reserved, balance : 0..BalanceCap]
      BY DEF KeptAccount
    <3>1. CASE m = Len(accounts) + 1
      BY <2>2, <2>4, <3>1
    <3>2. CASE m \in DOMAIN accounts
      BY <1>1, <2>4, <2>5, <3>2 DEF KeptAccount
    <3> QED BY <2>4, <3>1, <3>2
  <2>7. Distinct(accounts')
    <3>1. \A m \in DOMAIN accounts : accounts[m].account_id # acc.account_id
      BY <2>1, <2>5 DEF KeptAccount, acc
    <3>2. \A l, m \in DOMAIN accounts :
            accounts[l].account_id = accounts[m].account_id => l = m
      BY DEF GenInv, Distinct
    <3> QED BY <2>4, <3>1, <3>2 DEF Distinct
  <2>8. Len(accounts') <= drawn'
    BY <1>1, <2>4, GeneratorAssumption DEF GenInv
  <2>9. GenTypeOK'
    BY <1>1, <1>2, <2>4 DEF GenInv, GenTypeOK
  <2>10. gpc' # "start"
    BY <1>1 DEF DrawAccount
  <2> QED BY <2>6, <2>7, <2>8, <2>9, <2>10 DEF GenInv, KeptAccount, Distinct
<1> QED BY <1>3, <1>4

\* Every step of the loop, and its two ends, preserve the invariant.
LEMMA GenStepInv == GenInv /\ [GenNext]_gvars => GenInv'
<1> SUFFICES ASSUME GenInv, [GenNext]_gvars PROVE GenInv'
  OBVIOUS
<1>1. CASE DrawCount
  <2>1. n' \in 0..MaxAccounts /\ drawn \in 0..n' /\ UNCHANGED <<drawn, seen, accounts>>
    BY <1>1, GeneratorAssumption DEF DrawCount, GenInv, GenTypeOK
  <2> QED BY <1>1, <2>1 DEF DrawCount, GenInv, GenTypeOK, KeptAccount, Distinct
<1>2. ASSUME NEW id \in AccountIds, NEW raw \in U128, DrawAccount(id, raw)
      PROVE  GenInv'
  BY <1>2, DrawInv
<1>3. CASE ReturnAccounts
  BY <1>3 DEF ReturnAccounts, GenInv, GenTypeOK, KeptAccount, Distinct
<1>4. CASE InputTooShort
  BY <1>4 DEF InputTooShort, GenInv, GenTypeOK, KeptAccount, Distinct
<1>5. CASE UNCHANGED gvars
  BY <1>5 DEF gvars, GenInv, GenTypeOK, KeptAccount, Distinct
<1> QED BY <1>1, <1>2, <1>3, <1>4, <1>5 DEF GenNext

\* What is returned was kept, so it is what the callers are promised.
LEMMA KeptIsPromised == GenInv => accounts \in FuzzStates
<1> SUFFICES ASSUME GenInv PROVE accounts \in FuzzStates
  OBVIOUS
<1> DEFINE k == Len(accounts)
           T == [account_id : AccountIds \ Reserved, balance : 0..BalanceCap]
<1>1. accounts \in Seq(FuzzAccount) /\ k \in Nat /\ DOMAIN accounts = 1..k
  BY DEF GenInv, GenTypeOK
<1>2. k \in 0..MaxAccounts
  BY <1>1, GeneratorAssumption DEF GenInv, GenTypeOK
<1>3. \A m \in 1..k : accounts[m] \in T
  BY <1>1 DEF GenInv, GenTypeOK, KeptAccount
<1>4. accounts \in [1..k -> T]
  BY <1>1, <1>3
<1>5. Distinct(accounts)
  BY DEF GenInv
<1> QED BY <1>2, <1>4, <1>5 DEF FuzzStates

-----------------------------------------------------------------------------
\* The loop of arbitrary_fuzz_state keeps its invariant.
THEOREM GeneratorInvariant == GenSpec => []GenInv
BY GenInitInv, GenStepInv, PTL DEF GenSpec

\* arbitrary_fuzz_state returns distinct, unreserved ids with capped balances.
THEOREM GeneratorKeepsPromise == GenSpec => []GeneratorPromise
<1>1. GenInv => GeneratorPromise
  BY KeptIsPromised DEF GeneratorPromise
<1> QED BY GeneratorInvariant, <1>1, PTL

\* Reading a generated account back from genesis_state yields the drawn balance.
THEOREM GeneratedBalancesSurvive == GenSpec => []BalancesSurviveGenesis
<1>1. GenInv => BalancesSurviveGenesis
  BY KeptIsPromised, GenesisFacts DEF BalancesSurviveGenesis
<1> QED BY GeneratorInvariant, <1>1, PTL

\* Every draw keeps its type.
THEOREM GeneratorTypeOK == GenSpec => []GenTypeOK
<1>1. GenInv => GenTypeOK
  BY DEF GenInv
<1> QED BY GeneratorInvariant, <1>1, PTL

\* The sums the callers compute on the genesis state agree and fit in a u128: the
\* cap is applied to each draw, and there are no more draws than the divisor.
THEOREM GeneratedTotalFits == GenSpec => []GenesisTotalFits
<1>1. ASSUME GenInv PROVE GenesisTotalFits
  <2>1. accounts \in FuzzStates /\ Genesis(accounts) \in States
    BY <1>1, KeptIsPromised, GenesisFacts
  <2>2. SumFunction([k \in DOMAIN accounts |-> Genesis(accounts)[accounts[k].account_id].balance])
          = HeldTotal(Genesis(accounts), Ids(accounts))
    BY <2>1, PerAccountIsPerId
  <2>3. HeldTotal(Genesis(accounts), Ids(accounts)) <= MaxU
    BY <2>1, GenesisTotal, MaxUAssumption DEF U128
  <2> QED BY <2>2, <2>3 DEF GenesisTotalFits, HeldTotal
<1> QED BY GeneratorInvariant, <1>1, PTL

-----------------------------------------------------------------------------
(* The targets that run a sequence of transactions. *)

\* Whatever it answers, the ledger answers with a verdict and a state.
TypedLedger ==
    \A st \in States, t \in Txs \cup {UnsignedTx} : Outcomes(st, t) \subseteq Answers

\* The ledger follows the rules.
FaithfulLedger ==
    \A st \in States, t \in Txs \cup {UnsignedTx} : Outcomes(st, t) = {Execute(st, t)}

-----------------------------------------------------------------------------
(***************************************************************************)
(* The first invariant holds for any ledger: it types the variables and    *)
(* ties starting_total to what was drawn.                                  *)
(***************************************************************************)
\* A transaction under way counts towards n_txs once it has been replayed.
UnderWay == pc \in {"check", "replay"} => i < MaxTxs /\ tx \in Draws

\* What assert_eq compares at the end is what was drawn.
StartingTotalDrawn == starting_total = DrawnTotal(init_accs)

ReturnedAgrees == LongRange /\ pc = "returned" => EndingTotalAgrees

IInv == TypeOK /\ UnderWay /\ StartingTotalDrawn /\ ReturnedAgrees

\* Sums over the generated accounts in a state of the ledger.
LEMMA TotalOfFacts ==
    ASSUME init_accs \in FuzzStates, NEW st \in States
    PROVE  /\ TotalOf(st) = HeldTotal(st, GenesisIds)
           /\ TotalOf(st) \in Nat
           /\ Total(Snapshot(st).balances) = HeldTotal(st, GenesisIds)
<1>1. TotalOf(st) = HeldTotal(st, GenesisIds)
  BY PerAccountIsPerId DEF TotalOf, GenesisIds
<1>2. HeldTotal(st, GenesisIds) \in Nat
  <2>1. IsFiniteSet(GenesisIds) /\ \A id \in GenesisIds : st[id] \in Account
    BY FuzzStatesFinite, IdsFacts DEF GenesisIds, States
  <2> QED BY <2>1, HeldTotalType
<1>3. Snapshot(st).balances = [id \in GenesisIds |-> st[id].balance]
  BY DEF Snapshot
<1> QED BY <1>1, <1>2, <1>3 DEF Total, HeldTotal

\* What is drawn for the ledger.
LEMMA DrawsFacts ==
    ASSUME init_accs \in FuzzStates, NEW t \in Draws
    PROVE  /\ t \in Txs \cup {UnsignedTx}
           /\ t # UnsignedTx => t \in Txs /\ t.from \in GenesisIds /\ t.to \in GenesisIds
           /\ \A id \in Signers(t) : id \in AccountIds /\ t.nonce \in U128
<1>1. GenesisIds \subseteq AccountIds
  BY IdsFacts DEF GenesisIds
<1>2. t # UnsignedTx => t \in Txs /\ t.from \in GenesisIds /\ t.to \in GenesisIds
  BY <1>1 DEF Draws, NativeTransfers, Txs
<1>3. \A id \in Signers(t) : id \in AccountIds /\ t.nonce \in U128
  <2>1. CASE t = UnsignedTx
    BY <2>1 DEF Signers
  <2>2. CASE t # UnsignedTx
    BY <1>2, <2>2 DEF Signers, Txs
  <2> QED BY <2>1, <2>2
<1> QED BY <1>2, <1>3 DEF Draws

\* A snapshot of the generated accounts is well typed.
LEMMA SnapshotType ==
    ASSUME init_accs \in FuzzStates, NEW st \in States
    PROVE  Snapshot(st) \in [balances : [GenesisIds -> U128], nonces : [GenesisIds -> U128]]
<1>1. \A id \in GenesisIds : st[id] \in Account
  BY IdsFacts DEF GenesisIds, States
<1> QED BY <1>1 DEF Snapshot, Account

\* Genesis: the total of the drawn balances.
LEMMA InitIInv == Init => IInv
<1> SUFFICES ASSUME Init PROVE IInv
  OBVIOUS
<1>1. init_accs \in FuzzStates /\ state = Genesis(init_accs) /\ state \in States
  BY GenesisFacts DEF Init
<1>2. starting_total = DrawnTotal(init_accs) /\ starting_total \in Nat
  BY <1>1, TotalOfFacts, GenesisTotal DEF Init, GenesisIds
<1>3. pc \in {"loop", "panicked"}
  BY DEF Init
<1>4. TypeOK
  <2>1. i \in 0..MaxTxs
    BY TxSequenceAssumption DEF Init
  <2>2. /\ tx = UnsignedTx /\ before = NoSnapshot /\ ok = FALSE
        /\ accepted = {} /\ deviated = FALSE
    BY DEF Init
  <2> QED BY <1>1, <1>2, <1>3, <2>1, <2>2 DEF TypeOK
<1> QED BY <1>2, <1>3, <1>4 DEF IInv, UnderWay, StartingTotalDrawn, ReturnedAgrees

\* What the end of an iteration leaves.
LEMMA NextIterationType ==
    ASSUME IInv, pc \in {"check", "replay"}, NextIteration
    PROVE  /\ i' \in 0..MaxTxs
           /\ tx' \in Txs \cup {UnsignedTx}
           /\ before' = NoSnapshot /\ ok' = FALSE /\ pc' = "loop"
BY TxSequenceAssumption DEF IInv, TypeOK, UnderWay, NextIteration

\* An execution under judgement.
LEMMA ExecuteIInv ==
    ASSUME TypedLedger, IInv, NEW t \in Draws, ExecuteTx(t)
    PROVE  IInv'
<1>1. init_accs \in FuzzStates /\ state \in States /\ init_accs' = init_accs
  BY DEF IInv, TypeOK, ExecuteTx
<1>2. t \in Txs \cup {UnsignedTx}
  BY <1>1, DrawsFacts
<1>3. state' \in States /\ ok' \in BOOLEAN /\ deviated' \in BOOLEAN
  BY <1>1, <1>2 DEF IInv, TypeOK, ExecuteTx, TypedLedger, Answers
<1>4. before' \in [balances : [GenesisIds -> U128], nonces : [GenesisIds -> U128]]
  BY <1>1, SnapshotType DEF ExecuteTx
<1>5. pc' = "check" /\ tx' = t /\ i < MaxTxs
      /\ UNCHANGED <<init_accs, starting_total, i, accepted>>
  BY DEF ExecuteTx
<1>6. TypeOK'
  BY <1>2, <1>3, <1>4, <1>5 DEF IInv, TypeOK, GenesisIds
<1>7. UnderWay'
  BY <1>5 DEF UnderWay, Draws, NativeTransfers, GenesisIds
<1> QED BY <1>5, <1>6, <1>7 DEF IInv, StartingTotalDrawn, ReturnedAgrees

\* The replay, whatever the ledger answers to it.
LEMMA ReplayIInv ==
    ASSUME TypedLedger, IInv, Replay
    PROVE  IInv'
<1>1. /\ init_accs \in FuzzStates /\ state \in States /\ tx \in Draws /\ pc = "replay"
      /\ UNCHANGED <<init_accs, starting_total>>
  BY DEF IInv, TypeOK, UnderWay, Replay
<1>2. PICK ans \in Outcomes(state, tx) :
        /\ state' = ans.post
        /\ deviated' = (deviated \/ ans # Execute(state, tx))
        /\ accepted' = accepted \cup {<<id, tx.nonce, i>> : id \in Signers(tx)}
        /\ \/ /\ ans.ok
              /\ pc' = "panicked"
              /\ UNCHANGED <<i, tx, before, ok>>
           \/ /\ ~ans.ok
              /\ NextIteration
  BY DEF Replay
<1>3. state' \in States /\ deviated' \in BOOLEAN
  BY <1>1, <1>2, DrawsFacts DEF IInv, TypeOK, TypedLedger, Answers
<1>4. accepted' \subseteq AccountIds \X U128 \X (0..MaxTxs)
  <2>1. \A id \in Signers(tx) : id \in AccountIds /\ tx.nonce \in U128
    BY <1>1, DrawsFacts
  <2> QED BY <1>2, <2>1 DEF IInv, TypeOK
<1>5. CASE pc' = "panicked" /\ UNCHANGED <<i, tx, before, ok>>
  BY <1>1, <1>3, <1>4, <1>5
     DEF IInv, TypeOK, UnderWay, StartingTotalDrawn, ReturnedAgrees, GenesisIds
<1>6. CASE NextIteration
  BY <1>1, <1>3, <1>4, <1>6, NextIterationType
     DEF IInv, TypeOK, UnderWay, StartingTotalDrawn, ReturnedAgrees, GenesisIds
<1> QED BY <1>2, <1>5, <1>6

\* Every step of the targets preserves the invariant.
LEMMA NextIInv == ASSUME TypedLedger, IInv, [Next]_vars PROVE IInv'
<1> USE DEF IInv, TypeOK, UnderWay, StartingTotalDrawn, ReturnedAgrees, GenesisIds
<1>1. CASE RefusedByGate
  BY <1>1, TxSequenceAssumption DEF RefusedByGate
<1>2. ASSUME NEW t \in Draws, ExecuteTx(t) PROVE IInv'
  BY <1>2, ExecuteIInv
<1>3. CASE CheckPanics
  BY <1>3 DEF CheckPanics
<1>4. CASE CheckRejected
  BY <1>4, NextIterationType DEF CheckRejected
<1>5. CASE CheckAccepted
  BY <1>5 DEF CheckAccepted, Draws, NativeTransfers
<1>6. CASE Replay
  BY <1>6, ReplayIInv
<1>7. CASE EndLoop
  BY <1>7 DEF EndLoop, EndingTotalAgrees, TotalOf
<1>8. CASE UNCHANGED vars
  BY <1>8 DEF vars, EndingTotalAgrees, TotalOf, Draws, NativeTransfers
<1> QED BY <1>1, <1>2, <1>3, <1>4, <1>5, <1>6, <1>7, <1>8 DEF Next

\* The first invariant.
THEOREM TxSequenceInvariant == ASSUME TypedLedger PROVE Spec => []IInv
<1>1. IInv /\ [Next]_vars => IInv'
  BY NextIInv
<1> QED BY InitIInv, <1>1, PTL DEF Spec

\* The snapshots, the counter and the history stay in range.
THEOREM TxSequenceTypeOK == ASSUME TypedLedger PROVE Spec => []TypeOK
<1>1. IInv => TypeOK
  BY DEF IInv
<1> QED BY TxSequenceInvariant, <1>1, PTL

\* Whatever ledger is linked, a multi-block run that returns has conserved the
\* balances that were drawn.
THEOREM TxSequenceConserved == ASSUME TypedLedger PROVE Spec => []LongRangeConserved
<1>1. IInv => LongRangeConserved
  <2> SUFFICES ASSUME IInv, LongRange, pc = "returned"
               PROVE  HeldTotal(state, GenesisIds) = DrawnTotal(init_accs)
    BY DEF LongRangeConserved, HeldTotal, DrawnTotal
  <2>1. TotalOf(state) = starting_total
    BY DEF IInv, ReturnedAgrees, EndingTotalAgrees
  <2> QED BY <2>1, TotalOfFacts DEF IInv, TypeOK, StartingTotalDrawn
<1> QED BY TxSequenceInvariant, <1>1, PTL

-----------------------------------------------------------------------------
(***************************************************************************)
(* The framework is sound.  For a verdict to be the ledger's fault, the    *)
(* checks must pass on every answer of the rules: the totals are equal     *)
(* because a transfer conserves them, they fit because the cap bounds what *)
(* was drawn, the nonce moves by exactly one because fewer transactions    *)
(* than u128::MAX are executed, and a replay is refused because its nonce  *)
(* is consumed.  The state before the execution is no variable of the      *)
(* target, so the invariant says that one exists.                          *)
(***************************************************************************)
\* A state that at most k accepted transactions lead to, all of them in accepted.
Reached(st, k) ==
    /\ HeldTotal(st, GenesisIds) = starting_total
    /\ \A id \in AccountIds : st[id].nonce <= k
    /\ \A p \in accepted : p[2] < st[p[1]].nonce

\* The answer under judgement is the one of the rules to a state of the run.
Judged ==
    \E st \in States :
        /\ Reached(st, i)
        /\ before = Snapshot(st)
        /\ [ok |-> ok, post |-> state] = Execute(st, tx)

\* As long as the ledger has followed the rules.
OnCourse ==
    /\ pc # "panicked"
    /\ pc \in {"loop", "returned"} => Reached(state, i)
    /\ pc \in {"check", "replay"} => Judged
    /\ pc = "replay" => ok

Sound == ~deviated => OnCourse

\* What the rules do to a state of the run.
LEMMA ExecuteReached ==
    ASSUME IInv, i < MaxTxs, NEW t \in Draws, NEW st \in States, Reached(st, i)
    PROVE  LET ans == Execute(st, t)
           IN /\ ans.post \in States
              /\ HeldTotal(ans.post, GenesisIds) = starting_total
              /\ \A id \in AccountIds : /\ ans.post[id].nonce <= i + 1
                                        /\ ans.post[id].nonce >= st[id].nonce
              /\ ~ans.ok => ans.post = st
              /\ ans.ok => /\ t \in Txs /\ t.from \in GenesisIds /\ Signers(t) = {t.from}
                           /\ t.nonce = st[t.from].nonce
                           /\ ans.post[t.from].nonce = st[t.from].nonce + 1
                           /\ st[t.from].nonce < MaxU
<1> DEFINE ans == Execute(st, t)
<1>1. init_accs \in FuzzStates /\ i \in Nat /\ i < MaxU
  BY TxSequenceAssumption, MaxUAssumption DEF IInv, TypeOK
<1>2. \A id \in AccountIds : st[id] \in Account /\ st[id].nonce \in U128 /\ st[id].nonce <= i
  BY DEF States, Account, Reached
<1>3. CASE ~Accepts(st, t)
  <2>1. ans.post = st /\ ans.ok = FALSE
    BY <1>3 DEF Execute
  <2>2. ASSUME NEW id \in AccountIds
        PROVE  st[id].nonce <= i + 1 /\ st[id].nonce >= st[id].nonce
    <3>1. st[id].nonce \in Nat /\ st[id].nonce <= i
      BY <1>2, MaxUAssumption DEF U128
    <3> QED BY <1>1, <3>1
  <2> QED BY <2>1, <2>2 DEF Reached
<1>4. CASE Accepts(st, t)
  <2>1. ans.ok = TRUE /\ ans.post = Applied(st, t)
    BY <1>4 DEF Execute
  <2>2. /\ t # UnsignedTx /\ t \in Txs /\ t.from \in GenesisIds /\ t.to \in GenesisIds
        /\ t.from # t.to /\ t.amount \in U128
        /\ t.from \in AccountIds /\ t.to \in AccountIds
    BY <1>1, <1>4, DrawsFacts DEF Accepts, Txs
  <2>3. /\ ans.post \in States
        /\ ans.post[t.from].balance = st[t.from].balance - t.amount
        /\ ans.post[t.from].nonce = WrappingAdd(st[t.from].nonce, 1)
        /\ ans.post[t.to].balance = st[t.to].balance + t.amount
        /\ ans.post[t.to].nonce = st[t.to].nonce
        /\ \A id \in AccountIds \ {t.from, t.to} : ans.post[id] = st[id]
    BY <1>4, <2>1, <2>2, AppliedFacts
  <2> HIDE DEF ans
  <2>4. st[t.from].nonce < MaxU /\ WrappingAdd(st[t.from].nonce, 1) = st[t.from].nonce + 1
    BY <1>1, <1>2, <2>2, MaxUAssumption DEF U128, WrappingAdd
  <2>5. ASSUME NEW id \in AccountIds
        PROVE  ans.post[id].nonce <= i + 1 /\ ans.post[id].nonce >= st[id].nonce
    <3>1. st[id].nonce \in Nat /\ st[id].nonce <= i
      BY <1>2, MaxUAssumption DEF U128
    <3>2. \/ ans.post[id].nonce = st[id].nonce
          \/ ans.post[id].nonce = st[id].nonce + 1
      BY <2>2, <2>3, <2>4
    <3> QED BY <1>1, <3>1, <3>2
  <2>6. HeldTotal(ans.post, GenesisIds) = HeldTotal(st, GenesisIds)
    <3>1. IsFiniteSet(GenesisIds) /\ GenesisIds \subseteq AccountIds
      BY <1>1, FuzzStatesFinite, IdsFacts DEF GenesisIds
    <3>2. /\ \A id \in GenesisIds : st[id] \in Account
          /\ \A id \in GenesisIds \ {t.from, t.to} : ans.post[id].balance = st[id].balance
      BY <1>2, <2>3, <3>1
    <3> QED BY <2>2, <2>3, <3>1, <3>2, TransferConserves
  <2>7. t.nonce = st[t.from].nonce /\ Signers(t) = {t.from}
    BY <1>4, <2>2 DEF Accepts, Signers
  <2> QED BY <2>1, <2>2, <2>3, <2>4, <2>5, <2>6, <2>7 DEF Reached, ans
<1> QED BY <1>3, <1>4

\* The invariants of invariants.rs hold for an answer of the rules.
LEMMA JudgedHolds ==
    ASSUME IInv, pc \in {"check", "replay"}, Judged
    PROVE  InvariantsHold(state)
<1>1. PICK st \in States :
        /\ Reached(st, i)
        /\ before = Snapshot(st)
        /\ [ok |-> ok, post |-> state] = Execute(st, tx)
  BY DEF Judged
<1>2. ok = Execute(st, tx).ok /\ state = Execute(st, tx).post
  BY <1>1
<1>3. /\ init_accs \in FuzzStates /\ i < MaxTxs /\ tx \in Draws
      /\ state \in States /\ starting_total = DrawnTotal(init_accs)
  BY DEF IInv, TypeOK, UnderWay, StartingTotalDrawn
<1>4. /\ HeldTotal(state, GenesisIds) = starting_total
      /\ ~ok => state = st
      /\ ok => /\ Signers(tx) = {tx.from} /\ tx.from \in GenesisIds
               /\ state[tx.from].nonce = st[tx.from].nonce + 1
               /\ st[tx.from].nonce < MaxU
  BY <1>1, <1>2, <1>3, ExecuteReached
<1>5. StateIsolationOnFailure(state) /\ FailedTxNonceStability(state)
  BY <1>1, <1>4 DEF StateIsolationOnFailure, FailedTxNonceStability
<1>6. BalanceConservation(state)
  <2>1. Total(before.balances) = HeldTotal(st, GenesisIds)
    BY <1>1, <1>3, TotalOfFacts
  <2>2. Total(Snapshot(state).balances) = HeldTotal(state, GenesisIds)
    BY <1>3, TotalOfFacts
  <2>3. starting_total <= MaxU
    BY <1>3, GenesisTotal, MaxUAssumption DEF U128
  <2> QED BY <1>1, <1>4, <2>1, <2>2, <2>3 DEF BalanceConservation, Reached
<1>7. NonceIncrementCorrectness(state)
  <2> SUFFICES ASSUME ok
               PROVE  before.nonces[tx.from] < MaxU
                      /\ state[tx.from].nonce = before.nonces[tx.from] + 1
    BY <1>4 DEF NonceIncrementCorrectness
  <2>1. before.nonces[tx.from] = st[tx.from].nonce
    BY <1>1, <1>4 DEF Snapshot
  <2> QED BY <1>4, <2>1
<1> QED BY <1>5, <1>6, <1>7 DEF InvariantsHold

\* The end of the loop agrees with its start.
LEMMA ReachedAgrees ==
    ASSUME IInv, Reached(state, i)
    PROVE  EndingTotalAgrees
<1>1. TotalOf(state) = starting_total /\ starting_total <= MaxU
  BY TotalOfFacts, GenesisTotal, MaxUAssumption
     DEF IInv, TypeOK, StartingTotalDrawn, Reached, U128
<1> QED BY <1>1 DEF EndingTotalAgrees

\* Every nonce used so far stays below the current one when nonces grow.
LEMMA ReachedAgain ==
    ASSUME IInv, i < MaxTxs, NEW t \in Draws, NEW st \in States, Reached(st, i)
    PROVE  Reached(Execute(st, t).post, i + 1)
<1> DEFINE post == Execute(st, t).post
<1>1. /\ post \in States
      /\ HeldTotal(post, GenesisIds) = starting_total
      /\ \A id \in AccountIds : post[id].nonce <= i + 1 /\ post[id].nonce >= st[id].nonce
  BY ExecuteReached
<1>2. ASSUME NEW p \in accepted PROVE p[2] < post[p[1]].nonce
  <2>1. p[1] \in AccountIds /\ p[2] \in U128 /\ p[2] < st[p[1]].nonce
    BY <1>2 DEF IInv, TypeOK, Reached
  <2>2. st[p[1]].nonce \in U128 /\ post[p[1]].nonce \in U128
    BY <1>1, <2>1 DEF States, Account
  <2>3. post[p[1]].nonce >= st[p[1]].nonce
    BY <1>1, <2>1
  <2> HIDE DEF post
  <2> QED BY <2>1, <2>2, <2>3, MaxUAssumption DEF U128
<1> HIDE DEF post
<1>3. Reached(post, i + 1)
  BY <1>1, <1>2 DEF Reached
<1> QED BY <1>3 DEF post

\* The first step of the run: genesis.
LEMMA InitSound == Init => Sound
<1> SUFFICES ASSUME Init PROVE OnCourse
  BY DEF Sound
<1>1. IInv
  BY InitIInv
<1>2. state \in States /\ init_accs \in FuzzStates /\ starting_total \in U128
  BY <1>1, GenesisTotal DEF IInv, TypeOK, StartingTotalDrawn
<1>3. pc = "loop"
  BY <1>2, MaxUAssumption DEF Init, U128
<1>4. HeldTotal(state, GenesisIds) = starting_total
  BY <1>2, TotalOfFacts DEF Init
<1>5. \A id \in AccountIds : state[id].nonce <= i
  <2>1. \A id \in AccountIds : state[id].nonce = 0
    BY DEF Init, Genesis, SystemAccount, Funded, DefaultAccount
  <2>2. i = 0 /\ 0 <= 0
    BY DEF Init
  <2> QED BY <2>1, <2>2, Zenon
<1>6. accepted = {}
  BY DEF Init
<1> QED BY <1>3, <1>4, <1>5, <1>6 DEF OnCourse, Reached

\* An answer of the rules is put under judgement.
LEMMA ExecuteSound ==
    ASSUME IInv, OnCourse, NEW t \in Draws, ExecuteTx(t), ~deviated'
    PROVE  OnCourse'
<1>1. /\ pc = "loop" /\ pc' = "check" /\ tx' = t /\ before' = Snapshot(state)
      /\ UNCHANGED <<init_accs, starting_total, i, accepted>>
  BY DEF ExecuteTx
<1>2. PICK ans \in Outcomes(state, t) :
        /\ state' = ans.post
        /\ ok' = ans.ok
        /\ deviated' = (deviated \/ ans # Execute(state, t))
  BY DEF ExecuteTx
<1>3. ans = Execute(state, t)
  BY <1>2
<1>4. [ok |-> ok', post |-> state'] = Execute(state, tx')
  BY <1>1, <1>2, <1>3 DEF Execute
<1>5. state \in States /\ Reached(state, i)
  BY <1>1 DEF IInv, TypeOK, OnCourse
<1>6. GenesisIds' = GenesisIds
  BY <1>1 DEF GenesisIds
<1>7. Judged'
  BY <1>1, <1>4, <1>5, <1>6 DEF Judged, Reached, Snapshot
<1> QED BY <1>1, <1>7 DEF OnCourse

\* A rejected transaction leaves the state as it was.
LEMMA RejectedSound ==
    ASSUME IInv, OnCourse, CheckRejected
    PROVE  OnCourse'
<1>1. /\ pc = "check" /\ ~ok /\ i' = i + 1 /\ pc' = "loop"
      /\ UNCHANGED <<init_accs, state, starting_total, accepted>>
  BY DEF CheckRejected, NextIteration
<1>2. i < MaxTxs /\ tx \in Draws
  BY <1>1 DEF IInv, UnderWay
<1>3. PICK st \in States : Reached(st, i) /\ [ok |-> ok, post |-> state] = Execute(st, tx)
  BY <1>1 DEF OnCourse, Judged
<1>4. Reached(state, i + 1)
  <2>1. state = Execute(st, tx).post
    BY <1>3
  <2> QED BY <1>2, <1>3, <2>1, ReachedAgain
<1>5. Reached(state, i)'
  BY <1>1, <1>4 DEF Reached, GenesisIds
<1> QED BY <1>1, <1>5 DEF OnCourse

\* A replay of an accepted transaction is refused: its nonce is consumed.
LEMMA ReplaySound ==
    ASSUME IInv, OnCourse, Replay, ~deviated'
    PROVE  OnCourse'
<1>1. pc = "replay" /\ ok /\ i < MaxTxs /\ tx \in Draws /\ state \in States /\ i \in Nat
      /\ UNCHANGED <<init_accs, starting_total>>
  BY TxSequenceAssumption DEF Replay, OnCourse, IInv, UnderWay, TypeOK
<1>2. PICK st \in States : Reached(st, i) /\ [ok |-> ok, post |-> state] = Execute(st, tx)
  BY <1>1 DEF OnCourse, Judged
<1>3. ok = Execute(st, tx).ok /\ state = Execute(st, tx).post
  BY <1>2
<1>4. /\ Signers(tx) = {tx.from} /\ tx.from \in GenesisIds /\ tx.nonce = st[tx.from].nonce
      /\ state[tx.from].nonce = st[tx.from].nonce + 1 /\ tx \in Txs
  BY <1>1, <1>2, <1>3, ExecuteReached
<1>5. tx.nonce \in U128 /\ tx.nonce < state[tx.from].nonce
  BY <1>4, MaxUAssumption DEF Txs, U128
<1>6. ~Accepts(state, tx)
  BY <1>5, MaxUAssumption DEF Accepts, U128
<1>7. PICK ans \in Outcomes(state, tx) :
        /\ state' = ans.post
        /\ deviated' = (deviated \/ ans # Execute(state, tx))
        /\ accepted' = accepted \cup {<<id, tx.nonce, i>> : id \in Signers(tx)}
        /\ \/ ans.ok
           \/ ~ans.ok /\ NextIteration
  BY DEF Replay
<1>8. ans = [ok |-> FALSE, post |-> state]
  BY <1>6, <1>7 DEF Execute
<1>9. state' = state /\ i' = i + 1 /\ pc' = "loop"
  BY <1>7, <1>8 DEF NextIteration
<1>10. Reached(state, i + 1)
  BY <1>1, <1>2, <1>3, ReachedAgain
<1>11. Reached(state, i)'
  <2>1. accepted' = accepted \cup {<<tx.from, tx.nonce, i>>}
    BY <1>4, <1>7
  <2>2. \A p \in accepted' : p[2] < state[p[1]].nonce
    BY <1>5, <1>10, <2>1 DEF Reached
  <2> QED BY <1>1, <1>9, <1>10, <2>2 DEF Reached, GenesisIds
<1> QED BY <1>9, <1>11 DEF OnCourse

\* Every step keeps the run on course for as long as the ledger follows the rules.
LEMMA StepSound == ASSUME IInv, Sound, [Next]_vars PROVE Sound'
<1> SUFFICES ASSUME ~deviated' PROVE OnCourse'
  BY DEF Sound
<1>1. ~deviated
  BY DEF Next, vars, RefusedByGate, ExecuteTx, CheckPanics, CheckRejected, CheckAccepted,
         Replay, EndLoop
<1>2. OnCourse
  BY <1>1 DEF Sound
<1>3. CASE RefusedByGate
  <2>1. /\ pc = "loop" /\ i' = i + 1 /\ i \in Nat
        /\ UNCHANGED <<init_accs, state, starting_total, pc, accepted>>
    BY <1>3, TxSequenceAssumption DEF RefusedByGate, IInv, TypeOK
  <2>2. Reached(state, i) /\ \A id \in AccountIds : state[id].nonce \in Nat
    BY <1>2, <2>1, MaxUAssumption DEF OnCourse, IInv, TypeOK, States, Account, U128
  <2>3. ASSUME NEW id \in AccountIds PROVE state[id].nonce <= i + 1
    BY <2>1, <2>2 DEF Reached
  <2>4. Reached(state, i)'
    BY <2>1, <2>2, <2>3 DEF Reached, GenesisIds
  <2> QED BY <2>1, <2>4 DEF OnCourse
<1>4. ASSUME NEW t \in Draws, ExecuteTx(t) PROVE OnCourse'
  BY <1>2, <1>4, ExecuteSound
<1>5. CASE CheckPanics
  BY <1>2, <1>5, JudgedHolds DEF CheckPanics, OnCourse
<1>6. CASE CheckRejected
  BY <1>2, <1>6, RejectedSound
<1>7. CASE CheckAccepted
  BY <1>2, <1>7 DEF CheckAccepted, OnCourse, Judged, Reached, Snapshot, GenesisIds
<1>8. CASE Replay
  BY <1>2, <1>8, ReplaySound
<1>9. CASE EndLoop
  <2>1. Reached(state, i) /\ EndingTotalAgrees
    BY <1>2, <1>9, ReachedAgrees DEF EndLoop, OnCourse
  <2> QED BY <1>9, <2>1 DEF EndLoop, OnCourse, Reached, GenesisIds
<1>10. CASE UNCHANGED vars
  BY <1>2, <1>10 DEF vars, OnCourse, Judged, Reached, Snapshot, GenesisIds
<1> QED BY <1>3, <1>4, <1>5, <1>6, <1>7, <1>8, <1>9, <1>10 DEF Next

\* The run is on course until the ledger deviates from the rules.
THEOREM TxSequenceSound == ASSUME TypedLedger PROVE Spec => []Sound
<1>1. IInv /\ Sound /\ [Next]_vars => Sound'
  BY StepSound
<1> QED BY TxSequenceInvariant, InitSound, <1>1, PTL DEF Spec

\* The framework raises no false alarm: a panic follows an answer that is not the
\* one of the rules.
THEOREM TxSequenceOnlyDeviationAccused ==
    ASSUME TypedLedger PROVE Spec => []OnlyDeviationAccused
<1>1. Sound => OnlyDeviationAccused
  BY DEF Sound, OnCourse, OnlyDeviationAccused
<1> QED BY TxSequenceSound, <1>1, PTL

\* A ledger that follows the rules answers with a verdict and a state, and never
\* deviates.
LEMMA FaithfulIsTyped == FaithfulLedger => TypedLedger
<1> SUFFICES ASSUME FaithfulLedger, NEW st \in States, NEW t \in Txs \cup {UnsignedTx}
             PROVE  Execute(st, t) \in Answers
  BY DEF FaithfulLedger, TypedLedger
<1>1. Accepts(st, t) => t \in Txs
  BY DEF Accepts
<1> QED BY <1>1, AppliedFacts DEF Execute, Answers

\* A step of a faithful ledger is no deviation.
LEMMA FaithfulStep ==
    ASSUME FaithfulLedger, IInv, ~deviated, [Next]_vars
    PROVE  ~deviated'
<1>1. init_accs \in FuzzStates /\ state \in States
  BY DEF IInv, TypeOK
<1>2. ASSUME NEW t \in Draws, ExecuteTx(t) PROVE ~deviated'
  BY <1>1, <1>2, DrawsFacts DEF ExecuteTx, FaithfulLedger
<1>3. CASE Replay
  <2>1. tx \in Draws
    BY <1>3 DEF Replay, IInv, UnderWay
  <2> QED BY <1>1, <1>3, <2>1, DrawsFacts DEF Replay, FaithfulLedger
<1> QED BY <1>2, <1>3
     DEF Next, vars, RefusedByGate, CheckPanics, CheckRejected, CheckAccepted, EndLoop

\* Linked with a ledger that follows the rules, the targets never panic.
THEOREM TxSequenceFaithfulNeverAccused ==
    ASSUME FaithfulLedger PROVE Spec => [](pc # "panicked")
<1>1. TypedLedger
  BY FaithfulIsTyped
<1>2. Init => ~deviated
  BY DEF Init
<1>3. IInv /\ ~deviated /\ [Next]_vars => ~deviated'
  BY FaithfulStep
<1>4. Sound /\ ~deviated => pc # "panicked"
  BY DEF Sound, OnCourse
<1>5. Spec => []IInv /\ []Sound
  BY <1>1, TxSequenceInvariant, TxSequenceSound, PTL
<1> QED BY <1>2, <1>3, <1>4, <1>5, PTL DEF Spec

-----------------------------------------------------------------------------
(***************************************************************************)
(* A consumed nonce stays consumed on a ledger that follows the rules.     *)
(* The claim about a finished iteration is not inductive; what is, in      *)
(* every state, is that two entries of the history with one signer and one *)
(* nonce are one entry.  A step that adds to it adds a nonce that was the  *)
(* current one, and every nonce in the history is below the current one.   *)
(***************************************************************************)
ConsumedOnce ==
    \A p, q \in accepted : p[1] = q[1] /\ p[2] = q[2] => p[3] = q[3]

\* The transaction on trial, on course, carries a nonce the history does not have.
LEMMA NonceOnTrialIsFresh ==
    ASSUME IInv, OnCourse, pc = "replay"
    PROVE  /\ Signers(tx) = {tx.from}
           /\ \A p \in accepted : p[1] = tx.from => p[2] # tx.nonce
<1>1. ok /\ i < MaxTxs /\ tx \in Draws
  BY DEF OnCourse, IInv, UnderWay
<1>2. PICK st \in States : Reached(st, i) /\ [ok |-> ok, post |-> state] = Execute(st, tx)
  BY DEF OnCourse, Judged
<1>3. Execute(st, tx).ok
  BY <1>1, <1>2
<1>4. Signers(tx) = {tx.from} /\ tx.nonce = st[tx.from].nonce /\ tx \in Txs
  BY <1>1, <1>2, <1>3, ExecuteReached
<1>5. \A p \in accepted : p[2] < st[p[1]].nonce
  BY <1>2 DEF Reached
<1>6. tx.nonce \in Int
  BY <1>4, MaxUAssumption DEF Txs, U128
<1> QED BY <1>4, <1>5, <1>6

\* Every step keeps the entries of the history apart.
LEMMA ConsumedOnceStep ==
    ASSUME IInv, Sound, ~deviated, ConsumedOnce, [Next]_vars
    PROVE  ConsumedOnce'
<1>1. CASE Replay
  <2>1. /\ Signers(tx) = {tx.from}
        /\ \A p \in accepted : p[1] = tx.from => p[2] # tx.nonce
    BY <1>1, NonceOnTrialIsFresh DEF Replay, Sound
  <2>2. accepted' = accepted \cup {<<tx.from, tx.nonce, i>>}
    BY <1>1, <2>1 DEF Replay
  <2> QED BY <2>1, <2>2 DEF ConsumedOnce
<1>2. CASE accepted' = accepted
  BY <1>2 DEF ConsumedOnce
<1> QED BY <1>1, <1>2
     DEF Next, vars, RefusedByGate, ExecuteTx, CheckPanics, CheckRejected, CheckAccepted,
         EndLoop

\* What fuzz_multi_block_state_sequence.rs says its replays confirm is true of a
\* ledger that follows the rules: an iteration that returns has accepted no nonce of
\* a signer twice.  It is no consequence of the checks: the permanence run shows a
\* ledger that accepts a nonce again and passes them all.
THEOREM TxSequenceNoncesConsumed ==
    ASSUME FaithfulLedger PROVE Spec => []NoncesPermanentlyConsumed
<1>1. TypedLedger
  BY FaithfulIsTyped
<1>2. Init => ~deviated /\ ConsumedOnce
  BY DEF Init, ConsumedOnce
<1>3. IInv /\ ~deviated /\ [Next]_vars => ~deviated'
  BY FaithfulStep
<1>4. IInv /\ Sound /\ ~deviated /\ ConsumedOnce /\ [Next]_vars => ConsumedOnce'
  BY ConsumedOnceStep
<1>5. ConsumedOnce => NoncesPermanentlyConsumed
  BY DEF ConsumedOnce, NoncesPermanentlyConsumed
<1>6. Spec => []IInv /\ []Sound
  BY <1>1, TxSequenceInvariant, TxSequenceSound, PTL
<1> QED BY <1>2, <1>3, <1>4, <1>5, <1>6, PTL DEF Spec
=============================================================================
