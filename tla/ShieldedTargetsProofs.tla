----------------------- MODULE ShieldedTargetsProofs -----------------------
(***************************************************************************)
(* Proofs about ShieldedTargets linked with a ledger that follows the      *)
(* rules: neither target raises a false alarm, and the second transaction  *)
(* of a conflicting pair is refused for the shared nullifier.  With any    *)
(* typed ledger the types hold, and what is drawn reaches the apply path.  *)
(***************************************************************************)
EXTENDS ShieldedTargets, LedgerProofs, FiniteSetTheorems

\* The linked ledger answers a well-typed call with a well-typed state.
TypedLedger ==
    \A st \in ShieldedStates, t \in ShieldedTxs, block \in Nat :
        Outcomes(st, t, block) \subseteq [ok : BOOLEAN, post : ShieldedStates]

\* It follows the rules of ShieldedState.
FaithfulLedger ==
    \A st \in ShieldedStates, t \in ShieldedTxs, block \in Nat :
        Outcomes(st, t, block) = {ExecuteShielded(st, t, block)}

\* Executions so far: the replay of the current transaction is still to be counted.
Executions == IF pc = "replay" THEN i + 1 ELSE i

NoncesBounded == \A id \in AccountIds : state.accounts[id].nonce \in 0..Executions

\* What waits for its replay has spent one of its nullifiers.
ReplayDoomed == \A t \in applied_tx : \E a \in t.private_actions : a.nullifier \in state.nullifiers

\* The pair was built in the state it is going to be executed in.
PairFresh ==
    \E m, n \in DOMAIN fuzz_accs, nullifier \in Nullifiers, comm_b, comm_c \in Commitments :
        /\ comm_b # comm_c
        /\ m # n
        /\ pair = <<Spend(m, nullifier, comm_b), Spend(n, nullifier, comm_c)>>

IInv ==
    /\ fuzz_accs \in FuzzStates
    /\ i \in 0..MaxTxs
    /\ pc = "replay" => i < MaxTxs
    /\ pc # "replay" => applied_tx = {}
    /\ NoncesBounded
    /\ ReplayDoomed
    /\ target = "ordering" /\ pc # "returned" => Len(fuzz_accs) >= 2
    /\ pc = "pair" => PairFresh
    /\ pc \in {"loop", "replay", "pair", "returned"}

-----------------------------------------------------------------------------
(* The generator. *)

\* arb_privacy_preserving_tx names accounts only.
LEMMA DrawsFacts ==
    ASSUME fuzz_accs \in FuzzStates, NEW t \in Draws
    PROVE  /\ DOMAIN t.signers \subseteq AccountIds
           /\ DOMAIN t.public_actions \subseteq AccountIds
<1>1. Ids(fuzz_accs) \subseteq AccountIds
  BY IdsFacts
<1>2. PICK signers \in SignerSets :
        /\ t.signers = LiveNonces(state, signers)
        /\ t.public_actions \in UNION {[ids -> EffectLists] : ids \in PublicIds(signers)}
  BY DEF Draws
<1>3. signers \subseteq AccountIds
  BY <1>1, <1>2 DEF SignerSets
<1>4. \A ids \in PublicIds(signers) : ids \subseteq AccountIds
  BY <1>3 DEF PublicIds
<1> QED BY <1>2, <1>3, <1>4 DEF LiveNonces

\* j is replaced by the next index, modulo the number of accounts, when it is i.
LEMMA OtherSignerFacts ==
    ASSUME fuzz_accs \in FuzzStates, NEW m \in DOMAIN fuzz_accs, NEW n \in DOMAIN fuzz_accs,
           Len(fuzz_accs) >= 2
    PROVE  /\ OtherSigner(m, n) \in DOMAIN fuzz_accs
           /\ OtherSigner(m, n) # m
<1> DEFINE len == Len(fuzz_accs)
           next == (m % len) + 1
<1>1. /\ DOMAIN fuzz_accs = 1..len
      /\ len \in Nat /\ len >= 2
  BY FuzzStatesFacts, GeneratorAssumption
<1>2. m \in 1..len /\ n \in 1..len
  BY <1>1
<1>3. OtherSigner(m, n) = IF n = m THEN next ELSE n
  BY DEF OtherSigner
<1> HIDE DEF len
<1>4. next \in 1..len /\ next # m
  <2>1. CASE m < len
    <3>1. m % len = m
      BY <1>1, <1>2, <2>1
    <3> QED BY <1>1, <1>2, <2>1, <3>1
  <2>2. CASE m = len
    <3>1. m % len = 0
      BY <1>1, <1>2, <2>2
    <3> QED BY <1>1, <1>2, <2>2, <3>1
  <2> QED BY <1>1, <1>2, <2>1, <2>2
<1> HIDE DEF next
<1> QED BY <1>1, <1>2, <1>3, <1>4

-----------------------------------------------------------------------------
(* Folds over a sequence: the values of FoldLeft, taken along the inclusion *)
(* order of the sets of indices.                                           *)

\* The equation of a fold over the subsets of S that takes sel[s] last.
Folds(g, S, sel, base, H) ==
    g = [s \in SUBSET S |-> IF s = {} THEN base ELSE H[<<g[s \ {sel[s]}], sel[s]>>]]

\* Two folds agree on the subsets they share.
LEMMA FoldsUnique ==
    ASSUME NEW S, IsFiniteSet(S), NEW T, NEW sel, NEW base, NEW H,
           \A s \in SUBSET S : s # {} => sel[s] \in s,
           NEW g, NEW h, Folds(g, S, sel, base, H), Folds(h, T, sel, base, H)
    PROVE  \A U \in SUBSET (S \cap T) : g[U] = h[U]
<1> DEFINE Bad == {U \in SUBSET (S \cap T) : g[U] # h[U]}
<1> SUFFICES ASSUME Bad # {} PROVE FALSE
  OBVIOUS
<1>1. PICK U \in Bad : \A V \in SUBSET U : V # U => V \notin Bad
  <2>1. Bad \subseteq SUBSET S
    OBVIOUS
  <2> HIDE DEF Bad
  <2> QED BY <2>1, MinimalSubset
<1>2. CASE U = {}
  BY <1>2 DEF Folds
<1>3. CASE U # {}
  <2> DEFINE R == U \ {sel[U]}
  <2>1. R \in SUBSET U /\ R # U
    BY <1>3
  <2>2. g[R] = h[R]
    BY <1>1, <2>1
  <2>3. g[U] = H[<<g[R], sel[U]>>] /\ h[U] = H[<<h[R], sel[U]>>]
    BY <1>3 DEF Folds
  <2> QED BY <2>2, <2>3
<1> QED BY <1>2, <1>3

\* A fold exists: the values are chosen set by set, along the inclusion order.
LEMMA FoldsExists ==
    ASSUME NEW S, IsFiniteSet(S), NEW sel, NEW base, NEW H,
           \A s \in SUBSET S : s # {} => sel[s] \in s
    PROVE  \E g : Folds(g, S, sel, base, H)
<1> DEFINE Bad == {T \in SUBSET S : ~\E g : Folds(g, T, sel, base, H)}
<1> SUFFICES ASSUME Bad # {} PROVE FALSE
  OBVIOUS
<1>1. PICK T \in Bad : \A U \in SUBSET T : U # T => U \notin Bad
  <2>1. Bad \subseteq SUBSET S
    OBVIOUS
  <2> HIDE DEF Bad
  <2> QED BY <2>1, MinimalSubset
<1> DEFINE Fun(U) == CHOOSE g : Folds(g, U, sel, base, H)
           Val(U) == Fun(U)[U]
           Rest(U) == U \ {sel[U]}
           G == [s \in SUBSET T |-> IF s = {} THEN base ELSE
                                    IF s = T THEN H[<<Val(Rest(T)), sel[T]>>] ELSE Val(s)]
<1>2. ASSUME NEW U \in SUBSET T, U # T
      PROVE  Folds(Fun(U), U, sel, base, H) /\ IsFiniteSet(U)
  <2>1. \E g : Folds(g, U, sel, base, H)
    BY <1>1, <1>2
  <2> QED BY <2>1, FS_Subset
<1>3. ASSUME NEW U \in SUBSET T, U # {}
      PROVE  Rest(U) \in SUBSET U /\ Rest(U) # U /\ Rest(U) \in SUBSET T /\ Rest(U) # T
  BY <1>3
<1>4. ASSUME NEW U \in SUBSET T, U # T, U # {}
      PROVE  Val(U) = H[<<Val(Rest(U)), sel[U]>>]
  <2>1. Val(U) = H[<<Fun(U)[Rest(U)], sel[U]>>]
    <3>1. Folds(Fun(U), U, sel, base, H)
      BY <1>2, <1>4
    <3> HIDE DEF Fun
    <3> QED BY <3>1, <1>4 DEF Folds
  <2>2. Fun(U)[Rest(U)] = Val(Rest(U))
    <3>1. /\ Folds(Fun(U), U, sel, base, H) /\ IsFiniteSet(U)
          /\ Folds(Fun(Rest(U)), Rest(U), sel, base, H)
      BY <1>2, <1>3, <1>4
    <3>2. Rest(U) \in SUBSET (U \cap Rest(U)) /\ U \in SUBSET S
      BY <1>3, <1>4
    <3>3. \A s \in SUBSET U : s # {} => sel[s] \in s
      BY <3>2
    <3> HIDE DEF Fun, Rest
    <3> QED BY <3>1, <3>2, <3>3, FoldsUnique
  <2> QED BY <2>1, <2>2
<1>5. T # {} => Val({}) = base
  <2>1. T # {} => Folds(Fun({}), {}, sel, base, H)
    BY <1>2
  <2> HIDE DEF Fun
  <2> QED BY <2>1 DEF Folds
<1> HIDE DEF Val
<1>6. Folds(G, T, sel, base, H)
  <2>1. ASSUME NEW s \in SUBSET T, s # {}
        PROVE  G[s] = H[<<G[Rest(s)], sel[s]>>]
    <3>1. Rest(s) \in SUBSET T /\ Rest(s) # T
      BY <1>3, <2>1
    <3>2. G[Rest(s)] = Val(Rest(s))
      <4>1. T # {}
        BY <2>1
      <4> QED BY <3>1, <1>5, <4>1
    <3>3. G[s] = H[<<Val(Rest(s)), sel[s]>>]
      BY <2>1, <1>4
    <3> QED BY <3>2, <3>3
  <2>2. G[{}] = base
    OBVIOUS
  <2>3. G = [s \in SUBSET T |-> G[s]]
    OBVIOUS
  <2> HIDE DEF G
  <2>4. [s \in SUBSET T |-> G[s]] =
           [s \in SUBSET T |-> IF s = {} THEN base ELSE H[<<G[s \ {sel[s]}], sel[s]>>]]
    BY <2>1, <2>2
  <2> QED BY <2>3, <2>4 DEF Folds
<1> QED BY <1>1, <1>6

\* A step function that keeps a type keeps it along a fold.
LEMMA FoldsType ==
    ASSUME NEW S, IsFiniteSet(S), NEW sel, \A s \in SUBSET S : s # {} => sel[s] \in s,
           NEW V, NEW base \in V, NEW H \in [V \X S -> V], NEW g, Folds(g, S, sel, base, H)
    PROVE  g \in [SUBSET S -> V]
<1> DEFINE Bad == {T \in SUBSET S : g[T] \notin V}
<1> SUFFICES ASSUME Bad # {} PROVE FALSE
  <2>1. g = [s \in SUBSET S |-> g[s]]
    BY DEF Folds
  <2> QED BY <2>1
<1>1. PICK T \in Bad : \A U \in SUBSET T : U # T => U \notin Bad
  <2>1. Bad \subseteq SUBSET S
    OBVIOUS
  <2> HIDE DEF Bad
  <2> QED BY <2>1, MinimalSubset
<1>2. CASE T = {}
  BY <1>2 DEF Folds
<1>3. CASE T # {}
  <2>1. sel[T] \in S /\ g[T \ {sel[T]}] \in V
    BY <1>1, <1>3
  <2>2. g[T] = H[<<g[T \ {sel[T]}], sel[T]>>]
    BY <1>3 DEF Folds
  <2> QED BY <2>1, <2>2
<1> QED BY <1>2, <1>3

\* The index folded last is an index.
LEMMA MaxFacts ==
    ASSUME NEW n \in Nat, NEW s \in SUBSET (1..n), s # {}
    PROVE  Max(s) \in s
<1> DEFINE Bad == {T \in SUBSET s : T # {} /\ ~\E x \in T : \A y \in T : x >= y}
<1>0. (\E x \in s : \A y \in s : x >= y) => Max(s) \in s
  BY DEF Max
<1> SUFFICES ASSUME Bad # {} PROVE FALSE
  BY <1>0
<1>1. PICK T \in Bad : \A U \in SUBSET T : U # T => U \notin Bad
  <2>1. Bad \subseteq SUBSET s
    OBVIOUS
  <2>2. IsFiniteSet(s)
    <3>1. IsFiniteSet(1..n)
      BY FS_Interval
    <3> QED BY <3>1, FS_Subset
  <2> HIDE DEF Bad
  <2> QED BY <2>1, <2>2, MinimalSubset
<1>2. PICK x \in T : TRUE
  BY <1>1
<1>3. CASE T = {x}
  BY <1>2, <1>3
<1>4. CASE T # {x}
  <2>1. T \ {x} \in SUBSET T /\ T \ {x} # T /\ T \ {x} # {} /\ T \ {x} \in SUBSET s
    BY <1>2, <1>4
  <2>2. T \ {x} \notin Bad
    BY <1>1, <2>1
  <2>3. PICK m \in T \ {x} : \A y \in T \ {x} : m >= y
    BY <2>1, <2>2
  <2>4. \A y \in T : y \in Int
    BY <1>1
  <2>5. CASE m >= x
    <3>1. \A y \in T : m >= y
      BY <2>3, <2>5
    <3> QED BY <2>3, <3>1
  <2>6. CASE x >= m
    <3>1. \A y \in T : x >= y
      <4> SUFFICES ASSUME NEW y \in T, y # x PROVE x >= y
        BY <1>2, <2>4
      <4>1. m >= y /\ y \in Int /\ m \in Int /\ x \in Int
        BY <2>3, <2>4, <1>2
      <4> QED BY <4>1, <2>6
    <3> QED BY <1>2, <3>1
  <2> QED BY <1>2, <2>3, <2>4, <2>5, <2>6
<1> QED BY <1>3, <1>4

-----------------------------------------------------------------------------
\* The choice of a fold over a sequence of length n.
Latest(n) == [s \in SUBSET (1..n) |-> Max(s)]

\* It is a choice FoldsExists and FoldsType can use.
LEMMA LatestFacts ==
    ASSUME NEW n \in Nat
    PROVE  \A s \in SUBSET (1..n) : s # {} => Latest(n)[s] \in s
BY MaxFacts DEF Latest

\* A step function that keeps a type has a fold, and the fold has the type.
LEMMA TypedFold ==
    ASSUME NEW n \in Nat, NEW V, NEW base \in V, NEW H \in [V \X (1..n) -> V]
    PROVE  \E g \in [SUBSET (1..n) -> V] : Folds(g, 1..n, Latest(n), base, H)
<1>1. IsFiniteSet(1..n)
  BY FS_Interval
<1>2. PICK g : Folds(g, 1..n, Latest(n), base, H)
  BY <1>1, LatestFacts, FoldsExists
<1>3. g \in [SUBSET (1..n) -> V]
  BY <1>1, <1>2, LatestFacts, FoldsType
<1> QED BY <1>2, <1>3

-----------------------------------------------------------------------------
(* Effects folded into a balance. *)

\* The equation of Settled.
Settles(g, balance, effects, n) ==
    g = [s \in SUBSET (1..n) |->
            IF s = {} THEN balance ELSE Fold(g[s \ {Max(s)}], effects[Max(s)])]

\* FoldLeft, expanded.
LEMMA SettledIsChosen ==
    ASSUME NEW balance, NEW n \in Nat, NEW effects, DOMAIN effects = 1..n
    PROVE  Settled(balance, effects) = (CHOOSE g : Settles(g, balance, effects, n))[1..n]
BY DEF Settled, FoldLeft, MapThenFoldSet, Settles

Balances == U128 \cup {None, Foreign}

\* No effect takes a balance out of u128, except to None or Foreign.
LEMMA FoldType ==
    ASSUME NEW balance \in Balances, NEW effect \in Effects
    PROVE  Fold(balance, effect) \in Balances
<1>1. CASE balance < 0
  BY <1>1 DEF Fold
<1>2. CASE ~(balance < 0)
  <2>1. balance \in U128 /\ balance \in Nat
    BY <1>2, MaxUAssumption DEF Balances, None, Foreign, U128
  <2>2. CASE effect.kind = "Foreign"
    BY <1>2, <2>2 DEF Fold, Balances
  <2>3. CASE effect.kind = "Debit"
    <3>1. effect.amount \in U128
      BY <2>3, ShieldedAssumption DEF Effects
    <3>2. Fold(balance, effect) = IF effect.amount <= balance THEN balance - effect.amount ELSE None
      BY <1>2, <2>3 DEF Fold
    <3> QED BY <2>1, <3>1, <3>2, MaxUAssumption DEF Balances, U128
  <2>4. CASE effect.kind = "Credit"
    <3>1. effect.amount \in U128
      BY <2>4, ShieldedAssumption DEF Effects
    <3>2. Fold(balance, effect)
            = IF Overflows(balance, effect.amount) THEN None ELSE balance + effect.amount
      BY <1>2, <2>4 DEF Fold
    <3> QED BY <2>1, <3>1, <3>2, MaxUAssumption DEF Balances, U128, Overflows
  <2> QED BY <2>2, <2>3, <2>4 DEF Effects
<1> QED BY <1>1, <1>2

\* So a list of effects leaves a u128, None or Foreign.
LEMMA SettledType ==
    ASSUME NEW balance \in U128, NEW effects \in EffectLists
    PROVE  Settled(balance, effects) \in Balances
<1>1. PICK n \in Nat : effects \in [1..n -> Effects]
  BY ShieldedAssumption DEF EffectLists
<1> DEFINE H == [p \in Balances \X (1..n) |-> Fold(p[1], effects[p[2]])]
           g == CHOOSE h : Settles(h, balance, effects, n)
<1>2. H \in [Balances \X (1..n) -> Balances]
  <2>1. ASSUME NEW p \in Balances \X (1..n) PROVE Fold(p[1], effects[p[2]]) \in Balances
    BY <1>1, FoldType
  <2> QED BY <2>1
<1>3. balance \in Balances
  BY DEF Balances
<1>4. \E h : Settles(h, balance, effects, n)
  <2>1. \A x \in Balances, k \in 1..n : H[<<x, k>>] = Fold(x, effects[k])
    OBVIOUS
  <2> HIDE DEF H
  <2>2. PICK h \in [SUBSET (1..n) -> Balances] : Folds(h, 1..n, Latest(n), balance, H)
    BY <1>2, <1>3, TypedFold
  <2>3. ASSUME NEW s \in SUBSET (1..n), s # {}
        PROVE  H[<<h[s \ {Latest(n)[s]}], Latest(n)[s]>>]
                   = Fold(h[s \ {Max(s)}], effects[Max(s)])
    <3>1. Latest(n)[s] = Max(s) /\ Max(s) \in 1..n
      BY <2>3, MaxFacts DEF Latest
    <3>2. h[s \ {Max(s)}] \in Balances
      BY <2>2
    <3> QED BY <2>1, <3>1, <3>2
  <2>4. Settles(h, balance, effects, n)
    BY <2>2, <2>3 DEF Folds, Settles
  <2> QED BY <2>4
<1>5. Settles(g, balance, effects, n)
  BY <1>4
<1> HIDE DEF g, H
<1> DEFINE Bad == {T \in SUBSET (1..n) : g[T] \notin Balances}
<1>6. ASSUME Bad # {} PROVE FALSE
  <2>1. PICK T \in Bad : \A U \in SUBSET T : U # T => U \notin Bad
    <3>1. Bad \subseteq SUBSET (1..n) /\ IsFiniteSet(1..n)
      BY FS_Interval
    <3> HIDE DEF Bad
    <3> QED BY <1>6, <3>1, MinimalSubset
  <2>2. CASE T = {}
    BY <1>3, <1>5, <2>2 DEF Settles
  <2>3. CASE T # {}
    <3>1. Max(T) \in T
      BY <2>3, MaxFacts
    <3>2. g[T \ {Max(T)}] \in Balances
      BY <2>1, <3>1
    <3>3. g[T] = Fold(g[T \ {Max(T)}], effects[Max(T)])
      BY <1>5, <2>3 DEF Settles
    <3>4. effects[Max(T)] \in Effects
      BY <1>1, <3>1
    <3>5. g[T] \in Balances
      BY <3>2, <3>3, <3>4, FoldType
    <3> QED BY <3>5
  <2> QED BY <2>2, <2>3
<1>7. g[1..n] \in Balances
  BY <1>6
<1>8. Settled(balance, effects) = g[1..n]
  BY <1>1, SettledIsChosen DEF g
<1> QED BY <1>7, <1>8

-----------------------------------------------------------------------------
(* Draws of private actions. *)

\* Check 1 and 2 but for the empty list.
DistinctLists ==
    {actions \in SUBSET PrivateActions :
        \A a, b \in actions : a.nullifier = b.nullifier \/ a.commitment = b.commitment => a = b}

\* push_private_action_if_unique keeps a list distinct, and never leaves it empty.
LEMMA PushType ==
    ASSUME NEW actions \in DistinctLists, NEW action \in PrivateActions
    PROVE  Push(actions, action) \in DistinctLists /\ Push(actions, action) # {}
BY DEF Push, DistinctLists

\* The equation of the draws kept.
Keeps(g, draws, n) ==
    g = [s \in SUBSET (1..n) |->
            IF s = {} THEN {} ELSE Push(g[s \ {Max(s)}], draws[Max(s)])]

\* FoldLeft, expanded.
LEMMA KeptIsChosen ==
    ASSUME NEW n \in Nat, NEW draws, DOMAIN draws = 1..n
    PROVE  FoldLeft(Push, {}, draws) = (CHOOSE g : Keeps(g, draws, n))[1..n]
BY DEF FoldLeft, MapThenFoldSet, Keeps

\* Whatever is drawn, what is kept is distinct, and not empty if anything was drawn.
LEMMA KeptType ==
    ASSUME NEW n \in Nat, NEW draws \in [1..n -> PrivateActions]
    PROVE  /\ FoldLeft(Push, {}, draws) \in DistinctLists
           /\ n > 0 => FoldLeft(Push, {}, draws) # {}
<1> DEFINE H == [p \in DistinctLists \X (1..n) |-> Push(p[1], draws[p[2]])]
           g == CHOOSE h : Keeps(h, draws, n)
<1>2. H \in [DistinctLists \X (1..n) -> DistinctLists]
  <2>1. ASSUME NEW p \in DistinctLists \X (1..n) PROVE Push(p[1], draws[p[2]]) \in DistinctLists
    BY PushType
  <2> QED BY <2>1
<1>3. {} \in DistinctLists
  BY DEF DistinctLists
<1>4. \E h : Keeps(h, draws, n)
  <2>1. \A x \in DistinctLists, k \in 1..n : H[<<x, k>>] = Push(x, draws[k])
    OBVIOUS
  <2> HIDE DEF H
  <2>2. PICK h \in [SUBSET (1..n) -> DistinctLists] : Folds(h, 1..n, Latest(n), {}, H)
    BY <1>2, <1>3, TypedFold
  <2>3. ASSUME NEW s \in SUBSET (1..n), s # {}
        PROVE  H[<<h[s \ {Latest(n)[s]}], Latest(n)[s]>>]
                   = Push(h[s \ {Max(s)}], draws[Max(s)])
    <3>1. Latest(n)[s] = Max(s) /\ Max(s) \in 1..n
      BY <2>3, MaxFacts DEF Latest
    <3>2. h[s \ {Max(s)}] \in DistinctLists
      BY <2>2
    <3> QED BY <2>1, <3>1, <3>2
  <2>4. Keeps(h, draws, n)
    BY <2>2, <2>3 DEF Folds, Keeps
  <2> QED BY <2>4
<1>5. Keeps(g, draws, n)
  BY <1>4
<1> HIDE DEF g, H
<1> DEFINE Bad == {T \in SUBSET (1..n) : g[T] \notin DistinctLists}
<1>6. ASSUME Bad # {} PROVE FALSE
  <2>1. PICK T \in Bad : \A U \in SUBSET T : U # T => U \notin Bad
    <3>1. Bad \subseteq SUBSET (1..n) /\ IsFiniteSet(1..n)
      BY FS_Interval
    <3> HIDE DEF Bad
    <3> QED BY <1>6, <3>1, MinimalSubset
  <2>2. CASE T = {}
    BY <1>3, <1>5, <2>2 DEF Keeps
  <2>3. CASE T # {}
    <3>1. Max(T) \in T
      BY <2>3, MaxFacts
    <3>2. g[T \ {Max(T)}] \in DistinctLists
      BY <2>1, <3>1
    <3>3. g[T] = Push(g[T \ {Max(T)}], draws[Max(T)])
      BY <1>5, <2>3 DEF Keeps
    <3>4. g[T] \in DistinctLists
      BY <3>1, <3>2, <3>3, PushType
    <3> QED BY <3>4
  <2> QED BY <2>2, <2>3
<1>7. g[1..n] \in DistinctLists
  BY <1>6
<1>8. n > 0 => g[1..n] # {}
  <2> SUFFICES ASSUME n > 0 PROVE g[1..n] # {}
    OBVIOUS
  <2>1. 1 \in 1..n
    OBVIOUS
  <2>2. g[1..n] = Push(g[(1..n) \ {Max(1..n)}], draws[Max(1..n)])
    BY <1>5, <2>1 DEF Keeps
  <2>3. Max(1..n) \in 1..n
    BY <2>1, MaxFacts
  <2>4. g[(1..n) \ {Max(1..n)}] \in DistinctLists
    BY <1>6
  <2> QED BY <2>2, <2>3, <2>4, PushType
<1>9. FoldLeft(Push, {}, draws) = g[1..n]
  BY KeptIsChosen DEF g
<1> QED BY <1>7, <1>8, <1>9

\* The private actions of a drawn transaction pass checks 1 and 2.
LEMMA PrivateListsFacts ==
    ASSUME NEW actions \in PrivateLists
    PROVE  actions \in DistinctLists /\ actions # {}
<1>1. CASE actions \in {{a} : a \in PrivateActions}
  BY <1>1 DEF DistinctLists
<1>2. CASE actions \notin {{a} : a \in PrivateActions}
  <2>0. PICK n \in Nat : \E draws \in [1..n -> PrivateActions] :
          draws # <<>> /\ actions = FoldLeft(Push, {}, draws)
    BY <1>2, ShieldedTargetsAssumption DEF PrivateLists
  <2>1. PICK draws \in [1..n -> PrivateActions] :
          draws # <<>> /\ actions = FoldLeft(Push, {}, draws)
    BY <2>0
  <2>2. n > 0
    <3>1. CASE n = 0
      <4>1. 1..n = {}
        BY <3>1
      <4>2. DOMAIN draws = {}
        BY <4>1
      <4>3. draws = <<>>
        BY <4>2
      <4> QED BY <2>1, <4>3
    <3> QED BY <3>1
  <2> QED BY <2>1, <2>2, KeptType
<1> QED BY <1>1, <1>2

-----------------------------------------------------------------------------
(* Types. *)

\* The replay of the current transaction is still to be counted.
TInv == TypeOK /\ (pc = "replay" => i < MaxTxs)

\* LiveNonces of accounts declares u128 nonces.
LEMMA LiveNoncesType ==
    ASSUME state \in ShieldedStates, NEW ids \in SUBSET AccountIds
    PROVE  LiveNonces(state, ids) \in [ids -> U128]
BY DEF LiveNonces, ShieldedStates, States, Account

\* arb_privacy_preserving_tx draws a transaction.
LEMMA DrawsType ==
    ASSUME fuzz_accs \in FuzzStates, state \in ShieldedStates, NEW t \in Draws
    PROVE  t \in ShieldedTxs
<1>1. PICK signers \in SignerSets :
        t \in [signers         : {LiveNonces(state, signers)},
               public_actions  : UNION {[ids -> EffectLists] : ids \in PublicIds(signers)},
               private_actions : PrivateLists,
               window          : Windows,
               proof_passes    : BOOLEAN]
  BY DEF Draws
<1>2. signers \in SUBSET AccountIds
  BY IdsFacts DEF SignerSets
<1>3. LiveNonces(state, signers) \in [signers -> U128]
  BY <1>2, LiveNoncesType
<1>4. \A ids \in PublicIds(signers) : ids \in SUBSET AccountIds
  BY <1>2 DEF PublicIds
<1>5. PrivateLists \subseteq SUBSET PrivateActions
  BY PrivateListsFacts DEF DistinctLists
<1>6. Windows \subseteq SUBSET (1..MaxBlock)
  BY DEF Windows
<1>7. t.signers \in UNION {[ids -> U128] : ids \in SUBSET AccountIds}
  BY <1>1, <1>2, <1>3
<1>8. t.public_actions \in UNION {[ids -> EffectLists] : ids \in SUBSET AccountIds}
  BY <1>1, <1>4
<1>9. /\ t.private_actions \in SUBSET PrivateActions
      /\ t.window \in SUBSET (1..MaxBlock)
      /\ t.proof_passes \in BOOLEAN
  BY <1>1, <1>5, <1>6
<1>10. t = [signers |-> t.signers, public_actions |-> t.public_actions,
            private_actions |-> t.private_actions, window |-> t.window,
            proof_passes |-> t.proof_passes]
  BY <1>1
<1> QED BY <1>7, <1>8, <1>9, <1>10 DEF ShieldedTxs

\* So does build_pure_private_tx.
LEMMA SpendType ==
    ASSUME fuzz_accs \in FuzzStates, state \in ShieldedStates,
           NEW n \in DOMAIN fuzz_accs, NEW nullifier \in Nullifiers, NEW comm \in Commitments
    PROVE  Spend(n, nullifier, comm) \in ShieldedTxs
<1> DEFINE ids == {fuzz_accs[n].account_id}
           action == [nullifier |-> nullifier, commitment |-> comm, known_root |-> TRUE]
<1>1. ids \in SUBSET AccountIds
  BY FuzzStatesFacts
<1>2. LiveNonces(state, ids) \in [ids -> U128]
  BY <1>1, LiveNoncesType
<1>3. [p \in {} |-> <<>>] \in [{} -> EffectLists]
  OBVIOUS
<1>4. {action} \in SUBSET PrivateActions
  BY DEF PrivateActions
<1> HIDE DEF ids, action
<1>5. Spend(n, nullifier, comm) =
        [signers |-> LiveNonces(state, ids), public_actions |-> [p \in {} |-> <<>>],
         private_actions |-> {action}, window |-> 1..MaxBlock, proof_passes |-> TRUE]
  BY DEF Spend, PureTx, ids, action
<1> QED BY <1>1, <1>2, <1>3, <1>4, <1>5 DEF ShieldedTxs

\* An accepted transaction leaves every balance and nonce a u128.
LEMMA AppliedType ==
    ASSUME NEW st \in ShieldedStates, NEW t \in ShieldedTxs, EffectsApply(st, t)
    PROVE  AppliedShielded(st, t) \in ShieldedStates
<1> DEFINE post == AppliedShielded(st, t)
<1>1. ASSUME NEW id \in AccountIds
      PROVE  post.accounts[id] \in Account
  <2>1. st.accounts[id].balance \in U128 /\ st.accounts[id].nonce \in U128
    BY DEF ShieldedStates, States, Account
  <2>2. WrappingAdd(st.accounts[id].nonce, 1) \in U128
    BY <2>1, MaxUAssumption DEF WrappingAdd, U128
  <2>3. ASSUME id \in DOMAIN t.public_actions
        PROVE  Settled(st.accounts[id].balance, t.public_actions[id]) \in U128
    <3>1. t.public_actions[id] \in EffectLists
      BY <2>3 DEF ShieldedTxs
    <3>2. Settled(st.accounts[id].balance, t.public_actions[id]) \in Balances
      BY <2>1, <3>1, SettledType
    <3>3. Settled(st.accounts[id].balance, t.public_actions[id]) >= 0
      BY <2>3 DEF EffectsApply
    <3> QED BY <3>2, <3>3 DEF Balances, None, Foreign
  <2> QED BY <2>1, <2>2, <2>3 DEF AppliedShielded, Account
<1>2. post.commitments \in SUBSET Commitments /\ post.nullifiers \in SUBSET Nullifiers
  BY DEF AppliedShielded, ShieldedStates, ShieldedTxs, PrivateActions
<1>3. post = [accounts |-> post.accounts, commitments |-> post.commitments,
              nullifiers |-> post.nullifiers]
  BY DEF AppliedShielded
<1>4. post.accounts = [id \in AccountIds |-> post.accounts[id]]
  BY DEF AppliedShielded
<1> HIDE DEF post
<1>5. post.accounts \in States
  BY <1>1, <1>4 DEF States
<1> QED BY <1>2, <1>3, <1>5 DEF ShieldedStates, post

\* A ledger that follows the rules is typed.
LEMMA FaithfulIsTyped == FaithfulLedger => TypedLedger
<1> SUFFICES ASSUME FaithfulLedger, NEW st \in ShieldedStates, NEW t \in ShieldedTxs,
                    NEW block \in Nat
             PROVE  ExecuteShielded(st, t, block) \in [ok : BOOLEAN, post : ShieldedStates]
  BY DEF FaithfulLedger, TypedLedger
<1>1. CASE AcceptsShielded(st, t, block)
  BY <1>1, AppliedType DEF ExecuteShielded, AcceptsShielded
<1>2. CASE ~AcceptsShielded(st, t, block)
  BY <1>2 DEF ExecuteShielded
<1> QED BY <1>1, <1>2

\* Init => TInv
LEMMA InitTyped == Init => TInv
<1> SUFFICES ASSUME Init PROVE TInv
  OBVIOUS
<1>1. fuzz_accs \in FuzzStates
  BY DEF Init
<1>2. Genesis(fuzz_accs) \in States
  BY <1>1, GenesisFacts
<1>3. state \in ShieldedStates
  BY <1>2 DEF Init, ShieldedStates
<1> QED BY <1>1, <1>3, ShieldedTargetsAssumption DEF Init, TInv, TypeOK

\* TInv /\ [Next]_vars => TInv'
LEMMA NextTyped == TypedLedger /\ TInv /\ [Next]_vars => TInv'
<1> SUFFICES ASSUME TypedLedger, TInv, [Next]_vars PROVE TInv'
  OBVIOUS
<1> USE DEF NextTx
<1>0. /\ i \in Nat /\ i + 1 \in Nat /\ MaxTxs \in Nat
      /\ block_id \in Nat /\ block_id + 1 \in Nat
      /\ fuzz_accs \in FuzzStates /\ state \in ShieldedStates
      /\ applied_tx \subseteq ShieldedTxs
  BY ShieldedTargetsAssumption DEF TInv, TypeOK, block_id
<1>1. ASSUME NEW t \in ShieldedTxs, NEW block \in Nat, NEW ans \in Outcomes(state, t, block)
      PROVE  ans.post \in ShieldedStates
  BY <1>0, <1>1 DEF TypedLedger
<1>2. ASSUME NEW t \in Draws PROVE t \in ShieldedTxs
  BY <1>0, DrawsType
<1>3. ASSUME NEW t \in Draws, ExecuteSeed(t) PROVE TInv'
  BY <1>0, <1>1, <1>2, <1>3 DEF ExecuteSeed, TInv, TypeOK
<1>4. ASSUME NEW t \in Draws, ExecuteRejected(t) PROVE TInv'
  BY <1>0, <1>1, <1>2, <1>4 DEF ExecuteRejected, TInv, TypeOK
<1>5. ASSUME NEW t \in Draws, ExecuteAccepted(t) PROVE TInv'
  BY <1>0, <1>1, <1>2, <1>5 DEF ExecuteAccepted, TInv, TypeOK
<1>6. CASE Replay
  BY <1>0, <1>1, <1>6 DEF Replay, TInv, TypeOK
<1>7. CASE Return
  BY <1>7 DEF Return, TInv, TypeOK
<1>8. CASE BuildPair
  <2>1. ConflictingPairs \subseteq ShieldedTxs \X ShieldedTxs
    <3>1. ASSUME NEW m \in DOMAIN fuzz_accs, NEW n \in DOMAIN fuzz_accs
          PROVE  OtherSigner(m, n) \in DOMAIN fuzz_accs
      <4> DEFINE len == Len(fuzz_accs)
      <4>1. DOMAIN fuzz_accs = 1..len /\ len \in Nat
        BY <1>0, FuzzStatesFacts, GeneratorAssumption
      <4>2. m % len \in 0..len - 1
        BY <4>1
      <4> QED BY <4>1, <4>2 DEF OtherSigner
    <3> QED BY <1>0, <3>1, SpendType DEF ConflictingPairs
  <2> QED BY <1>8, <2>1 DEF BuildPair, TInv, TypeOK
<1>9. CASE ApplyPair
  BY <1>9 DEF ApplyPair, TInv, TypeOK
<1>10. CASE UNCHANGED vars
  BY <1>10 DEF vars, TInv, TypeOK
<1> QED BY <1>3, <1>4, <1>5, <1>6, <1>7, <1>8, <1>9, <1>10 DEF Next

-----------------------------------------------------------------------------
(* A ledger that follows the rules. *)

\* An accepted transaction increments the nonce of each signer and no other, and
\* no nonce wraps around.
LEMMA AppliedNonces ==
    ASSUME NEW st, NEW t, NEW id \in AccountIds, NEW k \in Nat, k < MaxU,
           st.accounts[id].nonce \in 0..k
    PROVE  /\ AppliedShielded(st, t).accounts[id].nonce
                  = st.accounts[id].nonce + (IF id \in DOMAIN t.signers THEN 1 ELSE 0)
           /\ AppliedShielded(st, t).accounts[id].nonce \in 0..k + 1
<1>1. AppliedShielded(st, t).accounts[id].nonce
          = IF id \in DOMAIN t.signers THEN WrappingAdd(st.accounts[id].nonce, 1)
                                       ELSE st.accounts[id].nonce
  BY DEF AppliedShielded
<1>2. WrappingAdd(st.accounts[id].nonce, 1) = st.accounts[id].nonce + 1
  BY MaxUAssumption DEF WrappingAdd
<1> QED BY <1>1, <1>2

\* Either verdict keeps the nonces within the number of executions.
LEMMA ExecutedNonces ==
    ASSUME NEW st, NEW t, NEW block, NEW k \in Nat, k < MaxU,
           \A id \in AccountIds : st.accounts[id].nonce \in 0..k
    PROVE  \A id \in AccountIds :
               ExecuteShielded(st, t, block).post.accounts[id].nonce \in 0..k + 1
<1> SUFFICES ASSUME NEW id \in AccountIds
             PROVE  ExecuteShielded(st, t, block).post.accounts[id].nonce \in 0..k + 1
  OBVIOUS
<1>1. /\ st.accounts[id].nonce \in 0..k + 1
      /\ AppliedShielded(st, t).accounts[id].nonce \in 0..k + 1
  BY AppliedNonces
<1>2. ExecuteShielded(st, t, block).post \in {st, AppliedShielded(st, t)}
  BY DEF ExecuteShielded
<1> QED BY <1>1, <1>2

\* A nullifier of an accepted transaction is spent.
LEMMA AppliedSpends ==
    ASSUME NEW st, NEW t, NEW block, AcceptsShielded(st, t, block)
    PROVE  \E a \in t.private_actions : a.nullifier \in AppliedShielded(st, t).nullifiers
BY DEF AcceptsShielded, WellFormed, AppliedShielded

\* A transaction with a spent nullifier is refused, in any block, and changes nothing.
LEMMA SpentIsRefused ==
    ASSUME NEW st, NEW t, NEW block,
           \E a \in t.private_actions : a.nullifier \in st.nullifiers
    PROVE  ExecuteShielded(st, t, block) = [ok |-> FALSE, post |-> st]
BY DEF AcceptsShielded, NullifiersUnspent, ExecuteShielded

\* The asserts of the transition target hold for an accepted draw.
LEMMA AcceptedDrawPasses ==
    ASSUME IInv, pc = "loop", i < MaxTxs, NEW t \in Draws, AcceptsShielded(state, t, block_id)
    PROVE  /\ CommitmentInsertion(t, AppliedShielded(state, t))
           /\ NonceIncrementCorrectness(t, AppliedShielded(state, t))
           /\ PublicEffectsApplied(t, AppliedShielded(state, t))
<1> DEFINE post == AppliedShielded(state, t)
<1>1. /\ DOMAIN t.signers \subseteq AccountIds
      /\ DOMAIN t.public_actions \subseteq AccountIds
  BY DrawsFacts DEF IInv
<1>2. \A id \in AccountIds :
          /\ state.accounts[id].nonce \in Nat
          /\ post.accounts[id].nonce
                 = state.accounts[id].nonce + (IF id \in DOMAIN t.signers THEN 1 ELSE 0)
  <2>1. i \in Nat /\ i < MaxU
    BY ShieldedTargetsAssumption, MaxUAssumption DEF IInv
  <2>2. \A id \in AccountIds : state.accounts[id].nonce \in 0..i
    BY DEF IInv, NoncesBounded, Executions
  <2> SUFFICES ASSUME NEW id \in AccountIds
               PROVE  /\ state.accounts[id].nonce \in Nat
                      /\ post.accounts[id].nonce
                             = state.accounts[id].nonce + (IF id \in DOMAIN t.signers THEN 1 ELSE 0)
    OBVIOUS
  <2>3. state.accounts[id].nonce \in 0..i
    BY <2>2
  <2>4. post.accounts[id].nonce
            = state.accounts[id].nonce + (IF id \in DOMAIN t.signers THEN 1 ELSE 0)
    BY <2>1, <2>3, AppliedNonces
  <2> QED BY <2>1, <2>3, <2>4
<1>3. CommitmentInsertion(t, post)
  BY DEF CommitmentInsertion, AppliedShielded
<1>4. NonceIncrementCorrectness(t, post)
  BY <1>1, <1>2 DEF NonceIncrementCorrectness
<1>5. ASSUME NEW id \in DOMAIN t.public_actions
      PROVE  LET balance == Settled(state.accounts[id].balance, t.public_actions[id])
                 signed  == IF id \in DOMAIN t.signers THEN 1 ELSE 0
             IN /\ balance # None
                /\ post.accounts[id] = [balance |-> balance,
                                        nonce   |-> state.accounts[id].nonce + signed]
  <2> DEFINE balance == Settled(state.accounts[id].balance, t.public_actions[id])
  <2>1. balance >= 0
    BY DEF AcceptsShielded, EffectsApply
  <2>2. post.accounts[id] = [balance |-> balance, nonce |-> post.accounts[id].nonce]
    BY <1>1 DEF AppliedShielded
  <2> HIDE DEF balance
  <2>3. balance # None
    BY <2>1 DEF None
  <2> QED BY <1>1, <1>2, <2>2, <2>3 DEF balance
<1>6. PublicEffectsApplied(t, post)
  BY <1>5 DEF PublicEffectsApplied
<1> QED BY <1>3, <1>4, <1>6

-----------------------------------------------------------------------------
(* The conflicting pair. *)

\* Different ids of one generated sequence.
LEMMA SpendFacts ==
    ASSUME fuzz_accs \in FuzzStates,
           NEW m \in DOMAIN fuzz_accs, NEW nullifier \in Nullifiers, NEW comm \in Commitments
    PROVE  /\ fuzz_accs[m].account_id \in AccountIds
           /\ DOMAIN Spend(m, nullifier, comm).signers = {fuzz_accs[m].account_id}
           /\ Spend(m, nullifier, comm).private_actions =
                  {[nullifier |-> nullifier, commitment |-> comm, known_root |-> TRUE]}
BY FuzzStatesFacts DEF Spend, PureTx, LiveNonces

\* What BuildPair leaves in pair.
LEMMA BuiltPairFresh ==
    ASSUME IInv, BuildPair
    PROVE  PairFresh'
<1>1. Len(fuzz_accs) >= 2 /\ fuzz_accs \in FuzzStates
  BY DEF IInv, BuildPair
<1>2. PICK m \in DOMAIN fuzz_accs, n \in DOMAIN fuzz_accs, nullifier \in Nullifiers,
           comm_b \in Commitments, comm_c \in Commitments :
        /\ comm_b # comm_c
        /\ pair' = <<Spend(m, nullifier, comm_b), Spend(OtherSigner(m, n), nullifier, comm_c)>>
  <2>1. PICK m \in DOMAIN fuzz_accs, n \in DOMAIN fuzz_accs, nullifier \in Nullifiers,
             comms \in {c \in Commitments \X Commitments : c[1] # c[2]} :
          pair' = <<Spend(m, nullifier, comms[1]), Spend(OtherSigner(m, n), nullifier, comms[2])>>
    BY DEF BuildPair, ConflictingPairs
  <2>2. comms[1] \in Commitments /\ comms[2] \in Commitments /\ comms[1] # comms[2]
    OBVIOUS
  <2> QED BY <2>1, <2>2
<1>3. OtherSigner(m, n) \in DOMAIN fuzz_accs /\ OtherSigner(m, n) # m
  BY <1>1, OtherSignerFacts
<1>4. fuzz_accs' = fuzz_accs /\ state' = state
  BY DEF BuildPair
<1>5. \A k, c : Spend(k, nullifier, c)' = Spend(k, nullifier, c)
  BY <1>4 DEF Spend, PureTx, LiveNonces
<1> QED BY <1>2, <1>3, <1>4, <1>5 DEF PairFresh

\* One order: of two transactions that share a nullifier the second is accepted
\* only if the first is not.
LEMMA OrderVerdicts ==
    ASSUME FaithfulLedger, state \in ShieldedStates,
           NEW first \in ShieldedTxs, NEW second \in ShieldedTxs,
           NEW a \in first.private_actions, NEW b \in second.private_actions,
           a.nullifier = b.nullifier
    PROVE  Verdicts(first, second) =
               {<<AcceptsShielded(state, first, 1),
                  ~AcceptsShielded(state, first, 1) /\ AcceptsShielded(state, second, 1)>>}
<1> DEFINE r1 == ExecuteShielded(state, first, 1)
           r2 == ExecuteShielded(r1.post, second, 1)
<1>1. Verdicts(first, second) = {<<r1.ok, r2.ok>>}
  <2>1. Outcomes(state, first, 1) = {r1}
    BY DEF FaithfulLedger
  <2>2. r1.post \in ShieldedStates
    BY <2>1, FaithfulIsTyped DEF TypedLedger
  <2>3. Outcomes(r1.post, second, 1) = {r2}
    BY <2>2 DEF FaithfulLedger
  <2> HIDE DEF r1, r2
  <2> QED BY <2>1, <2>3 DEF Verdicts
<1>2. CASE AcceptsShielded(state, first, 1)
  <2>1. r1.ok = TRUE /\ r1.post = AppliedShielded(state, first)
    BY <1>2 DEF ExecuteShielded
  <2>2. b.nullifier \in r1.post.nullifiers
    BY <2>1 DEF AppliedShielded
  <2>3. r2.ok = FALSE
    BY <2>2, SpentIsRefused
  <2> QED BY <1>1, <1>2, <2>1, <2>3
<1>3. CASE ~AcceptsShielded(state, first, 1)
  <2>1. r1.ok = FALSE /\ r1.post = state
    BY <1>3 DEF ExecuteShielded
  <2>2. r2.ok = AcceptsShielded(state, second, 1)
    BY <2>1 DEF ExecuteShielded, AcceptsShielded, WellFormed
  <2>3. (~AcceptsShielded(state, first, 1) /\ AcceptsShielded(state, second, 1))
            = AcceptsShielded(state, second, 1)
    BY <1>3 DEF AcceptsShielded
  <2>4. AcceptsShielded(state, first, 1) = FALSE
    BY <1>3 DEF AcceptsShielded
  <2> QED BY <1>1, <2>1, <2>2, <2>3, <2>4, Zenon
<1> QED BY <1>2, <1>3

\* Verdicts of which at most one is positive.
LEMMA AcceptedCount ==
    ASSUME NEW x \in BOOLEAN, NEW y \in BOOLEAN, ~(x /\ y)
    PROVE  Accepted(<<x, y>>) = IF x \/ y THEN 1 ELSE 0
<1> DEFINE S == {k \in DOMAIN <<x, y>> : <<x, y>>[k]}
<1>1. /\ DOMAIN <<x, y>> = {1, 2}
      /\ <<x, y>>[1] = x /\ <<x, y>>[2] = y
      /\ 1 # 2
  OBVIOUS
<1>2. S = {k \in {1, 2} : (k = 1 /\ x) \/ (k = 2 /\ y)}
  BY <1>1, Zenon
<1>3. CASE x /\ ~y
  <2>1. S = {1}
    BY <1>1, <1>2, <1>3, Zenon
  <2> QED BY <1>3, <2>1, FS_Singleton DEF Accepted
<1>4. CASE ~x /\ y
  <2>1. S = {2}
    BY <1>1, <1>2, <1>4, Zenon
  <2> QED BY <1>4, <2>1, FS_Singleton DEF Accepted
<1>5. CASE ~x /\ ~y
  <2>1. S = {}
    BY <1>2, <1>5, Zenon
  <2> QED BY <1>5, <2>1, FS_EmptySet DEF Accepted
<1> QED BY <1>3, <1>4, <1>5

\* Both assertions of the ordering target hold.
LEMMA PairPasses ==
    ASSUME FaithfulLedger, TInv, IInv, ApplyPair
    PROVE  pc' = "returned"
<1>1. PairFresh /\ fuzz_accs \in FuzzStates
  BY DEF IInv, ApplyPair
<1>2. PICK m \in DOMAIN fuzz_accs, n \in DOMAIN fuzz_accs, nullifier \in Nullifiers,
           comm_b \in Commitments, comm_c \in Commitments :
        pair = <<Spend(m, nullifier, comm_b), Spend(n, nullifier, comm_c)>>
  BY <1>1 DEF PairFresh
<1> DEFINE actb == [nullifier |-> nullifier, commitment |-> comm_b, known_root |-> TRUE]
           actc == [nullifier |-> nullifier, commitment |-> comm_c, known_root |-> TRUE]
           B == AcceptsShielded(state, pair[1], 1)
           C == AcceptsShielded(state, pair[2], 1)
<1>3. actb \in pair[1].private_actions /\ actc \in pair[2].private_actions
  BY <1>1, <1>2, SpendFacts
<1>4. /\ Verdicts(pair[1], pair[2]) = {<<B, ~B /\ C>>}
      /\ Verdicts(pair[2], pair[1]) = {<<C, ~C /\ B>>}
  <2>0. /\ state \in ShieldedStates
        /\ pair[1] \in ShieldedTxs /\ pair[2] \in ShieldedTxs
    BY <1>1, <1>2, SpendType DEF TInv, TypeOK
  <2>1. actb.nullifier = actc.nullifier
    OBVIOUS
  <2> HIDE DEF actb, actc
  <2> QED BY <1>3, <2>0, <2>1, OrderVerdicts
<1>5. B \in BOOLEAN /\ C \in BOOLEAN
  BY DEF AcceptsShielded
<1> HIDE DEF B, C
<1>6. /\ Accepted(<<B, ~B /\ C>>) = IF B \/ C THEN 1 ELSE 0
      /\ Accepted(<<C, ~C /\ B>>) = IF B \/ C THEN 1 ELSE 0
  <2>1. (~B /\ C) \in BOOLEAN /\ (~C /\ B) \in BOOLEAN
    OBVIOUS
  <2>2. Accepted(<<B, ~B /\ C>>) = IF B \/ (~B /\ C) THEN 1 ELSE 0
    BY <1>5, <2>1, AcceptedCount
  <2>3. Accepted(<<C, ~C /\ B>>) = IF C \/ (~C /\ B) THEN 1 ELSE 0
    BY <1>5, <2>1, AcceptedCount
  <2> QED BY <1>5, <2>2, <2>3
<1> QED BY <1>4, <1>6 DEF ApplyPair

-----------------------------------------------------------------------------
(* The inductive invariant. *)

\* Init => IInv
LEMMA InitIInv == Init => IInv
<1> SUFFICES ASSUME Init PROVE IInv
  OBVIOUS
<1>1. fuzz_accs \in FuzzStates /\ i = 0 /\ applied_tx = {} /\ pc \in {"loop", "returned"}
  BY DEF Init
<1>2. NoncesBounded
  <2>1. ASSUME NEW id \in AccountIds PROVE state.accounts[id].nonce = 0
    BY DEF Init, Genesis, SystemAccount, Funded, DefaultAccount
  <2>2. Executions = 0
    BY <1>1 DEF Executions
  <2>3. 0 \in 0..Executions
    BY <2>2
  <2> QED BY <2>1, <2>3 DEF NoncesBounded
<1>3. target = "ordering" /\ pc # "returned" => Len(fuzz_accs) >= 2
  <2>1. Len(fuzz_accs) \in Nat
    BY <1>1, FuzzStatesFacts, GeneratorAssumption
  <2> QED BY <2>1 DEF Init
<1> QED BY <1>1, <1>2, <1>3, ShieldedTargetsAssumption DEF IInv, ReplayDoomed

\* What the ledger may answer to a drawn transaction.
LEMMA DrawnOutcome ==
    ASSUME FaithfulLedger, TInv, NEW t \in Draws
    PROVE  Outcomes(state, t, block_id) = {ExecuteShielded(state, t, block_id)}
<1>1. fuzz_accs \in FuzzStates /\ state \in ShieldedStates /\ block_id \in Nat
  BY ShieldedTargetsAssumption DEF TInv, TypeOK, block_id
<1>2. t \in ShieldedTxs
  BY <1>1, DrawsType
<1> QED BY <1>1, <1>2 DEF FaithfulLedger

\* What every execution of a drawn transaction keeps.
LEMMA ExecuteNonces ==
    ASSUME FaithfulLedger, TInv, IInv, pc = "loop", i < MaxTxs, NEW t \in Draws,
           \E ans \in Outcomes(state, t, block_id) : state' = ans.post
    PROVE  \A id \in AccountIds : state'.accounts[id].nonce \in 0..i + 1
<1>1. i \in Nat /\ i < MaxU
  BY ShieldedTargetsAssumption, MaxUAssumption DEF IInv
<1>2. \A id \in AccountIds : state.accounts[id].nonce \in 0..i
  BY DEF IInv, NoncesBounded, Executions
<1>3. state' = ExecuteShielded(state, t, block_id).post
  BY DrawnOutcome
<1> QED BY <1>1, <1>2, <1>3, ExecutedNonces

\* TInv /\ IInv /\ [Next]_vars => IInv'
LEMMA NextIInv == FaithfulLedger /\ TInv /\ IInv /\ [Next]_vars => IInv'
<1> SUFFICES ASSUME FaithfulLedger, TInv, IInv, [Next]_vars PROVE IInv'
  OBVIOUS
<1> USE DEF NextTx
<1>0. i \in Nat /\ i + 1 \in Nat /\ MaxTxs \in Nat
  BY ShieldedTargetsAssumption DEF IInv
<1>1. ASSUME NEW t \in Draws, ExecuteSeed(t) PROVE IInv'
  <2>1. \A id \in AccountIds : state'.accounts[id].nonce \in 0..i + 1
    BY <1>1, ExecuteNonces DEF ExecuteSeed
  <2>2. NoncesBounded'
    BY <1>1, <2>1 DEF NoncesBounded, Executions, ExecuteSeed
  <2>3. ReplayDoomed'
    BY <1>1 DEF IInv, ReplayDoomed, ExecuteSeed
  <2> QED BY <1>0, <1>1, <2>2, <2>3 DEF IInv, ExecuteSeed
<1>2. ASSUME NEW t \in Draws, ExecuteRejected(t) PROVE IInv'
  <2>1. \A id \in AccountIds : state'.accounts[id].nonce \in 0..i + 1
    BY <1>2, ExecuteNonces DEF ExecuteRejected
  <2>2. state' = state /\ pc' = "loop"
    BY <1>2, DrawnOutcome DEF ExecuteRejected, ExecuteShielded, IsolatedOnFailure
  <2>3. NoncesBounded'
    BY <1>2, <2>1, <2>2 DEF NoncesBounded, Executions, ExecuteRejected
  <2>4. ReplayDoomed'
    BY <1>2, <2>2 DEF IInv, ReplayDoomed, ExecuteRejected
  <2> QED BY <1>0, <1>2, <2>2, <2>3, <2>4 DEF IInv, ExecuteRejected
<1>3. ASSUME NEW t \in Draws, ExecuteAccepted(t) PROVE IInv'
  <2>1. \A id \in AccountIds : state'.accounts[id].nonce \in 0..i + 1
    BY <1>3, ExecuteNonces DEF ExecuteAccepted
  <2>2. AcceptsShielded(state, t, block_id) /\ state' = AppliedShielded(state, t)
    BY <1>3, DrawnOutcome DEF ExecuteAccepted, ExecuteShielded
  <2>3. pc' = "replay"
    <3>1. pc = "loop" /\ i < MaxTxs
      BY <1>3 DEF ExecuteAccepted
    <3> QED BY <1>3, <2>2, <3>1, AcceptedDrawPasses DEF ExecuteAccepted
  <2>4. NoncesBounded'
    BY <1>3, <2>1, <2>3 DEF NoncesBounded, Executions, ExecuteAccepted
  <2>5. ReplayDoomed'
    BY <1>3, <2>2, AppliedSpends DEF ReplayDoomed, ExecuteAccepted
  <2> QED BY <1>0, <1>3, <2>3, <2>4, <2>5 DEF IInv, ExecuteAccepted
<1>4. CASE Replay
  <2>1. state' = state /\ pc' = "loop"
    <3>1. /\ state \in ShieldedStates /\ applied_tx \subseteq ShieldedTxs
          /\ block_id + 1 \in Nat
      BY ShieldedTargetsAssumption DEF TInv, TypeOK, block_id
    <3>2. ASSUME NEW t \in applied_tx
          PROVE  Outcomes(state, t, block_id + 1) = {[ok |-> FALSE, post |-> state]}
      <4>1. Outcomes(state, t, block_id + 1) = {ExecuteShielded(state, t, block_id + 1)}
        BY <3>1 DEF FaithfulLedger
      <4>2. \E a \in t.private_actions : a.nullifier \in state.nullifiers
        BY DEF IInv, ReplayDoomed
      <4> QED BY <4>1, <4>2, SpentIsRefused
    <3> QED BY <1>4, <3>2 DEF Replay
  <2>2. NoncesBounded'
    BY <1>4, <2>1 DEF Replay, IInv, NoncesBounded, Executions
  <2>3. ReplayDoomed'
    BY <1>4 DEF Replay, ReplayDoomed
  <2> QED BY <1>0, <1>4, <2>1, <2>2, <2>3 DEF IInv, Replay
<1>5. CASE Return
  BY <1>5 DEF Return, IInv, NoncesBounded, Executions, ReplayDoomed
<1>6. CASE BuildPair
  <2>1. PairFresh'
    BY <1>6, BuiltPairFresh
  <2> QED BY <1>6, <2>1 DEF BuildPair, IInv, NoncesBounded, Executions, ReplayDoomed
<1>7. CASE ApplyPair
  <2>1. pc' = "returned"
    BY <1>7, PairPasses
  <2> QED BY <1>7, <2>1 DEF ApplyPair, IInv, NoncesBounded, Executions, ReplayDoomed
<1>8. CASE UNCHANGED vars
  <2>1. PairFresh' = PairFresh
    BY <1>8 DEF vars, PairFresh, Spend, PureTx, LiveNonces
  <2> QED BY <1>8, <2>1 DEF vars, IInv, NoncesBounded, Executions, ReplayDoomed
<1> QED BY <1>1, <1>2, <1>3, <1>4, <1>5, <1>6, <1>7, <1>8 DEF Next

-----------------------------------------------------------------------------
(* The second of the pair. *)

\* A pure-private transaction bound to a known root, in a state that knows neither
\* its commitment nor its nullifier and in which its signer's nonce is the one declared.
LEMMA SpendAccepted ==
    ASSUME fuzz_accs \in FuzzStates, NEW st,
           NEW n \in DOMAIN fuzz_accs, NEW nullifier \in Nullifiers, NEW comm \in Commitments,
           st.accounts[fuzz_accs[n].account_id].nonce
               = state.accounts[fuzz_accs[n].account_id].nonce,
           CommitmentsNew(st, Spend(n, nullifier, comm)),
           NullifiersUnspent(st, Spend(n, nullifier, comm))
    PROVE  AcceptsShielded(st, Spend(n, nullifier, comm), 1)
<1> DEFINE t == Spend(n, nullifier, comm)
<1>1. /\ t.signers = LiveNonces(state, {fuzz_accs[n].account_id})
      /\ t.public_actions = [p \in {} |-> <<>>]
      /\ t.window = 1..MaxBlock
      /\ t.proof_passes
      /\ t.private_actions = {[nullifier |-> nullifier, commitment |-> comm, known_root |-> TRUE]}
  BY DEF Spend, PureTx
<1> HIDE DEF t
<1>2. WellFormed(t) /\ RootsKnown(t)
  BY <1>1 DEF WellFormed, RootsKnown
<1>3. NoncesMatch(st, t)
  BY <1>1 DEF NoncesMatch, LiveNonces
<1>4. 1 \in t.window
  BY <1>1, ShieldedAssumption, ShieldedTargetsAssumption
<1>5. EffectsApply(st, t)
  BY <1>1 DEF EffectsApply
<1> QED BY <1>1, <1>2, <1>3, <1>4, <1>5 DEF AcceptsShielded, t

\* A fresh pair, in either order.
LEMMA FreshPairRefused ==
    ASSUME fuzz_accs \in FuzzStates,
           NEW m \in DOMAIN fuzz_accs, NEW n \in DOMAIN fuzz_accs, m # n,
           NEW nullifier \in Nullifiers,
           NEW comm1 \in Commitments, NEW comm2 \in Commitments, comm1 # comm2,
           AcceptsShielded(state, Spend(m, nullifier, comm1), 1),
           CommitmentsNew(state, Spend(n, nullifier, comm2))
    PROVE  LET after == AppliedShielded(state, Spend(m, nullifier, comm1))
           IN /\ ~NullifiersUnspent(after, Spend(n, nullifier, comm2))
              /\ AcceptsShielded([after EXCEPT !.nullifiers = state.nullifiers],
                                 Spend(n, nullifier, comm2), 1)
<1> DEFINE first  == Spend(m, nullifier, comm1)
           second == Spend(n, nullifier, comm2)
           after  == AppliedShielded(state, first)
           reset  == [after EXCEPT !.nullifiers = state.nullifiers]
           signer == fuzz_accs[n].account_id
<1>1. /\ DOMAIN first.signers = {fuzz_accs[m].account_id}
      /\ first.private_actions = {[nullifier |-> nullifier, commitment |-> comm1, known_root |-> TRUE]}
      /\ second.private_actions = {[nullifier |-> nullifier, commitment |-> comm2, known_root |-> TRUE]}
      /\ signer \in AccountIds
  BY SpendFacts
<1>2. signer # fuzz_accs[m].account_id
  BY FuzzStatesFacts DEF Distinct
<1> HIDE DEF first, second, signer
<1>3. /\ after.nullifiers = state.nullifiers \cup {nullifier}
      /\ after.commitments = state.commitments \cup {comm1}
      /\ after.accounts[signer].nonce = state.accounts[signer].nonce
  BY <1>1, <1>2 DEF AppliedShielded
<1>4. /\ reset.nullifiers = state.nullifiers
      /\ reset.commitments = after.commitments
      /\ reset.accounts = after.accounts
  BY DEF AppliedShielded
<1> HIDE DEF after, reset
<1>5. ~NullifiersUnspent(after, second)
  BY <1>1, <1>3 DEF NullifiersUnspent
<1>6. CommitmentsNew(reset, second)
  BY <1>1, <1>3, <1>4 DEF CommitmentsNew, second
<1>7. NullifiersUnspent(reset, second)
  BY <1>1, <1>4 DEF AcceptsShielded, NullifiersUnspent, first
<1>8. AcceptsShielded(reset, second, 1)
  BY <1>3, <1>4, <1>6, <1>7, SpendAccepted DEF second, signer
<1> QED BY <1>5, <1>8 DEF first, second, after, reset

\* IInv => SecondRefusedForNullifier
LEMMA IInvSecondRefused == IInv => SecondRefusedForNullifier
<1> SUFFICES ASSUME IInv, pc = "pair", NEW k \in {1, 2},
                    AcceptsShielded(state, pair[k], 1), CommitmentsNew(state, pair[3 - k])
             PROVE  LET after == AppliedShielded(state, pair[k])
                    IN /\ ~NullifiersUnspent(after, pair[3 - k])
                       /\ AcceptsShielded([after EXCEPT !.nullifiers = state.nullifiers],
                                          pair[3 - k], 1)
  BY DEF SecondRefusedForNullifier
<1>1. PICK m \in DOMAIN fuzz_accs, n \in DOMAIN fuzz_accs, nullifier \in Nullifiers,
           comm_b \in Commitments, comm_c \in Commitments :
        /\ comm_b # comm_c
        /\ m # n
        /\ pair = <<Spend(m, nullifier, comm_b), Spend(n, nullifier, comm_c)>>
  BY DEF IInv, PairFresh
<1>2. fuzz_accs \in FuzzStates
  BY DEF IInv
<1>3. CASE k = 1
  <2>1. pair[k] = Spend(m, nullifier, comm_b) /\ pair[3 - k] = Spend(n, nullifier, comm_c)
    BY <1>1, <1>3
  <2> QED BY <1>1, <1>2, <2>1, FreshPairRefused
<1>4. CASE k = 2
  <2>1. pair[k] = Spend(n, nullifier, comm_c) /\ pair[3 - k] = Spend(m, nullifier, comm_b)
    BY <1>1, <1>4
  <2> QED BY <1>1, <1>2, <2>1, FreshPairRefused
<1> QED BY <1>3, <1>4

-----------------------------------------------------------------------------
(* The theorems. *)

\* The inductive invariant, with a ledger that follows the rules.
THEOREM ShieldedInvariant == ASSUME FaithfulLedger PROVE Spec => []IInv
<1>1. Init => IInv
  BY InitIInv
<1>2. TInv /\ IInv /\ [Next]_vars => IInv'
  BY NextIInv
<1>3. Init => TInv
  BY InitTyped
<1>4. TInv /\ [Next]_vars => TInv'
  BY NextTyped, FaithfulIsTyped
<1> QED BY <1>1, <1>2, <1>3, <1>4, PTL DEF Spec

\* NeverPanics: neither fuzz_privacy_preserving_state_transition nor
\* fuzz_transaction_ordering_independence accuses a ledger that follows the rules.
THEOREM ShieldedNeverPanics == ASSUME FaithfulLedger PROVE Spec => []NeverPanics
<1>1. IInv => NeverPanics
  BY DEF IInv, NeverPanics
<1> QED BY <1>1, ShieldedInvariant, PTL

\* SecondRefusedForNullifier: of a pair built by arb_conflicting_nullifier_pair the
\* second is refused for the shared nullifier and would be accepted without it.
THEOREM ShieldedSecondRefused == ASSUME FaithfulLedger PROVE Spec => []SecondRefusedForNullifier
<1>1. IInv => SecondRefusedForNullifier
  BY IInvSecondRefused
<1> QED BY <1>1, ShieldedInvariant, PTL

\* TypeOK: with a ledger that answers in its own types (one that follows the rules
\* does, FaithfulIsTyped), every drawn transaction is one the ledger can be given.
THEOREM ShieldedTypeOK == ASSUME TypedLedger PROVE Spec => []TypeOK
<1>1. Init => TInv
  BY InitTyped
<1>2. TInv /\ [Next]_vars => TInv'
  BY NextTyped
<1>3. TInv => TypeOK
  BY DEF TInv
<1> QED BY <1>1, <1>2, <1>3, PTL DEF Spec

\* DrawsReachApply: with whatever ledger, what arb_privacy_preserving_tx draws is
\* well-formed and declares the live nonces, so a correct ledger refuses it for the
\* reasons the generator makes, or for what is already spent, and for no other.
THEOREM ShieldedDrawsReachApply == Spec => []DrawsReachApply
<1>1. DrawsReachApply
  <2> SUFFICES ASSUME NEW t \in Draws
               PROVE  WellFormed(t) /\ NoncesMatch(state, t)
    BY DEF DrawsReachApply, AcceptsShielded
  <2>1. t.private_actions \in PrivateLists
    BY DEF Draws
  <2>2. \E signers : t.signers = LiveNonces(state, signers)
    BY DEF Draws
  <2>3. WellFormed(t)
    BY <2>1, PrivateListsFacts DEF WellFormed, DistinctLists
  <2>4. NoncesMatch(state, t)
    BY <2>2 DEF NoncesMatch, LiveNonces
  <2> QED BY <2>3, <2>4
<1> QED BY <1>1, PTL
=============================================================================
