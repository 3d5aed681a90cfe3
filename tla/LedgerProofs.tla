---------------------------- MODULE LedgerProofs ----------------------------
(***************************************************************************)
(* Lemmas about the operators every harness module is built from: what the *)
(* generator promises, what genesis stores, what a transfer does, and what *)
(* the sums that the targets compare add up to.                            *)
(***************************************************************************)
EXTENDS Genesis, FiniteSetTheorems, TLAPS

(* What the generator promises, unfolded. *)

\* The cap of arbitrary_fuzz_state is a u128.
LEMMA CapType == BalanceCap \in U128
<1> DEFINE q == MaxU \div CapDivisor
<1>1. q \in Int /\ MaxU = (CapDivisor * q) + (MaxU % CapDivisor)
      /\ 0 <= MaxU % CapDivisor /\ MaxU % CapDivisor < CapDivisor
  BY MaxUAssumption, GeneratorAssumption
<1> HIDE DEF q
<1>2. q >= 0
  <2>1. CASE q <= -1
    <3>1. CapDivisor * q <= -CapDivisor
      BY <1>1, <2>1, GeneratorAssumption
    <3> QED BY <1>1, <3>1, MaxUAssumption, GeneratorAssumption
  <2> QED BY <1>1, <2>1
<1>3. CapDivisor * q >= q
  BY <1>1, <1>2, GeneratorAssumption
<1>4. q \in U128
  BY <1>1, <1>2, <1>3, MaxUAssumption, GeneratorAssumption DEF U128
<1> QED BY <1>4 DEF q, BalanceCap

\* Any sequence of accounts the callers may be given.
LEMMA FuzzStatesFacts ==
    ASSUME NEW accs \in FuzzStates
    PROVE  /\ Len(accs) \in 0..MaxAccounts
           /\ DOMAIN accs = 1..Len(accs)
           /\ \A k \in DOMAIN accs : /\ accs[k].account_id \in AccountIds
                                     /\ accs[k].account_id \notin Reserved
                                     /\ accs[k].balance \in U128
           /\ Distinct(accs)
<1>1. PICK k \in 0..MaxAccounts :
        accs \in [1..k -> [account_id : AccountIds \ Reserved, balance : 0..BalanceCap]]
  BY DEF FuzzStates
<1>2. k \in Nat /\ DOMAIN accs = 1..k
  BY <1>1, GeneratorAssumption
<1>3. ASSUME NEW T, accs \in [1..k -> T]
      PROVE  accs \in Seq(T) /\ Len(accs) = k
  BY <1>2, <1>3
<1>4. Len(accs) = k
  BY <1>1, <1>3
<1>5. \A m \in 1..k : accs[m].balance \in U128
  BY <1>1, CapType, MaxUAssumption DEF U128
<1> QED BY <1>1, <1>2, <1>4, <1>5 DEF FuzzStates

\* No generated id is a system account.
LEMMA IdsFacts ==
    ASSUME NEW accs \in FuzzStates
    PROVE  /\ Ids(accs) \subseteq AccountIds
           /\ Ids(accs) \cap Reserved = {}
BY FuzzStatesFacts DEF Ids

\* genesis_state yields a ledger state, in which every generated account holds the
\* balance that was drawn for it.
LEMMA GenesisFacts ==
    ASSUME NEW accs \in FuzzStates
    PROVE  /\ Genesis(accs) \in States
           /\ \A m \in DOMAIN accs :
                 Genesis(accs)[accs[m].account_id] = Funded(accs[m].balance)
<1>1. ASSUME NEW m \in DOMAIN accs
      PROVE  LastIndex(accs, accs[m].account_id) = m
  <2>1. \A j \in DOMAIN accs : accs[j].account_id = accs[m].account_id => j = m
    BY FuzzStatesFacts DEF Distinct
  <2>2. m <= m
    BY FuzzStatesFacts
  <2> QED BY <2>1, <2>2 DEF LastIndex
<1>2. ASSUME NEW m \in DOMAIN accs
      PROVE  Genesis(accs)[accs[m].account_id] = Funded(accs[m].balance)
  <2>1. /\ accs[m].account_id \in AccountIds
        /\ accs[m].account_id \notin Reserved
        /\ accs[m].account_id \in Ids(accs)
    BY FuzzStatesFacts DEF Ids
  <2> QED BY <1>1, <2>1 DEF Genesis
<1>3. \A b \in U128 : Funded(b) \in Account
  BY MaxUAssumption DEF Funded, Account, U128
<1>4. DefaultAccount \in Account /\ \A id : SystemAccount(id) \in Account
  BY MaxUAssumption DEF DefaultAccount, SystemAccount, Funded, Account, U128
<1>5. \A m \in DOMAIN accs : accs[m].balance \in U128
  BY FuzzStatesFacts
<1>6. ASSUME NEW id \in AccountIds PROVE Genesis(accs)[id] \in Account
  <2>1. CASE id \in Ids(accs)
    BY <1>2, <1>3, <1>5, <2>1 DEF Ids
  <2>2. CASE id \notin Ids(accs)
    BY <1>4, <2>2 DEF Genesis
  <2> QED BY <2>1, <2>2
<1> QED BY <1>2, <1>6 DEF States, Genesis
-----------------------------------------------------------------------------
(* The rules of a native transfer. *)

\* The unsigned transaction is none of the native transfers.
LEMMA UnsignedIsNoTransfer == UnsignedTx \notin Txs
<1>1. DOMAIN UnsignedTx = {"signers"}
  BY DEF UnsignedTx
<1>2. \A tx \in Txs : DOMAIN tx = {"from", "to", "nonce", "amount"}
  BY DEF Txs
<1> QED BY <1>1, <1>2

\* What the diff of an accepted transfer does, account by account.
LEMMA AppliedFacts ==
    ASSUME NEW st \in States, NEW tx \in Txs, Accepts(st, tx)
    PROVE  /\ Applied(st, tx) \in States
           /\ Applied(st, tx)[tx.from].balance = st[tx.from].balance - tx.amount
           /\ Applied(st, tx)[tx.from].nonce = WrappingAdd(st[tx.from].nonce, 1)
           /\ Applied(st, tx)[tx.to].balance = st[tx.to].balance + tx.amount
           /\ Applied(st, tx)[tx.to].nonce = st[tx.to].nonce
           /\ \A id \in AccountIds \ {tx.from, tx.to} : Applied(st, tx)[id] = st[id]
<1> DEFINE post == Applied(st, tx)
<1>1. st \in [AccountIds -> Account]
  BY DEF States
<1>2. /\ tx.from \in AccountIds /\ tx.to \in AccountIds /\ tx.from # tx.to
      /\ tx.amount \in U128
      /\ st[tx.from].balance \in U128 /\ st[tx.from].nonce \in U128
      /\ st[tx.to].balance \in U128 /\ st[tx.to].nonce \in U128
  BY <1>1 DEF Account, Txs, Accepts
<1>3. /\ st[tx.from].balance - tx.amount \in U128
      /\ WrappingAdd(st[tx.from].nonce, 1) \in U128
      /\ st[tx.to].balance + tx.amount \in U128
  BY <1>2, MaxUAssumption DEF Accepts, Overflows, U128, WrappingAdd
<1>4. /\ post[tx.from] = [balance |-> st[tx.from].balance - tx.amount,
                          nonce   |-> WrappingAdd(st[tx.from].nonce, 1)]
      /\ post[tx.to] = [st[tx.to] EXCEPT !.balance = st[tx.to].balance + tx.amount]
      /\ \A id \in AccountIds \ {tx.from, tx.to} : post[id] = st[id]
      /\ post = [id \in AccountIds |-> post[id]]
  BY <1>1, <1>2 DEF Applied
<1> HIDE DEF post
<1>5. post[tx.from] \in Account /\ post[tx.to] \in Account
  BY <1>1, <1>2, <1>3, <1>4 DEF Account
<1>6. post \in States
  <2>1. \A id \in AccountIds : post[id] \in Account
    BY <1>1, <1>4, <1>5
  <2> QED BY <1>4, <2>1 DEF States
<1>7. /\ post[tx.to].nonce = st[tx.to].nonce
      /\ post[tx.to].balance = st[tx.to].balance + tx.amount
  BY <1>1, <1>2, <1>4 DEF Account
<1>8. /\ post[tx.from].balance = st[tx.from].balance - tx.amount
      /\ post[tx.from].nonce = WrappingAdd(st[tx.from].nonce, 1)
  BY <1>4
<1> QED BY <1>4, <1>6, <1>7, <1>8 DEF post
-----------------------------------------------------------------------------
(* Sums over finite sets. *)

\* If some subset of a finite set is bad, some bad subset has no smaller bad one.
\* The strict subset order of a finite set is well founded; every induction over
\* finite sets below is a use of this lemma.
LEMMA MinimalSubset ==
    ASSUME NEW S, IsFiniteSet(S), NEW Bad, Bad \subseteq SUBSET S, Bad # {}
    PROVE  \E T \in Bad : \A U \in SUBSET T : U # T => U \notin Bad
<1>1. IsWellFoundedOn(StrictSubsetOrdering(S), FiniteSubsetsOf(S))
  BY FS_StrictSubsetOrderingWellFounded
<1>2. FiniteSubsetsOf(S) = SUBSET S
  BY FS_FiniteSubsetsOfFinite
<1>3. \E T \in Bad : \A U \in Bad : ~(<<U, T>> \in StrictSubsetOrdering(S))
  BY <1>1, <1>2, WFMin
<1>4. ASSUME NEW T \in Bad, NEW U \in SUBSET T, U # T
      PROVE  <<U, T>> \in StrictSubsetOrdering(S)
  BY <1>4 DEF StrictSubsetOrdering
<1> QED BY <1>3, <1>4

\* The element a fold over a set takes first.
Pick(s) == CHOOSE x \in s : TRUE

\* The equation that the recursion of SumFunctionOnSet asks of g, on the subsets of S.
Adds(g, F, S) == g = [s \in SUBSET S |-> IF s = {} THEN 0 ELSE F[Pick(s)] + g[s \ {Pick(s)}]]

\* SumFunctionOnSet reads its result off the function its recursion chooses.
LEMMA SumIsChosen ==
    ASSUME NEW F, NEW S
    PROVE  SumFunctionOnSet(F, S) = (CHOOSE g : Adds(g, F, S))[S]
BY DEF SumFunctionOnSet, FoldFunctionOnSet, MapThenFoldSet, Adds, Pick

\* The element taken first is an element, and the rest is a smaller set.
LEMMA PickFacts ==
    ASSUME NEW S, S # {}
    PROVE  Pick(S) \in S /\ S \ {Pick(S)} \in SUBSET S /\ S \ {Pick(S)} # S
BY DEF Pick

\* Two functions that satisfy the equation agree where both are defined.
LEMMA AddsUnique ==
    ASSUME NEW S, IsFiniteSet(S), NEW T, NEW F, NEW g, NEW h, Adds(g, F, S), Adds(h, F, T)
    PROVE  \A U \in SUBSET (S \cap T) : g[U] = h[U]
<1> DEFINE Bad == {U \in SUBSET (S \cap T) : g[U] # h[U]}
<1> SUFFICES ASSUME Bad # {} PROVE FALSE
  OBVIOUS
<1>1. Bad \subseteq SUBSET S
  OBVIOUS
<1>2. PICK U \in Bad : \A V \in SUBSET U : V # U => V \notin Bad
  <2> HIDE DEF Bad
  <2> QED BY <1>1, MinimalSubset
<1>3. CASE U = {}
  BY <1>3 DEF Adds
<1>4. CASE U # {}
  <2>1. g[U \ {Pick(U)}] = h[U \ {Pick(U)}]
    BY <1>2, <1>4, PickFacts
  <2>2. /\ g[U] = F[Pick(U)] + g[U \ {Pick(U)}]
        /\ h[U] = F[Pick(U)] + h[U \ {Pick(U)}]
    BY <1>4 DEF Adds
  <2> QED BY <2>1, <2>2
<1> QED BY <1>3, <1>4

\* Over a finite set some function satisfies the equation: a minimal subset
\* without one would get it from the functions of its own subsets.
LEMMA AddsExists ==
    ASSUME NEW S, IsFiniteSet(S), NEW F
    PROVE  \E g : Adds(g, F, S)
<1> DEFINE Bad == {T \in SUBSET S : ~\E g : Adds(g, F, T)}
<1> SUFFICES ASSUME Bad # {} PROVE FALSE
  OBVIOUS
<1>1. PICK T \in Bad : \A U \in SUBSET T : U # T => U \notin Bad
  <2>1. Bad \subseteq SUBSET S
    OBVIOUS
  <2> HIDE DEF Bad
  <2> QED BY <2>1, MinimalSubset
<1> DEFINE Fun(U) == CHOOSE g : Adds(g, F, U)
           Val(U) == Fun(U)[U]
           Rest(U) == U \ {Pick(U)}
           G == [s \in SUBSET T |-> IF s = T /\ T # {} THEN F[Pick(T)] + Val(Rest(T)) ELSE
                                    IF s = {} THEN 0 ELSE Val(s)]
<1>2. ASSUME NEW U \in SUBSET T, U # T
      PROVE  Adds(Fun(U), F, U) /\ IsFiniteSet(U)
  <2>1. \E g : Adds(g, F, U)
    BY <1>1, <1>2
  <2>2. Adds(Fun(U), F, U)
    BY <2>1
  <2> QED BY <2>2, FS_Subset
<1>3. ASSUME NEW U \in SUBSET T, U # T, U # {}
      PROVE  Val(U) = F[Pick(U)] + Val(Rest(U))
  <2>1. Rest(U) \in SUBSET U /\ Rest(U) # U /\ Rest(U) \in SUBSET T /\ Rest(U) # T
    BY <1>3, PickFacts
  <2>2. Val(U) = F[Pick(U)] + Fun(U)[Rest(U)]
    <3>1. Adds(Fun(U), F, U)
      BY <1>2, <1>3
    <3> HIDE DEF Fun
    <3> QED BY <3>1, <1>3 DEF Adds
  <2>3. Fun(U)[Rest(U)] = Fun(Rest(U))[Rest(U)]
    <3>1. Adds(Fun(U), F, U) /\ IsFiniteSet(U) /\ Adds(Fun(Rest(U)), F, Rest(U))
      BY <1>2, <1>3, <2>1
    <3>2. Rest(U) \in SUBSET (U \cap Rest(U))
      BY <2>1
    <3> HIDE DEF Fun, Rest
    <3> QED BY <3>1, <3>2, AddsUnique
  <2> QED BY <2>2, <2>3
<1>4. ASSUME T # {} PROVE Val({}) = 0
  <2>1. Adds(Fun({}), F, {})
    BY <1>2, <1>4
  <2> HIDE DEF Fun
  <2> QED BY <2>1 DEF Adds
<1> HIDE DEF Val
<1>5. Adds(G, F, T)
  <2>1. ASSUME NEW s \in SUBSET T, s # {}
        PROVE  G[s] = F[Pick(s)] + G[Rest(s)]
    <3>1. Rest(s) \in SUBSET T /\ Rest(s) # T
      BY <2>1, PickFacts
    <3>2. G[Rest(s)] = Val(Rest(s))
      <4>1. T # {}
        BY <2>1
      <4> QED BY <3>1, <1>4, <4>1
    <3>3. G[s] = F[Pick(s)] + Val(Rest(s))
      BY <2>1, <1>3
    <3> QED BY <3>2, <3>3
  <2>2. G[{}] = 0
    OBVIOUS
  <2>3. G = [s \in SUBSET T |-> G[s]]
    OBVIOUS
  <2> HIDE DEF G
  <2>4. [s \in SUBSET T |-> G[s]] =
           [s \in SUBSET T |-> IF s = {} THEN 0 ELSE F[Pick(s)] + G[s \ {Pick(s)}]]
    BY <2>1, <2>2
  <2> QED BY <2>3, <2>4 DEF Adds
<1> QED BY <1>1, <1>5

\* The recursion of a sum over a finite set, as an equation.
LEMMA SumEquation ==
    ASSUME NEW S, IsFiniteSet(S), NEW F
    PROVE  /\ SumFunctionOnSet(F, {}) = 0
           /\ S # {} => SumFunctionOnSet(F, S) =
                            F[Pick(S)] + SumFunctionOnSet(F, S \ {Pick(S)})
<1> DEFINE Fun(U) == CHOOSE g : Adds(g, F, U)
<1>1. \A U : IsFiniteSet(U) => Adds(Fun(U), F, U)
  BY AddsExists
<1>2. \A U : SumFunctionOnSet(F, U) = Fun(U)[U]
  BY SumIsChosen
<1> HIDE DEF Fun
<1>3. SumFunctionOnSet(F, {}) = 0
  <2>1. Adds(Fun({}), F, {})
    BY <1>1, FS_EmptySet
  <2> QED BY <2>1, <1>2 DEF Adds
<1>4. ASSUME S # {}
      PROVE  SumFunctionOnSet(F, S) = F[Pick(S)] + SumFunctionOnSet(F, S \ {Pick(S)})
  <2> DEFINE R == S \ {Pick(S)}
  <2>1. R \in SUBSET S /\ IsFiniteSet(R)
    BY FS_Subset
  <2>2. Adds(Fun(S), F, S) /\ Adds(Fun(R), F, R)
    BY <1>1, <2>1
  <2>3. Fun(S)[S] = F[Pick(S)] + Fun(S)[R]
    BY <2>2, <1>4 DEF Adds
  <2>4. Fun(S)[R] = Fun(R)[R]
    <3>1. R \in SUBSET (S \cap R)
      BY <2>1
    <3> HIDE DEF R
    <3> QED BY <2>2, <3>1, AddsUnique
  <2> QED BY <1>2, <2>3, <2>4
<1> QED BY <1>3, <1>4

\* A sum of integers is an integer.
LEMMA SumInt ==
    ASSUME NEW S, IsFiniteSet(S), NEW F, \A x \in S : F[x] \in Int
    PROVE  SumFunctionOnSet(F, S) \in Int
<1> DEFINE Bad == {T \in SUBSET S : SumFunctionOnSet(F, T) \notin Int}
<1> SUFFICES ASSUME Bad # {} PROVE FALSE
  OBVIOUS
<1>1. PICK T \in Bad : \A U \in SUBSET T : U # T => U \notin Bad
  <2>1. Bad \subseteq SUBSET S
    OBVIOUS
  <2> HIDE DEF Bad
  <2> QED BY <2>1, MinimalSubset
<1>2. IsFiniteSet(T)
  BY FS_Subset
<1>3. CASE T = {}
  <2>1. SumFunctionOnSet(F, {}) = 0
    BY SumEquation, FS_EmptySet
  <2> QED BY <1>3, <2>1
<1>4. CASE T # {}
  <2>1. Pick(T) \in T /\ SumFunctionOnSet(F, T \ {Pick(T)}) \in Int
    BY <1>1, <1>4, PickFacts
  <2>2. SumFunctionOnSet(F, T) = F[Pick(T)] + SumFunctionOnSet(F, T \ {Pick(T)})
    BY <1>2, <1>4, SumEquation
  <2> QED BY <2>1, <2>2
<1> QED BY <1>3, <1>4

\* The order of the additions does not matter: any element may be taken first.
LEMMA SumAny ==
    ASSUME NEW S, IsFiniteSet(S), NEW F, \A x \in S : F[x] \in Int, NEW x \in S
    PROVE  SumFunctionOnSet(F, S) = F[x] + SumFunctionOnSet(F, S \ {x})
<1> DEFINE Splits(T, y) == SumFunctionOnSet(F, T) = F[y] + SumFunctionOnSet(F, T \ {y})
           Bad == {T \in SUBSET S : \E y \in T : ~Splits(T, y)}
<1> SUFFICES ASSUME Bad # {} PROVE FALSE
  OBVIOUS
<1>1. PICK T \in Bad : \A U \in SUBSET T : U # T => U \notin Bad
  <2>1. Bad \subseteq SUBSET S
    OBVIOUS
  <2> HIDE DEF Bad
  <2> QED BY <2>1, MinimalSubset
<1>2. PICK y \in T : ~Splits(T, y)
  BY <1>1
<1> DEFINE p == Pick(T)
           R == T \ {p, y}
<1>3. IsFiniteSet(T) /\ p \in T /\ T # {}
  BY <1>2, FS_Subset, PickFacts
<1>4. Splits(T, p)
  BY <1>3, SumEquation
<1>5. p # y
  BY <1>2, <1>4
<1>6. Splits(T \ {p}, y) /\ Splits(T \ {y}, p)
  BY <1>1, <1>2, <1>3, <1>5
<1>7. (T \ {p}) \ {y} = R /\ (T \ {y}) \ {p} = R
  OBVIOUS
<1>8. F[p] \in Int /\ F[y] \in Int /\ SumFunctionOnSet(F, R) \in Int
  <2>1. R \in SUBSET S /\ IsFiniteSet(R)
    BY FS_Subset
  <2>2. SumFunctionOnSet(F, R) \in Int
    BY <2>1, SumInt
  <2> QED BY <2>2, <1>3
<1>9. SumFunctionOnSet(F, T) = F[y] + SumFunctionOnSet(F, T \ {y})
  <2>1. SumFunctionOnSet(F, T) = F[p] + SumFunctionOnSet(F, T \ {p})
    BY <1>4
  <2>2. SumFunctionOnSet(F, T \ {p}) = F[y] + SumFunctionOnSet(F, R)
    BY <1>6, <1>7
  <2>3. SumFunctionOnSet(F, T \ {y}) = F[p] + SumFunctionOnSet(F, R)
    BY <1>6, <1>7
  <2> HIDE DEF p, R
  <2> QED BY <1>8, <2>1, <2>2, <2>3
<1> QED BY <1>2, <1>9

\* Equal terms have equal sums.
LEMMA SumCongruence ==
    ASSUME NEW S, IsFiniteSet(S), NEW F, NEW G, \A x \in S : F[x] = G[x]
    PROVE  SumFunctionOnSet(F, S) = SumFunctionOnSet(G, S)
<1> DEFINE Bad == {T \in SUBSET S : SumFunctionOnSet(F, T) # SumFunctionOnSet(G, T)}
<1> SUFFICES ASSUME Bad # {} PROVE FALSE
  OBVIOUS
<1>1. PICK T \in Bad : \A U \in SUBSET T : U # T => U \notin Bad
  <2>1. Bad \subseteq SUBSET S
    OBVIOUS
  <2> HIDE DEF Bad
  <2> QED BY <2>1, MinimalSubset
<1>2. IsFiniteSet(T)
  BY FS_Subset
<1>3. CASE T = {}
  <2>1. SumFunctionOnSet(F, {}) = 0 /\ SumFunctionOnSet(G, {}) = 0
    BY SumEquation, FS_EmptySet
  <2> QED BY <1>3, <2>1
<1>4. CASE T # {}
  <2>1. /\ F[Pick(T)] = G[Pick(T)]
        /\ SumFunctionOnSet(F, T \ {Pick(T)}) = SumFunctionOnSet(G, T \ {Pick(T)})
    BY <1>1, <1>4, PickFacts
  <2>2. /\ SumFunctionOnSet(F, T) = F[Pick(T)] + SumFunctionOnSet(F, T \ {Pick(T)})
        /\ SumFunctionOnSet(G, T) = G[Pick(T)] + SumFunctionOnSet(G, T \ {Pick(T)})
    BY <1>2, <1>4, SumEquation
  <2> QED BY <2>1, <2>2
<1> QED BY <1>3, <1>4

\* Moving an amount from one term to another leaves the sum alone.
LEMMA SumTransfer ==
    ASSUME NEW S, IsFiniteSet(S), NEW F, NEW G, NEW amount \in Int,
           \A x \in S : F[x] \in Int, NEW from \in S, NEW to \in S, from # to,
           \A x \in S \ {from, to} : G[x] = F[x],
           G[from] = F[from] - amount, G[to] = F[to] + amount
    PROVE  SumFunctionOnSet(G, S) = SumFunctionOnSet(F, S)
<1> DEFINE R == (S \ {from}) \ {to}
<1>1. IsFiniteSet(R) /\ IsFiniteSet(S \ {from}) /\ to \in S \ {from} /\ \A x \in R : G[x] = F[x]
  BY FS_Subset
<1>2. \A x \in S : G[x] \in Int
  OBVIOUS
<1>3. SumFunctionOnSet(G, R) = SumFunctionOnSet(F, R)
  BY <1>1, SumCongruence
<1>4. /\ SumFunctionOnSet(F, S) = F[from] + SumFunctionOnSet(F, S \ {from})
      /\ SumFunctionOnSet(G, S) = G[from] + SumFunctionOnSet(G, S \ {from})
  BY <1>2, SumAny
<1>5. /\ SumFunctionOnSet(F, S \ {from}) = F[to] + SumFunctionOnSet(F, R)
      /\ SumFunctionOnSet(G, S \ {from}) = G[to] + SumFunctionOnSet(G, R)
  <2>1. \A x \in S \ {from} : F[x] \in Int /\ G[x] \in Int
    BY <1>2
  <2> QED BY <1>1, <2>1, SumAny
<1>6. SumFunctionOnSet(F, R) \in Int
  BY <1>1, SumInt
<1> HIDE DEF R
<1> QED BY <1>3, <1>4, <1>5, <1>6

\* A sum over distinct keys may be taken over what they are the keys of.
LEMMA SumReindex ==
    ASSUME NEW D, IsFiniteSet(D), NEW key, \A c, d \in D : key[c] = key[d] => c = d,
           NEW F, NEW G, \A d \in D : G[d] = F[key[d]] /\ G[d] \in Int
    PROVE  SumFunctionOnSet(G, D) = SumFunctionOnSet(F, {key[d] : d \in D})
<1> DEFINE Image(T) == {key[d] : d \in T}
           Bad == {T \in SUBSET D : SumFunctionOnSet(G, T) # SumFunctionOnSet(F, Image(T))}
<1> SUFFICES ASSUME Bad # {} PROVE FALSE
  OBVIOUS
<1>1. PICK T \in Bad : \A U \in SUBSET T : U # T => U \notin Bad
  <2>1. Bad \subseteq SUBSET D
    OBVIOUS
  <2> HIDE DEF Bad
  <2> QED BY <2>1, MinimalSubset
<1>2. IsFiniteSet(T) /\ IsFiniteSet(Image(T))
  <2>1. IsFiniteSet(T)
    BY FS_Subset
  <2>2. [d \in T |-> key[d]] \in Surjection(T, Image(T))
    BY DEF Surjection
  <2> QED BY <2>1, <2>2, FS_Surjection
<1>3. CASE T = {}
  <2>1. SumFunctionOnSet(F, {}) = 0 /\ SumFunctionOnSet(G, {}) = 0
    BY SumEquation, FS_EmptySet
  <2>2. Image(T) = {}
    BY <1>3
  <2> QED BY <1>3, <2>1, <2>2
<1>4. CASE T # {}
  <2> DEFINE p == Pick(T)
  <2>1. p \in T /\ T \ {p} \in SUBSET T /\ T \ {p} # T
    BY <1>4, PickFacts
  <2>2. SumFunctionOnSet(G, T) = G[p] + SumFunctionOnSet(G, T \ {p})
    BY <1>2, <1>4, SumEquation
  <2>3. SumFunctionOnSet(G, T \ {p}) = SumFunctionOnSet(F, Image(T \ {p}))
    BY <1>1, <2>1
  <2> HIDE DEF p
  <2>4. Image(T \ {p}) = Image(T) \ {key[p]} /\ key[p] \in Image(T)
    BY <2>1
  <2>5. \A y \in Image(T) : F[y] \in Int
    OBVIOUS
  <2>6. SumFunctionOnSet(F, Image(T)) = F[key[p]] + SumFunctionOnSet(F, Image(T) \ {key[p]})
    <3> HIDE DEF Image
    <3> QED BY <1>2, <2>4, <2>5, SumAny
  <2>7. G[p] = F[key[p]]
    BY <2>1
  <2> QED BY <1>1, <2>2, <2>3, <2>4, <2>6, <2>7
<1> QED BY <1>3, <1>4

\* Terms under a cap sum to at most the cap, times the number of terms.
LEMMA SumBound ==
    ASSUME NEW S, IsFiniteSet(S), NEW F, NEW cap \in Nat, \A x \in S : F[x] \in 0..cap
    PROVE  /\ SumFunctionOnSet(F, S) \in Nat
           /\ SumFunctionOnSet(F, S) <= cap * Cardinality(S)
<1> DEFINE Fits(T) == /\ SumFunctionOnSet(F, T) \in Nat
                      /\ SumFunctionOnSet(F, T) <= cap * Cardinality(T)
           Bad == {T \in SUBSET S : ~Fits(T)}
<1> SUFFICES ASSUME Bad # {} PROVE FALSE
  OBVIOUS
<1>1. PICK T \in Bad : \A U \in SUBSET T : U # T => U \notin Bad
  <2>1. Bad \subseteq SUBSET S
    OBVIOUS
  <2> HIDE DEF Bad
  <2> QED BY <2>1, MinimalSubset
<1>2. IsFiniteSet(T)
  BY FS_Subset
<1>3. CASE T = {}
  <2>1. SumFunctionOnSet(F, {}) = 0 /\ Cardinality({}) = 0
    BY SumEquation, FS_EmptySet
  <2> QED BY <1>3, <2>1
<1>4. CASE T # {}
  <2> DEFINE p == Pick(T)
  <2>1. p \in T /\ Fits(T \ {p})
    BY <1>1, <1>4, PickFacts
  <2>2. SumFunctionOnSet(F, T) = F[p] + SumFunctionOnSet(F, T \ {p})
    BY <1>2, <1>4, SumEquation
  <2>3. Cardinality(T) = Cardinality(T \ {p}) + 1 /\ Cardinality(T \ {p}) \in Nat
    <3>1. IsFiniteSet(T \ {p}) /\ Cardinality(T \ {p}) = Cardinality(T) - 1
      BY <1>2, <2>1, FS_RemoveElement
    <3>2. Cardinality(T) \in Nat /\ Cardinality(T \ {p}) \in Nat
      BY <1>2, <3>1, FS_CardinalityType
    <3> QED BY <3>1, <3>2
  <2> HIDE DEF p
  <2>4. F[p] \in 0..cap
    BY <2>1
  <2>5. cap * Cardinality(T) = cap * Cardinality(T \ {p}) + cap
    BY <2>3
  <2>6. cap * Cardinality(T \ {p}) \in Nat
    BY <2>3
  <2> QED BY <1>1, <2>1, <2>2, <2>4, <2>5, <2>6
<1> QED BY <1>3, <1>4

-----------------------------------------------------------------------------
(* Balances of a finite set of accounts, added up. *)

HeldTotal(st, ids) == SumFunction([id \in ids |-> st[id].balance])

DrawnTotal(accs) == SumFunction([k \in DOMAIN accs |-> accs[k].balance])

\* At most MaxAccounts accounts are generated.
LEMMA FuzzStatesFinite ==
    ASSUME NEW accs \in FuzzStates
    PROVE  /\ IsFiniteSet(DOMAIN accs)
           /\ Cardinality(DOMAIN accs) \in 0..MaxAccounts
           /\ IsFiniteSet(Ids(accs))
<1>1. DOMAIN accs = 1..Len(accs) /\ Len(accs) \in 0..MaxAccounts
  BY FuzzStatesFacts
<1>2. IsFiniteSet(1..Len(accs)) /\ Cardinality(1..Len(accs)) = Len(accs)
  <2>1. Len(accs) \in Int /\ Len(accs) >= 0
    BY <1>1, GeneratorAssumption
  <2> QED BY <2>1, FS_Interval
<1>3. [k \in DOMAIN accs |-> accs[k].account_id] \in Surjection(DOMAIN accs, Ids(accs))
  BY DEF Surjection, Ids
<1> QED BY <1>1, <1>2, <1>3, FS_Surjection

\* A total of u128 balances is a natural number.
LEMMA HeldTotalType ==
    ASSUME NEW ids, IsFiniteSet(ids), NEW st, \A id \in ids : st[id] \in Account
    PROVE  HeldTotal(st, ids) \in Nat
<1> DEFINE F == [id \in ids |-> st[id].balance]
<1>1. \A id \in ids : F[id] \in 0..MaxU
  BY DEF Account, U128
<1>2. DOMAIN F = ids /\ MaxU \in Nat
  BY MaxUAssumption
<1> HIDE DEF F
<1>3. SumFunctionOnSet(F, ids) \in Nat
  BY <1>1, <1>2, SumBound
<1> QED BY <1>2, <1>3 DEF HeldTotal, SumFunction, F

\* States that agree on the balances have the same total.
LEMMA HeldTotalCongruence ==
    ASSUME NEW ids, NEW st, NEW other, \A id \in ids : st[id].balance = other[id].balance
    PROVE  HeldTotal(st, ids) = HeldTotal(other, ids)
<1>1. [id \in ids |-> st[id].balance] = [id \in ids |-> other[id].balance]
  OBVIOUS
<1> QED BY <1>1, Zenon DEF HeldTotal

\* Adding per generated account or per distinct id gives the same total, because
\* the ids are distinct.
LEMMA PerAccountIsPerId ==
    ASSUME NEW accs \in FuzzStates, NEW st \in States
    PROVE  SumFunction([k \in DOMAIN accs |-> st[accs[k].account_id].balance])
               = HeldTotal(st, Ids(accs))
<1> DEFINE D == DOMAIN accs
           key == [k \in D |-> accs[k].account_id]
           G == [k \in D |-> st[accs[k].account_id].balance]
           F == [id \in Ids(accs) |-> st[id].balance]
<1>1. IsFiniteSet(D)
  BY FuzzStatesFinite
<1>2. \A c, d \in D : key[c] = key[d] => c = d
  BY FuzzStatesFacts DEF Distinct
<1>3. \A d \in D : G[d] = F[key[d]] /\ G[d] \in Int
  BY FuzzStatesFacts, MaxUAssumption DEF Ids, States, Account, U128
<1>4. {key[d] : d \in D} = Ids(accs)
  BY DEF Ids
<1>5. DOMAIN G = D /\ DOMAIN F = Ids(accs)
  OBVIOUS
<1> HIDE DEF D, key, G, F
<1>6. SumFunctionOnSet(G, D) = SumFunctionOnSet(F, Ids(accs))
  BY <1>1, <1>2, <1>3, <1>4, SumReindex
<1>7. SumFunction(G) = SumFunction(F)
  BY <1>5, <1>6 DEF SumFunction
<1> QED BY <1>7 DEF HeldTotal, G, F, D

\* The cap holds for each account, and there are no more accounts than the divisor.
LEMMA DrawnCapped ==
    ASSUME NEW accs \in FuzzStates
    PROVE  DrawnTotal(accs) \in Nat /\ DrawnTotal(accs) <= CapDivisor * BalanceCap
<1> DEFINE D == DOMAIN accs
           G == [k \in D |-> accs[k].balance]
<1>1. \A k \in D : G[k] \in 0..BalanceCap
  <2>1. PICK m \in 0..MaxAccounts :
          accs \in [1..m -> [account_id : AccountIds \ Reserved, balance : 0..BalanceCap]]
    BY DEF FuzzStates
  <2> QED BY <2>1
<1>2. BalanceCap \in Nat /\ IsFiniteSet(D) /\ Cardinality(D) \in 0..MaxAccounts
  BY CapType, MaxUAssumption, FuzzStatesFinite DEF U128
<1>3. DOMAIN G = D
  OBVIOUS
<1> HIDE DEF G, D
<1>4. SumFunctionOnSet(G, D) \in Nat /\ SumFunctionOnSet(G, D) <= BalanceCap * Cardinality(D)
  BY <1>1, <1>2, SumBound
<1>5. BalanceCap * Cardinality(D) <= CapDivisor * BalanceCap
  <2>1. Cardinality(D) \in Nat /\ Cardinality(D) <= CapDivisor /\ CapDivisor \in Nat
    BY <1>2, GeneratorAssumption
  <2> QED BY <1>2, <2>1
<1>6. DrawnTotal(accs) = SumFunctionOnSet(G, D)
  BY <1>3 DEF DrawnTotal, SumFunction, G, D
<1>7. BalanceCap * Cardinality(D) \in Nat /\ CapDivisor * BalanceCap \in Nat
  BY <1>2, GeneratorAssumption
<1> QED BY <1>4, <1>5, <1>6, <1>7

\* The generated accounts hold what was drawn for them, and the cap keeps the
\* total within a u128.
LEMMA GenesisTotal ==
    ASSUME NEW accs \in FuzzStates
    PROVE  /\ HeldTotal(Genesis(accs), Ids(accs)) = DrawnTotal(accs)
           /\ DrawnTotal(accs) \in U128
<1> DEFINE D == DOMAIN accs
           G == [k \in D |-> accs[k].balance]
<1>1. HeldTotal(Genesis(accs), Ids(accs)) = DrawnTotal(accs)
  <2>1. \A k \in D : Genesis(accs)[accs[k].account_id].balance = accs[k].balance
    <3>1. \A k \in DOMAIN accs : Genesis(accs)[accs[k].account_id] = Funded(accs[k].balance)
      BY GenesisFacts
    <3>2. \A b : Funded(b).balance = b
      BY DEF Funded
    <3> QED BY <3>1, <3>2
  <2>2. [k \in D |-> Genesis(accs)[accs[k].account_id].balance] = G
    BY <2>1
  <2> HIDE DEF G
  <2>3. SumFunction([k \in D |-> Genesis(accs)[accs[k].account_id].balance])
          = HeldTotal(Genesis(accs), Ids(accs))
    BY GenesisFacts, PerAccountIsPerId
  <2>4. SumFunction([k \in D |-> Genesis(accs)[accs[k].account_id].balance]) = SumFunction(G)
    BY <2>2, Zenon
  <2> QED BY <2>3, <2>4 DEF DrawnTotal, G
<1>2. CapDivisor * BalanceCap <= MaxU /\ CapDivisor * BalanceCap \in Nat
  <2>1. CapDivisor * BalanceCap <= MaxU
    BY MaxUAssumption, GeneratorAssumption DEF BalanceCap
  <2>2. BalanceCap \in Nat /\ CapDivisor \in Nat
    BY CapType, MaxUAssumption, GeneratorAssumption DEF U128
  <2> QED BY <2>1, <2>2
<1> QED BY <1>1, <1>2, DrawnCapped, MaxUAssumption DEF U128

\* When u128::MAX is no multiple of the divisor, the total stays below it.
LEMMA DrawnBelowMax ==
    ASSUME NEW accs \in FuzzStates, MaxU % CapDivisor # 0
    PROVE  DrawnTotal(accs) < MaxU
<1>1. DrawnTotal(accs) \in Nat /\ DrawnTotal(accs) <= CapDivisor * BalanceCap
  BY GenesisTotal, DrawnCapped, MaxUAssumption DEF U128
<1>2. CapDivisor * BalanceCap < MaxU
  BY MaxUAssumption, GeneratorAssumption DEF BalanceCap
<1>3. CapDivisor * BalanceCap \in Nat
  BY CapType, MaxUAssumption, GeneratorAssumption DEF U128
<1> QED BY <1>1, <1>2, <1>3, MaxUAssumption

\* A transfer between two of the accounts conserves their total.
LEMMA TransferConserves ==
    ASSUME NEW ids, IsFiniteSet(ids), NEW st, \A id \in ids : st[id] \in Account, NEW other,
           NEW from \in ids, NEW to \in ids, from # to, NEW amount \in U128,
           other[from].balance = st[from].balance - amount,
           other[to].balance = st[to].balance + amount,
           \A id \in ids \ {from, to} : other[id].balance = st[id].balance
    PROVE  HeldTotal(other, ids) = HeldTotal(st, ids)
<1> DEFINE F == [id \in ids |-> st[id].balance]
           G == [id \in ids |-> other[id].balance]
<1>1. \A id \in ids : F[id] \in Int
  BY MaxUAssumption DEF Account, U128
<1>2. /\ G[from] = F[from] - amount /\ G[to] = F[to] + amount
      /\ \A id \in ids \ {from, to} : G[id] = F[id]
  OBVIOUS
<1>3. amount \in Int /\ DOMAIN F = ids /\ DOMAIN G = ids
  BY MaxUAssumption DEF U128
<1> HIDE DEF F, G
<1>4. SumFunctionOnSet(G, ids) = SumFunctionOnSet(F, ids)
  BY <1>1, <1>2, <1>3, SumTransfer
<1> QED BY <1>3, <1>4 DEF HeldTotal, SumFunction, F, G
=============================================================================
