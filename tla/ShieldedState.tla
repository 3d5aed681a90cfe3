--------------------------- MODULE ShieldedState ---------------------------
(***************************************************************************)
(* The ledger under test as the privacy-preserving targets see it: the     *)
(* public accounts of V03State, the set of commitments and the set of      *)
(* spent nullifiers; and the checks of                                     *)
(* from_privacy_preserving_transaction, as fuzz_props/src/privacy.rs and   *)
(* the two targets number and describe them.  The ledger is external.      *)
(*                                                                         *)
(* The digest of the commitment set stands for the set, and the root       *)
(* history holds every digest the set has had.  A private action bound to  *)
(* the digest that is live when it is built has known_root = TRUE; any     *)
(* other root is random and in no history.                                 *)
(***************************************************************************)
EXTENDS Genesis, SequencesExt

CONSTANTS
    Nullifiers,
    Commitments,
    MaxBlock,           \* the last block id an execution can name
    Amounts,            \* the amounts of debits and credits
    MaxEffects          \* u8 % 3: at most 2 deferred effects of an action

ASSUME ShieldedAssumption == MaxBlock \in Nat /\ MaxEffects \in Nat /\ Amounts \subseteq U128

ShieldedStates ==
    [accounts : States, commitments : SUBSET Commitments, nullifiers : SUBSET Nullifiers]

PrivateActions == [nullifier : Nullifiers, commitment : Commitments, known_root : BOOLEAN]

\* Native debits and credits, and effects of another program.
Effects == [kind : {"Debit", "Credit"}, amount : Amounts] \cup [kind : {"Foreign"}]

EffectLists == UNION {[1..n -> Effects] : n \in 0..MaxEffects}

\* What a privacy-preserving message and its witness set say.  public_actions maps
\* an account id to its effects, signers an id to the nonce declared for it; window
\* is the set of blocks in which both validity windows hold.
ShieldedTxs ==
    [signers         : UNION {[ids -> U128] : ids \in SUBSET AccountIds},
     public_actions  : UNION {[ids -> EffectLists] : ids \in SUBSET AccountIds},
     private_actions : SUBSET PrivateActions,
     window          : SUBSET (1..MaxBlock),
     proof_passes    : BOOLEAN]

-----------------------------------------------------------------------------
\* A balance with effects folded in, in order: None once one of them underflows or
\* overflows, Foreign once one belongs to another program.
None == -1

Foreign == -2

Fold(balance, effect) ==
    IF balance < 0 THEN balance
    ELSE CASE effect.kind = "Foreign" -> Foreign
           [] effect.kind = "Debit"   -> IF effect.amount <= balance THEN balance - effect.amount ELSE None
           [] effect.kind = "Credit"  -> IF Overflows(balance, effect.amount) THEN None ELSE balance + effect.amount

Settled(balance, effects) == FoldLeft(Fold, balance, effects)

-----------------------------------------------------------------------------
\* Check 1 and check 2: there are private actions, all nullifiers and all
\* commitments are distinct.
WellFormed(t) ==
    /\ t.private_actions # {}
    /\ \A a, b \in t.private_actions :
           a.nullifier = b.nullifier \/ a.commitment = b.commitment => a = b

\* Check 3c.
NoncesMatch(st, t) == \A id \in DOMAIN t.signers : t.signers[id] = st.accounts[id].nonce

\* Check 5.
CommitmentsNew(st, t) == \A a \in t.private_actions : a.commitment \notin st.commitments

\* Check 6, in two parts.
RootsKnown(t) == \A a \in t.private_actions : a.known_root

NullifiersUnspent(st, t) == \A a \in t.private_actions : a.nullifier \notin st.nullifiers

\* The deferred effects apply.
EffectsApply(st, t) ==
    \A id \in DOMAIN t.public_actions :
        Settled(st.accounts[id].balance, t.public_actions[id]) >= 0

AcceptsShielded(st, t, block) ==
    /\ WellFormed(t)
    /\ NoncesMatch(st, t)
    /\ block \in t.window
    /\ t.proof_passes
    /\ CommitmentsNew(st, t)
    /\ RootsKnown(t)
    /\ NullifiersUnspent(st, t)
    /\ EffectsApply(st, t)

AppliedShielded(st, t) ==
    LET Balance(id) == IF id \in DOMAIN t.public_actions
                       THEN Settled(st.accounts[id].balance, t.public_actions[id])
                       ELSE st.accounts[id].balance
        Nonce(id)   == IF id \in DOMAIN t.signers
                       THEN WrappingAdd(st.accounts[id].nonce, 1)
                       ELSE st.accounts[id].nonce
    IN [accounts    |-> [id \in AccountIds |-> [balance |-> Balance(id), nonce |-> Nonce(id)]],
        commitments |-> st.commitments \cup {a.commitment : a \in t.private_actions},
        nullifiers  |-> st.nullifiers \cup {a.nullifier : a \in t.private_actions}]

\* execute_check_on_state of a ledger that follows these rules.
ExecuteShielded(st, t, block) ==
    IF AcceptsShielded(st, t, block) THEN [ok |-> TRUE,  post |-> AppliedShielded(st, t)]
                                     ELSE [ok |-> FALSE, post |-> st]
=============================================================================
