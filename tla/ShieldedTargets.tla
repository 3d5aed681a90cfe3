-------------------------- MODULE ShieldedTargets --------------------------
(***************************************************************************)
(* The two fuzz targets that execute privacy-preserving transactions:      *)
(*   "transition"  fuzz_privacy_preserving_state_transition: execute,      *)
(*                 check the effects, replay what was accepted;            *)
(*   "ordering"    fuzz_transaction_ordering_independence: execute a few   *)
(*                 seeds, then a pair of transactions that declare the     *)
(*                 same nullifier, in both orders from the same state.     *)
(* Both draw their transactions with fuzz_props/src/privacy.rs, against    *)
(* the current state.                                                      *)
(***************************************************************************)
EXTENDS ShieldedState

CONSTANTS
    MaxTxs,             \* n_txs = u8 % 6, n_seed = u8 % 4
    MaxSigners,         \* at most 3
    MaxExtra,           \* u8 % 4: at most 3 public ids besides the signers
    MaxPrivate,         \* u8 % 4: at most 3 draws of a private action
    Outcomes(_, _, _)   \* Outcomes(st, t, block): what the linked ledger may do

ASSUME ShieldedTargetsAssumption ==
    /\ MaxTxs \in Nat /\ MaxTxs < MaxBlock /\ MaxTxs < MaxU
    /\ MaxSigners \in Nat /\ MaxExtra \in Nat /\ MaxPrivate \in Nat

VARIABLES
    target,         \* "transition" or "ordering"
    fuzz_accs,      \* the generated accounts
    state,          \* the ledger under test; base in the ordering target
    i,              \* transactions drawn
    applied_tx,     \* {t} while accepted t waits for its replay, {} otherwise
    pair,           \* the conflicting pair <<b, c>>, <<>> before it is built
    pc              \* "loop", "replay", "pair", "returned" or "panicked"

vars == <<target, fuzz_accs, state, i, applied_tx, pair, pc>>

TypeOK ==
    /\ target \in {"transition", "ordering"}
    /\ fuzz_accs \in FuzzStates
    /\ state \in ShieldedStates
    /\ i \in 0..MaxTxs
    /\ applied_tx \subseteq ShieldedTxs
    /\ pair = <<>> \/ pair \in ShieldedTxs \X ShieldedTxs
    /\ pc \in {"loop", "replay", "pair", "returned", "panicked"}

\* block_id = 1 + i, and timestamp = i.
block_id == 1 + i

-----------------------------------------------------------------------------
(* The generator. *)

\* push_private_action_if_unique
Push(actions, action) ==
    IF \E a \in actions : a.nullifier = action.nullifier \/ a.commitment = action.commitment
    THEN actions
    ELSE actions \cup {action}

\* What up to MaxPrivate draws leave, and the one draw that replaces an empty list.
PrivateLists ==
    LET Drawn == UNION {[1..n -> PrivateActions] : n \in 0..MaxPrivate}
        Kept(draws) == FoldLeft(Push, {}, draws)
    IN {Kept(draws) : draws \in Drawn \ {<<>>}} \cup {{a} : a \in PrivateActions}

\* arb_validity_window, the windows of block and timestamp taken together: an
\* interval, which may be empty although neither window is.
Windows == {{b \in 1..MaxBlock : from <= b /\ b < to} : from \in 1..MaxBlock, to \in 2..MaxBlock + 1}

\* MUTANT of LiveNonces: the nonces of genesis.
LiveNonces_Genesis(st, ids) == [id \in ids |-> 0]

\* Nonces read live from the state.
LiveNonces(st, ids) == [id \in ids |-> st.accounts[id].nonce]

SignerSets ==
    {ids \in SUBSET Ids(fuzz_accs) : Cardinality(ids) <= MaxSigners}

\* All signers or none of them, and up to MaxExtra other ids, generated or not.
PublicIds(signers) ==
    {base \cup extra : base \in {{}, signers},
                       extra \in {e \in SUBSET AccountIds : Cardinality(e) <= MaxExtra}}

\* arb_privacy_preserving_tx: any list of effects for every public id, and a proof
\* that is synthesised for this message, or garbage.
Draws ==
    UNION {
        [signers         : {LiveNonces(state, signers)},
         public_actions  : UNION {[ids -> EffectLists] : ids \in PublicIds(signers)},
         private_actions : PrivateLists,
         window          : Windows,
         proof_passes    : BOOLEAN] : signers \in SignerSets}

\* build_pure_private_tx
PureTx(id, action) ==
    [signers         |-> LiveNonces(state, {id}),
     public_actions  |-> [p \in {} |-> <<>>],
     private_actions |-> {action},
     window          |-> 1..MaxBlock,
     proof_passes    |-> TRUE]

\* MUTANT of OtherSigner: the second signer may be the first.
OtherSigner_Same(m, n) == n

\* The index of the second signer: j, or the next index if j is the first signer's.
OtherSigner(m, n) == IF n = m THEN (m % Len(fuzz_accs)) + 1 ELSE n

\* The transaction of the m-th account that spends a nullifier, bound to the live root.
Spend(m, nullifier, commitment) ==
    PureTx(fuzz_accs[m].account_id,
           [nullifier |-> nullifier, commitment |-> commitment, known_root |-> TRUE])

\* arb_conflicting_nullifier_pair: one nullifier, two signers, two commitments.
ConflictingPairs ==
    {<<Spend(m, nullifier, comms[1]), Spend(OtherSigner(m, n), nullifier, comms[2])>> :
        m \in DOMAIN fuzz_accs, n \in DOMAIN fuzz_accs, nullifier \in Nullifiers,
        comms \in {c \in Commitments \X Commitments : c[1] # c[2]}}

-----------------------------------------------------------------------------
(* What the transition target checks. *)

Accounts(st, ids) == [id \in ids |-> st.accounts[id]]

\* tracked: the generated accounts, the signers and the public accounts.
Tracked(t) == Ids(fuzz_accs) \cup DOMAIN t.signers \cup DOMAIN t.public_actions

\* StateIsolationOnFailure, FailedTxNonceStability, PrivateStateIsolationOnFailure.
IsolatedOnFailure(t, post) ==
    /\ Accounts(post, Tracked(t)) = Accounts(state, Tracked(t))
    /\ post.commitments = state.commitments

\* CommitmentInsertion
CommitmentInsertion(t, post) == \A a \in t.private_actions : a.commitment \in post.commitments

\* NonceIncrementCorrectness
NonceIncrementCorrectness(t, post) ==
    \A id \in DOMAIN t.signers : post.accounts[id].nonce = state.accounts[id].nonce + 1

\* MUTANT of PublicEffectsApplied: the nonce of a signer is expected to stay.
PublicEffectsApplied_NonceForgotten(t, post) ==
    \A id \in DOMAIN t.public_actions :
        LET balance == Settled(state.accounts[id].balance, t.public_actions[id])
        IN balance # Foreign =>
               /\ balance # None
               /\ post.accounts[id] = [balance |-> balance, nonce |-> state.accounts[id].nonce]

\* PublicEffectsApplied: an action is skipped from its first foreign effect on.
PublicEffectsApplied(t, post) ==
    \A id \in DOMAIN t.public_actions :
        LET balance == Settled(state.accounts[id].balance, t.public_actions[id])
            signed  == IF id \in DOMAIN t.signers THEN 1 ELSE 0
        IN balance # Foreign =>
               /\ balance # None
               /\ post.accounts[id] =
                      [balance |-> balance, nonce |-> state.accounts[id].nonce + signed]

-----------------------------------------------------------------------------
Init ==
    /\ target \in {"transition", "ordering"}
    /\ fuzz_accs \in FuzzStates
    /\ state = [accounts |-> Genesis(fuzz_accs), commitments |-> {}, nullifiers |-> {}]
    /\ i = 0
    /\ applied_tx = {}
    /\ pair = <<>>
    /\ pc = IF target = "ordering" /\ Len(fuzz_accs) < 2 THEN "returned" ELSE "loop"

\* MUTANT of NextTx: the loop may draw one more.
NextTx_OneTooMany ==
    /\ pc = "loop"
    /\ i <= MaxTxs
    /\ UNCHANGED <<target, fuzz_accs, pair>>

\* The loop draws one more transaction.
NextTx ==
    /\ pc = "loop"
    /\ i < MaxTxs
    /\ UNCHANGED <<target, fuzz_accs, pair>>

\* The ordering target's seeds: "individual outcomes don't matter here".
ExecuteSeed(t) ==
    /\ target = "ordering"
    /\ NextTx
    /\ \E ans \in Outcomes(state, t, block_id) : state' = ans.post
    /\ i' = i + 1
    /\ UNCHANGED <<applied_tx, pc>>

\* The body of the transition target's loop, up to the replay.
ExecuteRejected(t) ==
    /\ target = "transition"
    /\ NextTx
    /\ \E ans \in Outcomes(state, t, block_id) :
           /\ ~ans.ok
           /\ state' = ans.post
           /\ pc' = IF IsolatedOnFailure(t, ans.post) THEN "loop" ELSE "panicked"
    /\ i' = i + 1
    /\ UNCHANGED applied_tx

ExecuteAccepted(t) ==
    /\ target = "transition"
    /\ NextTx
    /\ \E ans \in Outcomes(state, t, block_id) :
           /\ ans.ok
           /\ state' = ans.post
           /\ pc' = IF /\ CommitmentInsertion(t, ans.post)
                       /\ NonceIncrementCorrectness(t, ans.post)
                       /\ PublicEffectsApplied(t, ans.post)
                    THEN "replay" ELSE "panicked"
    /\ applied_tx' = {t}
    /\ UNCHANGED i

\* assert_replay_rejection at block_id + 1, on the live state.
Replay ==
    /\ pc = "replay"
    /\ \E t \in applied_tx : \E ans \in Outcomes(state, t, block_id + 1) :
           /\ state' = ans.post
           /\ pc' = IF ans.ok THEN "panicked" ELSE "loop"
    /\ i' = i + 1
    /\ applied_tx' = {}
    /\ UNCHANGED <<target, fuzz_accs, pair>>

\* n_txs reached, the generator ran out of input, or there is no pair to build.
Return ==
    /\ pc = "loop"
    /\ pc' = "returned"
    /\ UNCHANGED <<target, fuzz_accs, state, i, applied_tx, pair>>

BuildPair ==
    /\ target = "ordering"
    /\ pc = "loop"
    /\ pair' \in ConflictingPairs
    /\ pc' = "pair"
    /\ UNCHANGED <<target, fuzz_accs, state, i, applied_tx>>

\* One order: the verdicts of first and second, on a copy of base, at block 1.
Verdicts(first, second) ==
    UNION {{<<a.ok, b.ok>> : b \in Outcomes(a.post, second, 1)} : a \in Outcomes(state, first, 1)}

Accepted(verdicts) == Cardinality({k \in DOMAIN verdicts : verdicts[k]})

\* NoDoubleSpend in either order, and OrderIndependentAcceptance.
ApplyPair ==
    /\ pc = "pair"
    /\ \E bc \in Verdicts(pair[1], pair[2]), cb \in Verdicts(pair[2], pair[1]) :
           pc' = IF Accepted(bc) < 2 /\ Accepted(cb) < 2 /\ Accepted(bc) = Accepted(cb)
                 THEN "returned" ELSE "panicked"
    /\ UNCHANGED <<target, fuzz_accs, state, i, applied_tx, pair>>

Next ==
    \/ pc = "loop" /\ \E t \in Draws :
           ExecuteSeed(t) \/ ExecuteRejected(t) \/ ExecuteAccepted(t)
    \/ Replay
    \/ Return
    \/ BuildPair
    \/ ApplyPair

Spec == Init /\ [][Next]_vars

-----------------------------------------------------------------------------
\* No false alarm: linked with a ledger that follows the rules neither target
\* panics, whatever it draws.
NeverPanics == pc # "panicked"

\* "Built to frequently pass every validation check": in every reachable state the
\* only draws a correct ledger refuses are those the generator makes to be refused
\* (garbage proof, random root, closed window, effects that do not settle) and
\* those that draw a commitment or a nullifier that is already there.
DrawsReachApply ==
    pc = "loop" =>
        \A t \in Draws :
            /\ t.proof_passes /\ RootsKnown(t) /\ block_id \in t.window
            /\ EffectsApply(state, t) /\ CommitmentsNew(state, t) /\ NullifiersUnspent(state, t)
            => AcceptsShielded(state, t, block_id)

\* What makes the ordering oracle meaningful: when one of the pair has been
\* accepted, the other is refused for the shared nullifier and nothing else, unless
\* a seed had already inserted its commitment.
SecondRefusedForNullifier ==
    pc = "pair" =>
        \A k \in {1, 2} :
            LET first  == pair[k]
                second == pair[3 - k]
                after  == AppliedShielded(state, first)
            IN AcceptsShielded(state, first, 1) /\ CommitmentsNew(state, second) =>
                   /\ ~NullifiersUnspent(after, second)
                   /\ AcceptsShielded([after EXCEPT !.nullifiers = state.nullifiers], second, 1)
=============================================================================
