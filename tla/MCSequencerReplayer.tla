------------------------ MODULE MCSequencerReplayer ------------------------
(***************************************************************************)
(* TLC instances of SequencerReplayer: pipelines that follow the rules     *)
(* until they have an arbitrary effect on the accounts a transaction       *)
(* names, and a clock that may refuse its invocation.                      *)
(***************************************************************************)
EXTENDS SequencerReplayer, TLC

\* Account ids outside Reserved are interchangeable.
MCSymmetry == Permutations(AccountIds \ Reserved)

MCFaithful(st, t) == {Execute(st, t)}

MCValidate(st, t) == {Validate(st, t)}

MCApplyDiff(st, diff) == {ApplyDiff(st, diff)}

\* apply_state_diff in two steps, of which the second or both may fail: the target
\* drops its result.
MCFailingApplyDiff(st, diff) == {ApplyDiff(st, diff), WriteAccounts(st, diff), st}

MCDefectiveClock(clock) == [ok : BOOLEAN, clock : 0..1]

MCFailingClock(clock) == {ClockTick(clock)} \cup {[ok |-> FALSE, clock |-> clock]}

\* The accounts a transaction names.  The program of an unsigned one may own any.
Named(t) == IF t = UnsignedTx THEN AccountIds ELSE {t.from, t.to}

\* Each named account goes wrong on its own: it is left alone, as the transfer
\* leaves it, or overwritten.
Effects(st, t) ==
    LET done == Execute(st, t).post
    IN {d \in [Named(t) -> Account] :
            \A id \in Named(t) : d[id] \in {st[id], done[id], Funded(1)}}

\* The rules, or a defect; the signers' nonces are incremented, or the increment is
\* lost.
MCConfinedValidate(st, t) ==
    {Validate(st, t)} \cup
    [ok : BOOLEAN,
     diff : [public_diff : Effects(st, t), signer_account_ids : {{}, Signers(t)}]]

MCConfinedExecute(st, t) ==
    {Execute(st, t)} \cup
    [ok : BOOLEAN, post : {WriteAccounts(st, [public_diff |-> d]) : d \in Effects(st, t)}]
=============================================================================
