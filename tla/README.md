# TLA+ development of lez-fuzzing

`lez-fuzzing` is a fuzz harness for the Logos Execution Zone (LEZ) state machine. The ledger
itself (`nssa::V03State` and friends) is a separate repository; what lives here is the code that
*judges* a ledger: generators of accounts and transactions, reference models, an invariant
framework, 22 fuzz targets, and the scripts and workflows that run them.

A harness can be wrong in two ways, and this development states both for each target:

* a **false alarm**: it panics although the ledger did what its rules say.
* a **missed bug**: it returns although the ledger misbehaved.

Most instances link a target with a ledger that follows its rules until it deviates, at any
moment, if it ever does. A history variable `deviated` says whether some answer so far was not the
one of the rules, so one instance shows both: *every accusation is justified* (a panic only after a
deviation) and *what an iteration that did not panic has shown* of the ledger it watched.

The second half of the development is about the machinery that runs the targets: the job pools of
the `Justfile`, where a shell script and its children interleave, and the workflow that updates the
checked-in corpus, where jobs work on an old commit and their results are merged into a newer one.

## Inventory of the system

| component | state it keeps | operations | modelled by |
|---|---|---|---|
| account generator, `fuzz_props/src/generators.rs` | count, ids seen, accounts kept | draw, skip reserved or duplicate, return, run out of input | `FuzzState` |
| genesis, `fuzz_props/src/genesis.rs` | none | build the initial ledger state | `Genesis` |
| transaction generators, `generators.rs`, `arbitrary_types.rs` | none | native transfer (biased or adversarial), random transaction | sets of transactions in `TxSequence`, `SequencerReplayer` |
| invariant framework, `invariants.rs` | balance and nonce snapshots | five invariants, replay | `TxSequence` |
| `fuzz_stateful_model_lockstep` | ledger, reference model, clock, last accepted transaction | Transfer, AdvanceBlock, ReplayLast | `Lockstep` |
| `fuzz_state_transition`, `fuzz_multi_block_state_sequence`, `fuzz_replay_prevention` | ledger, snapshots, starting total | execute, check, replay, final sum | `TxSequence` |
| `fuzz_sequencer_vs_replayer` | two ledgers, block, touched ids, clock | sequence, skip, replay, clock, compare | `SequencerReplayer` |
| single-transaction two-path targets (validate/execute, split path, diff computation) | two copies of the ledger | validate, apply, execute, compare | `SplitPath` |
| privacy-preserving generator, `privacy.rs`, and its two targets | ledger with commitments and nullifiers | draw, execute, check, replay; build a conflicting pair, execute it in both orders | `ShieldedTargets` |
| Merkle, nullifier set, encoding, signature, witness and block targets | a single value | encode and decode, verify | not modelled (see below) |
| `just fuzz-parallel`, `just fuzz-afl-parallel` | running jobs, PIDs, failures | poll, launch, wait, drain, report, sync | `JobPool` |
| `corpus-update.yml` | corpus on main, artifacts, pull request | grow, minimise, upload, replace, open and merge a PR | `CorpusUpdate` |
| `check_target_inventory.py`, `add_fuzz_target.py` | none | compare lists of targets | not modelled |
| unit tests, docs, other recipes and workflows | none | | not modelled |

**How they interact.** A target is one function run on the input bytes: it calls the account
generator, builds the genesis state from what the generator returned, then draws commands or
transactions and calls the ledger through `execute_check_on_state`, `validate_on_state` and
`apply_state_diff`; the answers go to a reference model, to the invariant framework or to a second
copy of the ledger. The input bytes decide everything the code decides with `Arbitrary`, so each
such decision is a nondeterministic choice in the models. Iterations share no state. Panicking is
how a target reports a violation; it ends the process.

**What is hard here.** Nothing in a target runs concurrently. The difficulty is sequences: an
oracle that predicts from its own copy of the state must not drift; a replay is judged against a
state that earlier commands have changed; a comparison at the end covers only some accounts; sums
and nonces sit at the edge of `u128`; generated ids may collide with system accounts. The job
pools poll in one command and launch in another while children end at any time, and a child may be
reported by `wait -n` long before the draining loop waits for it. The corpus workflow adds partial
failure (lanes that crash, copies and downloads whose errors are ignored) and stale state: the
directories it replaces belong to a `main` that has moved. `PROJECT.json`
lists these hazards, each at its line and with the properties that guard it.

**What makes each component correct.** Generator: its result is what every caller assumes
(distinct, unreserved, capped). Lockstep: sound oracle, and a refinement of an abstract ledger for
whatever it watched. Invariant framework: quiet on a correct ledger; conserves balances over a
sequence. Sequencer and replayer: agreement on the accounts compared is agreement on the state,
and a correct ledger is never accused. Two-path targets: no disagreement of the paths falls between
two targets that each leave a case to the other. Privacy targets: quiet on a correct ledger, draws
that get as far as the checks they are built for, and a pair whose second half can only be refused
for the shared nullifier. Job pools: never more than `JOBS` targets, no slot left free, a report that
counts every failure once, and an end. Corpus workflow: a lane that failed keeps its corpus, and an
update on a quiet branch loses no coverage.

## Modules

| module | role |
|---|---|
| `V03State` | the public part of the external ledger: accounts, `u128` arithmetic, the rules of a native transfer (`Accepts`, `Applied`, `Execute`) and the same in two steps (`Validate`, `ApplyDiff`) |
| `Genesis` | the genesis state, and `FuzzStates`, what the generator promises |
| `LedgerUnderTest` | adds `Outcomes(_, _)`, the answers the linked ledger may give |
| `FuzzState` | the generator loop |
| `Lockstep` | the model-lockstep target |
| `NativeLedger` | abstract specification: what a native-token ledger promises a set of account owners |
| `TxSequence` | the three targets built on the invariant framework |
| `SequencerReplayer` | the block target, with one parameter for each of the ledger's two code paths |
| `SplitPath` | the three targets that run one transaction along two paths, together |
| `ShieldedState` | the ledger as the privacy-preserving targets see it, and its checks 1 to 6 |
| `ShieldedTargets` | the privacy-preserving generator, the transition target and the ordering target |
| `JobPool` | both job pools with their children |
| `CorpusUpdate` | runs of the corpus workflow, its lanes and commit job, and the branch they update |
| `MCLockstep`, `MCTxSequence`, `MCSequencerReplayer`, `MCSplitPath`, `MCShieldedTargets` | TLC instances: ledgers that deviate, and some that follow the rules |
| `MCCorpusUpdate` | TLC instances: three inputs, two of which reach the same code |
| `LedgerProofs` | lemmas about `V03State`, `Genesis` and `FuzzStates`, and about sums over finite sets of accounts |
| `TxSequenceProofs` | theorems about the generator (`FuzzState`) and about `TxSequence`, the targets that use its promise most |
| `LockstepProofs`, `SequencerReplayerProofs`, `SplitPathProofs`, `ShieldedTargetsProofs`, `JobPoolProofs`, `CorpusUpdateProofs` | theorems about the module in their name |

`FuzzState` shows that the generator returns members of `FuzzStates` and nothing else; the target
modules start from any member of `FuzzStates`. So the generator's theorem discharges the targets'
initial condition.

Correspondence. `Lockstep` has one action for each arm of the `match cmd`, plus
`NothingToReplay` for the `continue` in `ReplayLast` and `Return` for both ways out of the loop.
`Transfer(tx)` is the whole arm: predict, execute, compare the verdicts, commit to the model,
remember the transaction, move the clock, compare the states; a failed `assert!` leaves everything
after it undone. In `TxSequence` the loop body is cut where the code hands over: draw and execute,
the invariants, the replay (so that the replay starts from a state other assertions have already
judged). In `SequencerReplayer` each of the loops, the two clock invocations and the comparison
are actions. In `SplitPath` each target is one action: it makes a fresh ledger, runs one transaction
and ends, so nothing another target does can come between its steps; its asserts are a formula in
which an early return is an implication. The ledger is deterministic, so its answers in the genesis
state are chosen once, in the variable `ledger`; that is what lets a property speak of two targets
that see the same input. In `ShieldedTargets` one draw with its execution and checks is an action,
the replay another, and the ordering target ends with `BuildPair` and `ApplyPair`, which runs both
orders on copies of the same state. The history variables
(`applied`, `executed_at` and `deviated` in `Lockstep`, `accepted` and `deviated` in `TxSequence`,
`deviated` in `SequencerReplayer`) record what properties speak of; no guard reads them. An entry of
`accepted` in `TxSequence` carries the iteration that accepted it, so that a nonce accepted again is a
second entry. A
sequencer that refuses a transaction it should accept is not counted as a deviation, which only
makes the property about accusations stronger.

In `JobPool` one action is one command of the script: the poll of the running jobs, `wait -n` (which
reports one ended child, or fails at once in a shell that does not have it), the sleep, the launch,
and the commands that drain the pool. `JobEnds` may happen between any two of them. `running` is
what `jobs -rp` prints, `unwaited` the children that ended and no wait has reported; `wait PID`
gives the status of a child also when `wait -n` has reported it before. `fuzz-parallel` waits for
each PID in launching order and counts failures, `fuzz-afl-parallel` waits for all and then syncs.
In `fuzz-parallel` a `mkdir` that fails ends the script (`set -e`) and leaves the children behind.

In `CorpusUpdate` a run records `main` when it starts; each lane (engine and target) ends by
uploading a minimised corpus (`LaneSucceeds`) or without (`LaneFails`); `OpenPR` is the commit job:
it reads `main` as it is then, and replaces the directory of each lane that has an artifact;
`MergePR` is the three-way merge of Git, file by file. Others may merge inputs at any time. A corpus
is a set of inputs, an input is named by its content, and minimisation keeps any subset with the
same coverage. Copies with `|| true` and downloads with `continue-on-error` may be cut short
(`storage_fails`), and `afl-cmin` may fail and leave the lane as it was.

Abstractions, all of data. An account is its balance and its nonce (its `data` beyond the native
shard never differs between the copies in these targets). Amounts range over `0..MaxU`, with the
additions, saturations and wrap-arounds of `u128` at `MaxU`. A random transaction
(`arbitrary_transaction`) carries random signatures: with one or more it fails the stateless
check, which is `RefusedByGate` and `SkipTx`; with none it is `UnsignedTx`, which the rules refuse
and a defective ledger may accept. The panic of `native_balance` on a shard that does not decode
is left out: no balance of the model is malformed. Timestamps move with the block id and are
checked by nobody; `Lockstep` keeps both. In the privacy-preserving targets the digest of the
commitment set is the set; a private action says whether its root is the one that was live when it
was drawn (in every later history too, since the history only grows) or a random one; the two
validity windows are the set of blocks in which both hold, an interval, since the timestamp is the
block id less one wherever these targets execute; a proof passes or is garbage (it depends on the
message only, because no program image claim is ever drawn); an effect on another program is
`Foreign`. Encrypted notes are left out, nobody reads them. The `continue` after the stateless
check is not modelled: `WitnessSet::for_message` signs what the check verifies.

## The external ledger

`V03State` is marked external in the map: its rules are those the harness states. They come from
the soundness argument in `fuzz_stateful_model_lockstep.rs` (lines 23 to 64), the comment on
self-transfers in `arb_fuzz_native_transfer`, and the two-step description of `apply_state_diff`
in `fuzz_apply_state_diff_split_path.rs` (lines 12 to 15). In particular the accounts of a
`ValidatedStateDiff` carry their old nonces; `apply_state_diff` writes them and then increments
the nonce of each signer. Two rules are assumptions of this development: a system account is no
party of a user transfer, and no correct ledger runs a transaction without signatures (its program
id is random). If a ledger accepted such a transaction, `assert_replay_rejection` would accuse it
of a replay, since no nonce is consumed.

`ShieldedState` follows the numbered checks that `privacy.rs` (lines 221 to 222, 300 to 352) and the
comments of the two targets speak of: non-empty and distinct private actions, nonces, windows, the
proof, new commitments, known roots and unspent nullifiers, then the effects, in order, with
under- and overflow refused. `Foreign` effects are refused: no such program is deployed.

## Runs

| run | question | bounds |
|---|---|---|
| `fuzz_state` | does the generator keep its promise, over every sequence of draws? | 4 ids of which one is reserved, 3 draws, `MaxU` = 7: the cap is 2, three capped balances come close to `MaxU`, a fourth factor would overflow |
| `lockstep` | is every accusation justified; do the command kinds reach the paths their comments name; what has an iteration that does not panic shown of any ledger? | 3 accounts, 3 commands, `MaxU` = 4, cap 1, so that one account can gather a balance next to `MaxU` and `Excessive` saturates; the ledger gives either verdict, and leaves the state alone or transfers, with one account up to a unit and a nonce off; symmetry over the accounts |
| `tx_sequence` | is every accusation justified; is the total conserved although a refused replay may write? | 2 accounts plus the bridge, 2 transactions (valid, stale, self-directed, unaffordable, unsigned), each with its replay, `MaxU` = 4; the ledger gives either verdict and does all, half or none of a transfer |
| `tx_sequence_permanence` | (violation) has an iteration that returns, every replay check and the final sum passed, accepted no nonce twice? | 2 accounts, 3 transactions with their replays, `MaxU` = 4, a ledger that executes a transaction with an older nonce as if it carried the current one |
| `sequencer` | is every accusation justified; does agreement on the touched accounts mean agreement? | 3 ids of which up to 2 are generated, 2 transactions; each pipeline gives either verdict and has its own effect on each account a transaction names, and the increment of the nonces may be lost; the application of a validated diff may fail before or between its two steps; a clock that gives any answer; symmetry over the ids |
| `sequencer_clock` | (violation) does an iteration with the clock advance it on both sides? | 1 transaction, a clock that may refuse |
| `split_path_detects` | what do the three targets guarantee together, and when may they accuse a consistent ledger? | 2 accounts, every diff and post-state in which an account changes by at most a unit and a nonce; validation, execution and application go wrong independently; the application does both of its steps or only the first |
| `split_path_signed` | (violation) is a ledger whose paths agree left alone by the consistency target? | 2 accounts plus the bridge, a ledger that follows the rules |
| `shielded_sound` | are both privacy targets quiet on a correct ledger; do the draws reach the checks they are built for; is the pair refused for the nullifier alone? | 2 ids of which up to 2 are generated, 2 transactions (or seeds) with their replays, 2 nullifiers, 2 commitments, up to 2 signers and 2 private actions, 1 effect per action, windows over 3 blocks; symmetry over ids, nullifiers and commitments |
| `job_pool` | is the pool bounded; is the report complete and the sync late enough; is a free slot filled, and does the script end? | 4 targets, 2 jobs: the pool fills twice; both recipes, shells with and without `wait -n`, any set of targets that may never end, either status |
| `corpus_update` | is a lane without an artifact untouched; does a merge on an unchanged lane keep its coverage? | 2 runs that may overlap, 1 AFL++ lane (what a libFuzzer lane may do is a part of that), 3 inputs of which two reach the same code, 1 other merge, with and without storage failures; symmetry over the two equal inputs |
| `corpus_update_stale` | (violation) does a pull request delete only what a minimisation has seen? | 1 run, 1 libFuzzer lane, 1 other merge, no storage failures |

Two or three commands or transactions are enough for the interesting orders: accept, change the state,
replay or spend again. Two accounts are the smallest set with a transfer; the third account or id
gives a party that the transaction does not name. `MaxCmds` and `MaxTxs` stand for the code's 31,
7 and 15; they are assumed smaller than `MaxU`, as 31 is smaller than `u128::MAX`, so that no nonce
reaches the end of its range. The ledger may deviate in any of the steps, so a bound of `n` steps includes every
way to go on after a deviation. A target stops when it returns or panics, the pool's script when it exits
and the workflow when every run is merged, so deadlock is not checked; that the script ends is a
liveness property.
Every property of a passing run has a mutant of the code that breaks it.

### Properties worth knowing

* `OracleSound` (`Lockstep`) and `OnlyDeviationAccused` (`TxSequence`, `SequencerReplayer`): a panic
  means that the ledger has deviated before. A deviation is any answer, verdict or state, that is
  not the one of the rules in the state the ledger was in. So no behaviour without a deviation ends
  in a panic: this is silence on a correct ledger, stated where the ledger may also be wrong.
* `CertifiedLedger` (`Lockstep`): whatever ledger is linked, the balances and nonces of the
  generated accounts, seen through an iteration that has not panicked, are a behaviour of
  `NativeLedger`. It fails when, for instance, `assert_state_agreement` compares nonces only.
* `NoncesConsumedInTurn`: until a panic, the accepted transactions of an account carry nonces
  0, 1, 2, ... without gap or repetition.
* `KindsReachTheirPath`: in every reachable state, `Correct` with `Zero`, `WithinBalance` or `All`
  is predicted to be accepted and `Excessive` rejected, although `Excessive` saturates; `Off` is
  rejected.
* `LongRangeConserved` (`TxSequence`): the multi-block target conserves the drawn total even for a
  ledger whose refused replay writes. The per-transaction invariants alone do not see that:
  `fuzz_state_transition` and `fuzz_replay_prevention` return without comparing anything after the
  replay.
* `FullEquivalence` (`SequencerReplayer`): comparing the touched accounts is comparing all of them,
  as long as nothing writes outside the accounts the diffs declare. The converse limit is the
  "known limitation" the sources mention.
* `NothingBetweenTargets` (`SplitPath`): `fuzz_apply_state_diff_split_path` returns when validation
  or execution refuses and leaves those cases to `fuzz_validate_execute_consistency`. If both
  return, the verdicts agree and so do the effects, and the split path conserves the total although
  its target sums nothing.
* `SignedNeverPassesBoth`: for an accepted transaction of a generated signer at least one of the two
  targets panics, whatever validation and execution do; see the finding below.
* `DrawsReachApply` (`ShieldedTargets`): in every reachable state the generator's draws are refused
  only for what the generator intends (garbage proof, random root, closed window, effects that do
  not settle) or for a commitment or nullifier that happens to be there already.
* `SecondRefusedForNullifier`: take the shared nullifier away and the second transaction of the pair
  is accepted. Without that, the ordering target would be green on a ledger that never checks
  nullifiers.
* `ReportIsComplete` (`JobPool`): it would fail if the shell forgot the status of a child that
  `wait -n` has reported while the pool was full.
* `FreeSlotIsFilled`: "as soon as one finishes the next queued target is launched, so the pool stays
  full", even if every other target hangs, and also in a shell without `wait -n`, where only the
  next poll notices.
* `QuietRunKeepsCoverage` (`CorpusUpdate`): "dominated inputs are dropped" and no others. Its
  condition (the lane did not change on `main` between the start of the run and the merge, and
  copies are whole) is what the code needs: two pull requests that are open at the same time may
  each keep the input that the other one deletes, and then both are gone; the finding shows what
  happens to an input merged meanwhile.
* `CrashedLanesUntouched` has no such condition.

### Findings

* `tx_sequence_permanence`. `fuzz_multi_block_state_sequence.rs:14-16` says the replay check
  confirms "that nonces are permanently consumed, not just temporarily blocked". Only the
  transaction accepted last is replayed, once, and what refuses the replay is not asked. TLC finds an
  iteration on a ledger that blocks a nonce only while it is the latest: nonces 0 and 1 are accepted
  and their replays refused; then nonce 0 is accepted again, with an amount that empties the account,
  and its replay is refused for the balance; the final sum agrees and the iteration returns. (A
  repeat that leaves enough balance is caught by its own replay. The lockstep target draws old
  nonces with `Raw`, predicts their refusal and does not have this gap.)
* `sequencer_clock`. `fuzz_sequencer_vs_replayer.rs:35-36` says the clock invocation must succeed
  on both paths. A refusal on the sequencer returns silently, and the block is neither replayed
  nor compared.
* `split_path_signed`. `fuzz_validate_execute_consistency.rs:83` compares whole accounts of the diff,
  nonces included, with the executed state. According to `fuzz_apply_state_diff_split_path.rs:12-15`
  the diff is written first and the nonces of the signers are incremented afterwards, so the diff of
  an accepted signed transaction has the old nonce. The target would accuse a correct ledger; it
  does not in practice because its signatures are drawn at random (`arbitrary_types.rs:179-193`)
  and hardly any signed transaction passes the stateless check.

* `corpus_update_stale`. `corpus-update.yml:281-282` says that replacing the directories "lets
  cmin-driven deletions show up in the PR diff". The lanes minimise the corpus of the commit the run
  started from, and the commit job (`ref: main`, line 266) replaces whole directories on `main` as it is
  hours later: an input merged in between is in no artifact and is deleted, dominated or not.

Observed and not turned into runs: the module doc of `fuzz_sequencer_vs_replayer.rs` lists
`program_owner` among the compared fields, the code compares balance, nonce and data;
`fuzz_state_transition.rs:10-13` and `fuzz_replay_prevention.rs:10-13` speak of `u128::MAX`
balances and nonces at the wrap-around, while the generator caps balances at an eighth of
`u128::MAX` and genesis nonces are 0; `mutants.yml` speaks of 20 targets;
`fuzz_transaction_ordering_independence.rs:71-72` says the root history "starts empty", while
`privacy.rs:218-223` says it is seeded at genesis (the seeds are then not needed for check 6, only
for a state that is not fresh).

## Fairness

Only `JobPool` assumes any. `WF_vars(Script)`: the operating system goes on running the script, and
each command of it that can be executed is executed. `WF_vars(t \notin slow /\ JobEnds(t))`: a target
that is not slow ends, because it is started with a time budget (`-max_total_time`, `-V`). Nothing is
assumed about the targets in `slow`, a set chosen at the start: `FreeSlotIsFilled` holds whatever it
is, and `Terminates` only claims an end if it is empty. The script is one process, so one weak
fairness condition for all its commands is enough: it never has to choose one command over another.
`JOBS=0` is excluded by `JobPoolAssumption`: the recipes accept it and
poll for ever. The fuzz targets are bounded loops that end by construction, and the workflow promises
no merge: they need no fairness and get none.

## Proofs

Everything is proved for all values of the constants that satisfy the named assumptions
(`MaxUAssumption`, `ReservedAssumption`, `GeneratorAssumption`, `LockstepAssumption`,
`SequencerAssumption`, `InputsAssumption`,
`ShieldedAssumption`, `ShieldedTargetsAssumption`, `TxSequenceAssumption`, `JobPoolAssumption`, `CorpusUpdateAssumption`), and for every ledger that satisfies the assumption in the theorem.
Every invariant and every action property that a passing run checks is the subject of a theorem;
the two liveness properties are not.

*Sums and folds.* Balances are summed with `SumFunction`, lists of effects and of draws are folded with
`FoldLeft`. Both are a chosen function on the subsets of a finite set. What such a function computes
is proved without an induction theorem: a finite set of counterexamples would have a minimal one
(`MinimalSubset`, from the well-founded order of strict inclusion), and one equation of the function
refutes it. From it follow that the function exists and is unique, and then the equation of a sum
(`SumEquation`), that a sum keeps its value when two terms shift an amount between them
(`SumTransfer`), when its index set is renamed (`SumReindex`: accounts counted by position or by id),
and its bound (`SumBound`); for folds, that a type the step function keeps is the type of the result
(`TypedFold`). In terms of the ledger: genesis holds the drawn total (`GenesisTotal`), a transfer
conserves it (`TransferConserves`), and with the cap it is at most `MaxU` (`DrawnCapped`).

*Generator.* `GeneratorInvariant` proves the inductive `GenInv`: every account kept is unreserved,
capped and in `seen`, ids are distinct, and `Len(accounts) <= drawn`. `seen` has to be in the
invariant, because distinctness of the next account follows from it alone. `GeneratorKeepsPromise`
and `GeneratedBalancesSurvive` follow, and so does `GeneratorTypeOK`, since no more accounts are kept
than were drawn. `GeneratedTotalFits`: `MaxAccounts` times the cap is at most `MaxU`.

*Lockstep.* `LockstepInvariant` proves `IInv` for any ledger that answers with a verdict and a state
(`TypedLedger`). Its parts: types; at least two accounts in the loop; each nonce of the model is at
most `step`, which keeps the unchecked `from_nonce + 1` in range (this is where `MaxCmds < MaxU` is
used); the remembered transaction's nonce is already consumed in the model, which makes rejecting
a replay the right verdict; the history is exactly the consumed nonces; ledger and model agree
whenever the target has not panicked; the clock is ahead. From it: `LockstepTypeOK`,
`LockstepNonces`, `LockstepClock`. `LockstepOracleSound` proves, for any typed ledger, that a panic is preceded by a deviation:
as long as the ledger answers by the rules the verdicts coincide, because a transfer
of the target has two distinct, unreserved parties (`ResolveRecipient` never returns the sender), and
a state the target has certified is what the rules start from. `LockstepFaithfulNeverAccused`: a
ledger that follows the rules (`FaithfulLedger`) is never accused.
`LockstepImplementsNativeLedger` proves the refinement for any typed ledger: initial states map to
initial states, a transfer that both sides accept maps to `Transfer`, a panic to the report, and
every other step to a stutter.

`LockstepModelConserves` adds a second invariant: the reference model holds the drawn total, whatever
the ledger does, because the code commits a transfer to the model only if both sides accept it, and
both of its parties are generated. The ledger is no part of that invariant, so `LockstepTotalConserved`
needs the agreement of `IInv`: a state the target has not accused holds the same total. `LockstepKinds`
needs it too: a `Correct` transfer of the whole balance may not overflow the recipient, whatever it has
gathered. Its other half, that `Excessive` is refused although `saturating_add(1)` may return the
balance itself, holds only if no account can own `MaxU`. What the generator's comment says
(`generators.rs:105`, "the sum of 8 accounts is at most `u128::MAX`") is not enough, because a sum of
exactly `u128::MAX` is at most that. What excludes it is `CapHasRemainder`: the divisor does not divide `MaxU`. It is
the hypothesis of the theorem. It holds in the code, where `u128::MAX` leaves 7 when divided by 8; with
`MaxU` = 4, two accounts and divisor 2, TLC finds the run in which one account gathers 4 and the
`Excessive` command is accepted.

*Invariant framework.* `TxSequenceInvariant` proves `IInv` for any typed ledger: types, the starting
total is the drawn one, a transaction under way comes from `Draws` and still counts towards `n_txs`, and
a multi-block run that has returned has compared the totals. `TxSequenceTypeOK` and
`TxSequenceConserved` follow, the latter for a ledger whose refused replays write as well, since it
rests on the comparison and on nothing the ledger did.
`TxSequenceSound` proves the second invariant, `Sound`: until the ledger deviates, its state is
`Reached` (total as drawn, nonces at most the transactions so far and above everything
accepted), and while a transaction awaits its checks or its replay, verdict and state are what the rules
make of *some* reached state, the one the snapshot was taken from (`Judged`). The state before an
execution is in no variable, only its balances and nonces are, which is why the invariant quantifies
over it. Every check of the framework is then shown to pass: the totals are equal because a transfer
conserves them, `checked_add` succeeds because the drawn total fits, a nonce moves by exactly one because
`MaxTxs < MaxU` keeps it from wrapping, and the replay is refused because the nonce has moved.
`TxSequenceOnlyDeviationAccused` is immediate, and with it `TxSequenceFaithfulNeverAccused`.
`TxSequenceNoncesConsumed` proves `NoncesPermanentlyConsumed`, which `tx_sequence_permanence` refutes
for an arbitrary ledger, for one that follows the rules: the doc comment is true of the ledger,
but the checks do not establish it. The property speaks of iterations that have returned; inductive is
`ConsumedOnce`, the same in every state: the transaction on trial carries the current nonce of its
signer (`Judged`), and every nonce in `accepted` is below it (`Reached`).

*Sequencer and replayer.* `SequencerTypeOK` for typed pipelines. `SequencerFullEquivalence` for
pipelines confined to the declared accounts; the invariant says that neither side has written an
account outside `touched_ids` and that `touched_ids` covers whatever the transactions of the block
will write when executed again. `SequencerOnlyDeviationAccused` needs
typed pipelines only: while nothing has deviated, the invariant keeps the chain of states the sequencer
went through, from genesis, in which each transaction of the block leads to the next state (`Leads`),
and says that the replayer is at the k-th of them. `SequencerConsistentNeverAccused` uses the same
invariant (its hypothesis `Expected` covers both) for pipelines that are deterministic and agree, where
what execution does is what validation and application do, whatever their rules are.
`SequencerSoundForTheRules` shows that the rules of `V03State` satisfy these assumptions; its core
is `SplitIsExecute`, that validating and then applying the two-step diff is executing.

*Two-path targets.* `SplitPathInvariant` proves, for any ledger, that a target which has returned has
satisfied its asserts and one that has panicked has not: the step lemma needs that a step of one
target changes neither the input nor the ledger. The four properties then follow without time.
`SplitPathNothingBetween` chains the equality of the diff with the executed state and of the
executed state with the split path over the known accounts, and carries the total over
pointwise. `SplitPathSigned` takes a generated signer of an accepted transaction: outside the diff,
execution may not have changed it (2b) while its nonce must have grown; inside the diff, its nonce
is already the incremented one and applying the diff increments it again. `SplitPathSound` assumes a
consistent ledger and no watched signer, so the second step of `apply_state_diff` is void on every
account compared.

*Privacy targets.* `ShieldedInvariant` proves, for a ledger that follows the rules, that nonces are at
most the number of executions (so that the increment the target expects does not wrap; this uses
`MaxTxs < MaxU`), that a transaction waiting for its replay has spent one of its nullifiers, that
the ordering target has two accounts, and that a pair awaiting execution was built in the state it
will be executed in, by two different signers. The rules are assumed for well-typed calls only
(`FaithfulLedger`), so the step lemma uses the types of `ShieldedTypeOK`, which holds for any typed
ledger. Those need two facts about folds: the effects of an account, folded into a `u128`, leave a
`u128`, `None` or `Foreign` (`SettledType`), and what `push_private_action_if_unique` keeps is a list of
private actions (`KeptType`). The latter also says that the list is never empty and its nullifiers and
commitments are distinct, which is `ShieldedDrawsReachApply`: draws pass checks 1 and 2 and carry the
live nonces in any state, whatever the ledger does. `ShieldedNeverPanics`: the replay is refused for the nullifier alone, whatever else
changed; and an order of the pair accepts one transaction exactly when one of them is acceptable in
the base state, which does not depend on the order. `ShieldedSecondRefused` needs the two signers:
the second's nonce is untouched by the first.

*Job pools.* `JobPoolInvariant` proves `IInv` for any number of targets and any `JOBS` but 0. Between
the poll and the launch there is room for one more (`RoomForOne`): children only end in between, so
the bound survives although poll and launch are two commands. A target has an outcome exactly when it
was launched and does not run (`LaunchedOrNot`), and `failed` is the number of failures among the
targets the draining loop has passed (`Counted`), whichever wait reported them. `JobPoolBound`,
`JobPoolReport`, `JobPoolSync` and `JobPoolTypeOK` follow.

*Corpus workflow.* `CorpusUpdateInvariant` proves, for all sets of runs, lanes and inputs and any
coverage, that a lane that has not ended has no artifact (`InOrder`), that an artifact reaches what
the corpus of the starting commit reached (`ArtifactsCover`), and that an open pull request holds,
for each lane, the artifact or the `main` it was made from (`TreesFollowArtifacts`).
`CorpusCrashedLanes` and `CorpusCoverageKept` are action properties, proved from it and from what the
three-way merge does to a lane (`MergeFacts`).

What stays with TLC: `FreeSlotIsFilled` and `Terminates`, liveness under fairness, are beyond the
prover; and the four violation runs are counterexamples, which need none.

## Not modelled

* Round-trip targets (encoding, decoding, block hash, nullifier set, state serialization) and
  cryptographic ones (signatures, witness sets) act on one value of external types. They are straight
  lines of assertions about an external codec or primitive: once that is abstracted, a model
  would assert what it assumes. The same holds for `fuzz_transaction_properties` (hashes, signer lists
  and accessors of one transaction) and for `fuzz_merkle_tree`, whose tree and hash are external.
* `check_target_inventory.py`, `add_fuzz_target.py`: comparisons and edits of text files, without
  steps that could interleave or fail halfway in a way that matters.
* The other `Justfile` recipes are sequences of commands over files, and the other workflows build and
  run steps whose jobs share nothing but caches.
* Seed generation, AFL and libFuzzer drivers, tool installation, report formatting and the text of the
  corpus pull request are pure I/O.
* Within modelled parts: the proptest strategies (used by unit tests only), deployed programs and fees
  of the ledger, encrypted notes and program image claims of private transactions.

## Plan

Done: generator, lockstep, invariant framework, sequencer and replayer, two-path targets, privacy
and ordering targets, job pools, corpus workflow. Left:

1. What the privacy targets detect: link `ShieldedTargets` with a ledger that answers wrongly; an
   accepted transaction's nullifier is never asked for directly, so which ledgers that forget to
   record it are noticed by the replay.
