------------------------------ MODULE JobPool ------------------------------
(***************************************************************************)
(* The bounded job pools of the Justfile: fuzz-parallel, which runs every  *)
(* libFuzzer target, and fuzz-afl-parallel, which runs every AFL++ target  *)
(* and then collects what they found.  Both launch the targets in the      *)
(* order of `cargo fuzz list`, at most Jobs at a time, with one polling    *)
(* loop; they drain the pool in different ways.                            *)
(*                                                                         *)
(* The script and its children interleave: a target may end between any    *)
(* two commands of the script.                                             *)
(***************************************************************************)
EXTENDS Naturals, FiniteSets

CONSTANTS
    NTargets,     \* ${#TARGETS[@]}
    Jobs          \* the JOBS argument

\* JOBS=0 is accepted by the recipes and polls for ever: no slot is ever free.  A
\* list of no targets is an unbound variable in the older shells (set -u).
ASSUME JobPoolAssumption == NTargets \in Nat \ {0} /\ Jobs \in Nat \ {0}

Targets == 1..NTargets

VARIABLES
    recipe,       \* "libfuzz" (fuzz-parallel) or "afl" (fuzz-afl-parallel)
    has_wait_n,   \* bash 4.3 or later; macOS ships 3.2
    slow,         \* the targets that may outlive their time budget
    pc,           \* the command the script executes next
    next,         \* the target of this iteration of the launching loop
    running,      \* the children that run: jobs -rp
    unwaited,     \* the children that ended and no wait has reported
    outcome,      \* exit status of each target
    drained,      \* iterations of the draining loop
    failed,       \* the counter that is printed at the end
    exit_code     \* of the script, "none" while it runs

script == <<pc, next, drained, failed, exit_code>>
vars == <<recipe, has_wait_n, slow, pc, next, running, unwaited, outcome,
          drained, failed, exit_code>>

TypeOK ==
    /\ recipe \in {"libfuzz", "afl"}
    /\ has_wait_n \in BOOLEAN
    /\ slow \subseteq Targets
    /\ pc \in {"poll", "wait", "sleep", "launch", "drain", "sync", "exited"}
    /\ next \in 1..NTargets + 1
    /\ running \subseteq Targets
    /\ unwaited \subseteq Targets
    /\ outcome \in [Targets -> {"none", "ok", "error"}]
    /\ drained \in 0..NTargets
    /\ failed \in 0..NTargets
    /\ exit_code \in {"none", "zero", "nonzero"}

Init ==
    /\ recipe \in {"libfuzz", "afl"}
    /\ has_wait_n \in BOOLEAN
    /\ slow \in SUBSET Targets
    /\ pc = "poll"
    /\ next = 1
    /\ running = {}
    /\ unwaited = {}
    /\ outcome = [t \in Targets |-> "none"]
    /\ drained = 0
    /\ failed = 0
    /\ exit_code = "none"
-----------------------------------------------------------------------------
\* The children.  A target ends at any time, with success or with an error (a
\* crash it found, a build that failed).
JobEnds(t) ==
    /\ t \in running
    /\ running' = running \ {t}
    /\ unwaited' = unwaited \cup {t}
    /\ \E status \in {"ok", "error"} : outcome' = [outcome EXCEPT ![t] = status]
    /\ UNCHANGED <<recipe, has_wait_n, slow, script>>
-----------------------------------------------------------------------------
\* MUTANT of PoolIsFull: -gt instead of -ge.
PoolIsFull_OneTooMany == Cardinality(running) > Jobs

\* MUTANT of PoolIsFull: jobs -p, which lists the children that ended too.
PoolIsFull_CountsEnded == Cardinality(running \cup unwaited) >= Jobs

\* [ "$(jobs -rp | wc -l)" -ge JOBS ]
PoolIsFull == Cardinality(running) >= Jobs

\* MUTANT of Poll: the loop runs once too often.
Poll_PastTheEnd ==
    /\ pc = "poll"
    /\ next <= NTargets + 1
    /\ pc' = IF PoolIsFull THEN "wait" ELSE "launch"
    /\ UNCHANGED <<recipe, has_wait_n, slow, next, running, unwaited, outcome,
                   drained, failed, exit_code>>

Poll ==
    /\ pc = "poll"
    /\ next <= NTargets
    /\ pc' = IF PoolIsFull THEN "wait" ELSE "launch"
    /\ UNCHANGED <<recipe, has_wait_n, slow, next, running, unwaited, outcome,
                   drained, failed, exit_code>>

\* `wait -n` reports one child that ended and was not waited for, also one that
\* ended before the call.  Its status is the child's, and an error goes on with
\* `|| sleep 0.5`.
WaitAny ==
    /\ pc = "wait" /\ has_wait_n
    /\ \E t \in unwaited :
           /\ unwaited' = unwaited \ {t}
           /\ pc' = IF outcome[t] = "ok" THEN "poll" ELSE "sleep"
    /\ UNCHANGED <<recipe, has_wait_n, slow, next, running, outcome,
                   drained, failed, exit_code>>

\* A shell without `wait -n` fails on it at once.  With it, the command would fail
\* too if there were no child to wait for, which a full pool excludes.
WaitFails ==
    /\ pc = "wait"
    /\ has_wait_n => running \cup unwaited = {}
    /\ pc' = "sleep"
    /\ UNCHANGED <<recipe, has_wait_n, slow, next, running, unwaited, outcome,
                   drained, failed, exit_code>>

Sleep ==
    /\ pc = "sleep"
    /\ pc' = "poll"
    /\ UNCHANGED <<recipe, has_wait_n, slow, next, running, unwaited, outcome,
                   drained, failed, exit_code>>

\* The target is launched in the background and its PID recorded.
Launch ==
    /\ pc = "launch"
    /\ running' = running \cup {next}
    /\ next' = next + 1
    /\ pc' = "poll"
    /\ UNCHANGED <<recipe, has_wait_n, slow, unwaited, outcome, drained, failed,
                   exit_code>>

\* set -e: in fuzz-parallel, a mkdir that fails ends the script and leaves the
\* children behind.  fuzz-afl-parallel calls mkdir in the child.
MkdirFails ==
    /\ pc = "launch"
    /\ recipe = "libfuzz"
    /\ pc' = "exited"
    /\ exit_code' = "nonzero"
    /\ UNCHANGED <<recipe, has_wait_n, slow, next, running, unwaited, outcome,
                   drained, failed>>

StartDraining ==
    /\ pc = "poll"
    /\ next > NTargets
    /\ pc' = "drain"
    /\ UNCHANGED <<recipe, has_wait_n, slow, next, running, unwaited, outcome,
                   drained, failed, exit_code>>

\* MUTANT of WaitStatus: the shell has forgotten the status of a child that
\* `wait -n` has reported, and `wait PID` answers 127.
WaitStatus_Forgotten(t) == IF t \in unwaited THEN outcome[t] ELSE "error"

\* `wait PID`: the status of the child, also if `wait -n` has reported it before.
WaitStatus(t) == outcome[t]

\* MUTANT of DrainOne: only a child that no wait has reported can be waited for.
DrainOne_UnreportedOnly ==
    /\ pc = "drain" /\ recipe = "libfuzz"
    /\ drained < NTargets
    /\ LET t == drained + 1
       IN /\ t \in unwaited
          /\ unwaited' = unwaited \ {t}
          /\ failed' = IF WaitStatus(t) = "ok" THEN failed ELSE failed + 1
          /\ drained' = t
    /\ UNCHANGED <<recipe, has_wait_n, slow, pc, next, running, outcome, exit_code>>

\* fuzz-parallel waits for every PID in launching order and counts the failures.
DrainOne ==
    /\ pc = "drain" /\ recipe = "libfuzz"
    /\ drained < NTargets
    /\ LET t == drained + 1
       IN /\ t \notin running
          /\ unwaited' = unwaited \ {t}
          /\ failed' = IF WaitStatus(t) = "ok" THEN failed ELSE failed + 1
          /\ drained' = t
    /\ UNCHANGED <<recipe, has_wait_n, slow, pc, next, running, outcome, exit_code>>

\* It exits with 1 if a failure was counted.
Report ==
    /\ pc = "drain" /\ recipe = "libfuzz"
    /\ drained = NTargets
    /\ pc' = "exited"
    /\ exit_code' = IF failed = 0 THEN "zero" ELSE "nonzero"
    /\ UNCHANGED <<recipe, has_wait_n, slow, next, running, unwaited, outcome,
                   drained, failed>>

\* MUTANT of DrainAll: `wait -n`, which one ended child satisfies.
DrainAll_WaitAny ==
    /\ pc = "drain" /\ recipe = "afl"
    /\ unwaited # {} \/ running = {}
    /\ unwaited' = {}
    /\ pc' = "sync"
    /\ UNCHANGED <<recipe, has_wait_n, slow, next, running, outcome, drained,
                   failed, exit_code>>

\* fuzz-afl-parallel waits for all its children at once and drops their statuses.
DrainAll ==
    /\ pc = "drain" /\ recipe = "afl"
    /\ running = {}
    /\ unwaited' = {}
    /\ pc' = "sync"
    /\ UNCHANGED <<recipe, has_wait_n, slow, next, running, outcome, drained,
                   failed, exit_code>>

\* afl-corpus-sync copies what the targets found; its status is the script's.
Sync ==
    /\ pc = "sync"
    /\ pc' = "exited"
    /\ exit_code' \in {"zero", "nonzero"}
    /\ UNCHANGED <<recipe, has_wait_n, slow, next, running, unwaited, outcome,
                   drained, failed>>

Script ==
    \/ Poll
    \/ WaitAny
    \/ WaitFails
    \/ Sleep
    \/ Launch
    \/ MkdirFails
    \/ StartDraining
    \/ DrainOne
    \/ Report
    \/ DrainAll
    \/ Sync

Next == Script \/ \E t \in Targets : JobEnds(t)

\* The operating system schedules the script, and a target ends because it is run
\* with a time budget (-max_total_time, -V), unless it is one of the slow ones,
\* about which nothing is assumed.
Fairness ==
    /\ WF_vars(Script)
    /\ \A t \in Targets : WF_vars(t \notin slow /\ JobEnds(t))

Spec == Init /\ [][Next]_vars /\ Fairness
-----------------------------------------------------------------------------
\* Justfile, fuzz-parallel and fuzz-afl-parallel: "At most JOBS targets run
\* simultaneously", although the poll and the launch are separate commands.
PoolBound == Cardinality(running) <= Jobs

\* When fuzz-parallel reports, every target has been launched and has ended, and
\* each failure has been counted once, whether its target was reported by `wait -n`
\* while the pool was full or only in the draining loop; the exit code agrees.
ReportIsComplete ==
    (pc = "exited" /\ recipe = "libfuzz" /\ next > NTargets) =>
        /\ \A t \in Targets : outcome[t] # "none"
        /\ running = {}
        /\ failed = Cardinality({t \in Targets : outcome[t] = "error"})
        /\ exit_code = "zero" <=> \A t \in Targets : outcome[t] = "ok"

\* fuzz-afl-parallel collects the queues only when no target writes to one any
\* more, and misses none.
SyncSeesEveryQueue ==
    pc = "sync" => \A t \in Targets : t \notin running /\ outcome[t] # "none"

\* "As soon as one finishes the next queued target is launched, so the pool stays
\* full": a free slot is filled even if no other target ever ends, in a shell with
\* `wait -n` and in one without.
FreeSlotIsFilled ==
    \A t \in Targets :
        (next = t /\ Cardinality(running) < Jobs /\ pc # "exited")
            ~> (next > t \/ pc = "exited")

\* If every target keeps its time budget, the script drains the pool and ends.
Terminates == slow = {} ~> pc = "exited"
=============================================================================
