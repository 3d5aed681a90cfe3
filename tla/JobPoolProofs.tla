--------------------------- MODULE JobPoolProofs ---------------------------
(***************************************************************************)
(* Safety of the job pools for any number of targets and any JOBS but 0.   *)
(* The poll and the launch are separate commands, so the bound needs what  *)
(* the script knows in between (RoomForOne); the report needs that the     *)
(* draining loop has counted each failure up to its position once,         *)
(* whichever wait reported the child first (Counted).                      *)
(***************************************************************************)
EXTENDS JobPool, FiniteSetTheorems, TLAPS

\* Between the poll and the launch the pool has room for one more.
RoomForOne ==
    pc = "launch" => next <= NTargets /\ Cardinality(running) < Jobs

\* A target has an outcome exactly when it was launched and runs no more.
LaunchedOrNot ==
    \A t \in Targets : /\ t \in running <=> t < next /\ outcome[t] = "none"
                       /\ t >= next => outcome[t] = "none"

\* The failures among the targets the draining loop has waited for.
FailedUpTo(n) == {t \in 1..n : outcome[t] = "error"}

Counted ==
    /\ \A t \in 1..drained : t < next /\ outcome[t] # "none"
    /\ failed = Cardinality(FailedUpTo(drained))

\* The script ends in one of three ways.
Phases ==
    /\ pc \in {"drain", "sync"} => next > NTargets
    /\ pc = "sync" => running = {} /\ recipe = "afl"
    /\ (pc = "exited" /\ recipe = "libfuzz" /\ next > NTargets) =>
           drained = NTargets /\ (exit_code = "zero" <=> failed = 0)

IInv == TypeOK /\ PoolBound /\ RoomForOne /\ LaunchedOrNot /\ Counted /\ Phases
-----------------------------------------------------------------------------
\* A set of targets is finite, whatever the targets have in common.
LEMMA TargetsFinite ==
    /\ IsFiniteSet(Targets)
    /\ \A S \in SUBSET Targets : IsFiniteSet(S) /\ Cardinality(S) \in Nat
<1>1. IsFiniteSet(Targets)
  BY JobPoolAssumption, FS_Interval DEF Targets
<1>2. QED
  BY <1>1, FS_Subset, FS_CardinalityType

\* There are at most n failures among the first n targets.
LEMMA FailedUpToBound ==
    ASSUME NEW n \in 0..NTargets
    PROVE  /\ IsFiniteSet(FailedUpTo(n))
           /\ Cardinality(FailedUpTo(n)) \in Nat
           /\ Cardinality(FailedUpTo(n)) <= n
<1>1. n \in Nat
  BY JobPoolAssumption
<1>2. IsFiniteSet(1..n) /\ Cardinality(1..n) = n
  BY <1>1, FS_Interval, SMT
<1>3. FailedUpTo(n) \subseteq 1..n
  BY DEF FailedUpTo
<1>4. QED
  BY <1>2, <1>3, FS_Subset, FS_CardinalityType

\* Waiting for target n + 1 adds it to the failures or leaves them alone.
LEMMA FailedUpToNext ==
    ASSUME TypeOK, NEW n \in 0..NTargets, n < NTargets, outcome[n + 1] # "none"
    PROVE  Cardinality(FailedUpTo(n + 1)) =
               Cardinality(FailedUpTo(n)) + (IF outcome[n + 1] = "ok" THEN 0 ELSE 1)
<1>1. n \in Nat /\ n + 1 \in Targets
  BY JobPoolAssumption DEF Targets
<1>2. outcome[n + 1] \in {"ok", "error"}
  BY <1>1 DEF TypeOK
<1>3. CASE outcome[n + 1] = "ok"
  <2>1. FailedUpTo(n + 1) = FailedUpTo(n)
    BY <1>1, <1>3 DEF FailedUpTo
  <2>2. QED
    BY <1>3, <2>1, FailedUpToBound
<1>4. CASE outcome[n + 1] = "error"
  <2>1. FailedUpTo(n + 1) = FailedUpTo(n) \cup {n + 1}
    BY <1>1, <1>4 DEF FailedUpTo
  <2>2. n + 1 \notin FailedUpTo(n)
    BY <1>1 DEF FailedUpTo
  <2>3. Cardinality(FailedUpTo(n + 1)) = Cardinality(FailedUpTo(n)) + 1
    BY <2>1, <2>2, FailedUpToBound, FS_AddElement
  <2>4. QED
    BY <1>4, <2>3
<1>5. QED
  BY <1>2, <1>3, <1>4
-----------------------------------------------------------------------------
\* Init => IInv
LEMMA InitIInv == Init => IInv
<1> SUFFICES ASSUME Init PROVE IInv
  OBVIOUS
<1>1. Cardinality({}) = 0
  BY FS_EmptySet
<1>2. TypeOK
  BY JobPoolAssumption DEF Init, TypeOK, Targets
<1>3. PoolBound /\ RoomForOne /\ LaunchedOrNot /\ Phases
  BY <1>1, JobPoolAssumption DEF Init, PoolBound, RoomForOne, LaunchedOrNot, Phases, Targets
<1>4. FailedUpTo(drained) = {}
  BY DEF Init, FailedUpTo
<1>5. Counted
  BY <1>1, <1>4 DEF Init, Counted
<1>6. QED
  BY <1>2, <1>3, <1>5 DEF IInv

\* A child that ends frees a slot and gets its outcome; the draining loop has not
\* come to it yet, because it waits until the child has ended.
LEMMA JobEndsIInv == ASSUME IInv, NEW t \in Targets, JobEnds(t) PROVE IInv'
<1> USE DEF IInv
<1>1. PICK status \in {"ok", "error"} : outcome' = [outcome EXCEPT ![t] = status]
  BY DEF JobEnds
<1>2. TypeOK'
  BY <1>1 DEF JobEnds, TypeOK, script
<1>3. IsFiniteSet(running) /\ Cardinality(running) \in Nat
  BY TargetsFinite DEF TypeOK
<1>4. Cardinality(running') = Cardinality(running) - 1
  BY <1>3, FS_RemoveElement DEF JobEnds
<1>5. PoolBound' /\ RoomForOne'
  BY <1>3, <1>4, JobPoolAssumption DEF JobEnds, PoolBound, RoomForOne, script
<1>6. LaunchedOrNot'
  BY <1>1 DEF JobEnds, LaunchedOrNot, TypeOK, script, Targets
<1>7. t < next /\ outcome[t] = "none"
  BY DEF JobEnds, LaunchedOrNot
<1>8. t \notin 1..drained
  BY <1>7 DEF Counted
<1>9. drained' = drained /\ failed' = failed /\ next' = next
  BY DEF JobEnds, script
<1>10. \A u \in 1..drained : outcome'[u] = outcome[u]
  BY <1>1, <1>8, JobPoolAssumption DEF TypeOK, Targets
<1>11. FailedUpTo(drained)' = FailedUpTo(drained)
  BY <1>9, <1>10 DEF FailedUpTo
<1>12. Counted'
  BY <1>9, <1>10, <1>11 DEF Counted
<1>13. Phases'
  BY DEF JobEnds, Phases, script
<1>14. QED
  BY <1>2, <1>5, <1>6, <1>12, <1>13

\* The commands of the launching loop but for the launch only move pc and report
\* children that ended.
LEMMA LoopIInv ==
    ASSUME IInv, Poll \/ WaitAny \/ WaitFails \/ Sleep \/ MkdirFails \/ StartDraining
    PROVE  IInv'
<1> USE DEF IInv
<1>1. /\ UNCHANGED <<recipe, has_wait_n, slow, next, running, outcome, drained, failed>>
      /\ unwaited' \subseteq unwaited
      /\ exit_code' = exit_code \/ (pc' = "exited" /\ exit_code' = "nonzero")
  BY DEF Poll, WaitAny, WaitFails, Sleep, MkdirFails, StartDraining
<1>2. pc' \in {"poll", "wait", "sleep", "launch", "drain", "exited"}
  BY DEF Poll, WaitAny, WaitFails, Sleep, MkdirFails, StartDraining
<1>3. TypeOK'
  BY <1>1, <1>2 DEF TypeOK
<1>4. Cardinality(running) \in Nat
  BY TargetsFinite DEF TypeOK
<1>5. pc' = "launch" => next <= NTargets /\ Cardinality(running) < Jobs
  BY <1>4, JobPoolAssumption
     DEF Poll, PoolIsFull, WaitAny, WaitFails, Sleep, MkdirFails, StartDraining
<1>6. PoolBound' /\ RoomForOne'
  BY <1>1, <1>5 DEF PoolBound, RoomForOne
<1>7. LaunchedOrNot' /\ Counted'
  BY <1>1 DEF LaunchedOrNot, Counted, FailedUpTo
<1>8. pc' \in {"drain", "exited"} => (pc' = "drain" /\ next > NTargets)
                                      \/ (pc' = "exited" /\ next <= NTargets)
  BY DEF Poll, WaitAny, WaitFails, Sleep, MkdirFails, StartDraining, RoomForOne
<1>9. Phases'
  BY <1>1, <1>2, <1>8, JobPoolAssumption DEF Phases, TypeOK
<1>10. QED
  BY <1>3, <1>6, <1>7, <1>9

\* The launch takes the room the poll has found.
LEMMA LaunchIInv == ASSUME IInv, Launch PROVE IInv'
<1> USE DEF IInv
<1>1. next \in Targets /\ next <= NTargets /\ Cardinality(running) < Jobs
  BY JobPoolAssumption DEF Launch, RoomForOne, TypeOK, Targets
<1>2. TypeOK'
  BY <1>1, JobPoolAssumption DEF Launch, TypeOK, Targets
<1>3. next \notin running
  BY <1>1 DEF LaunchedOrNot, Targets
<1>4. IsFiniteSet(running) /\ Cardinality(running) \in Nat
  BY TargetsFinite DEF TypeOK
<1>5. Cardinality(running') = Cardinality(running) + 1
  BY <1>3, <1>4, FS_AddElement DEF Launch
<1>6. PoolBound' /\ RoomForOne'
  BY <1>1, <1>4, <1>5, JobPoolAssumption DEF Launch, PoolBound, RoomForOne
<1>7. LaunchedOrNot'
  BY <1>1 DEF Launch, LaunchedOrNot, TypeOK, Targets
<1>8. Counted'
  BY JobPoolAssumption DEF Launch, Counted, FailedUpTo, TypeOK
<1>9. Phases'
  BY DEF Launch, Phases
<1>10. QED
  BY <1>2, <1>6, <1>7, <1>8, <1>9

\* One turn of the draining loop counts one target.
LEMMA DrainOneIInv == ASSUME IInv, DrainOne PROVE IInv'
<1> USE DEF IInv
<1>1. /\ drained \in 0..NTargets /\ drained < NTargets
      /\ drained' = drained + 1
      /\ drained + 1 \in Targets /\ drained + 1 \notin running
      /\ UNCHANGED <<recipe, has_wait_n, slow, pc, next, running, outcome, exit_code>>
  BY JobPoolAssumption DEF DrainOne, TypeOK, Targets
<1>2. outcome[drained + 1] # "none" /\ drained + 1 < next
  BY <1>1, JobPoolAssumption DEF DrainOne, LaunchedOrNot, Phases, TypeOK, Targets
<1>3. /\ Cardinality(FailedUpTo(drained)) \in Nat
      /\ Cardinality(FailedUpTo(drained)) <= drained
  BY <1>1, FailedUpToBound
<1>4. failed' = failed + (IF outcome[drained + 1] = "ok" THEN 0 ELSE 1)
  BY <1>3 DEF DrainOne, WaitStatus, Counted
<1>5. failed' = Cardinality(FailedUpTo(drained + 1))
  BY <1>1, <1>2, <1>4, FailedUpToNext DEF Counted
<1>6. failed' \in 0..NTargets
  BY <1>1, <1>3, <1>4, JobPoolAssumption DEF Counted
<1>7. TypeOK'
  BY <1>1, <1>6, JobPoolAssumption DEF DrainOne, TypeOK
<1>8. FailedUpTo(drained)' = FailedUpTo(drained + 1)
  BY <1>1 DEF FailedUpTo
<1>9. \A u \in 1..drained + 1 : u < next /\ outcome[u] # "none"
  BY <1>1, <1>2, JobPoolAssumption DEF Counted
<1>10. Counted'
  BY <1>1, <1>5, <1>8, <1>9 DEF Counted
<1>11. PoolBound' /\ RoomForOne' /\ LaunchedOrNot' /\ Phases'
  BY <1>1 DEF DrainOne, PoolBound, RoomForOne, LaunchedOrNot, Phases
<1>12. QED
  BY <1>7, <1>10, <1>11

\* The last commands of the two recipes.
LEMMA EndIInv == ASSUME IInv, Report \/ DrainAll \/ Sync PROVE IInv'
<1> USE DEF IInv
<1>1. /\ UNCHANGED <<recipe, has_wait_n, slow, next, running, outcome, drained, failed>>
      /\ unwaited' \subseteq unwaited
      /\ pc' \in {"sync", "exited"}
      /\ exit_code' \in {"none", "zero", "nonzero"}
  BY DEF Report, DrainAll, Sync, TypeOK
<1>2. TypeOK'
  BY <1>1 DEF TypeOK
<1>3. PoolBound' /\ RoomForOne' /\ LaunchedOrNot' /\ Counted'
  BY <1>1 DEF PoolBound, RoomForOne, LaunchedOrNot, Counted, FailedUpTo
<1>4. Phases'
  BY DEF Report, DrainAll, Sync, Phases
<1>5. QED
  BY <1>2, <1>3, <1>4

\* A step that changes nothing.
LEMMA StutterIInv == ASSUME IInv, UNCHANGED vars PROVE IInv'
BY DEF IInv, vars, TypeOK, PoolBound, RoomForOne, LaunchedOrNot, Counted, FailedUpTo, Phases

\* IInv /\ [Next]_vars => IInv'
LEMMA NextIInv == IInv /\ [Next]_vars => IInv'
<1> SUFFICES ASSUME IInv, [Next]_vars PROVE IInv'
  OBVIOUS
<1>1. CASE \E t \in Targets : JobEnds(t)
  BY <1>1, JobEndsIInv
<1>2. CASE Poll \/ WaitAny \/ WaitFails \/ Sleep \/ MkdirFails \/ StartDraining
  BY <1>2, LoopIInv
<1>3. CASE Launch
  BY <1>3, LaunchIInv
<1>4. CASE DrainOne
  BY <1>4, DrainOneIInv
<1>5. CASE Report \/ DrainAll \/ Sync
  BY <1>5, EndIInv
<1>6. CASE UNCHANGED vars
  BY <1>6, StutterIInv
<1>7. QED
  BY <1>1, <1>2, <1>3, <1>4, <1>5, <1>6 DEF Next, Script
-----------------------------------------------------------------------------
\* The inductive invariant of the two pools.
THEOREM JobPoolInvariant == Spec => []IInv
BY InitIInv, NextIInv, PTL DEF Spec

\* The counters of the script stay in range: the launching loop ends after the last
\* target, and neither drained nor failed exceeds the number of targets.
THEOREM JobPoolTypeOK == Spec => []TypeOK
<1>1. IInv => TypeOK
  BY DEF IInv
<1>2. QED
  BY <1>1, JobPoolInvariant, PTL

\* At most JOBS targets run at the same time, for any number of targets.
THEOREM JobPoolBound == Spec => []PoolBound
<1>1. IInv => PoolBound
  BY DEF IInv
<1>2. QED
  BY <1>1, JobPoolInvariant, PTL

\* What fuzz-parallel reports is complete: all targets ended, every failure counted
\* once, the exit code in agreement.
THEOREM JobPoolReport == Spec => []ReportIsComplete
<1>1. IInv => ReportIsComplete
  <2> SUFFICES ASSUME IInv, pc = "exited", recipe = "libfuzz", next > NTargets
               PROVE  /\ \A t \in Targets : outcome[t] # "none"
                      /\ running = {}
                      /\ failed = Cardinality({t \in Targets : outcome[t] = "error"})
                      /\ exit_code = "zero" <=> \A t \in Targets : outcome[t] = "ok"
    BY DEF ReportIsComplete
  <2> USE DEF IInv
  <2>1. drained = NTargets /\ (exit_code = "zero" <=> failed = 0)
    BY DEF Phases
  <2>2. \A t \in Targets : outcome[t] # "none"
    BY <2>1 DEF Counted, Targets
  <2>3. running = {}
    BY <2>2 DEF LaunchedOrNot, TypeOK
  <2>4. FailedUpTo(NTargets) = {t \in Targets : outcome[t] = "error"}
    BY DEF FailedUpTo, Targets
  <2>5. failed = Cardinality({t \in Targets : outcome[t] = "error"})
    BY <2>1, <2>4 DEF Counted
  <2>6. IsFiniteSet({t \in Targets : outcome[t] = "error"})
    BY TargetsFinite
  <2>7. failed = 0 <=> {t \in Targets : outcome[t] = "error"} = {}
    BY <2>5, <2>6, FS_EmptySet
  <2>8. {t \in Targets : outcome[t] = "error"} = {} <=> \A t \in Targets : outcome[t] = "ok"
    BY <2>2 DEF TypeOK
  <2>9. QED
    BY <2>1, <2>2, <2>3, <2>5, <2>7, <2>8
<1>2. QED
  BY <1>1, JobPoolInvariant, PTL

\* fuzz-afl-parallel collects the queues when all targets have ended.
THEOREM JobPoolSync == Spec => []SyncSeesEveryQueue
<1>1. IInv => SyncSeesEveryQueue
  <2> SUFFICES ASSUME IInv, pc = "sync", NEW t \in Targets
               PROVE  t \notin running /\ outcome[t] # "none"
    BY DEF SyncSeesEveryQueue
  <2>1. running = {} /\ next > NTargets
    BY DEF IInv, Phases
  <2>2. t < next
    BY <2>1, JobPoolAssumption DEF IInv, TypeOK, Targets
  <2>3. QED
    BY <2>1, <2>2 DEF IInv, LaunchedOrNot
<1>2. QED
  BY <1>1, JobPoolInvariant, PTL
=============================================================================
