---------------------------- MODULE CorpusUpdate ----------------------------
(***************************************************************************)
(* The corpus update workflow, .github/workflows/corpus-update.yml, and    *)
(* the main branch it updates.                                             *)
(*                                                                         *)
(* A workflow run starts from the head of main.  One job per lane (an      *)
(* engine and a target) grows and minimises the corpus of that commit.     *)
(* When all have ended, a commit job checks main out again, replaces the   *)
(* directory of each lane that has an artifact, and opens a pull request   *)
(* on a fresh branch.  Somebody merges it later, or never.  Runs may       *)
(* overlap: the workflow names no concurrency group, it can be started by  *)
(* hand, and the pull request of a week may still be open in the next.     *)
(***************************************************************************)
EXTENDS Naturals, FiniteSets

CONSTANTS
    Runs,             \* runs of the workflow
    LibfuzzLanes,     \* the directories corpus/libfuzz/<target>
    AflLanes,         \* the directories corpus/afl/<target>
    None,             \* no artifact
    Inputs,           \* corpus files: their names are the hashes of their contents
    Cover(_),         \* what an input reaches in the instrumented target
    StorageFails,     \* whether copies and downloads may be cut short: the cases
    MaxOthers         \* bound: inputs that others merge into main

Lanes == LibfuzzLanes \cup AflLanes

Corpora == SUBSET Inputs

ASSUME CorpusUpdateAssumption ==
    /\ IsFiniteSet(Inputs)
    /\ LibfuzzLanes \cap AflLanes = {}
    /\ StorageFails \subseteq BOOLEAN
    /\ MaxOthers \in Nat
    /\ \A corpus \in Corpora : corpus # None

VARIABLES
    storage_fails,    \* copies and downloads may be cut short
    others,           \* inputs that others have merged into main
    main,             \* the corpus of each lane at the head of main
    phase,            \* per run: "idle", "lanes", "open" (pull request), "merged"
    start,            \* per run: main at the commit the run was started for
    todo,             \* per run: the lanes whose job has not ended
    seen,             \* per run and lane: the corpus that was minimised
    artifact,         \* per run and lane: the corpus uploaded, or None
    base,             \* per run: main as the commit job checked it out
    tree              \* per run: the corpora of the pull request

vars == <<storage_fails, others, main, phase, start, todo, seen, artifact, base, tree>>

Covered(corpus) == UNION {Cover(f) : f \in corpus}

TypeOK ==
    /\ storage_fails \in BOOLEAN
    /\ others \in 0..MaxOthers
    /\ main \in [Lanes -> Corpora]
    /\ phase \in [Runs -> {"idle", "lanes", "open", "merged"}]
    /\ start \in [Runs -> [Lanes -> Corpora]]
    /\ todo \in [Runs -> SUBSET Lanes]
    /\ seen \in [Runs -> [Lanes -> Corpora]]
    /\ artifact \in [Runs -> [Lanes -> {None} \cup Corpora]]
    /\ base \in [Runs -> [Lanes -> Corpora]]
    /\ tree \in [Runs -> [Lanes -> Corpora]]

Empty == [l \in Lanes |-> {}]

Init ==
    /\ storage_fails \in StorageFails
    /\ others = 0
    /\ main \in [Lanes -> Corpora]
    /\ phase = [r \in Runs |-> "idle"]
    /\ start = [r \in Runs |-> Empty]
    /\ todo = [r \in Runs |-> {}]
    /\ seen = [r \in Runs |-> Empty]
    /\ artifact = [r \in Runs |-> [l \in Lanes |-> None]]
    /\ base = [r \in Runs |-> Empty]
    /\ tree = [r \in Runs |-> Empty]
-----------------------------------------------------------------------------
\* What `cp "$d"/* dest || true` may leave in an empty directory: everything, or,
\* if it is cut short or the argument list is too long, less and no error.
Copied(files) == IF storage_fails THEN SUBSET files ELSE {files}

\* cmin and afl-cmin keep a part of the corpus that reaches as much as all of it.
Minimised(corpus) == {m \in SUBSET corpus : Covered(m) = Covered(corpus)}

\* Phase 1: the corpus grows by what the fuzzer finds or, with minimize_only, not
\* at all.  The AFL++ lane starts from the seeds of both engines, and whatever of
\* them and of its finds is in the queue is synced into the directory of the lane.
Grown(corpus) == {corpus \cup finds : finds \in Corpora}

\* MUTANT of AflMinimised: the partial output of a failed afl-cmin is taken.
AflMinimised_PartialOnFailure(corpus) ==
    IF corpus = {} THEN {{}} ELSE SUBSET corpus

\* Phase 2 of the AFL++ lane: the minimised copy replaces the directory, which is
\* left alone if it is empty or if afl-cmin fails.
AflMinimised(corpus) ==
    IF corpus = {} THEN {{}}
    ELSE {corpus} \cup UNION {Copied(m) : m \in Minimised(corpus)}

\* Phase 2 of a lane.
LaneMinimised(l, corpus) ==
    IF l \in LibfuzzLanes THEN Minimised(corpus) ELSE AflMinimised(corpus)

\* if-no-files-found: ignore.  An empty directory is not uploaded.
Uploaded(corpus) == IF corpus = {} THEN None ELSE corpus

\* MUTANT of Arrived: the directory is made before the artifact is looked for.
Arrived_AlwaysADirectory(uploaded) ==
    IF uploaded = None THEN {{}}
    ELSE Copied(uploaded) \cup (IF storage_fails THEN {None} ELSE {})

\* continue-on-error: an artifact that cannot be downloaded whole may be missing or
\* cut short in the workspace of the commit job.
Arrived(uploaded) ==
    IF uploaded = None THEN {None}
    ELSE Copied(uploaded) \cup (IF storage_fails THEN {None} ELSE {})

\* rm -rf and repopulate, for the lanes whose artifact is there.
Applied(corpus, download) == IF download = None THEN {corpus} ELSE Copied(download)
-----------------------------------------------------------------------------
\* The schedule or somebody starts a run for the head of main.
StartRun(r) ==
    /\ phase[r] = "idle"
    /\ phase' = [phase EXCEPT ![r] = "lanes"]
    /\ start' = [start EXCEPT ![r] = main]
    /\ todo' = [todo EXCEPT ![r] = Lanes]
    /\ UNCHANGED <<storage_fails, others, main, seen, artifact, base, tree>>

\* The job of a lane ends with an upload.
LaneSucceeds(r, l) ==
    /\ l \in todo[r]
    /\ todo' = [todo EXCEPT ![r] = @ \ {l}]
    /\ \E grown \in Grown(start[r][l]) :
           /\ seen' = [seen EXCEPT ![r][l] = grown]
           /\ \E result \in LaneMinimised(l, grown) :
                  artifact' = [artifact EXCEPT ![r][l] = Uploaded(result)]
    /\ UNCHANGED <<storage_fails, others, main, phase, start, base, tree>>

\* A step fails: the target crashed, a build or cmin failed.  Nothing is uploaded.
LaneFails(r, l) ==
    /\ l \in todo[r]
    /\ todo' = [todo EXCEPT ![r] = @ \ {l}]
    /\ UNCHANGED <<storage_fails, others, main, phase, start, seen, artifact, base, tree>>

\* The commit job, also if lanes failed: main as it is now, with the directories of
\* the lanes that have an artifact replaced.
OpenPR(r) ==
    /\ phase[r] = "lanes" /\ todo[r] = {}
    /\ phase' = [phase EXCEPT ![r] = "open"]
    /\ base' = [base EXCEPT ![r] = main]
    /\ \E corpora \in [Lanes -> Corpora] :
           /\ \A l \in Lanes : \E download \in Arrived(artifact[r][l]) :
                  corpora[l] \in Applied(main[l], download)
           /\ tree' = [tree EXCEPT ![r] = corpora]
    /\ UNCHANGED <<storage_fails, others, main, start, todo, seen, artifact>>

\* The three-way merge of Git, file by file: what the branch deleted is deleted and
\* what it added is added.
Merge(current, from, to) == (current \ (from \ to)) \cup (to \ from)

\* The pull request is merged.  Files are named by content, so it has no conflicts.
MergePR(r) ==
    /\ phase[r] = "open"
    /\ phase' = [phase EXCEPT ![r] = "merged"]
    /\ main' = [l \in Lanes |-> Merge(main[l], base[r][l], tree[r][l])]
    /\ UNCHANGED <<storage_fails, others, start, todo, seen, artifact, base, tree>>

\* Somebody else merges a new input into main.
OtherMerge(l, f) ==
    /\ others < MaxOthers
    /\ others' = others + 1
    /\ f \notin main[l]
    /\ main' = [main EXCEPT ![l] = @ \cup {f}]
    /\ UNCHANGED <<storage_fails, phase, start, todo, seen, artifact, base, tree>>

Next ==
    \/ \E r \in Runs : StartRun(r) \/ OpenPR(r) \/ MergePR(r)
    \/ \E r \in Runs, l \in Lanes : LaneSucceeds(r, l) \/ LaneFails(r, l)
    \/ \E l \in Lanes, f \in Inputs : OtherMerge(l, f)

Spec == Init /\ [][Next]_vars
-----------------------------------------------------------------------------
\* corpus-update.yml: "a crashed/skipped target never has its checked-in corpus
\* deleted", and the pull request text says that it is left untouched: merging
\* a run deletes or adds nothing in a lane that has no artifact, whatever was merged
\* in the meantime and whichever downloads and copies fail.
CrashedLanesUntouched ==
    [][\A r \in Runs, l \in Lanes :
           (MergePR(r) /\ artifact[r][l] = None) => main'[l] = main[l]]_vars

\* "dominated inputs are dropped", and no others: if the lane did not change on main
\* between the start of a run and its merge, and copies are whole, the merge loses
\* nothing that the corpus of the lane reached.
QuietRunKeepsCoverage ==
    [][\A r \in Runs, l \in Lanes :
           (/\ MergePR(r)
            /\ ~storage_fails
            /\ main[l] = base[r][l]
            /\ base[r][l] = start[r][l])
               => Covered(main[l]) \subseteq Covered(main'[l])]_vars

\* "Replacing (rm + repopulate) lets cmin-driven deletions show up in the PR diff":
\* what a pull request deletes was in the corpus that the lane minimised.
DeletionsAreCminDriven ==
    \A r \in Runs, l \in Lanes :
        phase[r] = "open" => base[r][l] \ tree[r][l] \subseteq seen[r][l]
=============================================================================
