------------------------- MODULE CorpusUpdateProofs -------------------------
(***************************************************************************)
(* Proofs about CorpusUpdate, for all sets of runs, lanes and inputs, any  *)
(* coverage and any number of other merges.                                *)
(***************************************************************************)
EXTENDS CorpusUpdate, TLAPS

\* Jobs run between the start of a run and its pull request, and upload only then.
InOrder ==
    \A r \in Runs :
        /\ phase[r] # "lanes" => todo[r] = {}
        /\ phase[r] = "idle" => artifact[r] = [l \in Lanes |-> None]
        /\ phase[r] = "lanes" => \A l \in todo[r] : artifact[r][l] = None

\* An artifact reaches what the corpus it was grown from reached.
ArtifactsCover ==
    \A r \in Runs, l \in Lanes :
        (~storage_fails /\ artifact[r][l] # None) =>
            Covered(start[r][l]) \subseteq Covered(artifact[r][l])

\* A pull request has main as it was, or the artifact, in the place of a lane.
TreesFollowArtifacts ==
    \A r \in Runs, l \in Lanes :
        phase[r] = "open" =>
            /\ artifact[r][l] = None => tree[r][l] = base[r][l]
            /\ (~storage_fails /\ artifact[r][l] # None) => tree[r][l] = artifact[r][l]

IInv == TypeOK /\ InOrder /\ ArtifactsCover /\ TreesFollowArtifacts
-----------------------------------------------------------------------------
\* Coverage grows with the corpus.
LEMMA CoveredGrows ==
    ASSUME NEW small, NEW large, small \subseteq large
    PROVE  Covered(small) \subseteq Covered(large)
BY DEF Covered

\* What a lane uploads is a corpus; without storage failures it covers what was grown.
LEMMA LaneFacts ==
    ASSUME storage_fails \in BOOLEAN, NEW l \in Lanes, NEW old \in Corpora,
           NEW grown \in Grown(old), NEW result \in LaneMinimised(l, grown)
    PROVE  /\ grown \in Corpora /\ result \in Corpora
           /\ ~storage_fails => Covered(old) \subseteq Covered(result)
<1>1. grown \in Corpora /\ old \subseteq grown
  BY DEF Grown, Corpora
<1>2. Covered(old) \subseteq Covered(grown)
  BY <1>1, CoveredGrows
<1>3. CASE result \in Minimised(grown)
  BY <1>1, <1>2, <1>3 DEF Minimised, Corpora
<1>4. CASE result = grown
  BY <1>1, <1>2, <1>4
<1>5. CASE \E m \in Minimised(grown) : result \in Copied(m)
  <2>1. PICK m \in Minimised(grown) : result \in Copied(m)
    BY <1>5
  <2>2. m \in SUBSET grown /\ Covered(m) = Covered(grown)
    BY DEF Minimised
  <2>3. result \in SUBSET m /\ (~storage_fails => result = m)
    BY <2>1 DEF Copied
  <2> QED BY <1>1, <1>2, <2>2, <2>3 DEF Corpora
<1>6. \/ result \in Minimised(grown)
      \/ result = grown
      \/ \E m \in Minimised(grown) : result \in Copied(m)
  BY DEF LaneMinimised, AflMinimised
<1> QED BY <1>3, <1>4, <1>5, <1>6

\* What the commit job leaves in the place of a lane.
LEMMA AppliedFacts ==
    ASSUME storage_fails \in BOOLEAN, NEW uploaded \in {None} \cup Corpora, NEW current \in Corpora,
           NEW download \in Arrived(uploaded), NEW corpus \in Applied(current, download)
    PROVE  /\ uploaded = None => corpus = current
           /\ (~storage_fails /\ uploaded # None) => corpus = uploaded
<1>1. CASE uploaded = None
  BY <1>1 DEF Arrived, Applied
<1>2. CASE uploaded # None /\ ~storage_fails
  <2>1. download = uploaded
    BY <1>2 DEF Arrived, Copied
  <2> QED BY <1>2, <2>1 DEF Applied, Copied
<1> QED BY <1>1, <1>2
-----------------------------------------------------------------------------
\* Before any run.
LEMMA InitInv == Init => IInv
<1> SUFFICES ASSUME Init PROVE IInv
  OBVIOUS
<1>1. storage_fails \in BOOLEAN /\ others \in 0..MaxOthers
  BY CorpusUpdateAssumption DEF Init
<1>2. Empty \in [Lanes -> Corpora]
  BY DEF Empty, Corpora
<1>3. TypeOK
  BY <1>1, <1>2 DEF Init, TypeOK
<1> QED BY <1>3 DEF Init, IInv, InOrder, ArtifactsCover, TreesFollowArtifacts

\* A run starts: nothing is known of its lanes.
LEMMA StartRunInv == ASSUME IInv, NEW r \in Runs, StartRun(r) PROVE IInv'
<1> USE DEF IInv, StartRun
<1>1. TypeOK'
  BY DEF TypeOK
<1>2. \A l \in Lanes : artifact[r][l] = None
  BY DEF InOrder
<1>3. InOrder'
  BY <1>2 DEF InOrder, TypeOK
<1>4. ArtifactsCover'
  BY <1>2 DEF ArtifactsCover, TypeOK
<1>5. TreesFollowArtifacts'
  BY DEF TreesFollowArtifacts, TypeOK
<1> QED BY <1>1, <1>3, <1>4, <1>5

\* A lane uploads what covers the corpus it started from.
LEMMA LaneSucceedsInv ==
    ASSUME IInv, NEW r \in Runs, NEW l \in Lanes, LaneSucceeds(r, l) PROVE IInv'
<1>1. PICK grown \in Grown(start[r][l]) :
        /\ seen' = [seen EXCEPT ![r][l] = grown]
        /\ \E result \in LaneMinimised(l, grown) :
               artifact' = [artifact EXCEPT ![r][l] = Uploaded(result)]
  BY DEF LaneSucceeds
<1>2. PICK result \in LaneMinimised(l, grown) :
        artifact' = [artifact EXCEPT ![r][l] = Uploaded(result)]
  BY <1>1
<1>3. /\ grown \in Corpora /\ result \in Corpora
      /\ ~storage_fails => Covered(start[r][l]) \subseteq Covered(result)
  BY LaneFacts DEF IInv, TypeOK
<1>4. /\ UNCHANGED <<storage_fails, others, main, phase, start, base, tree>>
      /\ todo' = [todo EXCEPT ![r] = @ \ {l}]
      /\ l \in todo[r] /\ phase[r] = "lanes"
  BY DEF LaneSucceeds, IInv, InOrder
<1>5. Uploaded(result) \in {None} \cup Corpora /\ (Uploaded(result) # None => Uploaded(result) = result)
  BY <1>3 DEF Uploaded
<1>6. TypeOK'
  BY <1>1, <1>2, <1>3, <1>4, <1>5 DEF IInv, TypeOK
<1>7. /\ artifact'[r][l] = Uploaded(result)
      /\ \A q \in Runs, k \in Lanes : (q # r \/ k # l) => artifact'[q][k] = artifact[q][k]
      /\ \A q \in Runs : q # r => artifact'[q] = artifact[q]
  BY <1>2 DEF IInv, TypeOK
<1>8. InOrder'
  BY <1>4, <1>7 DEF IInv, InOrder, TypeOK
<1>9. ArtifactsCover'
  BY <1>3, <1>4, <1>5, <1>7 DEF IInv, ArtifactsCover
<1>10. TreesFollowArtifacts'
  BY <1>4, <1>7 DEF IInv, TreesFollowArtifacts
<1> QED BY <1>6, <1>8, <1>9, <1>10 DEF IInv

\* A lane that fails leaves no artifact.
LEMMA LaneFailsInv ==
    ASSUME IInv, NEW r \in Runs, NEW l \in Lanes, LaneFails(r, l) PROVE IInv'
<1>1. TypeOK'
  BY DEF IInv, TypeOK, LaneFails
<1>2. InOrder' /\ ArtifactsCover' /\ TreesFollowArtifacts'
  BY DEF IInv, TypeOK, LaneFails, InOrder, ArtifactsCover, TreesFollowArtifacts
<1> QED BY <1>1, <1>2 DEF IInv

\* The pull request of a run.
LEMMA OpenPRInv == ASSUME IInv, NEW r \in Runs, OpenPR(r) PROVE IInv'
<1>1. PICK corpora \in [Lanes -> Corpora] :
        /\ \A l \in Lanes : \E download \in Arrived(artifact[r][l]) :
               corpora[l] \in Applied(main[l], download)
        /\ tree' = [tree EXCEPT ![r] = corpora]
  BY DEF OpenPR
<1>2. TypeOK'
  BY <1>1 DEF IInv, TypeOK, OpenPR
<1>3. ASSUME NEW l \in Lanes
      PROVE  /\ artifact[r][l] = None => corpora[l] = main[l]
             /\ (~storage_fails /\ artifact[r][l] # None) => corpora[l] = artifact[r][l]
  BY <1>1, AppliedFacts DEF IInv, TypeOK
<1>4. InOrder' /\ ArtifactsCover'
  BY DEF IInv, TypeOK, OpenPR, InOrder, ArtifactsCover
<1>5. TreesFollowArtifacts'
  BY <1>1, <1>3 DEF IInv, TypeOK, OpenPR, TreesFollowArtifacts
<1> QED BY <1>2, <1>4, <1>5 DEF IInv

\* Merging changes main, and nothing else that the invariant speaks of.
LEMMA MergePRInv == ASSUME IInv, NEW r \in Runs, MergePR(r) PROVE IInv'
<1>1. \A l \in Lanes : Merge(main[l], base[r][l], tree[r][l]) \in Corpora
  BY DEF IInv, TypeOK, Merge, Corpora
<1>2. TypeOK'
  BY <1>1 DEF IInv, TypeOK, MergePR
<1>3. InOrder' /\ ArtifactsCover' /\ TreesFollowArtifacts'
  BY DEF IInv, TypeOK, MergePR, InOrder, ArtifactsCover, TreesFollowArtifacts
<1> QED BY <1>2, <1>3 DEF IInv

\* So does the merge of somebody else.
LEMMA OtherMergeInv ==
    ASSUME IInv, NEW l \in Lanes, NEW f \in Inputs, OtherMerge(l, f) PROVE IInv'
<1>1. main[l] \cup {f} \in Corpora
  BY DEF IInv, TypeOK, Corpora
<1>2. TypeOK'
  BY <1>1, CorpusUpdateAssumption DEF IInv, TypeOK, OtherMerge
<1>3. InOrder' /\ ArtifactsCover' /\ TreesFollowArtifacts'
  BY DEF IInv, OtherMerge, InOrder, ArtifactsCover, TreesFollowArtifacts
<1> QED BY <1>2, <1>3 DEF IInv

\* Every step of the workflow and of the people who merge preserves the invariant.
LEMMA StepInv == ASSUME IInv, [Next]_vars PROVE IInv'
<1>1. CASE UNCHANGED vars
  BY <1>1 DEF vars, IInv, TypeOK, InOrder, ArtifactsCover, TreesFollowArtifacts
<1> QED BY <1>1, StartRunInv, LaneSucceedsInv, LaneFailsInv, OpenPRInv, MergePRInv, OtherMergeInv
        DEF Next

\* The inductive invariant of the workflow.
THEOREM CorpusUpdateInvariant == Spec => []IInv
<1>1. IInv /\ [Next]_vars => IInv'
  BY StepInv
<1> QED BY InitInv, <1>1, PTL DEF Spec
-----------------------------------------------------------------------------
\* What the merge of a pull request does to a lane.
LEMMA MergeFacts ==
    ASSUME IInv, NEW r \in Runs, MergePR(r), NEW l \in Lanes
    PROVE  /\ artifact[r][l] = None => main'[l] = main[l]
           /\ (~storage_fails /\ main[l] = base[r][l] /\ base[r][l] = start[r][l]) =>
                  Covered(main[l]) \subseteq Covered(main'[l])
<1>1. main'[l] = Merge(main[l], base[r][l], tree[r][l]) /\ phase[r] = "open"
  BY DEF MergePR
<1>2. CASE artifact[r][l] = None
  <2>1. tree[r][l] = base[r][l]
    BY <1>1, <1>2 DEF IInv, TreesFollowArtifacts
  <2>2. main'[l] = main[l]
    BY <1>1, <2>1 DEF Merge
  <2> QED BY <2>2
<1>3. CASE artifact[r][l] # None
  <2> SUFFICES ASSUME ~storage_fails, main[l] = base[r][l], base[r][l] = start[r][l]
               PROVE  Covered(main[l]) \subseteq Covered(main'[l])
    BY <1>3
  <2>1. tree[r][l] = artifact[r][l]
    BY <1>1, <1>3 DEF IInv, TreesFollowArtifacts
  <2>2. main'[l] = artifact[r][l]
    BY <1>1, <2>1 DEF Merge
  <2> QED BY <1>3, <2>2 DEF IInv, ArtifactsCover
<1> QED BY <1>2, <1>3

\* A lane without an artifact keeps its corpus when the pull request is merged,
\* however many runs overlap and whatever is merged in between.
THEOREM CorpusCrashedLanes == Spec => CrashedLanesUntouched
<1>1. IInv /\ [Next]_vars =>
        [\A r \in Runs, l \in Lanes :
            (MergePR(r) /\ artifact[r][l] = None) => main'[l] = main[l]]_vars
  BY MergeFacts
<1> QED BY CorpusUpdateInvariant, <1>1, PTL DEF Spec, CrashedLanesUntouched

\* A run whose lane did not change on main until its merge loses no coverage.
THEOREM CorpusCoverageKept == Spec => QuietRunKeepsCoverage
<1>1. IInv /\ [Next]_vars =>
        [\A r \in Runs, l \in Lanes :
            (/\ MergePR(r)
             /\ ~storage_fails
             /\ main[l] = base[r][l]
             /\ base[r][l] = start[r][l])
                => Covered(main[l]) \subseteq Covered(main'[l])]_vars
  BY MergeFacts
<1> QED BY CorpusUpdateInvariant, <1>1, PTL DEF Spec, QuietRunKeepsCoverage
=============================================================================
