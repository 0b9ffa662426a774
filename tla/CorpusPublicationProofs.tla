----------------------- MODULE CorpusPublicationProofs -----------------------
(***************************************************************************)
(* For any number of builders and readers: the pointer leads to a version, *)
(* versions are immutable, and what a run was bound to stays valid.        *)
(***************************************************************************)
EXTENDS CorpusPublication, TLAPS

\* A builder that is about to advance the pointer has seen its version in place.
ReadyToPoint == \A b \in Builders : at[b] = "point" => Exists(draft[b])

\* A reader that has found the pointer will find it again.
PointerStays == \A r \in Readers : stage[r] = "load" => pointer # Missing

CorpusInv ==
    CorpusTypeOK /\ PointerLeadsToVersion /\ ReadyToPoint /\ PointerStays /\ BoundVersionsStay

LEMMA BlankIsAManifest == Blank \in Manifests /\ Blank.hashed \in Contents
<1>1. PICK c \in Contents, v \in Vectors : TRUE
  BY CorpusAssumption
<1>2. [hashed |-> c, extracted |-> c, embedded |-> v] \in Manifests
  BY <1>1 DEF Manifests
<1>3. Blank \in Manifests
  BY <1>2 DEF Blank
<1> QED BY <1>3 DEF Manifests

LEMMA InitCorpus == Init => CorpusInv
BY CorpusAssumption, BlankIsAManifest
   DEF Init, CorpusInv, CorpusTypeOK, PointerLeadsToVersion, ReadyToPoint, PointerStays,
       BoundVersionsStay

\* Versions are only added, and what was there stays as it was.
VersionsGrow == \A m \in Manifests : Exists(m) => versions'[m] = versions[m]

LEMMA StepVersions == CorpusTypeOK /\ [Next]_vars => VersionsGrow
<1> SUFFICES ASSUME CorpusTypeOK, [Next]_vars PROVE VersionsGrow
  OBVIOUS
<1>1. ASSUME NEW b \in Builders, Publish(b) PROVE VersionsGrow
  BY <1>1 DEF Publish, VersionsGrow, CorpusTypeOK, Exists
<1>2. ASSUME UNCHANGED versions PROVE VersionsGrow
  BY <1>2 DEF VersionsGrow
<1> QED
  BY <1>1, <1>2
     DEF Next, vars, building, published, reading, Edit, Hash, Copy, Extract, Embed, Look, Point, Break,
         Resolve, Load, Reopen, Check, CreateRun, Close

\* A document that matches still does when versions have grown.
LEMMA GrownStillMatches ==
    ASSUME CorpusTypeOK, VersionsGrow, NEW m \in Manifests
    PROVE  /\ Exists(m) => Exists(m)'
           /\ DocumentsMatch(m) => DocumentsMatch(m)'
BY CorpusAssumption DEF VersionsGrow, Exists, DocumentsMatch, CorpusTypeOK, Manifests

LEMMA StepTypes == CorpusInv /\ [Next]_vars => CorpusTypeOK'
<1> SUFFICES ASSUME CorpusInv, [Next]_vars PROVE CorpusTypeOK'
  OBVIOUS
<1> USE BlankIsAManifest DEF CorpusInv, CorpusTypeOK, building, published, reading
<1>1. CASE Edit
  BY CorpusAssumption, <1>1 DEF Edit
<1>2. ASSUME NEW b \in Builders, Hash(b) \/ Copy(b) \/ Extract(b) \/ Embed(b) PROVE CorpusTypeOK'
  <2>1. CASE Hash(b) BY <2>1 DEF Hash, Step, Manifests
  <2>2. CASE Copy(b) BY <2>2 DEF Copy, Step
  <2>3. CASE Extract(b) BY <2>3 DEF Extract, Step, Manifests
  <2>4. CASE Embed(b) BY <2>4 DEF Embed, Step, Manifests
  <2> QED BY <1>2, <2>1, <2>2, <2>3, <2>4
<1>3. ASSUME NEW b \in Builders, Look(b) \/ Publish(b) \/ Point(b) \/ Break(b) PROVE CorpusTypeOK'
  <2>1. CASE Look(b) BY <2>1 DEF Look, Step, Leave
  <2>2. CASE Publish(b) BY <2>2 DEF Publish, Step, Leave
  <2>3. CASE Point(b) BY <2>3 DEF Point, Leave
  <2>4. CASE Break(b) BY CorpusAssumption, <2>4 DEF Break, Leave
  <2> QED BY <1>3, <2>1, <2>2, <2>3, <2>4
<1>4. ASSUME NEW r \in Readers,
             Resolve(r) \/ Load(r) \/ Reopen(r) \/ Check(r) \/ CreateRun(r) \/ Close(r)
      PROVE  CorpusTypeOK'
  <2>1. CASE Resolve(r) BY <2>1 DEF Resolve, Move
  <2>2. CASE Load(r) BY <2>2 DEF Load, Move, PointerStays
  <2>3. CASE Reopen(r) BY <2>3 DEF Reopen, Move
  <2>4. CASE Check(r) BY <2>4 DEF Check, Move, Drop
  <2>5. CASE CreateRun(r) BY <2>5 DEF CreateRun
  <2>6. CASE Close(r) BY <2>6 DEF Close, Drop
  <2> QED BY <1>4, <2>1, <2>2, <2>3, <2>4, <2>5, <2>6
<1>5. CASE UNCHANGED vars
  BY <1>5 DEF vars
<1> QED
  BY <1>1, <1>2, <1>3, <1>4, <1>5 DEF Next

LEMMA StepPointer == CorpusInv /\ [Next]_vars => (PointerLeadsToVersion /\ ReadyToPoint /\ PointerStays)'
<1> SUFFICES ASSUME CorpusInv, [Next]_vars
             PROVE  (PointerLeadsToVersion /\ ReadyToPoint /\ PointerStays)'
  OBVIOUS
<1> DEFINE Goal == PointerLeadsToVersion /\ ReadyToPoint /\ PointerStays
<1>1. VersionsGrow /\ (CorpusTypeOK /\ PointerLeadsToVersion /\ ReadyToPoint /\ PointerStays)
  BY StepVersions DEF CorpusInv
<1>2. \A m \in Manifests : Exists(m) => Exists(m)'
  BY <1>1, GrownStillMatches
<1> USE DEF CorpusTypeOK, PointerLeadsToVersion, ReadyToPoint, PointerStays, building, published, reading
<1>3. CASE UNCHANGED <<pointer, stage, at, draft>>
  BY <1>1, <1>2, <1>3
<1>4. ASSUME NEW b \in Builders, Hash(b) \/ Copy(b) \/ Extract(b) \/ Embed(b) \/ Break(b) PROVE Goal'
  <2>1. UNCHANGED <<pointer, stage, versions>>
    BY <1>4 DEF Hash, Copy, Extract, Embed, Break
  <2>2. at'[b] # "point" /\ \A c \in Builders \ {b} : at'[c] = at[c] /\ draft'[c] = draft[c]
    BY <1>1, <1>4 DEF Hash, Copy, Extract, Embed, Break, Step, Leave
  <2> QED BY <1>1, <2>1, <2>2 DEF Exists
<1>5. ASSUME NEW b \in Builders, Look(b) PROVE Goal'
  <2>1. UNCHANGED <<pointer, stage, versions>>
    BY <1>5 DEF Look
  <2>2. at'[b] = "point" => Exists(draft[b]) /\ draft'[b] = draft[b]
    BY <1>1, <1>5 DEF Look, Step, Leave
  <2>3. \A c \in Builders \ {b} : at'[c] = at[c] /\ draft'[c] = draft[c]
    BY <1>1, <1>5 DEF Look, Step, Leave
  <2> QED BY <1>1, <2>1, <2>2, <2>3 DEF Exists
<1>6. ASSUME NEW b \in Builders, Publish(b) PROVE Goal'
  <2>1. UNCHANGED <<pointer, stage>>
    BY <1>6 DEF Publish
  <2>2. at'[b] = "point" => draft'[b] = draft[b] /\ versions'[draft[b]] = copied[b]
    BY <1>1, <1>6 DEF Publish, Step, Leave
  <2>3. at'[b] = "point" => Exists(draft[b])'
    BY <1>1, <2>2, CorpusAssumption DEF Exists
  <2>4. \A c \in Builders \ {b} : at'[c] = at[c] /\ draft'[c] = draft[c]
    BY <1>1, <1>6 DEF Publish, Step, Leave
  <2> QED BY <1>1, <1>2, <2>1, <2>2, <2>3, <2>4 DEF Exists
<1>7. ASSUME NEW b \in Builders, Point(b) PROVE Goal'
  <2>1. UNCHANGED <<stage, versions>> /\ pointer' = draft[b] /\ Exists(draft[b]) /\ at'[b] = "idle"
    BY <1>1, <1>7 DEF Point, Leave
  <2>2. \A c \in Builders \ {b} : at'[c] = at[c] /\ draft'[c] = draft[c]
    BY <1>1, <1>7 DEF Point, Leave
  <2>3. draft[b] # Missing
    BY <1>1, CorpusAssumption
  <2> QED BY <1>1, <2>1, <2>2, <2>3 DEF Exists
<1>8. ASSUME NEW r \in Readers,
             Resolve(r) \/ Load(r) \/ Reopen(r) \/ Check(r) \/ CreateRun(r) \/ Close(r)
      PROVE  Goal'
  <2>1. UNCHANGED <<pointer, versions, at, draft>>
    BY <1>8 DEF Resolve, Load, Reopen, Check, CreateRun, Close
  <2>2. \A q \in Readers : stage'[q] = "load" => pointer # Missing
    BY <1>1, <1>8 DEF Resolve, Load, Reopen, Check, CreateRun, Close, Move, Drop
  <2> QED BY <1>1, <2>1, <2>2 DEF Exists
<1>9. CASE Edit
  BY <1>3, <1>9 DEF Edit
<1>10. CASE UNCHANGED vars
  BY <1>3, <1>10 DEF vars
<1> QED
  BY <1>4, <1>5, <1>6, <1>7, <1>8, <1>9, <1>10 DEF Next

\* Nothing but what the digests are of tells two versions apart.
LEMMA SameArtifacts ==
    ASSUME NEW m \in Manifests, NEW n \in Manifests, Artifacts(m) = Artifacts(n)
    PROVE  m = n
<1>1. m.hashed = n.hashed /\ m.extracted = n.extracted /\ m.embedded = n.embedded
  BY DEF Artifacts
<1> QED BY <1>1 DEF Manifests

LEMMA StepBound == CorpusInv /\ [Next]_vars => BoundVersionsStay'
<1> SUFFICES ASSUME CorpusInv, [Next]_vars PROVE BoundVersionsStay'
  OBVIOUS
<1>1. VersionsGrow /\ CorpusTypeOK /\ BoundVersionsStay
  BY StepVersions DEF CorpusInv
<1>2. \A m \in Manifests : DocumentsMatch(m) => DocumentsMatch(m)'
  BY <1>1, GrownStillMatches
<1> USE DEF CorpusTypeOK, BoundVersionsStay
<1>3. CASE UNCHANGED <<bound, stage, path, manifest>>
  BY <1>1, <1>2, <1>3
<1>4. ASSUME NEW r \in Readers, Resolve(r) \/ Load(r) \/ Reopen(r) \/ Close(r) PROVE BoundVersionsStay'
  <2>1. UNCHANGED bound /\ stage'[r] # "open"
    BY <1>1, <1>4 DEF Resolve, Load, Reopen, Close, Move, Drop
  <2>2. \A q \in Readers \ {r} :
            stage'[q] = stage[q] /\ path'[q] = path[q] /\ manifest'[q] = manifest[q]
    BY <1>1, <1>4 DEF Resolve, Load, Reopen, Close, Move, Drop
  <2> QED BY <1>1, <1>2, <2>1, <2>2
<1>5. ASSUME NEW r \in Readers, Check(r) PROVE BoundVersionsStay'
  <2>1. UNCHANGED bound
    BY <1>5 DEF Check
  <2>2. stage'[r] = "open" => /\ path[r] = manifest[r] /\ DocumentsMatch(path[r])
                              /\ path'[r] = path[r] /\ manifest'[r] = manifest[r]
    <3>1. Valid(r) => path[r] = manifest[r] /\ DocumentsMatch(path[r])
      BY <1>1, SameArtifacts DEF Valid
    <3>. QED  BY <1>1, <1>5, <3>1 DEF Check, Move, Drop
  <2>3. \A q \in Readers \ {r} :
            stage'[q] = stage[q] /\ path'[q] = path[q] /\ manifest'[q] = manifest[q]
    BY <1>1, <1>5 DEF Check, Move, Drop
  <2> QED BY <1>1, <1>2, <2>1, <2>2, <2>3
<1>6. ASSUME NEW r \in Readers, CreateRun(r) PROVE BoundVersionsStay'
  <2>1. DocumentsMatch(manifest[r]) /\ bound' = bound \cup {manifest[r]}
    BY <1>1, <1>6 DEF CreateRun
  <2>2. UNCHANGED <<stage, path, manifest>>
    BY <1>6 DEF CreateRun, reading
  <2> QED BY <1>1, <1>2, <2>1, <2>2
<1>7. ASSUME NEW b \in Builders,
             \/ Hash(b) \/ Copy(b) \/ Extract(b) \/ Embed(b)
             \/ Look(b) \/ Publish(b) \/ Point(b) \/ Break(b)
      PROVE  BoundVersionsStay'
  BY <1>3, <1>7 DEF Hash, Copy, Extract, Embed, Look, Publish, Point, Break, reading
<1>8. CASE Edit
  BY <1>3, <1>8 DEF Edit, reading
<1>9. CASE UNCHANGED vars
  BY <1>3, <1>9 DEF vars, reading
<1> QED
  BY <1>4, <1>5, <1>6, <1>7, <1>8, <1>9 DEF Next

\* The inductive invariant holds in every reachable state.
THEOREM AlwaysCorpusInv == Spec => []CorpusInv
<1>1. CorpusInv /\ [Next]_vars => CorpusInv'
  BY StepTypes, StepPointer, StepBound DEF CorpusInv
<1> QED
  BY InitCorpus, <1>1, PTL DEF Spec

\* The pointer leads to a version that is there, whatever builders do or fail to do.
THEOREM PointerAlwaysLeadsToVersion == Spec => []PointerLeadsToVersion
<1>1. CorpusInv => PointerLeadsToVersion
  BY DEF CorpusInv
<1> QED
  BY AlwaysCorpusInv, <1>1, PTL

\* What a run was bound to can be opened and validated for ever.
THEOREM BoundVersionsAlwaysStay == Spec => []BoundVersionsStay
<1>1. CorpusInv => BoundVersionsStay
  BY DEF CorpusInv
<1> QED
  BY AlwaysCorpusInv, <1>1, PTL

\* No step changes or removes a published version.
THEOREM VersionsAlwaysImmutable == Spec => VersionsAreImmutable
<1>1. CorpusInv /\ [Next]_vars =>
        [\A m \in Manifests : Exists(m) => versions'[m] = versions[m]]_vars
  BY StepVersions DEF CorpusInv, VersionsGrow
<1> QED
  BY AlwaysCorpusInv, <1>1, PTL DEF Spec, VersionsAreImmutable
=============================================================================
