-------------------------- MODULE CorpusPublication --------------------------
(***************************************************************************)
(* Building, publishing and opening corpus versions (corpus.py             *)
(* CorpusBuilder.build, load_current_manifest; retrieval.py CorpusStore).  *)
(* Builders are command-line processes, readers are servers; they share    *)
(* the directory of versions and the pointer current.json, and nothing     *)
(* orders them.  The source documents can be edited while a builder reads  *)
(* them: it reads each of them three times.                                *)
(*                                                                         *)
(* One document stands for all of them.  A manifest stands for its version *)
(* too, which is its digest: what was hashed, what was extracted and the   *)
(* embeddings, which the service need not answer alike twice.  SQLite and  *)
(* the index are written from these; the copied document is not, so a      *)
(* version is what its directory holds for a document.  Temporary          *)
(* directories are seen by nobody but their builder.                       *)
(***************************************************************************)
EXTENDS Naturals

CONSTANTS
    Builders, Readers,
    Contents,           \* what a source document may contain
    Vectors,            \* the embeddings of it that the service may return
    Missing,            \* no such directory, no pointer
    MaxEdits, MaxMishaps  \* bounds of the checked instance: edits of the source, crashes and errors

Manifests == [hashed : Contents, extracted : Contents, embedded : Vectors]

ASSUME CorpusAssumption ==
    /\ Contents # {} /\ Vectors # {}
    /\ Missing \notin Contents /\ Missing \notin Manifests
    /\ MaxEdits \in Nat /\ MaxMishaps \in Nat

VARIABLES
    source,             \* the source document
    at, draft, copied,  \* where each builder is, and the contents of its build directory
    versions,           \* the document in the directory of each version
    pointer,            \* current.json
    stage, path, manifest,  \* where each reader is, and what it has read of the corpus
    bound,              \* the corpus versions in the rows of runs
    edits, mishaps

building == <<at, draft, copied>>
published == <<versions, pointer>>
reading == <<stage, path, manifest>>
vars == <<source, building, published, reading, bound, edits, mishaps>>

\* Type correctness of directories, pointer and processes.
CorpusTypeOK ==
    /\ source \in Contents
    /\ at \in [Builders -> {"idle", "copy", "extract", "embed", "look", "publish", "point"}]
    /\ draft \in [Builders -> Manifests] /\ copied \in [Builders -> Contents]
    /\ versions \in [Manifests -> Contents \cup {Missing}]
    /\ pointer \in Manifests \cup {Missing}
    /\ stage \in [Readers -> {"closed", "load", "check", "open"}]
    /\ path \in [Readers -> Manifests] /\ manifest \in [Readers -> Manifests]
    /\ bound \subseteq Manifests
    /\ edits \in 0..MaxEdits /\ mishaps \in 0..MaxMishaps

\* What is left in the place of a draft or a manifest that nobody has.
Blank == CHOOSE m \in Manifests : TRUE

Init ==
    /\ source \in Contents
    /\ at = [b \in Builders |-> "idle"]
    /\ draft = [b \in Builders |-> Blank] /\ copied = [b \in Builders |-> Blank.hashed]
    /\ stage = [r \in Readers |-> "closed"]
    /\ path = [r \in Readers |-> Blank] /\ manifest = [r \in Readers |-> Blank]
    /\ versions = [m \in Manifests |-> Missing] /\ pointer = Missing /\ bound = {}
    /\ edits = 0 /\ mishaps = 0

Exists(m) == versions[m] # Missing
\* stored_document_artifacts_match, and the last check of CorpusStore.
DocumentsMatch(m) == versions[m] = m.hashed

Edit ==
    /\ edits < MaxEdits /\ edits' = edits + 1 /\ source' \in Contents
    /\ UNCHANGED <<building, published, reading, bound, mishaps>>

(***************************************************************************)
(* CorpusBuilder.build.                                                    *)
(***************************************************************************)
Step(b, from, to) == at[b] = from /\ at' = [at EXCEPT ![b] = to]
\* The build is over, and its directory is gone or of no more use.
Leave(b) ==
    /\ at' = [at EXCEPT ![b] = "idle"]
    /\ draft' = [draft EXCEPT ![b] = Blank] /\ copied' = [copied EXCEPT ![b] = Blank.hashed]

Hash(b) ==
    /\ Step(b, "idle", "copy") /\ draft' = [draft EXCEPT ![b].hashed = source]
    /\ UNCHANGED <<source, copied, published, reading, bound, edits, mishaps>>

Copy(b) ==
    /\ Step(b, "copy", "extract") /\ copied' = [copied EXCEPT ![b] = source]
    /\ UNCHANGED <<source, draft, published, reading, bound, edits, mishaps>>

Extract(b) ==
    /\ Step(b, "extract", "embed") /\ draft' = [draft EXCEPT ![b].extracted = source]
    /\ UNCHANGED <<source, copied, published, reading, bound, edits, mishaps>>

\* What follows the embeddings validates what was just written from them.
Embed(b) ==
    /\ Step(b, "embed", "look")
    /\ \E v \in Vectors : draft' = [draft EXCEPT ![b].embedded = v]
    /\ UNCHANGED <<source, copied, published, reading, bound, edits, mishaps>>

\* Is this version there?  An identical one that is intact is used, a corrupt one is an error.
Look(b) ==
    /\ at[b] = "look"
    /\ \/ ~Exists(draft[b]) /\ Step(b, "look", "publish") /\ UNCHANGED <<draft, copied>>
       \/ /\ Exists(draft[b]) /\ DocumentsMatch(draft[b])
          /\ Step(b, "look", "point") /\ UNCHANGED <<draft, copied>>
       \/ Exists(draft[b]) /\ ~DocumentsMatch(draft[b]) /\ Leave(b)
    /\ UNCHANGED <<source, published, reading, bound, edits, mishaps>>

\* Mutant: what another builder has published since is replaced.
PublishOver(b) ==
    /\ versions' = [versions EXCEPT ![draft[b]] = copied[b]] /\ Step(b, "publish", "point")
    /\ UNCHANGED <<source, draft, copied, pointer, reading, bound, edits, mishaps>>

\* os.replace, which fails on a directory that another builder has published since.
Publish(b) ==
    /\ at[b] = "publish"
    /\ \/ /\ ~Exists(draft[b]) /\ Step(b, "publish", "point") /\ UNCHANGED <<draft, copied>>
          /\ versions' = [versions EXCEPT ![draft[b]] = copied[b]]
       \/ Exists(draft[b]) /\ Leave(b) /\ UNCHANGED versions
    /\ UNCHANGED <<source, pointer, reading, bound, edits, mishaps>>

\* Mutant: the pointer is advanced as soon as the build is validated.
PointEarly(b) ==
    /\ \/ Step(b, "look", "publish") /\ UNCHANGED <<draft, copied>>
       \/ at[b] = "point" /\ Leave(b)
    /\ pointer' = draft[b]
    /\ UNCHANGED <<source, versions, reading, bound, edits, mishaps>>

Point(b) ==
    /\ at[b] = "point" /\ Leave(b) /\ pointer' = draft[b]
    /\ UNCHANGED <<source, versions, reading, bound, edits, mishaps>>

\* An error, or the death of the process, anywhere.
Break(b) ==
    /\ at[b] # "idle" /\ Leave(b)
    /\ mishaps < MaxMishaps /\ mishaps' = mishaps + 1
    /\ UNCHANGED <<source, published, reading, bound, edits>>

(***************************************************************************)
(* CorpusStore.                                                            *)
(***************************************************************************)
Move(r, from, to) == stage[r] = from /\ stage' = [stage EXCEPT ![r] = to]
Drop(r) ==
    /\ stage' = [stage EXCEPT ![r] = "closed"]
    /\ path' = [path EXCEPT ![r] = Blank] /\ manifest' = [manifest EXCEPT ![r] = Blank]

\* The current corpus: the pointer is read for the path, then again for the manifest.
Resolve(r) ==
    /\ pointer # Missing /\ Exists(pointer)
    /\ Move(r, "closed", "load") /\ path' = [path EXCEPT ![r] = pointer]
    /\ UNCHANGED <<source, building, published, manifest, bound, edits, mishaps>>

Load(r) ==
    /\ Move(r, "load", "check") /\ manifest' = [manifest EXCEPT ![r] = pointer]
    /\ UNCHANGED <<source, building, published, path, bound, edits, mishaps>>

\* The version a run is bound to.
Reopen(r) ==
    /\ Move(r, "closed", "check")
    /\ \E m \in bound : path' = [path EXCEPT ![r] = m] /\ manifest' = [manifest EXCEPT ![r] = m]
    /\ UNCHANGED <<source, building, published, bound, edits, mishaps>>

\* What the digests in a manifest are of: SQLite has the hashes of the sources and their text, the
\* index the embeddings.
Artifacts(m) == [sqlite |-> <<m.hashed, m.extracted>>, index |-> m.embedded]

\* Mutant: the copied documents are not looked at.
ValidWithoutDocuments(r) == Artifacts(path[r]) = Artifacts(manifest[r])
\* _validate_artifacts: SQLite and index at the path have the digests of the manifest, and the
\* documents those in SQLite.
Valid(r) == Artifacts(path[r]) = Artifacts(manifest[r]) /\ DocumentsMatch(path[r])

Check(r) ==
    /\ stage[r] = "check"
    /\ \/ Valid(r) /\ Move(r, "check", "open") /\ UNCHANGED <<path, manifest>>
       \/ ~Valid(r) /\ Drop(r)
    /\ UNCHANGED <<source, building, published, bound, edits, mishaps>>

\* A run is created, bound to the version that the server has opened.
CreateRun(r) ==
    /\ stage[r] = "open" /\ bound' = bound \cup {manifest[r]}
    /\ UNCHANGED <<source, building, published, reading, edits, mishaps>>

Close(r) ==
    /\ stage[r] = "open" /\ Drop(r)
    /\ UNCHANGED <<source, building, published, bound, edits, mishaps>>

Next ==
    \/ Edit
    \/ \E b \in Builders :
          \/ Hash(b) \/ Copy(b) \/ Extract(b) \/ Embed(b)
          \/ Look(b) \/ Publish(b) \/ Point(b) \/ Break(b)
    \/ \E r \in Readers : Resolve(r) \/ Load(r) \/ Reopen(r) \/ Check(r) \/ CreateRun(r) \/ Close(r)

Spec == Init /\ [][Next]_vars

(***************************************************************************)
(* Properties.                                                             *)
(***************************************************************************)
\* Wherever builders crash, fail or overtake each other, the pointer leads to a version that is
\* there (corpus.py:631-639).
PointerLeadsToVersion == pointer # Missing => Exists(pointer)

\* Every version that a run is bound to, and every one a server works on, is there and valid, so
\* that receipts and start-up recovery can open it (retrieval.py:52-105, service.py:353).
BoundVersionsStay ==
    /\ \A m \in bound : DocumentsMatch(m)
    /\ \A r \in Readers : stage[r] = "open" => path[r] = manifest[r] /\ DocumentsMatch(path[r])

\* A published version never changes or disappears, though builders of the same version race
\* between looking for it and putting it in place (corpus.py:608-631).
VersionsAreImmutable ==
    [][\A m \in Manifests : Exists(m) => versions'[m] = versions[m]]_vars

=============================================================================
