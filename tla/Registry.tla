------------------------------ MODULE Registry ------------------------------
(***************************************************************************)
(* The image registry of one control node (daemon/registry): digest        *)
(* addressed files, and a database of tags, listings, manifest graph and   *)
(* reference counts.  A push checks what the manifest refers to, writes    *)
(* the body and then runs one database transaction; a transaction that     *)
(* drops references hands the digests nobody refers to any more to a sweep *)
(* that deletes the files afterwards.  Requests, the retention loop and    *)
(* crashes come between any two of these steps.                            *)
(***************************************************************************)
EXTENDS Naturals, FiniteSets

LOCAL INSTANCE FiniteSetsExt

CONSTANTS
    Layer,       \* configs and layers
    Manifest, Index,
    Edges,       \* per manifest and index: the digests it refers to
    Repo, Tag,
    Worker       \* requests handled at the same time

Graph == Manifest \cup Index
Digest == Layer \cup Graph

ASSUME RegistryAssumption ==
    /\ Edges \in [Graph -> SUBSET Digest]
    /\ \A m \in Manifest : Edges[m] \subseteq Layer
    /\ \A x \in Index : Edges[x] \subseteq Manifest

NoDigest == "none"
NoTag == "none"

VARIABLES
    tags,     \* per repository and tag: a digest
    repoman,  \* the manifests listed in each repository
    manmeta,  \* the manifests in the graph
    refs,     \* reference count of every digest
    blobs,    \* the files on disk
    worker,   \* the request each worker handles, and how far it is
    raced     \* some push overlapped with a deletion

registryDb == <<tags, repoman, manmeta, refs>>
registryVars == <<registryDb, blobs, worker, raced>>

Key == Repo \X Tag
IdleWorker == [stage |-> "idle", repo |-> "none", tag |-> NoTag, digest |-> NoDigest, dead |-> {}]

RegistryInit ==
    /\ tags = [k \in Key |-> NoDigest]
    /\ repoman = {} /\ manmeta = {} /\ blobs = {}
    /\ refs = [d \in Digest |-> 0]
    /\ worker = [w \in Worker |-> IdleWorker] /\ raced = FALSE

(***************************************************************************)
(* Reference counts, within one transaction                                *)
(***************************************************************************)
Db == [refs |-> refs, manmeta |-> manmeta, repoman |-> repoman, dead |-> {}]

\* The last reference takes the digest with it and, for a manifest, its listings and
\* the references it holds.
RECURSIVE refDec(_, _)
refDec(s, d) ==
    IF s.refs[d] > 1 THEN [s EXCEPT !.refs[d] = @ - 1]
    ELSE FoldSet(LAMBDA e, t : refDec(t, e),
                 [refs |-> [s.refs EXCEPT ![d] = 0], manmeta |-> s.manmeta \ {d},
                  repoman |-> {l \in s.repoman : l[2] # d}, dead |-> s.dead \cup {d}],
                 IF d \in s.manmeta THEN Edges[d] ELSE {})

refInc(s, D) == [s EXCEPT !.refs = [d \in Digest |-> IF d \in D THEN @[d] + 1 ELSE @[d]]]

\* Mutant: pushing what is there already counts its references once more.
putGraphAgain(s, repo, d) ==
    [refInc(s, Edges[d]) EXCEPT !.manmeta = @ \cup {d}, !.repoman = @ \cup {<<repo, d>>}]

\* The manifest enters the graph once, and the listing of the repository.
putGraph(s, repo, d) ==
    [IF d \in s.manmeta THEN s ELSE refInc(s, Edges[d])
       EXCEPT !.manmeta = @ \cup {d}, !.repoman = @ \cup {<<repo, d>>}]

\* Mutant: the reference to the old target is dropped first.
setTagDropFirst(s, old, d) ==
    IF old = d THEN s
    ELSE refInc(IF old = NoDigest THEN s ELSE refDec(s, old), {d})

\* A tag moves: the new target is counted before the old one is released.
setTag(s, old, d) ==
    IF old = d THEN s
    ELSE IF old = NoDigest THEN refInc(s, {d}) ELSE refDec(refInc(s, {d}), old)

\* The transaction commits; what it orphaned is left to the sweep.
CommitDb(w, s) ==
    /\ refs' = s.refs /\ manmeta' = s.manmeta /\ repoman' = s.repoman
    /\ worker' = [worker EXCEPT ![w] = [IdleWorker EXCEPT !.stage = IF s.dead = {} THEN "idle" ELSE "sweep",
                                                         !.dead = s.dead]]
    /\ raced' = (raced \/ (s.dead # {} /\ \E v \in Worker \ {w} : worker[v].stage \in {"write", "commit"}))

(***************************************************************************)
(* Pushes                                                                  *)
(***************************************************************************)
\* A blob upload is finalized.
Finalize(d) ==
    /\ d \in Layer \ blobs
    /\ blobs' = blobs \cup {d}
    /\ UNCHANGED <<registryDb, worker, raced>>

Free(w) == worker[w].stage = "idle"

\* An image needs its blobs on disk, an index its children listed in the repository.
validate(repo, d) ==
    IF d \in Index THEN \A c \in Edges[d] : <<repo, c>> \in repoman ELSE Edges[d] \subseteq blobs

PutManifest(w, repo, tag, d) ==
    /\ Free(w) /\ validate(repo, d)
    /\ worker' = [worker EXCEPT ![w] = [stage |-> "write", repo |-> repo, tag |-> tag, digest |-> d, dead |-> {}]]
    /\ raced' = (raced \/ \E v \in Worker : worker[v].stage = "sweep")
    /\ UNCHANGED <<registryDb, blobs>>

WriteBody(w) ==
    /\ worker[w].stage = "write"
    /\ blobs' = blobs \cup {worker[w].digest}
    /\ worker' = [worker EXCEPT ![w].stage = "commit"]
    /\ UNCHANGED <<registryDb, raced>>

\* A push by digest carries no tag.
CommitManifest(w) ==
    LET d == worker[w].digest
        key == <<worker[w].repo, worker[w].tag>>
        stored == putGraph(Db, worker[w].repo, d)
    IN  /\ worker[w].stage = "commit"
        /\ IF worker[w].tag = NoTag
           THEN CommitDb(w, stored) /\ UNCHANGED tags
           ELSE /\ CommitDb(w, setTag(stored, tags[key], d))
                /\ tags' = [tags EXCEPT ![key] = d]
        /\ UNCHANGED blobs

(***************************************************************************)
(* What drops references                                                   *)
(***************************************************************************)
\* Retention untags the image of a release it deletes.
UntagAndSweep(w, key) ==
    /\ Free(w) /\ tags[key] # NoDigest
    /\ tags' = [tags EXCEPT ![key] = NoDigest]
    /\ CommitDb(w, refDec(Db, tags[key]))
    /\ UNCHANGED blobs

\* A manifest deleted by digest loses its tags in the repository.
DeleteManifest(w, repo, d) ==
    LET keys == {k \in Key : k[1] = repo /\ tags[k] = d}
    IN  /\ Free(w) /\ <<repo, d>> \in repoman /\ keys # {}
        /\ tags' = [k \in Key |-> IF k \in keys THEN NoDigest ELSE tags[k]]
        /\ CommitDb(w, FoldSet(LAMBDA k, s : refDec(s, d), Db, keys))
        /\ UNCHANGED blobs

sweepBlobs(w) ==
    /\ worker[w].stage = "sweep"
    /\ \E d \in worker[w].dead :
          /\ blobs' = blobs \ {d}
          /\ worker' = [worker EXCEPT ![w] = IF @.dead = {d} THEN IdleWorker ELSE [@ EXCEPT !.dead = @ \ {d}]]
    /\ UNCHANGED <<registryDb, raced>>

\* The process dies: database and files stay, what was in progress is gone.
RegistryCrash ==
    /\ \E w \in Worker : worker[w].stage # "idle"
    /\ worker' = [w \in Worker |-> IdleWorker]
    /\ UNCHANGED <<registryDb, blobs, raced>>

RegistryNext ==
    \/ \E d \in Layer : Finalize(d)
    \/ \E w \in Worker :
          \/ \E repo \in Repo, d \in Graph :
                \/ DeleteManifest(w, repo, d)
                \/ \E tag \in Tag \cup {NoTag} : PutManifest(w, repo, tag, d)
          \/ \E key \in Key : UntagAndSweep(w, key)
          \/ WriteBody(w) \/ CommitManifest(w) \/ sweepBlobs(w)
    \/ RegistryCrash

RegistrySpec == RegistryInit /\ [][RegistryNext]_registryVars

(***************************************************************************)
(* Properties                                                              *)
(***************************************************************************)
RegistryTypeOK ==
    /\ tags \in [Key -> Digest \cup {NoDigest}]
    /\ repoman \subseteq Repo \X manmeta /\ manmeta \subseteq Graph
    /\ refs \in [Digest -> Nat] /\ blobs \subseteq Digest
    /\ \A w \in Worker : worker[w].dead \subseteq Digest

\* A reference count is the number of tags and manifests that refer to the digest,
\* through retags, shared layers, indexes and cascades (refInc, refDec, setTag).
RefsExact ==
    \A d \in Digest :
        refs[d] = Cardinality({k \in Key : tags[k] = d}) + Cardinality({m \in manmeta : d \in Edges[m]})

Reach(d) ==
    LET children == IF d \in Graph THEN Edges[d] ELSE {}
    IN  {d} \cup children \cup UNION {Edges[c] : c \in children \cap Graph}

Pullable(k) ==
    /\ Reach(tags[k]) \subseteq blobs
    /\ \A m \in Reach(tags[k]) \cap Graph : <<k[1], m>> \in repoman

\* As long as no push runs at the same time as a deletion, what a tag points at can be
\* pulled: the manifest, the manifests it lists and their layers are on disk, and the
\* manifests are listed in the repository, whatever images that share them were
\* untagged, retagged or deleted, and wherever the process crashed.
TaggedPullable == ~raced => \A k \in Key : tags[k] # NoDigest => Pullable(k)

\* "a layer is only removed when no image uses it" (docs/deploy/builds.md): what a tag
\* points at stays on disk, whatever runs at the same time.
LayersKept == \A k \in Key : tags[k] # NoDigest => Reach(tags[k]) \subseteq blobs
=============================================================================
