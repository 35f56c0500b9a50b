-------------------------------- MODULE Zot ---------------------------------
(***************************************************************************)
(* The pull-through registry the warmer talks to, modelled from how the    *)
(* code uses it and from what its comments say of it:                      *)
(*   - HEAD answers 200 for a manifest Zot holds and 404 for one it does   *)
(*     not (internal/registry/warmer.go, IsCached);                        *)
(*   - GET makes Zot fetch the manifest upstream and blocks until it is    *)
(*     stored (Warm); it stores that one manifest, and the children of an  *)
(*     index only when they are asked for (package comment);               *)
(*   - Zot may go on with a pull its client has given up on, and other     *)
(*     clients (nodes, a second warmer) pull through it at any time;       *)
(*   - a tag may move upstream at any time.                                *)
(* Zot keeps what it has pulled: its garbage collection of orphaned blobs  *)
(* runs daily and is outside the model.                                    *)
(***************************************************************************)
EXTENDS References, Naturals

CONSTANTS
    Digests,        \* manifests, identified by their digest
    Indexes,        \* those whose media type is an OCI index or Docker list
    Manifests,      \* digest -> the sequence of child digests it lists
    UpstreamTags,   \* what a tag may point at upstream (None: not there)
    MaxMoves        \* bound on the number of times a tag moves upstream

ASSUME DigestAssumption ==
    /\ None \notin Digests
    /\ Indexes \subseteq Digests
    /\ Manifests \in [Indexes -> Seq(Digests)]
    /\ UpstreamTags \subseteq Digests \cup {None}
    /\ MaxMoves \in Nat
    /\ \A raw \in RawImages : raw.digest \in Digests \cup {None}

VARIABLES
    access,     \* how the warmer reaches Zot, the same for a whole run
    upstream,   \* TagRefs -> the digest the upstream registry serves
    tagged,     \* TagRefs -> the digest Zot has under the tag, or None
    stored,     \* the <<repository, digest>> manifests Zot holds
    moves       \* the number of tag moves so far

zotVars == <<access, upstream, tagged, stored, moves>>

ZotTypeOK ==
    /\ access \in {"ok", "unreachable", "unauthorized"}
    /\ upstream \in [TagRefs -> Digests \cup {None}]
    /\ tagged \in [TagRefs -> Digests \cup {None}]
    /\ stored \subseteq (Repositories \X Digests)
    /\ moves \in Nat

ZotInit ==
    /\ access \in {"ok", "unreachable", "unauthorized"}
    /\ upstream \in [TagRefs -> UpstreamTags]
    /\ tagged = [ref \in TagRefs |-> None]
    /\ stored = {}
    /\ moves = 0

-----------------------------------------------------------------------------

\* What HEAD finds: the tag, or the digest, in the repository.
Present(ref) ==
    IF ref.digest = None THEN tagged[ref] # None
                         ELSE <<ref.repo, ref.digest>> \in stored

\* The digest of the manifest a GET of ref is answered with.
Served(ref) ==
    IF ref.digest # None THEN ref.digest
    ELSE IF tagged[ref] # None THEN tagged[ref] ELSE upstream[ref]

\* Zot stores manifest d under ref.
Store(ref, d) ==
    /\ stored' = stored \cup {<<ref.repo, d>>}
    /\ tagged' = IF ref.digest = None THEN [tagged EXCEPT ![ref] = d]
                                      ELSE tagged

\* A successful GET of ref, answered from the cache or pulled through.
Fetch(ref) ==
    /\ Served(ref) # None
    /\ Store(ref, Served(ref))
    /\ UNCHANGED <<access, upstream, moves>>

\* A successful GET of repo@d.
FetchDigest(repo, d) ==
    /\ stored' = stored \cup {<<repo, d>>}
    /\ UNCHANGED <<access, upstream, tagged, moves>>

-----------------------------------------------------------------------------
(* What Zot and its other clients do on their own.                          *)

\* Another client's pull, or one whose requester has given up, completes: a
\* tag is (re)bound to what upstream serves now.
PullThrough(ref) ==
    LET d == IF ref.digest = None THEN upstream[ref] ELSE ref.digest IN
    /\ d # None
    /\ Store(ref, d)
    /\ UNCHANGED <<access, upstream, moves>>

\* A client that has read a stored index pulls one of its children.
PullChild(x) ==
    /\ x[2] \in Indexes
    /\ \E k \in 1..Len(Manifests[x[2]]) : FetchDigest(x[1], Manifests[x[2]][k])

MoveTag(ref, d) ==
    /\ moves < MaxMoves
    /\ d # upstream[ref]
    /\ moves' = moves + 1
    /\ upstream' = [upstream EXCEPT ![ref] = d]
    /\ UNCHANGED <<access, tagged, stored>>

ZotNext ==
    \/ \E ref \in Refs : PullThrough(ref)
    \/ \E x \in stored : PullChild(x)
    \/ \E ref \in TagRefs, d \in UpstreamTags : MoveTag(ref, d)

=============================================================================
