------------------------------- MODULE Routing -------------------------------
(***************************************************************************)
(* The way of one image reference through the program: parsed, mapped to a *)
(* Zot path, written out as text (processImages), read back by the         *)
(* registry library inside IsCached and Warm, and, for an index, cut down  *)
(* to its base and extended by each child's digest (strippedBase).  Beside *)
(* it the way a node takes to the same image: the mirrors of its           *)
(* registries.yaml.  The two must meet in Zot.                             *)
(*                                                                         *)
(* Text is a sequence of tokens: separators, path components, tags and     *)
(* digests.  Of the characters of a component only a dot and a colon       *)
(* matter.                                                                 *)
(***************************************************************************)
EXTENDS SequencesExt, Integers

CONSTANTS
    RawImages, None,
    Layouts,        \* the registry maps the program may be configured with
    Components,     \* what stands between the slashes of a path
    Dotted, Ported, \* those with a dot, and with a colon
    Mirrors,        \* registries.yaml of the nodes: host -> path prefix
    ZotHost,        \* the host of the Zot URL
    Children        \* the digests of the manifests an index may list

Separators == {"/", ":", "@"}

\* The grammar of references, which preValidate and the reference library
\* enforce, and that of a registry map's destinations.
ASSUME RoutingAssumption ==
    /\ Ported \subseteq Components
    /\ Separators \cap (Components \cup Children) = {}
    /\ "library" \in Components \ Ported
    /\ \A r \in RawImages :
          /\ r.path \in Seq(Components \ Ported) /\ r.path # <<>>
          /\ {r.tag, r.digest} \cap (Separators \cup Ported) = {}
    /\ "latest" \notin Ported \cup {None}
    /\ \A map \in Layouts : \A h \in DOMAIN map :
          map[h] \in Seq(Components) /\ map[h] # <<>>

VARIABLES
    layout,     \* RegistryMap
    raw,        \* the reference
    stage,      \* what has become of it
    text,       \* zotRef of processImages
    requests    \* what the program has asked for: see ParseReference

vars == <<layout, raw, stage, text, requests>>

Ref == INSTANCE References WITH RegistryMap <- layout

-----------------------------------------------------------------------------
(* Text.                                                                    *)

PathText(path) ==
    [k \in 1..(2 * Len(path) - 1) |->
        IF k % 2 = 1 THEN path[(k + 1) \div 2] ELSE "/"]

DigestText(d) == <<"@", "sha256", ":", d>>

RefText(ref) ==
    PathText(ref.repo) \o
        (IF ref.digest = None THEN <<":", ref.tag>> ELSE DigestText(ref.digest))

\* The position of the last token of t that is one of toks, or 0.
LastIn(t, toks) == Max({0} \cup {k \in 1..Len(t) : t[k] \in toks})

LastColon(t) == LastIn(t, {":"} \cup Ported)

Before(t, k) == SubSeq(t, 1, k - 1)

CutDigest(t) ==
    IF LastIn(t, {"@"}) > 0 THEN Before(t, LastIn(t, {"@"})) ELSE t

\* A colon before the last slash belongs to a host.
CutTag(t) ==
    IF LastColon(t) > LastIn(t, {"/"}) THEN Before(t, LastColon(t)) ELSE t

\* Mutant of strippedBase: the first colon ends the repository.
FirstColonBase(t) ==
    Before(t, Min({k \in 1..Len(t) : t[k] \in {":"} \cup Ported}))

\* The digest goes first, so that its colon is not taken for that of a tag.
strippedBase(t) == CutTag(CutDigest(t))

\* The registry library's ParseReference with Zot as the default registry: a
\* first component with a dot or a colon is a host.
ParseReference(t) ==
    LET name  == CutTag(CutDigest(t))
        hosty == Len(name) > 2 /\ name[1] \in Dotted \cup Ported
    IN  [host |-> IF hosty THEN name[1] ELSE ZotHost,
         repo |-> IF hosty THEN SubSeq(name, 3, Len(name)) ELSE name,
         id   |-> t[Len(t)]]

-----------------------------------------------------------------------------

Init ==
    /\ layout \in Layouts
    /\ raw \in RawImages
    /\ stage = "raw"
    /\ text = <<>>
    /\ requests = {}

Refuse ==
    /\ stage = "raw"
    /\ raw.malformed
    /\ stage' = "refused"
    /\ UNCHANGED <<layout, raw, text, requests>>

Parsed == stage = "raw" /\ ~raw.malformed

Skip ==
    /\ Parsed
    /\ ~Ref!HasMapping(Ref!Parse(raw))
    /\ stage' = "skipped"
    /\ UNCHANGED <<layout, raw, text, requests>>

\* The HEAD and the GET of the image.
Ask ==
    /\ Parsed
    /\ Ref!HasMapping(Ref!Parse(raw))
    /\ text' = RefText(Ref!ZotRef(Ref!Parse(raw)))
    /\ requests' = {ParseReference(text')}
    /\ stage' = "asked"
    /\ UNCHANGED <<layout, raw>>

\* WarmMultiArch: a tag that is an index, and one more of its children.
AskChild(d) ==
    /\ stage \in {"asked", "children"}
    /\ ~Ref!Parse(raw).isDigestOnly
    /\ requests' = requests \cup {ParseReference(strippedBase(text) \o DigestText(d))}
    /\ stage' = "children"
    /\ UNCHANGED <<layout, raw, text>>

Next == Refuse \/ Skip \/ Ask \/ \E d \in Children : AskChild(d)

Spec == Init /\ [][Next]_vars

-----------------------------------------------------------------------------
(* The node.                                                                *)

\* containerd normalises the reference as the warmer does, but knows no
\* aliases, and asks the mirror of its host, by digest if there is one.
NodeRequest(r) ==
    LET path == Mirrors[Ref!NormalizedHost(r)]
                    \o Ref!NormalizedPath(r)
    IN  [host |-> ZotHost,
         repo |-> PathText(path),
         id   |-> IF r.digest # None THEN r.digest ELSE Ref!TagOf(r)]

-----------------------------------------------------------------------------

\* The map says of every registry what the nodes' mirrors say.
Aligned == \A h \in DOMAIN layout : h \in DOMAIN Mirrors /\ layout[h] = Mirrors[h]

\* The prefix of one registry is that of the other, or extends it.
Overlap(g, h) == IsPrefix(layout[g], layout[h]) \/ IsPrefix(layout[h], layout[g])

\* Zot's repositories do not look like hosts.
Plain == \A h \in DOMAIN layout : layout[h][1] \notin Dotted \cup Ported

Asked == stage \in {"asked", "children"}

\* The names of Docker Hub that docs/registries.yaml gives one mirror.
HubNames == {"docker.io", "registry-1.docker.io", "index.docker.io"}

\* The hosts whose images both sides keep in one place: those of the map under
\* their canonical name, and the other names of Docker Hub.
Shared(r) ==
    LET h == Ref!NormalizedHost(r)
        c == IF h \in HubNames THEN "docker.io" ELSE h
    IN  /\ c \in DOMAIN layout
        /\ {h, c} \subseteq DOMAIN Mirrors
        /\ Mirrors[h] = Mirrors[c]

\* What the warmer puts into Zot is where the node looks for it: an image of a
\* host both know, or of an alias of Docker Hub, is asked for in the node's
\* repository and under the same tag or digest, except that an image with
\* both is warmed by its tag (Parse, processImages and the mirrors together).
NodeFindsIt ==
    (stage \notin {"raw", "refused"} /\ Aligned /\ Plain /\ Shared(raw)) =>
        \E r \in requests :
            /\ r.host = NodeRequest(raw).host
            /\ r.repo = NodeRequest(raw).repo
            /\ (raw.tag = None \/ raw.digest = None) => r.id = NodeRequest(raw).id

\* The children of an index are asked for where the index was, whatever dots,
\* colons and tags the path and the reference have (strippedBase).
ChildrenBesideIndex ==
    \A r, s \in requests : r.host = s.host /\ r.repo = s.repo

\* Under a map, two references are asked for under one Zot reference, where a
\* cache hit for one stands for the other, only if the map cannot tell them
\* apart: their registries' prefixes overlap, or they name one repository of
\* one registry; and in it one tag, or one digest if they have no tag.  What
\* has a tag is told by that alone, whatever digest comes with it (the mapping
\* and zotRef in processImages).
CollisionsNeedOverlap ==
    (Asked /\ DOMAIN layout # {}) =>
        \A other \in RawImages :
            LET p == Ref!Parse(raw)
                q == Ref!Parse(other)
            IN  (/\ ~other.malformed
                 /\ q.registry \in DOMAIN layout
                 /\ RefText(Ref!ZotRef(q)) = text) =>
                    /\ q.tag = p.tag
                    /\ p.isDigestOnly => q.digest = p.digest
                    /\ IF q.registry = p.registry
                       THEN q.repository = p.repository
                       ELSE Overlap(p.registry, q.registry)

=============================================================================
