----------------------------- MODULE References -----------------------------
(***************************************************************************)
(* Image references: what internal/parser makes of the raw string of a pod *)
(* spec or manifest, and where internal/processor looks for it in Zot.     *)
(*                                                                         *)
(* A raw reference is a record of the parts the code tells apart.  A host  *)
(* or a repository is a value, a path is the sequence of its components    *)
(* (so that "dest" + "/" + "repository" is concatenation), and a string    *)
(* that any of the parser's checks refuses is just `malformed'.            *)
(***************************************************************************)
EXTENDS Sequences

CONSTANTS
    RawImages,      \* the raw references the workloads may contain
    RegistryMap,    \* ZOT_REGISTRY_MAP: registry host -> Zot path prefix
    None            \* the absent host, tag or digest

RawReference(hosts, paths, tags, digests) ==
    [malformed : BOOLEAN, host : hosts \cup {None}, path : paths,
     tag : tags \cup {None}, digest : digests \cup {None}]

ASSUME NoneAssumption == None # "latest"

-----------------------------------------------------------------------------
(* The reference library's ParseNormalizedNamed: a missing or legacy Docker *)
(* Hub host becomes docker.io, whose one-component names live in library/.  *)

NormalizedHost(raw) ==
    IF raw.host \in {None, "index.docker.io"} THEN "docker.io" ELSE raw.host

NormalizedPath(raw) ==
    IF NormalizedHost(raw) = "docker.io" /\ Len(raw.path) = 1
    THEN <<"library">> \o raw.path
    ELSE raw.path

-----------------------------------------------------------------------------
(* parser.Parse.  The fields used only in log lines are left out.           *)

\* TagNameOnly: latest is injected only when there is neither tag nor digest.
TagOf(raw) ==
    IF raw.tag = None /\ raw.digest = None THEN "latest" ELSE raw.tag

\* Mutant of CanonicalRegistry: the aliases are kept.
AliasKept(host) == host

CanonicalRegistry(host) ==
    IF host \in {"registry-1.docker.io", "index.docker.io"}
    THEN "docker.io" ELSE host

Parse(raw) ==
    [registry     |-> CanonicalRegistry(NormalizedHost(raw)),
     repository   |-> NormalizedPath(raw),
     tag          |-> TagOf(raw),
     digest       |-> raw.digest,
     isDigestOnly |-> TagOf(raw) = None]

-----------------------------------------------------------------------------
(* The Zot reference of a parsed image.                                     *)

\* An empty map is the flatten layout; a non-empty one is applied strictly.
HasMapping(p) ==
    \/ DOMAIN RegistryMap = {}
    \/ p.registry \in DOMAIN RegistryMap

\* Mutant of ZotPath: the map only decides what is skipped.
BareZotPath(p) == p.repository

ZotPath(p) ==
    IF DOMAIN RegistryMap = {}
    THEN p.repository
    ELSE RegistryMap[p.registry] \o p.repository

\* repo@digest for a digest-only image, repo:tag otherwise: of a reference
\* with both, the tag is what Zot is asked for.
ZotRef(p) ==
    [repo   |-> ZotPath(p),
     tag    |-> p.tag,
     digest |-> IF p.isDigestOnly THEN p.digest ELSE None]

-----------------------------------------------------------------------------
(* The references the warmer may send to Zot.                               *)

Routed  == {raw \in RawImages : ~raw.malformed /\ HasMapping(Parse(raw))}

Refs    == {ZotRef(Parse(raw)) : raw \in Routed}

TagRefs == {ref \in Refs : ref.digest = None}

Repositories == {ref.repo : ref \in Refs}

=============================================================================
