---------------------------- MODULE MCClusterMain ----------------------------
(***************************************************************************)
(* A pod with an index and a malformed reference, and a deployment with a  *)
(* pinned image; MCCollector has more pages, namespaces and changes.       *)
(***************************************************************************)
EXTENDS ClusterMain

CONSTANTS idx, amd, solo

RawImage(host, path, tag, digest) ==
    [malformed |-> FALSE, host |-> host, path |-> path, tag |-> tag,
     digest |-> digest]

Multi  == RawImage("ghcr.io", <<"org", "app">>, "v1", None)
Pin    == RawImage(None, <<"nginx">>, None, solo)
Broken == [Pin EXCEPT !.malformed = TRUE]

MCRawImages   == {Multi, Pin, Broken}
MCRegistryMap == [host \in {"docker.io", "ghcr.io"} |->
                    IF host = "docker.io" THEN <<"docker-images">>
                                          ELSE <<"ghcr-images">>]

MCDigests      == {idx, amd, solo}
MCIndexes      == {idx}
MCManifests    == [d \in {idx} |-> <<amd>>]
MCUpstreamTags == {idx}

\* Whatever subset of the images a scan finds, in any order.
MCImageLists == {<<>>} \cup UNION {Orders(found_) : found_ \in SUBSET MCRawImages \ {{}}}

Obj(kind, ns, images_) == [kind |-> kind, ns |-> ns, images |-> images_]

MCKindOrder == <<"pods", "deployments">>
MCObjects   == {Obj("pods", "web", {Multi, Broken}),
                Obj("deployments", "web", {Pin})}
MCInclude   == {}
MCExclude   == {"system"}

=============================================================================
