---------------------------- MODULE MCClusterRuns ----------------------------
(***************************************************************************)
(* Runs over a cluster with one multi-arch image and one plain one, which  *)
(* a scan finds in either order, in part or not at all.                   *)
(***************************************************************************)
EXTENDS ClusterRuns

CONSTANTS idx, amd, solo

RawImage(host, path, tag, digest) ==
    [malformed |-> FALSE, host |-> host, path |-> path, tag |-> tag,
     digest |-> digest]

Multi == RawImage("ghcr.io", <<"org", "app">>, "v1", None)
Pin   == RawImage(None, <<"nginx">>, None, solo)

MCWorkloads   == {Multi, Pin}
MCRegistryMap == [host \in {"docker.io", "ghcr.io"} |->
                    IF host = "docker.io" THEN <<"docker-images">>
                                          ELSE <<"ghcr-images">>]

MCDigests      == {idx, amd, solo}
MCIndexes      == {idx}
MCManifests    == [d \in {idx} |-> <<amd>>]
MCUpstreamTags == {idx, None}

MCImageLists == {<<Multi, Pin>>, <<Pin, Multi>>, <<Pin>>, <<>>}

=============================================================================
