------------------------------ MODULE MCZotWarm ------------------------------
(***************************************************************************)
(* A small instance of ZotWarm: an index by tag, two spellings of a Docker *)
(* Hub image, an image without mapping and a malformed reference.          *)
(***************************************************************************)
EXTENDS ZotWarm

CONSTANTS idx, amd, arm, solo

RawImage(host, path, tag, digest) ==
    [malformed |-> FALSE, host |-> host, path |-> path, tag |-> tag,
     digest |-> digest]

Multi   == RawImage("ghcr.io", <<"org", "app">>, "v1", None)
Hub     == RawImage(None, <<"nginx">>, "latest", solo)
Foreign == RawImage("example.io", <<"tool">>, "v1", None)
Broken  == [Foreign EXCEPT !.malformed = TRUE]

MCRawImages == {Multi, Hub, Foreign, Broken}

MCRegistryMap == [host \in {"docker.io", "ghcr.io"} |->
                    IF host = "docker.io" THEN <<"docker-images">>
                                          ELSE <<"ghcr-images">>]

MCDigests      == {idx, amd, arm, solo}
MCIndexes      == {idx}
MCManifests    == [d \in {idx} |-> <<amd, arm>>]
MCUpstreamTags == {idx, None}

MCImageLists == {<<Foreign, Multi>>, <<Hub, Multi>>, <<Broken, Hub>>, <<>>}

=============================================================================
