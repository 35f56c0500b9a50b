----------------------------- MODULE MCProcessor -----------------------------
(***************************************************************************)
(* A small instance of Processor: one Docker Hub image in two spellings,   *)
(* of which one has a tag and a digest, and pinned to an index by digest;  *)
(* a pinned image of another repository; an image without mapping and a    *)
(* malformed reference.                                                    *)
(***************************************************************************)
EXTENDS Processor

CONSTANTS idx, amd, arm, solo

RawImage(host, path, tag, digest) ==
    [malformed |-> FALSE, host |-> host, path |-> path, tag |-> tag,
     digest |-> digest]

App     == RawImage(None, <<"app">>, None, None)
AppLong == RawImage("index.docker.io", <<"library", "app">>, "latest", solo)
AppIdx  == RawImage("docker.io", <<"library", "app">>, None, idx)
Other   == RawImage("ghcr.io", <<"org", "app">>, None, solo)
Foreign == RawImage("example.io", <<"tool">>, "v1", None)
Broken  == [Foreign EXCEPT !.malformed = TRUE]

MCRawImages == {App, AppLong, AppIdx, Other, Foreign, Broken}

MCRegistryMap == [host \in {"docker.io", "ghcr.io"} |->
                    IF host = "docker.io" THEN <<"docker-images">>
                                          ELSE <<"ghcr-images">>]

MCDigests      == {idx, amd, arm, solo}
MCIndexes      == {idx}
MCManifests    == [d \in {idx} |-> <<amd, arm>>]
MCUpstreamTags == {idx, solo}
AbsentUpstream == {idx, solo, None}

MCImageLists == {<<App, Broken, AppLong, AppIdx>>, <<AppIdx, Foreign, App>>,
                 <<AppLong, Other, App>>, <<Broken, Foreign>>, <<>>}

=============================================================================
