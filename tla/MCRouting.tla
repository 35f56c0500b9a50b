------------------------------ MODULE MCRouting ------------------------------
(***************************************************************************)
(* The default registry map, the mirrors of docs/registries.yaml cut to    *)
(* the registries that differ in kind, and the layouts in which prefixes   *)
(* overlap, have several components, or look like a host, and one that is  *)
(* keyed by another name of Docker Hub.                                    *)
(***************************************************************************)
EXTENDS Routing

MCMirrors ==
    [h \in {"docker.io", "registry-1.docker.io", "index.docker.io"} |-> <<"docker-images">>]
    @@ [h \in {"registry.k8s.io", "k8s.gcr.io"} |-> <<"k8s-images">>]
    @@ [h \in {"ghcr.io"} |-> <<"ghcr-images">>]

DefaultRegistryMap ==
    "docker.io" :> <<"docker-images">> @@ "ghcr.io" :> <<"ghcr-images">>
    @@ "registry.k8s.io" :> <<"k8s-images">>

Overlapping == "docker.io" :> <<"hub">> @@ "ghcr.io" :> <<"hub", "library">>
Nested      == "docker.io" :> <<"cache", "hub">> @@ "ghcr.io" :> <<"cache", "ghcr">>
Aliased     == "registry-1.docker.io" :> <<"docker-images">> @@ "ghcr.io" :> <<"hub">>
HostLike    == "docker.io" :> <<"zot:5000", "hub">> @@ "ghcr.io" :> <<"ghcr.io">>

MCLayouts == {<<>>, DefaultRegistryMap, Overlapping, Nested, Aliased, HostLike}

MCDotted == {"my.org", "ghcr.io"}
MCPorted == {"zot:5000"}

MCComponents ==
    MCDotted \cup MCPorted
    \cup {"docker-images", "k8s-images", "ghcr-images", "hub", "library", "cache",
          "ghcr", "app", "org"}

Hosts == {None, "docker.io", "index.docker.io", "registry-1.docker.io",
          "ghcr.io", "registry.k8s.io", "k8s.gcr.io", "example.io"}
Paths == {<<"app">>, <<"library", "app">>, <<"org", "app">>, <<"my.org", "app">>}

\* Where no host is written, the first component is not one.
MCRawImages ==
    {r \in [malformed : BOOLEAN, host : Hosts, path : Paths,
            tag : {None, "latest", "v1"}, digest : {None, "d1", "d2"}] :
        r.host = None => r.path[1] \notin MCDotted \cup MCPorted}

MCZotHost  == "zot.local"
MCChildren == {"amd", "arm"}

=============================================================================
