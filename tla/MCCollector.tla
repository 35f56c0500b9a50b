----------------------------- MODULE MCCollector -----------------------------
(***************************************************************************)
(* Three kinds: one with two pages in the scanned namespaces, one with an  *)
(* object in an excluded namespace, and a suspended CronJob.               *)
(***************************************************************************)
EXTENDS Collector

CONSTANTS app, db, job, secret

MCKindOrder == <<"pods", "deployments", "cronjobs">>

Obj(kind, ns, images) == [kind |-> kind, ns |-> ns, images |-> images]

MCObjects ==
    {Obj("pods", "web", {app, db}), Obj("pods", "web", {app}),
     Obj("pods", "system", {secret}), Obj("deployments", "web", {db}),
     Obj("cronjobs", "web", {job})}

MCInclude == {"web", "system"}
MCExclude == {"system"}

=============================================================================
