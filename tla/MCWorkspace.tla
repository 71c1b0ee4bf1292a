---- MODULE MCWorkspace ----
(* Two cells, so that one of a request can be missing; two requests, so that
   they overlap. *)
EXTENDS Workspace
CONSTANTS t1, c1, c2, r1, r2
Both == {<<c1>>, <<c1, c2>>}
====
