---- MODULE MCReplPage ----
(* Two texts, so that an input can change into another as well as be cleared. *)
EXTENDS ReplPage
CONSTANTS t1, t2
====
