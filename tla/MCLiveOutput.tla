---- MODULE MCLiveOutput ----
(* Two paths, each its own name. *)
EXTENDS LiveOutput
CONSTANTS a, b
Same == [p \in {a, b} |-> p]
====
