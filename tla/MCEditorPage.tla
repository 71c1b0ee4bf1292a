---- MODULE MCEditorPage ----
(* Two programs, of which one takes arguments and would be saved under the
   name of the one file there is. *)
EXTENDS EditorPage
CONSTANTS p1, p2, f
OneTakes == {p1}
Names == [p \in {p1, p2} |-> IF p = p1 THEN f ELSE None]
====
