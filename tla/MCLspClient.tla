----------------------------- MODULE MCLspClient -----------------------------
(* TLC instances of LspClient: the client's socket and one beside it, which  *)
(* is there only when the client has crossed them.                           *)
EXTENDS LspClient

=============================================================================
