---------------------------- MODULE MCCompileGate ----------------------------
(* The TLC instance of CompileGate: four clients and a health check.         *)
EXTENDS CompileGate, TLC
=============================================================================
