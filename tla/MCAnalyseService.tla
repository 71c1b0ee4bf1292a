-------------------------- MODULE MCAnalyseService --------------------------
(* TLC instances of AnalyseService: three connections of one address and    *)
(* one or two without an address.                                          *)
EXTENDS AnalyseService, TLC

CONSTANTS a1, a2, a3, n1, n2, home

MCAddressOf == [c \in Conns |-> IF c \in {a1, a2, a3} THEN home ELSE NoAddress]

Symmetry == Permutations({a1, a2, a3}) \cup Permutations({n1, n2} \cap Conns)
                \cup Permutations(Analysers)
=============================================================================
