----------------------------- MODULE MCCellCache -----------------------------
(* TLC instances of CellCache: a session of three cells, one of a single     *)
(* large cell, and one whose first cell no longer compiles, in a cache too   *)
(* small for all of them.                                                    *)
EXTENDS CellCache, TLC

CONSTANTS a1, a2, a3, b1, x1, x2

MCChains == {<<a1, a2>>, <<a1, a2, a3>>, <<b1>>, <<x1, x2>>}

MCSizeOf == [k \in Keys |-> IF k = b1 THEN 2 ELSE 1]

Symmetry == Permutations(Workers)
=============================================================================
