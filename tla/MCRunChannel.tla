---------------------------- MODULE MCRunChannel ----------------------------
(* TLC instances of RunChannel: two runs, the second over what the first     *)
(* left in the memory they share, and lines of two lengths.                  *)
EXTENDS RunChannel

MCLines == {<<1>>, <<2, 2>>}

\* The steps of a page the reader has been hasty with are not followed: the
\* properties of RunChannel.cfg excuse them, and the page that is loaded next
\* keeps nothing of them but how many runs were started.
Unhurried == ~hasty
=============================================================================
