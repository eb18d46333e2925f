---------------------------- MODULE MCSupportCache ----------------------------
(***************************************************************************)
(* Instances of SupportCache small enough for TLC.                         *)
(***************************************************************************)
EXTENDS SupportCache, TLC

CONSTANTS q1, q2, tempo, solana

\* Challenges differ in nothing, nor do chains.
Alike == Permutations({q1, q2}) \cup Permutations({tempo, solana})
===============================================================================
