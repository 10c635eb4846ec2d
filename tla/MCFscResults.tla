----------------------------- MODULE MCFscResults -----------------------------
(* Small instances of FscResults for TLC. *)
EXTENDS FscResults, TLC

CONSTANTS c1, c2

\* The requests are interchangeable.
MCSymmetry == Permutations({c1, c2})

===============================================================================
