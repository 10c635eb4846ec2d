------------------------------- MODULE MCIngest -------------------------------
(* Small instances of Ingest for TLC. *)
EXTENDS Ingest, TLC

CONSTANTS w1, w2, cli

\* The workers are interchangeable.
MCSymmetry == Permutations({w1, w2})

===============================================================================
