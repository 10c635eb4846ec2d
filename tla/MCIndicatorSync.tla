----------------------------- MODULE MCIndicatorSync -----------------------------
(***************************************************************************)
(* An instance of IndicatorSync for TLC: the worker and the script, and    *)
(* two of the providers with a code each.                                  *)
(***************************************************************************)
EXTENDS IndicatorSync

CONSTANTS w, s, ecb, fred, usdKrw, brent

MCProviders == <<ecb, fred>>
MCCodesOf == [p \in {ecb, fred} |-> IF p = ecb THEN {usdKrw} ELSE {brent}]
=============================================================================
