--------------------------------- MODULE MCWorker ---------------------------------
(***************************************************************************)
(* An instance of Worker for TLC: one provider with one code, the weekly   *)
(* series, a script beside the worker, and a clock from a Friday morning   *)
(* to the Monday after.                                                    *)
(***************************************************************************)
EXTENDS Worker

CONSTANTS w, s, ecb, usdKrw

MCProviders == <<ecb>>
MCCodesOf == [p \in {ecb} |-> {usdKrw}]
MCLag == [c \in {usdKrw} |-> 1]
=============================================================================
