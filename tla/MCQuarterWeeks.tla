----------------------------- MODULE MCQuarterWeeks -----------------------------
(***************************************************************************)
(* Small instances of QuarterWeeks.                                        *)
(***************************************************************************)
EXTENDS QuarterWeeks

MCDailyPrice == [d \in Days |-> 10 + (d % 5)]
MCWeeklyPrice == [s \in Sundays |-> 20 + (s \div 7)]
MCPaths == {<<10, 12, 13>>, <<30, 27, 27>>}
=============================================================================
