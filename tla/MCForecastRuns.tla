------------------------------ MODULE MCForecastRuns ------------------------------
(* Small instances of ForecastRuns for TLC. *)
EXTENDS ForecastRuns

Use(lag, weight) == [lag |-> lag, weight |-> weight]

\* A week of low prices, one of high prices, and one with a day missing.
Week(first, last, dubai, usdKrw) == [days |-> <<first, last>>, dubai |-> dubai, usdKrw |-> usdKrw]

MCWeekShapes == {Week(100, 100, 100, 100), Week(150, 170, 130, 80), Week(130, 0, 150, 0)}

\* Prices that rise faster and faster, and prices that do not follow the indicators.
MCHistories ==
  {<<Week(100, 100, 100, 100), Week(100, 110, 100, 105), Week(120, 130, 100, 110)>>,
   <<Week(100, 100, 100, 100), Week(100, 100, 140, 80), Week(100, 100, 90, 110)>>,
   <<Week(100, 100, 130, 100), Week(110, 120, 100, 100), Week(100, 100, 120, 90)>>}

MCDubai == {Use(1, 50)}
MCUsdKrw == {Use(1, 30)}
MCCorrection == {Use(2, 50)}

MCPlain == [trend |-> 2, dubai |-> Unused, usdKrw |-> Unused, cap |-> 20, bias |-> Unused, daily |-> Unused]

MCSettings == {[MCPlain EXCEPT !.dubai = Use(1, 50)]}

MCCorrected == {[MCPlain EXCEPT !.dubai = Use(1, 50), !.bias = Use(2, 50), !.daily = Use(2, 50)]}

MCTrends == {2, 3}
MCCaps == {20}

===================================================================================
