---------------------------- MODULE MCWeekKeeper ----------------------------
(***************************************************************************)
(* The markets of the modelled weeks at each threshold.                    *)
(***************************************************************************)
EXTENDS WeekKeeper

WeekMarkets == [window: Windows, threshold: Thresholds]
Offsets == <<1>>

=============================================================================
