---------------------------- MODULE MCPriceKeeper ----------------------------
(***************************************************************************)
(* The markets of one round at two thresholds.                             *)
(***************************************************************************)
EXTENDS PriceKeeper

RoundMarkets == [window: Windows, threshold: Thresholds]
Offsets == <<1>>

=============================================================================
