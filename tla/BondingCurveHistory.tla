------------------------- MODULE BondingCurveHistory -------------------------
(***************************************************************************)
(* BondingCurve with a history variable: the trades that went through in   *)
(* the current slot, counted as they happen.  No guard reads it, so it     *)
(* says what the curve did independently of the slot the curve account     *)
(* remembers.                                                              *)
(***************************************************************************)
EXTENDS BondingCurve

VARIABLE trades   \* buys and sells that went through since the last Tick

historyVars == <<bcVars, trades>>

HistoryInit == Init /\ trades = 0

HistoryNext ==
  \/ Trade /\ trades' = trades + 1
  \/ Tick /\ trades' = 0
  \/ (Administer \/ CreateToken \/ CreateOtherToken \/ GiveToVault) /\ UNCHANGED trades

HistorySpec == HistoryInit /\ [][HistoryNext]_historyVars

-----------------------------------------------------------------------------
(* Properties *)

(* At most one trade of the curve goes through in a slot, buys and sells   *)
(* counted together: every trade that does has to leave its slot behind    *)
(* for the guard of the next.                                              *)
OneTradePerSlot == trades <= 1

=============================================================================
