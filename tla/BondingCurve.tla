---------------------------- MODULE BondingCurve ----------------------------
(***************************************************************************)
(* The bonding-curve program (programs/bonding-curve) for one mint: the    *)
(* curve account, the vault that holds the reserve, the lock fees kept on  *)
(* the curve account, the treasury shared by all launches, the global      *)
(* config with its admin, and the cluster's slot.  Each action is one      *)
(* instruction; the token burn and mint, and the soul generation a trade   *)
(* calls, belong to other programs (module SolSoul).  The slippage bound   *)
(* of a trade only rejects and is left out.                                *)
(***************************************************************************)
EXTENDS CurveMath

CONSTANTS
  Admins,         \* signers of the administrative instructions
  Deployer,       \* the upgrade authority of the program
  NoAdmin,        \* the all-zero authority left by renounce_admin
  SolAmounts,     \* SOL a buyer may offer
  Portions,       \* a sale is total_minted \div p for a p in Portions
  VaultRent,      \* rent-exempt minimum of a data-less account
  LaunchFee,      \* LAUNCH_FEE_LAMPORTS
  RoundingSlack,  \* what the bisection may over-value, in SOL units
  MaxGifts,       \* model bound on SOL sent to the vault by outsiders
  MaxSlot,        \* model bound on the clock
  MaxTreasury     \* model bound on the treasury

ASSUME CurveBounds ==
  /\ SolAmounts \subseteq Nat /\ Portions \subseteq Nat \ {0}
  /\ {VaultRent, LaunchFee, RoundingSlack, MaxGifts, MaxSlot, MaxTreasury} \subseteq Nat
  /\ MaxSlot > 0
  /\ Deployer \in Admins /\ NoAdmin \notin Admins

VARIABLES
  curve,      \* the BondingCurveAccount
  vault,      \* lamports of the vault
  lockFees,   \* lamports of the curve account above its rent
  treasury,   \* lamports of the treasury
  admin,      \* GlobalConfig
  slot        \* Clock::slot

bcVars == <<curve, vault, lockFees, treasury, admin, slot>>

(* initialized; the launch funds both accounts to their rent.              *)
NoCurve == [open |-> FALSE, cumulativeSol |-> 0, totalMinted |-> 0,
            selfDeprecated |-> FALSE, lastSlot |-> 0]
NoConfig == [open |-> FALSE, authority |-> NoAdmin, paused |-> FALSE]

(* Programs run after the genesis slot.                                    *)
Init ==
  /\ curve = NoCurve
  /\ vault = 0 /\ lockFees = 0 /\ treasury = 0
  /\ admin = NoConfig
  /\ slot = 1

-----------------------------------------------------------------------------
(* Administration *)

InitializeGlobalConfig(a) ==
  /\ a = Deployer
  /\ ~admin.open
  /\ admin' = [open |-> TRUE, authority |-> a, paused |-> FALSE]
  /\ UNCHANGED <<curve, vault, lockFees, treasury, slot>>

(* assert_authority: nobody is the authority once it is renounced. *)
IsAuthority(a) == admin.open /\ admin.authority # NoAdmin /\ admin.authority = a

SetPaused(a, paused) ==
  /\ IsAuthority(a)
  /\ admin' = [admin EXCEPT !.paused = paused]
  /\ UNCHANGED <<curve, vault, lockFees, treasury, slot>>

Pause(a) == SetPaused(a, TRUE)
Unpause(a) == SetPaused(a, FALSE)

RenounceAdmin(a) ==
  /\ IsAuthority(a)
  /\ admin' = [admin EXCEPT !.authority = NoAdmin]
  /\ UNCHANGED <<curve, vault, lockFees, treasury, slot>>

(* Amount 0 asks for everything.  The runtime refuses to leave an account  *)
(* below its rent; an emptied treasury is created again by the next launch.*)
WithdrawTreasury(a, amount) ==
  LET taken == IF amount = 0 THEN treasury ELSE amount
  IN /\ treasury > 0
     /\ IsAuthority(a)
     /\ taken <= treasury
     /\ treasury - taken = 0 \/ treasury - taken >= VaultRent
     /\ treasury' = treasury - taken
     /\ UNCHANGED <<curve, vault, lockFees, admin, slot>>

-----------------------------------------------------------------------------
(* Launch and trade *)

NotPaused == admin.open /\ ~admin.paused

FundTreasury ==
  /\ treasury + LaunchFee <= MaxTreasury
  /\ treasury' = treasury + LaunchFee

CreateToken ==
  /\ NotPaused
  /\ ~curve.open
  /\ FundTreasury
  /\ curve' = [NoCurve EXCEPT !.open = TRUE]
  /\ vault' = vault + Minus(VaultRent, vault)
  /\ UNCHANGED <<lockFees, admin, slot>>

Unrecorded == vault - curve.cumulativeSol

(* Anybody may send SOL to the vault's address, before the launch too.     *)
GiveToVault ==
  /\ Unrecorded < VaultRent + MaxGifts
  /\ vault' = vault + 1
  /\ UNCHANGED <<curve, lockFees, treasury, admin, slot>>

(* Another mint's launch pays into the same treasury.                      *)
CreateOtherToken ==
  /\ NotPaused
  /\ FundTreasury
  /\ UNCHANGED <<curve, vault, lockFees, admin, slot>>

SelfDeprecatedThreshold == (CurveK * 99) \div 100

ASSUME ThresholdIsPositive == SelfDeprecatedThreshold > 0

(* SameSlotArbitrage *)
FirstInSlot == curve.lastSlot # slot

RecordBuy(solIn, tokenOut) ==
  curve' = [curve EXCEPT
              !.cumulativeSol = @ + solIn,
              !.totalMinted = @ + tokenOut,
              !.selfDeprecated =
                 @ \/ curve.totalMinted + tokenOut >= SelfDeprecatedThreshold,
              !.lastSlot = slot]

Buy(sol) ==
  LET net == sol - LockFee(sol)
      quote == QuoteBuy(curve.cumulativeSol, curve.totalMinted, net)
  IN /\ curve.open /\ NotPaused
     /\ ~curve.selfDeprecated
     /\ FirstInSlot
     /\ quote.ok
     /\ lockFees' = lockFees + LockFee(sol)
     /\ vault' = vault + net
     /\ RecordBuy(net, quote.out)
     /\ UNCHANGED <<treasury, admin, slot>>

RecordSell_SaturatingBug(solOut, tokenIn) ==
  /\ tokenIn <= curve.totalMinted
  /\ curve' = [curve EXCEPT !.cumulativeSol = Minus(@, solOut),
                            !.totalMinted = @ - tokenIn, !.lastSlot = slot]

RecordSell_RevivingBug(solOut, tokenIn) ==
  /\ solOut <= curve.cumulativeSol /\ tokenIn <= curve.totalMinted
  /\ curve' = [curve EXCEPT
                 !.cumulativeSol = @ - solOut, !.totalMinted = @ - tokenIn,
                 !.selfDeprecated =
                    curve.totalMinted - tokenIn >= SelfDeprecatedThreshold,
                 !.lastSlot = slot]

RecordSell_KeepsSupplyBug(solOut, tokenIn) ==
  /\ solOut <= curve.cumulativeSol
  /\ curve' = [curve EXCEPT !.cumulativeSol = @ - solOut, !.lastSlot = slot]

RecordSell_ForgetsSlotBug(solOut, tokenIn) ==
  /\ solOut <= curve.cumulativeSol /\ tokenIn <= curve.totalMinted
  /\ curve' = [curve EXCEPT !.cumulativeSol = @ - solOut, !.totalMinted = @ - tokenIn]

(* Both subtractions are checked: the instruction fails if one underflows, *)
(* although quote_sell saturates the first.                                *)
RecordSell(solOut, tokenIn) ==
  /\ solOut <= curve.cumulativeSol /\ tokenIn <= curve.totalMinted
  /\ curve' = [curve EXCEPT !.cumulativeSol = @ - solOut,
                            !.totalMinted = @ - tokenIn, !.lastSlot = slot]

(* Selling is never deprecated.  The binding of receipts to the seller's   *)
(* balance is SolSoul's.                                                   *)
Sell(tokenIn) ==
  LET quote == QuoteSell(curve.totalMinted, tokenIn)
  IN /\ curve.open /\ NotPaused
     /\ FirstInSlot
     /\ quote.ok
     /\ vault >= quote.out
     /\ vault' = vault - quote.out
     /\ RecordSell(quote.out, tokenIn)
     /\ UNCHANGED <<lockFees, treasury, admin, slot>>

Tick ==
  /\ slot < MaxSlot
  /\ slot' = slot + 1
  /\ UNCHANGED <<curve, vault, lockFees, treasury, admin>>

-----------------------------------------------------------------------------
Administer ==
  \/ \E a \in Admins : InitializeGlobalConfig(a)
  \/ \E a \in Admins : Pause(a)
  \/ \E a \in Admins : Unpause(a)
  \/ \E a \in Admins : RenounceAdmin(a)
  \/ \E a \in Admins, amount \in 0 .. MaxTreasury : WithdrawTreasury(a, amount)

Trade ==
  \/ \E sol \in SolAmounts : Buy(sol)
  \/ \E p \in Portions : Sell(curve.totalMinted \div p)

Next ==
  \/ Administer
  \/ CreateToken
  \/ CreateOtherToken
  \/ GiveToVault
  \/ Trade
  \/ Tick

Spec == Init /\ [][Next]_bcVars

-----------------------------------------------------------------------------
(* Properties *)

(* The accounts hold values of their declared shape, and the curve never   *)
(* mints more than its cap of 21 million tokens (curve_cap_remains...).    *)
TypeOK ==
  /\ curve \in [open : BOOLEAN, cumulativeSol : Nat, totalMinted : 0 .. CurveK,
                selfDeprecated : BOOLEAN, lastSlot : 0 .. MaxSlot]
  /\ vault \in Nat /\ lockFees \in Nat /\ treasury \in 0 .. MaxTreasury
  /\ admin \in [open : BOOLEAN, authority : Admins \cup {NoAdmin},
                 paused : BOOLEAN]
  /\ slot \in 1 .. MaxSlot

(* The vault always holds the recorded reserve on top of its rent.  sell   *)
(* compares its quote with all of the vault's lamports, rent and gifts      *)
(* included, so only the checked subtraction in record_sell keeps what it   *)
(* pays within the reserve.                                                 *)
VaultHoldsReserve ==
  curve.open => vault >= VaultRent + curve.cumulativeSol

(* Whatever the order of trades, what the curve would pay for all tokens   *)
(* in circulation exceeds the reserve by no more than the rounding of one  *)
(* bisection: the error of a sale does not accumulate.                     *)
ReserveCoversSupply ==
  CurveS * CurveArgument(curve.totalMinted)
    <= Scale * (curve.cumulativeSol + RoundingSlack)

(* The curve is deprecated as long as its supply is at or above 99 %.      *)
DeprecatedAboveThreshold ==
  curve.totalMinted >= SelfDeprecatedThreshold => curve.selfDeprecated

(* A deprecated curve stays deprecated and never mints again, also when    *)
(* holders have sold the supply far below the threshold.                   *)
NoMintAfterDeprecation ==
  [][curve.selfDeprecated =>
       /\ curve'.selfDeprecated
       /\ curve'.totalMinted <= curve.totalMinted]_bcVars

(* Renouncing freezes the config for good and locks the treasury in.       *)
RenouncedIsFrozen ==
  [][admin.open /\ admin.authority = NoAdmin =>
       admin' = admin /\ treasury' >= treasury]_bcVars

(* docs/bonding-curve.md:134: "Sells still work - holders can exit into    *)
(* the vault".  A sale the curve quotes should go through; in the code the *)
(* last holder's quote may exceed the recorded reserve by the rounding of  *)
(* the bisection, and the checked subtraction then rejects the sale.       *)
QuotedExitsSettle ==
  \A p \in Portions :
    LET quote == QuoteSell(curve.totalMinted, curve.totalMinted \div p)
    IN quote.ok => quote.out <= curve.cumulativeSol

=============================================================================
