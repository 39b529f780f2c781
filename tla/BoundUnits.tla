----------------------------- MODULE BoundUnits -----------------------------
(***************************************************************************)
(* What the programs promise about Souls, transaction by transaction and   *)
(* without saying how: a ledger of whole units and of the Souls bound to   *)
(* them.  A transaction moves units between wallets and the curve as it    *)
(* likes, issues Souls only for trades nobody has claimed before, retires  *)
(* Souls for good, and leaves every bound Soul a whole unit of its own.    *)
(* SolSoul implements this ledger; its transactions run in steps and may   *)
(* be rolled back half-way.                                                *)
(***************************************************************************)
EXTENDS Integers

CONSTANT Wallets

VARIABLES
  held,      \* whole units in each wallet's canonical token account
  bound,     \* Souls bound to units of each wallet
  retired,   \* Souls of each wallet whose unit was given up
  issued,    \* Souls ever bound
  traded,    \* trades the curve has reported
  claimed,   \* the last trade a Soul was issued for
  outside    \* wallets that burned tokens where no program is asked

ledger == <<held, bound, retired, issued, traded, claimed, outside>>

Empty == [w \in Wallets |-> 0]

Init ==
  /\ held = Empty /\ bound = Empty /\ retired = Empty
  /\ issued = 0 /\ traded = 0 /\ claimed = 0
  /\ outside = {}

(* Later trades may be claimed before earlier ones, never the reverse.     *)
Issues(n) ==
  /\ issued' = issued + n
  /\ traded' >= traded
  /\ claimed' \in claimed + n .. traded'

Retires == \A w \in Wallets : retired'[w] >= retired[w]

Covers == \A w \in Wallets \ outside' : bound'[w] <= held'[w]

Transact ==
  /\ held' \in [Wallets -> Nat] /\ bound' \in [Wallets -> Nat]
  /\ retired' \in [Wallets -> Nat] /\ traded' \in Nat
  /\ outside' \in SUBSET Wallets /\ outside \subseteq outside'
  /\ Retires /\ Covers
  /\ \E n \in 0 .. traded' : Issues(n)

Spec == Init /\ [][Transact]_ledger

=============================================================================
