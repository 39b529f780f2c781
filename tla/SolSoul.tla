------------------------------- MODULE SolSoul -------------------------------
(***************************************************************************)
(* The programs together, for one launched mint: transactions whose        *)
(* instructions call the bonding curve, the soul generator and Token-2022, *)
(* whose transfers run the transfer hook (programs/transfer-hook).         *)
(*                                                                         *)
(* A transaction is opened, runs instructions one at a time and is then    *)
(* committed or aborted; an aborted one leaves no trace.  A settlement     *)
(* looks ahead in its transaction for the movement that justifies it: here *)
(* it leaves the movement owed, and the transaction commits only when      *)
(* nothing is owed.  Only one transaction touches the mint's accounts at a *)
(* time, as the runtime locks the accounts a transaction writes.           *)
(***************************************************************************)
EXTENDS Integers, Sequences, FiniteSets, FiniteSetsExt

CONSTANTS
  Wallets, Nobody, Quantum, MaxClaims, MaxGeneration, Balances, TokenAmounts,
  Scale, MaxExpX, ExpNegInt, Rounds, CurveS, CurveK, MaxBuySol,
  Admins, Deployer, NoAdmin, SolAmounts, Portions, VaultRent, LaunchFee,
  RoundingSlack, MaxGifts, MaxSlot, MaxTreasury,
  MoveAmounts,   \* token amounts a sale, transfer, burn or settlement may name
  MaxSteps,      \* model bound on the instructions of a transaction
  MaxBurned      \* model bound on the tokens a wallet burns by itself

ASSUME Quantities ==
  /\ Quantum \in Nat \ {0} /\ {MaxClaims, MaxGeneration} \subseteq Nat
  /\ MoveAmounts \subseteq Nat

(* Any number of wallets, so that what they hold together is a number.     *)
ASSUME FinitelyMany == IsFiniteSet(Wallets)

ASSUME Curve ==
  /\ {Scale, CurveS, CurveK, MaxBuySol} \subseteq Nat \ {0}
  /\ {MaxExpX, Rounds} \subseteq Nat
  /\ MaxExpX < 5 * Scale
  /\ ExpNegInt \in [0 .. 4 -> 0 .. Scale]

(* As in BondingCurve. *)
ASSUME Bounds ==
  /\ SolAmounts \subseteq Nat /\ Portions \subseteq Nat \ {0}
  /\ {VaultRent, LaunchFee, RoundingSlack, MaxGifts, MaxSlot, MaxTreasury} \subseteq Nat
  /\ MaxSlot > 0
  /\ Deployer \in Admins /\ NoAdmin \notin Admins

VARIABLES
  soul, receipts, registry, config, events,            \* soul-generator
  curve, vault, lockFees, treasury, admin, slot,       \* bonding-curve
  tok,      \* Token-2022 balances of the mint's token accounts
  burned,   \* tokens each wallet burned with Token-2022 itself
  tx        \* the transaction in progress

G == INSTANCE SoulGenerator
B == INSTANCE BondingCurve

ASSUME Threshold == B!SelfDeprecatedThreshold > 0

(* As in SoulGenerator. *)
ASSUME NobodyIsNoWallet == Nobody \notin Wallets

chain == <<soul, receipts, registry, config, events,
           curve, vault, lockFees, treasury, admin, slot, tok, burned>>
vars == <<chain, tx>>

Owner(account) == account[1]

(* The accounts the instructions below may write, restored by an abort.    *)
Written == [soul |-> soul, receipts |-> receipts, registry |-> registry,
            events |-> events, curve |-> curve, vault |-> vault,
            lockFees |-> lockFees, tok |-> tok, burned |-> burned]

(* owed: movements a settlement still waits for; debited: wallets that     *)
(* have sold or transferred in the transaction (a history variable).       *)
Tx(open) == [open |-> open, steps |-> 0, owed |-> {}, debited |-> {},
             saved |-> Written]

(* What the launch leaves behind (create_token, initialize_soul, both      *)
(* configs created and live); the modules of the programs explore these.   *)
Launched ==
  /\ \E w \in Wallets : soul = [G!SoulInit EXCEPT !.open = TRUE, !.authority = w]
  /\ receipts = [s \in G!ClaimSequences |-> G!NoReceipt]
  /\ registry = [w \in Wallets |-> G!NoRegistry]
  /\ config = "live"
  /\ events = {}
  /\ curve = [B!NoCurve EXCEPT !.open = TRUE]
  /\ vault = VaultRent /\ lockFees = 0 /\ treasury = LaunchFee
  /\ admin = [open |-> TRUE, authority |-> Deployer, paused |-> FALSE]
  /\ slot = 1
  /\ tok = [a \in G!Accounts |-> 0]
  /\ burned = [w \in Wallets |-> 0]
  /\ tx = Tx(FALSE)

-----------------------------------------------------------------------------
(* Transactions *)

Begin ==
  /\ ~tx.open
  /\ tx' = Tx(TRUE)
  /\ UNCHANGED chain

Commit_UnpaidBug ==
  /\ tx.open /\ tx.steps > 0
  /\ tx' = Tx(FALSE)
  /\ UNCHANGED chain

Commit ==
  /\ tx.open /\ tx.steps > 0
  /\ tx.owed = {}
  /\ tx' = Tx(FALSE)
  /\ UNCHANGED chain

(* Any instruction may fail, a settlement's missing movement included.     *)
Abort ==
  /\ tx.open
  /\ soul' = tx.saved.soul /\ receipts' = tx.saved.receipts
  /\ registry' = tx.saved.registry /\ events' = tx.saved.events
  /\ curve' = tx.saved.curve /\ vault' = tx.saved.vault
  /\ lockFees' = tx.saved.lockFees
  /\ tok' = tx.saved.tok /\ burned' = tx.saved.burned
  /\ tx' = [tx EXCEPT !.open = FALSE, !.steps = 0, !.owed = {}, !.debited = {}]
  /\ UNCHANGED <<config, treasury, admin, slot>>

(* The clock of the cluster; a transaction runs within one slot.           *)
Tick ==
  /\ ~tx.open
  /\ B!Tick
  /\ UNCHANGED <<soul, receipts, registry, config, events, tok, burned, tx>>

Running == tx.open /\ tx.steps < MaxSteps

Movement(account, amount) == [account |-> account, amount |-> amount]

Step == Running /\ tx' = [tx EXCEPT !.steps = @ + 1]

(* A sale or transfer out of an account, which settles what was owed.      *)
MovingStep(account, amount) ==
  /\ Running
  /\ tx' = [tx EXCEPT !.steps = @ + 1, !.owed = @ \ {Movement(account, amount)},
                      !.debited = @ \cup {Owner(account)}]

OwingStep(account, amount) ==
  /\ Running
  /\ tx' = [tx EXCEPT !.steps = @ + 1, !.owed = @ \cup {Movement(account, amount)}]

-----------------------------------------------------------------------------
(* Instructions *)

(* The buyer names any token account of the mint to receive the tokens.    *)
Buy(w, account, sol) ==
  LET net == sol - B!LockFee(sol)
      out == B!QuoteBuy(curve.cumulativeSol, curve.totalMinted, net).out
  IN /\ Step
     /\ B!Buy(sol)
     /\ tok' = [tok EXCEPT ![account] = @ + out]
     /\ G!GenerateSoul("buy", w, account, out)
     /\ UNCHANGED burned

SellBinding_CanonicalOnlyBug(account, amount) ==
  G!CrossedDown(tok[account], amount) > 0 => account = G!Ata(Owner(account))

(* A sale that gives up whole units must come from the canonical account,  *)
(* and the units left must still cover the active receipts.  A seller      *)
(* without a registry has no receipts.                                     *)
SellBinding(account, amount) ==
  G!CrossedDown(tok[account], amount) > 0 =>
    /\ account = G!Ata(Owner(account))
    /\ registry[Owner(account)].active <= G!PostUnits(tok[account], amount)

(* The seller may leave the Soul accounts out; then nothing is generated.  *)
Sell(account, amount, withSoul) ==
  /\ MovingStep(account, amount)
  /\ G!Debits(tok[account], amount)
  /\ SellBinding(account, amount)
  /\ B!Sell(amount)
  /\ tok' = [tok EXCEPT ![account] = @ - amount]
  /\ IF withSoul THEN G!GenerateSoul("sell", Owner(account), account, 0)
                 ELSE UNCHANGED <<soul, receipts, registry, config, events>>
  /\ UNCHANGED burned

(* The transfer hook judges the source account's own balance; a crossing   *)
(* needs the owner's registry account to exist.                            *)
HookAllows(source, pre, amount) ==
  G!CrossedDown(pre, amount) > 0 =>
    /\ registry[Owner(source)].open
    /\ registry[Owner(source)].active <= G!PostUnits(pre, amount)

(* Token-2022 TransferChecked, signed by the source's owner.               *)
Transfer(source, destination, amount) ==
  /\ MovingStep(source, amount)
  /\ source # destination
  /\ G!Debits(tok[source], amount)
  /\ HookAllows(source, tok[source], amount)
  /\ tok' = [tok EXCEPT ![source] = @ - amount, ![destination] = @ + amount]
  /\ UNCHANGED <<soul, receipts, registry, config, events,
                 curve, vault, lockFees, treasury, admin, slot, burned>>

(* Token-2022 burns without running the hook.                              *)
DirectBurn(account, amount) ==
  /\ Step
  /\ G!Debits(tok[account], amount)
  /\ burned[Owner(account)] + amount <= MaxBurned
  /\ tok' = [tok EXCEPT ![account] = @ - amount]
  /\ burned' = [burned EXCEPT ![Owner(account)] = @ + amount]
  /\ UNCHANGED <<soul, receipts, registry, config, events,
                 curve, vault, lockFees, treasury, admin, slot>>

Claim(w) ==
  /\ Step
  /\ G!ClaimSoul(w, tok[G!Ata(w)])
  /\ UNCHANGED <<curve, vault, lockFees, treasury, admin, slot, tok, burned>>

(* validate_dependent_movement accepts a later sale, or transfer to        *)
(* another account, of the same amount from the same account.              *)
Settle(account, amount, newState, list) ==
  /\ OwingStep(account, amount)
  /\ G!SettleReceipts(Owner(account), tok[account], amount, newState, list)
  /\ UNCHANGED <<curve, vault, lockFees, treasury, admin, slot, tok, burned>>

-----------------------------------------------------------------------------
Amounts(account) == {n \in MoveAmounts \cup {tok[account]} : n > 0}

Next ==
  \/ Begin
  \/ Commit
  \/ Abort
  \/ Tick
  \/ \E w \in Wallets, a \in G!Accounts, sol \in SolAmounts : Buy(w, a, sol)
  \/ \E a \in G!Accounts, withSoul \in BOOLEAN :
       \E n \in Amounts(a) : Sell(a, n, withSoul)
  \/ \E a, b \in G!Accounts : \E n \in Amounts(a) : Transfer(a, b, n)
  \/ \E a \in G!Accounts : \E n \in Amounts(a) : DirectBurn(a, n)
  \/ \E w \in Wallets : Claim(w)
  \/ \E a \in G!Accounts, newState \in G!TerminalStates, list \in G!ReceiptLists :
       \E n \in Amounts(a) : Settle(a, n, newState, list)

Spec == Launched /\ [][Next]_vars

-----------------------------------------------------------------------------
(* Properties *)

(* The hard binding: in every committed state each active receipt is       *)
(* backed by a whole unit in its owner's canonical token account, whatever *)
(* the order in which trades, claims, settlements and transfers were put   *)
(* into transactions - unless the owner burned tokens outside the curve,   *)
(* which no program of the system can refuse.                              *)
ReceiptsBacked ==
  ~tx.open =>
    \A w \in Wallets : burned[w] = 0 =>
      registry[w].active <= G!WholeUnits(tok[G!Ata(w)])

(* The supply the curve prices is the supply that exists, up to tokens     *)
(* burned outside the curve (which stay priced as if outstanding).         *)
SupplyAgrees ==
  curve.totalMinted = MapThenSumSet(LAMBDA a : tok[a], G!Accounts)
                        + MapThenSumSet(LAMBDA w : burned[w], Wallets)

(* No transaction ends receipts without moving its owner's tokens: when a  *)
(* transaction closes, a wallet with more burned or forfeited receipts     *)
(* than before has sold or transferred in it.  The settlement looks ahead  *)
(* in the transaction; nothing in its own effect forces the movement.      *)
Settled(registries, w) == registries[w].burned + registries[w].forfeited

SettlementMovesTokens ==
  [][tx.open /\ ~tx'.open =>
       \A w \in Wallets :
         Settled(registry', w) > Settled(tx.saved.registry, w) => w \in tx.debited]_vars

(* What the soul generator guarantees by itself holds here too, between    *)
(* any two instructions and after any rollback: ladders without gaps,      *)
(* counters that tally, one buy for each claim, one event for each         *)
(* generation.  The trades, balances and amounts it takes on trust are     *)
(* those the other programs really give it.                                *)
SoulsStaySound ==
  G!ReceiptLadder /\ G!RegistryTallies /\ G!ClaimedFromBuy /\ G!OneEventPerGeneration

(* So does what the curve guarantees, with sales of any amount a balance   *)
(* allows: the vault holds the reserve and its rent, and the supply is     *)
(* worth no more than the reserve and one rounding.                        *)
CurveStaysSound == B!VaultHoldsReserve /\ B!ReserveCoversSupply

(* No committed transaction gives a receipt another claimant or boundary,  *)
(* takes it away, or changes it once it is burned or forfeited, however    *)
(* many claims and settlements it is put together from.                    *)
CommittedReceiptsAreFinal ==
  [][tx.open /\ ~tx'.open =>
       \A s \in G!ClaimSequences :
         LET old == tx.saved.receipts[s]
             new == receipts'[s]
         IN old.state # "none" =>
              /\ new.claimant = old.claimant /\ new.boundary = old.boundary
              /\ new.state # "none"
              /\ old.state \in G!TerminalStates => new = old]_vars

(* The ledger of BoundUnits, as the last closed transaction left it.       *)
Closed == IF tx.open THEN tx.saved ELSE Written

Total(f) == MapThenSumSet(LAMBDA w : f[w], Wallets)

ClosedHeld == [w \in Wallets |-> G!WholeUnits(Closed.tok[G!Ata(w)])]
ClosedBound == [w \in Wallets |-> Closed.registry[w].active]
ClosedRetired == [w \in Wallets |-> Settled(Closed.registry, w)]
ClosedIssued == Total(ClosedBound) + Total(ClosedRetired)
ClosedTraded == Closed.soul.generation
ClosedClaimed == Closed.soul.claimCount
ClosedOutside == {w \in Wallets : Closed.burned[w] > 0}

L == INSTANCE BoundUnits WITH
       held <- ClosedHeld, bound <- ClosedBound, retired <- ClosedRetired,
       issued <- ClosedIssued, traded <- ClosedTraded, claimed <- ClosedClaimed,
       outside <- ClosedOutside

(* Whatever instructions a transaction is put together from and wherever   *)
(* it is rolled back, the programs move that ledger in single transactions *)
(* of BoundUnits: no trade yields two Souls, a retired Soul stays retired, *)
(* and a bound one has a unit.                                             *)
ImplementsBoundUnits == L!Spec

=============================================================================
