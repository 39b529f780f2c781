---------------------------- MODULE SoulGenerator ----------------------------
(***************************************************************************)
(* The soul-generator program for one mint (programs/soul-generator): the  *)
(* Soul account with its generation counter and provenance, the claim      *)
(* receipts, one receipt registry per wallet, and the program's pause      *)
(* switch.  Each action is one instruction; the token balances it reads    *)
(* and the movement that must accompany a settlement belong to other       *)
(* programs and are parameters here (module SolSoul supplies them).        *)
(*                                                                         *)
(* Receipt boundaries are kept as an index: boundary b stands for the      *)
(* balance b * Quantum, the value the accounts store.                      *)
(*                                                                         *)
(* A definition named X_Bug is X with a plausible mistake.  No action uses *)
(* one: they stand in for X to test that a property can fail.              *)
(***************************************************************************)
EXTENDS Boundary, Sequences, FiniteSets

CONSTANTS
  Wallets,        \* signers that trade, claim and settle
  Nobody,         \* stands for "no address"
  MaxClaims,      \* MAX_SOUL_NFT_CLAIMS
  MaxGeneration,  \* model bound on the generation counter
  Balances,       \* balances a token account may show to an instruction
  TokenAmounts    \* token amounts a trade may carry

ASSUME ClaimBounds == MaxClaims \in Nat /\ MaxGeneration \in Nat
ASSUME AmountBounds == Balances \subseteq Nat /\ TokenAmounts \subseteq Nat
ASSUME NobodyIsNoWallet == Nobody \notin Wallets

(* Every wallet owns its canonical associated token account and may own    *)
(* other token accounts of the same mint; one of those is enough.          *)
Accounts == Wallets \X {"ata", "aux"}
Ata(w) == <<w, "ata">>
NoAccount == <<Nobody, "aux">>

ClaimSequences == 0 .. MaxClaims - 1
ReceiptStates == {"none", "active", "burned", "forfeited"}
TerminalStates == {"burned", "forfeited"}

(* last_svg: empty, painted by a preview, or painted by a generation.      *)
NoPicture == -1
PreviewPicture == 0

VARIABLES
  soul,      \* the Soul account
  receipts,  \* claim + receipt PDAs, by claim sequence
  registry,  \* receipt registries, by claimant
  config,    \* soul-generator GlobalConfig: "none", "paused" or "live"
  events     \* generation events emitted so far

sgVars == <<soul, receipts, registry, config, events>>

NoProvenance ==
  [generation |-> 0, side |-> "none", trader |-> Nobody,
   account |-> NoAccount, tokens |-> 0]

SoulInit ==
  [open |-> FALSE, authority |-> Nobody, generation |-> 0, picture |-> NoPicture,
   claimCount |-> 0, renderer |-> "builtin", provenance |-> NoProvenance]

NoReceipt == [claimant |-> Nobody, boundary |-> 0, state |-> "none"]
NoRegistry == [open |-> FALSE, active |-> 0, burned |-> 0, forfeited |-> 0]

Init ==
  /\ soul = SoulInit
  /\ receipts = [s \in ClaimSequences |-> NoReceipt]
  /\ registry = [w \in Wallets |-> NoRegistry]
  /\ config = "none"
  /\ events = {}

-----------------------------------------------------------------------------
(* Soul account and generation *)

NotPaused == config = "live"

InitializeSoul(w) ==
  /\ ~soul.open
  /\ soul' = [soul EXCEPT !.open = TRUE, !.authority = w]
  /\ UNCHANGED <<receipts, registry, config, events>>

(* The style parameters may name a renderer outside the built-in namespace. *)
UploadTemplate(w, renderer) ==
  /\ soul.open /\ NotPaused
  /\ soul.authority = w
  /\ soul' = [soul EXCEPT !.renderer = renderer]
  /\ UNCHANGED <<receipts, registry, config, events>>

(* A community renderer needs its registry entry, its program and a render *)
(* buffer owned by soul-generator among the accounts.  A bonding-curve CPI *)
(* passes none of them, and no instruction of the program creates the      *)
(* buffer, so a direct caller cannot supply one either.                    *)
RenderBufferExists == FALSE
Renders(layout) ==
  \/ soul.renderer = "builtin"
  \/ layout = "withRenderer" /\ RenderBufferExists

TradeProvenance_StaleBug(side, trader, account, tokens) ==
  [generation |-> soul.generation, side |-> side, trader |-> trader,
   account |-> account, tokens |-> IF side = "buy" THEN tokens ELSE 0]

TradeProvenance(side, trader, account, tokens) ==
  [generation |-> soul.generation + 1, side |-> side, trader |-> trader,
   account |-> account, tokens |-> IF side = "buy" THEN tokens ELSE 0]

(* generate_soul called by the bonding curve (its curve PDA signs).  The   *)
(* program checks neither the trader's signature nor that the trader owns  *)
(* the token account: it records what the caller passes.                   *)
GenerateSoul(side, trader, account, tokens) ==
  LET next == TradeProvenance(side, trader, account, tokens)
  IN /\ soul.open /\ NotPaused
     /\ Renders("trade")
     /\ soul.generation < MaxGeneration
     /\ soul' = [soul EXCEPT !.generation = @ + 1, !.picture = soul.generation + 1,
                             !.provenance = next]
     /\ events' = events \cup {next}
     /\ UNCHANGED <<receipts, registry, config>>

(* Anybody may refresh the picture until the first trade.  The event says  *)
(* generation 0, side none; what else it carries is left out.              *)
PreviewSoul ==
  /\ soul.open /\ NotPaused
  /\ \E layout \in {"plain", "withRenderer"} : Renders(layout)
  /\ soul.generation = 0
  /\ soul' = [soul EXCEPT !.picture = PreviewPicture]
  /\ events' = events \cup {NoProvenance}
  /\ UNCHANGED <<receipts, registry, config>>

-----------------------------------------------------------------------------
(* Claims *)

ClaimSequence == soul.generation - 1

Claimable_ReplayBug ==
  /\ soul.picture # NoPicture /\ soul.generation # 0
  /\ ClaimSequence < MaxClaims

(* claim_sequence and the two accounts that must still be empty. *)
Claimable ==
  /\ soul.picture # NoPicture /\ soul.generation # 0
  /\ soul.claimCount < soul.generation
  /\ ClaimSequence < MaxClaims
  /\ receipts[ClaimSequence].state = "none"

BoughtBy_AnyAccountBug(w) ==
  /\ soul.provenance.side = "buy"
  /\ soul.provenance.generation = soul.generation
  /\ soul.provenance.tokens >= Quantum
  /\ soul.provenance.trader = w

(* assert_claim_provenance *)
BoughtBy(w) ==
  /\ soul.provenance.side = "buy"
  /\ soul.provenance.generation = soul.generation
  /\ soul.provenance.tokens >= Quantum
  /\ soul.provenance.trader = w
  /\ soul.provenance.account = Ata(w)

(* min_claim_balance never leaves its initial value, so the effective      *)
(* bound quantity is the quantum.  The whole-unit capacity also implies    *)
(* the balance check that precedes it.                                     *)
HasCapacity(w, balance) ==
  /\ balance >= Quantum
  /\ registry[w].active < WholeUnits(balance)

ClaimSoul(w, balance) ==
  /\ soul.open /\ NotPaused
  /\ Claimable
  /\ BoughtBy(w)
  /\ HasCapacity(w, balance)
  /\ receipts' = [receipts EXCEPT ![ClaimSequence] =
                    [claimant |-> w, boundary |-> registry[w].active + 1,
                     state |-> "active"]]
  /\ registry' = [registry EXCEPT ![w].open = TRUE, ![w].active = @ + 1]
  /\ soul' = [soul EXCEPT !.claimCount = soul.generation]
  /\ UNCHANGED <<config, events>>

-----------------------------------------------------------------------------
(* Settlement *)

RequiredCount(w, post) ==
  IF registry[w].active > post THEN registry[w].active - post ELSE 0

ListMatches_ForeignBug(w, post, preUnits, list) ==
  \A i \in DOMAIN list :
     /\ receipts[list[i]].state = "active"
     /\ receipts[list[i]].boundary > post
     /\ receipts[list[i]].boundary <= preUnits
     /\ receipts[list[i]].boundary = post + Len(list) - (i - 1)

ListMatches_SettledBug(w, post, preUnits, list) ==
  \A i \in DOMAIN list :
     /\ \A j \in DOMAIN list : i # j => list[i] # list[j]
     /\ receipts[list[i]].claimant = w
     /\ receipts[list[i]].boundary > post
     /\ receipts[list[i]].boundary <= preUnits
     /\ receipts[list[i]].boundary = post + Len(list) - (i - 1)

(* validate_receipts: the list is distinct active receipts of w, highest   *)
(* boundary first, covering exactly the units above post.                  *)
ListMatches(w, post, preUnits, list) ==
  \A i \in DOMAIN list :
     /\ \A j \in DOMAIN list : i # j => list[i] # list[j]
     /\ receipts[list[i]].state = "active"
     /\ receipts[list[i]].claimant = w
     /\ receipts[list[i]].boundary > post
     /\ receipts[list[i]].boundary <= preUnits
     /\ receipts[list[i]].boundary = post + Len(list) - (i - 1)

Listed(list) == {list[i] : i \in DOMAIN list}

(* pre is the balance of the token account named in the instruction, any   *)
(* account of w's; amount is the movement that a later instruction of the  *)
(* same transaction must make from it.  Pausing does not stop this.        *)
SettleReceipts(w, pre, amount, newState, list) ==
  LET post == PostUnits(pre, amount)
  IN /\ registry[w].open
     /\ Debits(pre, amount)
     /\ registry[w].active <= WholeUnits(pre)
     /\ Len(list) = RequiredCount(w, post)
     /\ ListMatches(w, post, WholeUnits(pre), list)
     /\ registry' = [registry EXCEPT
                       ![w].active = @ - Len(list),
                       ![w].burned =
                          IF newState = "burned" THEN @ + Len(list) ELSE @,
                       ![w].forfeited =
                          IF newState = "burned" THEN @ ELSE @ + Len(list)]
     /\ receipts' = [s \in ClaimSequences |->
                       IF s \in Listed(list)
                       THEN [receipts[s] EXCEPT !.state = newState]
                       ELSE receipts[s]]
     /\ UNCHANGED <<soul, config, events>>

-----------------------------------------------------------------------------
(* Administration *)

(* The first call creates the config, paused; afterwards the call toggles. *)
Pause ==
  /\ config' = IF config = "paused" THEN "live" ELSE "paused"
  /\ UNCHANGED <<soul, receipts, registry, events>>

Unpause ==
  /\ config # "none"
  /\ config' = "live"
  /\ UNCHANGED <<soul, receipts, registry, events>>

-----------------------------------------------------------------------------
ReceiptLists == UNION {[1 .. n -> ClaimSequences] : n \in 0 .. MaxClaims}

Next ==
  \/ \E w \in Wallets : InitializeSoul(w)
  \/ \E w \in Wallets, r \in {"builtin", "community"} : UploadTemplate(w, r)
  \/ \E side \in {"buy", "sell"}, w \in Wallets, a \in Accounts,
        t \in TokenAmounts : GenerateSoul(side, w, a, t)
  \/ PreviewSoul
  \/ \E w \in Wallets, b \in Balances : ClaimSoul(w, b)
  \/ \E w \in Wallets, pre \in Balances, amount \in Balances,
        newState \in TerminalStates, list \in ReceiptLists :
          SettleReceipts(w, pre, amount, newState, list)
  \/ Pause
  \/ Unpause

Spec == Init /\ [][Next]_sgVars

-----------------------------------------------------------------------------
(* Properties *)

(* The accounts hold values of their declared shape. *)
Provenances ==
  [generation : 0 .. MaxGeneration, side : {"none", "buy", "sell"},
   trader : Wallets \cup {Nobody}, account : Accounts \cup {NoAccount},
   tokens : TokenAmounts \cup {0}]

TypeOK ==
  /\ soul \in [open : BOOLEAN, authority : Wallets \cup {Nobody},
              generation : 0 .. MaxGeneration,
              picture : NoPicture .. MaxGeneration,
              claimCount : 0 .. MaxGeneration,
              renderer : {"builtin", "community"}, provenance : Provenances]
  /\ receipts \in [ClaimSequences -> [claimant : Wallets \cup {Nobody},
                                      boundary : Nat, state : ReceiptStates]]
  /\ registry \in [Wallets -> [open : BOOLEAN, active : Nat, burned : Nat,
                               forfeited : Nat]]
  /\ config \in {"none", "paused", "live"}
  /\ events \subseteq Provenances

ActiveOf(w) ==
  {s \in ClaimSequences : receipts[s].state = "active" /\ receipts[s].claimant = w}

(* The active receipts of a wallet sit on the boundaries 1 .. active, one  *)
(* on each.  Claims add on top and settlements remove from the top, so the *)
(* highest units sold are the ones whose receipts end (settle_receipts and *)
(* the sell-side binding both rely on it).                                 *)
LadderOf(w) ==
  /\ \A s \in ActiveOf(w) : receipts[s].boundary \in 1 .. registry[w].active
  /\ \A s, t \in ActiveOf(w) :
        receipts[s].boundary = receipts[t].boundary => s = t
  /\ \A b \in 1 .. registry[w].active :
        \E s \in ActiveOf(w) : receipts[s].boundary = b

ReceiptLadder == \A w \in Wallets : LadderOf(w)

(* The registry counters agree with the receipt accounts they summarise:   *)
(* the sell path and the transfer hook trust the counter alone.            *)
RegistryTallies ==
  \A w \in Wallets : \A st \in {"active", "burned", "forfeited"} :
    registry[w][st] =
      Cardinality({s \in ClaimSequences :
                     receipts[s].claimant = w /\ receipts[s].state = st})

(* A receipt was claimed for a buy the curve reported: same generation, by *)
(* the claimant, into the claimant's canonical account, of one unit or     *)
(* more.  The claim reads it from the Soul account, which every trade      *)
(* overwrites.                                                             *)
ClaimedFromBuy ==
  \A s \in ClaimSequences : receipts[s].state # "none" =>
    \E e \in events :
      /\ e.generation = s + 1 /\ e.side = "buy"
      /\ e.trader = receipts[s].claimant
      /\ e.account = Ata(receipts[s].claimant)
      /\ e.tokens >= Quantum

(* After the first trade the stored picture is the one that trade painted; *)
(* the claimed NFT embeds it beside the provenance of the trade (the rule  *)
(* marked SEC.A1 in generate_soul).                                        *)
PictureOfLastTrade ==
  soul.generation > 0 =>
    /\ soul.picture = soul.generation
    /\ soul.provenance.generation = soul.generation

(* Each generation up to the counter was announced exactly once; the       *)
(* indexer keys its rows by generation and keeps the first it sees.        *)
OneEventPerGeneration ==
  \A g \in 1 .. MaxGeneration :
    Cardinality({e \in events : e.generation = g})
      = IF g <= soul.generation THEN 1 ELSE 0

(* A receipt, once claimed, keeps its claimant and boundary, and once      *)
(* burned or forfeited it never changes again (a claim may not reuse it).  *)
ReceiptsAreFinal ==
  [][\A s \in ClaimSequences :
       /\ receipts[s].state # "none" =>
            /\ receipts'[s].claimant = receipts[s].claimant
            /\ receipts'[s].boundary = receipts[s].boundary
            /\ receipts'[s].state # "none"
       /\ receipts[s].state \in TerminalStates =>
            receipts'[s] = receipts[s]]_sgVars

=============================================================================
