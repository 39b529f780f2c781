----------------------------- MODULE TokenPanel -----------------------------
(***************************************************************************)
(* The token page of the web application (app/src/components/              *)
(* TokenSoulPanel.tsx and ClaimButton.tsx, the submit functions under      *)
(* app/src/lib and the wallet calls of the SDK) against the chain.         *)
(*                                                                         *)
(* Every await of the code is a point where the chain and the other        *)
(* callbacks of the page go on: the page reads balances and receipts,      *)
(* keeps them, computes a settlement from what it kept or reads again, has *)
(* the wallet sign it and waits for a confirmation that may not come.  The *)
(* chain is the part of SolSoul the page can tell apart: whole units, the  *)
(* receipts bound to them, and which transactions the programs accept.     *)
(***************************************************************************)
EXTENDS Boundary, Sequences, FiniteSets, FiniteSetsExt, Functions

CONSTANTS
  Wallets,        \* wallets the browser may connect, and other traders
  Holder,         \* the wallet connected when the page is loaded
  Nobody,         \* no wallet, no claimant, no trader
  BuyAmounts,     \* base units a buy may bring
  Amounts,        \* base units a sale or transfer may name
  Recipients,     \* wallets a transfer may name
  Bought,         \* units the holder may have bought before
  MaxGeneration,  \* model bound on the trades of the mint
  MaxMoves,       \* model bound on the operations started in the page and
                  \* the transactions from outside it, together
  MaxSwitches     \* model bound on changes of the connected wallet

ASSUME PanelBounds ==
  /\ MaxGeneration \in Nat /\ MaxMoves \in Nat
  /\ BuyAmounts \cup Amounts \subseteq Nat
  /\ Holder \in Wallets /\ Recipients \subseteq Wallets
  /\ Bought \subseteq 1 .. MaxGeneration

VARIABLES
  soul, receipts, opened, tok, outside,           \* the chain
  wallet, switches,                               \* the connected wallet
  shown, balances, receiptState, reads,           \* what the page has loaded
  clicks, op,                                     \* one operation per button
  sent                                            \* signed transactions by click

chain == <<soul, receipts, opened, tok, outside>>
page == <<wallet, switches, shown, balances, receiptState, reads>>
vars == <<chain, page, clicks, op, sent>>

Kinds == {"buy", "sell", "transfer", "claim"}
Clicks == 1 .. MaxMoves
Ids == 0 .. MaxGeneration - 1          \* a receipt is named by its sequence
Accounts == Wallets \X {"ata", "extra"}
Ata(w) == <<w, "ata">>
AccountsOf(w) == {Ata(w), <<w, "extra">>}
NoAccount == <<Nobody, "ata">>

NoRegistry == -1
NoReceipt == [claimant |-> Nobody, boundary |-> 0, active |-> FALSE]

Units(account) == WholeUnits(tok[account])
Owned(w) == {id \in Ids : receipts[id].active /\ receipts[id].claimant = w}
Active(w) == Cardinality(Owned(w))

(* Receipts that have no unit left under them.                             *)
Required(active, post) == IF active > post THEN active - post ELSE 0

-----------------------------------------------------------------------------
(* Transactions and what the programs make of them *)

(* list: receipts to settle, in order; sequence: the one whose receipt     *)
(* account a claim names; seen: the preview the user had, if any.          *)
NoTx == [kind |-> "none", wallet |-> Nobody, source |-> NoAccount, to |-> Nobody,
         amount |-> 0, list |-> <<>>, sequence |-> 0, seen |-> {}, fate |-> "unsent"]

(* settle_receipts.rs: the units given up take the top receipts with them. *)
SettlementAccepted(t) ==
  LET post == PostUnits(tok[t.source], t.amount)
  IN /\ t.wallet \in opened
     /\ Active(t.wallet) <= Units(t.source)
     /\ Len(t.list) = Required(Active(t.wallet), post)
     /\ \A i \in DOMAIN t.list :
          /\ t.list[i] \in Owned(t.wallet)
          /\ receipts[t.list[i]].boundary = post + Len(t.list) + 1 - i

(* Receipts left after the transaction's own settlement.                   *)
ActiveAfter(t) == Active(t.wallet) - Len(t.list)

(* The curve's mint and burn, and the hook of a transfer, judge a crossing *)
(* of whole units by the receipts the owner is left with.                  *)
DebitAccepted(t) ==
  /\ Debits(tok[t.source], t.amount)
  /\ t.list # <<>> => SettlementAccepted(t)
  /\ CrossedDown(tok[t.source], t.amount) > 0 =>
       /\ t.kind = "sell" => t.source = Ata(t.wallet)
       /\ t.kind = "transfer" => t.wallet \in opened
       /\ ActiveAfter(t) <= PostUnits(tok[t.source], t.amount)

(* claim_soul.rs: the receipt account is that of the generation claimed,   *)
(* which a qualifying buy of the claimer has made and nobody has claimed.  *)
ClaimAccepted(t, made, balance) ==
  /\ t.sequence = made.generation - 1
  /\ made.claimCount < made.generation
  /\ made.side = "buy" /\ made.trader = t.wallet /\ made.whole
  /\ Active(t.wallet) < WholeUnits(balance)

(* "buy" issues the receipt of its own generation in the same transaction, *)
(* "swap" is a buy from outside the page that leaves the claim for later.  *)
Buys(t) == t.kind \in {"buy", "swap"}
Generates(t) == Buys(t) \/ t.kind = "sell"
Claims(t) == t.kind \in {"buy", "claim"}

Traded(t) ==
  IF Generates(t)
  THEN [soul EXCEPT !.generation = @ + 1, !.side = IF Buys(t) THEN "buy" ELSE "sell",
                    !.trader = t.wallet, !.whole = Buys(t) /\ t.amount >= Quantum]
  ELSE soul

(* What the claim of the same transaction finds in the associated account. *)
Received(t) ==
  tok[Ata(t.wallet)] + (IF t.source = Ata(t.wallet) THEN t.amount ELSE 0)

Accepted(t) ==
  CASE t.kind = "buy" -> ClaimAccepted(t, Traded(t), Received(t))
    [] t.kind = "swap" -> TRUE
    [] t.kind = "claim" -> ClaimAccepted(t, soul, tok[Ata(t.wallet)])
    [] t.kind = "sell" -> DebitAccepted(t)
    [] t.kind = "transfer" -> DebitAccepted(t) /\ t.source # Ata(t.to)

Executed(t) ==
  /\ Generates(t) => soul.generation < MaxGeneration
  /\ tok' = CASE Buys(t) -> [tok EXCEPT ![t.source] = @ + t.amount]
              [] t.kind = "sell" -> [tok EXCEPT ![t.source] = @ - t.amount]
              [] t.kind = "transfer" ->
                   [tok EXCEPT ![t.source] = @ - t.amount, ![Ata(t.to)] = @ + t.amount]
              [] t.kind = "claim" -> tok
  /\ soul' = IF Claims(t) THEN [Traded(t) EXCEPT !.claimCount = Traded(t).generation]
                          ELSE Traded(t)
  /\ receipts' =
       IF Claims(t)
       THEN [receipts EXCEPT ![t.sequence] =
               [claimant |-> t.wallet, boundary |-> Active(t.wallet) + 1, active |-> TRUE]]
       ELSE [id \in Ids |-> [receipts[id] EXCEPT !.active = @ /\ id \notin Range(t.list)]]
  /\ opened' = IF Claims(t) THEN opened \cup {t.wallet} ELSE opened

-----------------------------------------------------------------------------
(* What the page reads, and the settlement it works out *)

Registry(w) == IF w \in opened THEN Active(w) ELSE NoRegistry

Candidates(w) == Restrict(receipts, Owned(w))

(* A wallet that never claimed has no registry: the candidates count.      *)
ActiveCount(registry, found) ==
  IF registry = NoRegistry THEN Cardinality(DOMAIN found) ELSE registry

(* The associated account if it holds enough, else the other one.          *)
SourceFor(held, amount) ==
  LET enough == {a \in DOMAIN held : held[a] >= amount}
      first == {a \in enough : a[2] = "ata"}
  IN IF first # {} THEN first ELSE enough

MatchingAt_AnyClaimantBug(owner, found, boundary) ==
  {id \in DOMAIN found : found[id].boundary = boundary}

MatchingAt(owner, found, boundary) ==
  {id \in DOMAIN found : found[id].claimant = owner /\ found[id].boundary = boundary}

SelectedReceipts_AscendingBug(owner, post, required, found) ==
  [i \in 1 .. required |-> CHOOSE id \in MatchingAt(owner, found, post + i) : TRUE]

SelectedReceipts(owner, post, required, found) ==
  [i \in 1 .. required |->
     CHOOSE id \in MatchingAt(owner, found, post + required + 1 - i) : TRUE]

(* selectSettlementReceipts throws when a boundary has no receipt.         *)
CanSettle(owner, post, required, found) ==
  \A boundary \in post + 1 .. post + required : MatchingAt(owner, found, boundary) # {}

Settlement(owner, source, balance, amount, active, found) ==
  LET post == PostUnits(balance, amount)
      required == Required(active, post)
      possible == CanSettle(owner, post, required, found)
  IN [possible |-> possible, source |-> source, held |-> balance,
      active |-> active, post |-> post,
      list |-> IF possible THEN SelectedReceipts(owner, post, required, found) ELSE <<>>]

(* The preview of a sale or transfer of an amount; {} when there is none.  *)
Preview(amount) ==
  IF balances.status = "loaded" /\ receiptState.status = "loaded"
  THEN {Settlement(wallet, source, balances.held[source], amount,
                   receiptState.active, receiptState.found)
          : source \in SourceFor(balances.held, amount)}
  ELSE {}

-----------------------------------------------------------------------------
(* Loading: effects of the page and the refreshes after an operation *)

Unloaded(status) == [status |-> status, held |-> <<>>]
NoReceipts(status) == [status |-> status, active |-> 0, found |-> <<>>]

(* by: the operation whose success asked for it, or 0 for the effect of    *)
(* the connected wallet, which is dropped when the wallet changes.         *)
Read(kind, by, w) ==
  [kind |-> kind, by |-> by, wallet |-> w, registry |-> {}, found |-> {}]

ChangeWallet(w) ==
  /\ switches < MaxSwitches /\ w # wallet
  /\ wallet' = w /\ switches' = switches + 1
  /\ LET kept == {r \in reads : r.by # 0}
         status == IF w = Nobody THEN "idle" ELSE "loading"
     IN /\ balances' = Unloaded(status)
        /\ receiptState' = NoReceipts(status)
        /\ reads' = IF w = Nobody THEN kept
                    ELSE kept \cup {Read("balance", 0, w), Read("receipts", 0, w)}
  /\ UNCHANGED <<chain, shown, clicks, op, sent>>

ReadSoul(r) ==
  /\ r \in reads /\ r.kind = "soul"
  /\ shown' = {soul} /\ reads' = reads \ {r}
  /\ UNCHANGED <<chain, wallet, switches, balances, receiptState, clicks, op, sent>>

ReadBalance(r) ==
  /\ r \in reads /\ r.kind = "balance"
  /\ balances' = [status |-> "loaded", held |-> Restrict(tok, AccountsOf(r.wallet))]
  /\ reads' = reads \ {r}
  /\ UNCHANGED <<chain, wallet, switches, shown, receiptState, clicks, op, sent>>

(* The registry and the candidates are asked for together and answered by  *)
(* calls of their own: the second answer loads both.                       *)
Answered(r, registry, found) ==
  IF registry # {} /\ found # {}
  THEN /\ reads' = reads \ {r}
       /\ \E n \in registry, f \in found :
            receiptState' = [status |-> "loaded", active |-> ActiveCount(n, f), found |-> f]
  ELSE /\ reads' = (reads \ {r}) \cup {[r EXCEPT !.registry = registry, !.found = found]}
       /\ UNCHANGED receiptState

ReadReceipts(r) ==
  /\ r \in reads /\ r.kind = "receipts"
  /\ \/ r.registry = {} /\ Answered(r, {Registry(r.wallet)}, r.found)
     \/ r.found = {} /\ Answered(r, r.registry, {Candidates(r.wallet)})
  /\ UNCHANGED <<chain, wallet, switches, shown, balances, clicks, op, sent>>

FailRead(r) ==
  /\ r \in reads /\ reads' = reads \ {r}
  /\ shown' = IF r.kind = "soul" THEN {} ELSE shown
  /\ balances' = IF r.kind = "balance" THEN Unloaded("error") ELSE balances
  /\ receiptState' = IF r.kind = "receipts" THEN NoReceipts("error") ELSE receiptState
  /\ UNCHANGED <<chain, wallet, switches, clicks, op, sent>>

-----------------------------------------------------------------------------
(* Operations *)

NoOp == [phase |-> "idle", click |-> 0, wallet |-> Nobody, amount |-> 0, to |-> Nobody,
         seen |-> {}, registry |-> {}, found |-> {}, source |-> NoAccount, held |-> 0,
         list |-> <<>>, sequence |-> 0]

Busy(kind) == op[kind].phase \notin {"idle", "done", "error"}

SetOp(kind, o) == op' = [op EXCEPT ![kind] = o] /\ UNCHANGED clicks

Start(kind, o) == op' = [op EXCEPT ![kind] = o] /\ clicks' = clicks + 1

(* What the callback captured goes with it when it returns.                *)
Ends(kind, phase) == SetOp(kind, [NoOp EXCEPT !.phase = phase, !.click = op[kind].click])

Fails(kind) == Ends(kind, "error")

Started(kind, amount, phase) ==
  [NoOp EXCEPT !.phase = phase, !.click = clicks + 1, !.wallet = wallet,
               !.amount = amount]

(* The guards every button has; a button is disabled while its own         *)
(* operation runs, and takes no notice of the others.                      *)
MayClick(kind) == wallet # Nobody /\ ~Busy(kind) /\ clicks + outside < MaxMoves

ShownTotal == MapThenSumSet(LAMBDA a : balances.held[a], DOMAIN balances.held)

MayMove(kind, amount) ==
  /\ MayClick(kind)
  /\ balances.status # "loading"
  /\ balances.status = "loaded" => amount <= ShownTotal
  /\ \A seen \in Preview(amount) : seen.possible

(* A click captures what the page holds at that moment; an amount whose    *)
(* receipts are not loaded is settled from reads of its own.               *)
Captured(kind, amount) ==
  LET loaded == receiptState.status = "loaded"
  IN [Started(kind, amount, "discover") EXCEPT
        !.seen = Preview(amount),
        !.registry = IF loaded THEN {receiptState.active} ELSE {},
        !.found = IF loaded THEN {receiptState.found} ELSE {}]

HandleBuy(amount) ==
  /\ MayClick("buy") /\ amount >= Quantum
  /\ Start("buy", [Started("buy", amount, "fetch") EXCEPT !.source = Ata(wallet)])
  /\ UNCHANGED <<chain, page, sent>>

HandleSell(amount) ==
  /\ MayMove("sell", amount)
  /\ Start("sell", Captured("sell", amount))
  /\ UNCHANGED <<chain, page, sent>>

HandleDirectTransfer(amount, to) ==
  /\ MayMove("transfer", amount)
  /\ Start("transfer", [Captured("transfer", amount) EXCEPT !.to = to])
  /\ UNCHANGED <<chain, page, sent>>

(* getClaimDisabledReason, over the soul and the balance shown.            *)
HandleClaim ==
  /\ MayClick("claim")
  /\ \E s \in shown :
       /\ s.claimCount < s.generation
       /\ s.side = "buy" /\ s.trader = wallet /\ s.whole
  /\ balances.status = "loaded" /\ ShownTotal >= Quantum
  /\ Start("claim", Started("claim", 0, "fetch"))
  /\ UNCHANGED <<chain, page, sent>>

(* buyAndAutoClaimSoul and claimSoul read the soul for the sequence.       *)
FetchSequence(kind) ==
  /\ kind \in {"buy", "claim"} /\ op[kind].phase = "fetch"
  /\ SetOp(kind, [op[kind] EXCEPT !.phase = "sign", !.sequence = soul.claimCount])
  /\ UNCHANGED <<chain, page, sent>>

DiscoverSource(kind) ==
  /\ op[kind].phase = "discover"
  /\ LET found == SourceFor(Restrict(tok, AccountsOf(op[kind].wallet)), op[kind].amount)
     IN \/ /\ found = {}
           /\ Fails(kind)
        \/ \E a \in found :
             SetOp(kind, [op[kind] EXCEPT !.phase = "fetch", !.source = a, !.held = tok[a]])
  /\ UNCHANGED <<chain, page, sent>>

Asking(kind) ==
  /\ kind \in {"sell", "transfer"} /\ op[kind].phase = "fetch"
  /\ op[kind].registry = {} \/ op[kind].found = {}

FetchReceipts(kind) ==
  /\ Asking(kind)
  /\ \/ /\ op[kind].registry = {}
        /\ SetOp(kind, [op[kind] EXCEPT !.registry = {Registry(op[kind].wallet)}])
     \/ /\ op[kind].found = {}
        /\ SetOp(kind, [op[kind] EXCEPT !.found = {Candidates(op[kind].wallet)}])
  /\ UNCHANGED <<chain, page, sent>>

AsPreviewed_UncheckedBug(seen, plan) == TRUE

(* assertBoundarySettlementExpectation, when there was a preview.          *)
AsPreviewed(seen, plan) == \A s \in seen : s = plan

ResolveSettlement(kind) ==
  /\ kind \in {"sell", "transfer"} /\ op[kind].phase = "fetch" /\ ~Asking(kind)
  /\ \E n \in op[kind].registry, found \in op[kind].found :
       LET o == op[kind]
           plan == Settlement(o.wallet, o.source, o.held, o.amount,
                              ActiveCount(n, found), found)
           allowed == IF kind = "sell" THEN o.source = Ata(o.wallet) ELSE o.to # o.wallet
       IN IF /\ plan.possible /\ AsPreviewed(o.seen, plan)
             /\ plan.list # <<>> => allowed
          THEN SetOp(kind, [o EXCEPT !.list = plan.list,
                              !.phase = IF kind = "sell" THEN "sign" ELSE "preflight"])
          ELSE Fails(kind)
  /\ UNCHANGED <<chain, page, sent>>

TxOf(kind) ==
  LET o == op[kind]
  IN [NoTx EXCEPT !.kind = kind, !.wallet = o.wallet, !.source = o.source, !.to = o.to,
                  !.amount = o.amount, !.list = o.list, !.sequence = o.sequence,
                  !.seen = o.seen]

(* A transfer is simulated before the wallet is asked.                     *)
Preflight(kind) ==
  /\ op[kind].phase = "preflight"
  /\ IF Accepted(TxOf(kind))
     THEN SetOp(kind, [op[kind] EXCEPT !.phase = "sign"])
     ELSE Fails(kind)
  /\ UNCHANGED <<chain, page, sent>>

(* The wallet signs for its own key only, and a node simulates before it   *)
(* takes the transaction.                                                  *)
Sign(kind) ==
  /\ op[kind].phase = "sign"
  /\ IF wallet = op[kind].wallet /\ Accepted(TxOf(kind))
     THEN /\ SetOp(kind, [op[kind] EXCEPT !.phase = "confirm"])
          /\ sent' = [sent EXCEPT ![op[kind].click] =
                         [TxOf(kind) EXCEPT !.fate = "pending"]]
     ELSE Fails(kind) /\ UNCHANGED sent
  /\ UNCHANGED <<chain, page>>

(* A call fails or times out, or the user declines.                        *)
FailCall(kind) ==
  /\ \/ op[kind].phase \in {"discover", "preflight", "sign", "confirm"}
     \/ (kind \in {"buy", "claim"} /\ op[kind].phase = "fetch")
     \/ Asking(kind)
  /\ Fails(kind)
  /\ UNCHANGED <<chain, page, sent>>

Fate(kind) == sent[op[kind].click].fate

Refreshes(kind) ==
  CASE kind \in {"sell", "transfer"} -> {"soul", "balance", "receipts"}
    [] kind \in {"buy", "claim"} -> {"soul", "balance"}

Succeeds_UncheckedBug(kind) == Fate(kind) \in {"landed", "failed"}

(* claimSoul does not look at the error of a confirmed transaction.        *)
Succeeds(kind) == Fate(kind) = "landed" \/ (kind = "claim" /\ Fate(kind) = "failed")

Confirm_EndlessBug(kind) ==
  /\ op[kind].phase = "confirm" /\ Fate(kind) \notin {"pending", "expired"}
  /\ Ends(kind, IF Succeeds(kind) THEN "done" ELSE "error")
  /\ UNCHANGED <<chain, page, sent>>

Confirm(kind) ==
  /\ op[kind].phase = "confirm" /\ Fate(kind) # "pending"
  /\ IF Succeeds(kind)
     THEN /\ Ends(kind, "done")
          /\ reads' = reads \cup {Read(r, op[kind].click, op[kind].wallet)
                                    : r \in Refreshes(kind)}
     ELSE Fails(kind) /\ UNCHANGED reads
  /\ UNCHANGED <<chain, wallet, switches, shown, balances, receiptState, sent>>

-----------------------------------------------------------------------------
(* The chain *)

SetFate(c, fate) == sent' = [sent EXCEPT ![c] = [NoTx EXCEPT !.fate = fate]]

Land(c) ==
  /\ sent[c].fate = "pending" /\ Accepted(sent[c])
  /\ Executed(sent[c])
  /\ SetFate(c, "landed")
  /\ UNCHANGED <<outside, page, clicks, op>>

(* The price may have moved past a trade's limit.                          *)
Refuse(c) ==
  /\ sent[c].fate = "pending" /\ (Generates(sent[c]) \/ ~Accepted(sent[c]))
  /\ SetFate(c, "failed")
  /\ UNCHANGED <<chain, page, clicks, op>>

Expire(c) ==
  /\ sent[c].fate = "pending"
  /\ SetFate(c, "expired")
  /\ UNCHANGED <<chain, page, clicks, op>>

(* Any other transaction the programs accept, its settlement included.     *)
Elsewhere(kind, source, amount, to) ==
  LET w == source[1]
      moves == kind \in {"sell", "transfer"} /\ amount <= tok[source]
      post == PostUnits(tok[source], amount)
  IN [NoTx EXCEPT !.kind = kind, !.wallet = w, !.source = source, !.amount = amount,
        !.to = to,
        !.sequence = IF kind = "buy" THEN soul.generation ELSE soul.generation - 1,
        !.list = IF moves THEN SelectedReceipts(w, post, Required(Active(w), post),
                                                Candidates(w))
                          ELSE <<>>]

Outside(t) ==
  /\ clicks + outside < MaxMoves /\ outside' = outside + 1
  /\ Accepted(t) /\ Executed(t)
  /\ UNCHANGED <<page, clicks, op, sent>>

-----------------------------------------------------------------------------
(* A page loaded after its wallet has bought some units, each claimed in   *)
(* the same transaction, the last one perhaps not yet.                     *)
Init ==
  \E n \in Bought :
    /\ soul = [generation |-> n, claimCount |-> n - 1, side |-> "buy",
               trader |-> Holder, whole |-> TRUE]
    /\ receipts = [id \in Ids |->
                     IF id < n - 1 THEN [claimant |-> Holder, boundary |-> id + 1, active |-> TRUE]
                               ELSE NoReceipt]
    /\ opened = IF n = 1 THEN {} ELSE {Holder}
    /\ tok = [a \in Accounts |-> IF a = Ata(Holder) THEN n * Quantum ELSE 0]
    /\ outside = 0
    /\ wallet = Holder /\ switches = 0
    /\ shown = {soul}
    /\ balances = [status |-> "loaded", held |-> Restrict(tok, AccountsOf(Holder))]
    /\ receiptState = [status |-> "loaded", active |-> n - 1, found |-> Candidates(Holder)]
    /\ reads = {}
    /\ clicks = 0 /\ op = [kind \in Kinds |-> NoOp]
    /\ sent = [c \in Clicks |-> NoTx]

Answer(kind) ==
  \/ DiscoverSource(kind)
  \/ FetchSequence(kind)
  \/ FetchReceipts(kind)
  \/ ResolveSettlement(kind)
  \/ Preflight(kind)
  \/ Sign(kind)
  \/ Confirm(kind)

Settle(c) == Land(c) \/ Refuse(c) \/ Expire(c)

Next ==
  \/ \E w \in Wallets \cup {Nobody} : ChangeWallet(w)
  \/ \E r \in reads : ReadSoul(r) \/ ReadBalance(r) \/ ReadReceipts(r) \/ FailRead(r)
  \/ \E n \in BuyAmounts : HandleBuy(n)
  \/ \E n \in Amounts : HandleSell(n)
  \/ \E n \in Amounts, to \in Recipients : HandleDirectTransfer(n, to)
  \/ HandleClaim
  \/ \E kind \in Kinds : Answer(kind) \/ FailCall(kind)
  \/ \E c \in Clicks : Settle(c)
  \/ \E kind \in {"buy", "swap"}, source \in Accounts, n \in BuyAmounts :
       Outside(Elsewhere(kind, source, n, Nobody))
  \/ \E kind \in {"sell", "transfer"}, source \in Accounts, n \in Amounts,
        to \in Recipients :
       Outside(Elsewhere(kind, source, n, to))
  \/ \E w \in Wallets : Outside(Elsewhere("claim", Ata(w), 0, Nobody))

(* Every call of the page is answered, every transaction lands or expires. *)
Fairness ==
  /\ \A kind \in Kinds : WF_vars(Answer(kind))
  /\ \A c \in Clicks : WF_vars(Settle(c))

Spec == Init /\ [][Next]_vars /\ Fairness

-----------------------------------------------------------------------------
(* Properties *)

(* The page never asks a wallet to sign away receipts of another wallet,   *)
(* even when a late refresh has put the former wallet's receipts on the    *)
(* page of the one now connected.                                          *)
SettlesOwnReceipts ==
  \A kind \in Kinds : \A i \in DOMAIN op[kind].list :
    receipts[op[kind].list[i]].claimant = op[kind].wallet

(* When a movement the user saw previewed lands, it ends the receipts of   *)
(* the preview and leaves the units the preview promised, however long ago *)
(* the preview was computed and whatever happened in between.              *)
LandsAsPreviewed ==
  [][\A c \in Clicks, w \in Wallets :
       /\ sent[c].fate = "pending" /\ sent'[c].fate = "landed"
       /\ sent[c].wallet = w
       => \A s \in sent[c].seen :
            /\ Owned(w)' = Owned(w) \ Range(s.list)
            /\ s.list # <<>> => Units(s.source)' = s.post]_vars

Fresh(kind) ==
  LET o == op[kind]
  IN /\ o.held = tok[o.source]
     /\ \E n \in o.registry, found \in o.found :
          found = Candidates(o.wallet) /\ ActiveCount(n, found) = Active(o.wallet)

(* The page's arithmetic agrees with the programs': a sale or transfer out *)
(* of the associated account, worked out from data that still hold, is     *)
(* accepted.  A holder without a registry cannot transfer a whole unit.    *)
FreshPlanAccepted ==
  \A kind \in {"sell", "transfer"} :
    /\ op[kind].phase \in {"preflight", "sign"}
    /\ Fresh(kind) /\ op[kind].source = Ata(op[kind].wallet)
    /\ kind = "transfer" => op[kind].to # op[kind].wallet /\ op[kind].wallet \in opened
    => Accepted(TxOf(kind))

(* A buy, sale or transfer the page reports as done is on the chain. *)
SuccessMeansLanded ==
  \A kind \in Kinds \ {"claim"} : op[kind].phase = "done" => Fate(kind) = "landed"

(* Every operation started ends in a success or an error the user sees:     *)
(* the page does not stay busy with its (boundedly many) operations.       *)
OperationsEnd == (\E kind \in Kinds : Busy(kind)) ~> (\A kind \in Kinds : ~Busy(kind))

(* app/src/lib/buySubmit.ts:125: a buy of a whole unit issues a receipt.   *)
(* The programs accept the transaction the page builds as long as the soul *)
(* it was built from has not changed.                                      *)
QualifyingBuyIssues ==
  op["buy"].phase = "sign" /\ op["buy"].sequence = soul.claimCount =>
    Accepted(TxOf("buy"))

=============================================================================
