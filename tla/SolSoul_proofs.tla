---------------------------- MODULE SolSoul_proofs ----------------------------
(***************************************************************************)
(* Proofs about the programs together, for every finite number of wallets, *)
(* every quantum and curve and transactions of any length: a Soul is       *)
(* backed by a whole unit of its owner's, no transaction ends Souls        *)
(* without moving tokens of their owner, the curve prices the supply that  *)
(* exists, what BondingCurve_proofs and SoulGenerator_proofs say of each   *)
(* program alone survives instructions of both and transactions that fail  *)
(* halfway, and the programs implement the ledger of BoundUnits.           *)
(***************************************************************************)
EXTENDS SolSoul, FiniteSetTheorems, TLAPS

(* The theorems about the curve.  Those about the laws of CurveLaws, which  *)
(* are of one argument, and about the trades counted in a history are not  *)
(* used here.                                                              *)
C == INSTANCE BondingCurve_proofs WITH
       argument <- 0, MaxArgument <- 0, Tolerance <- 0, Disorder <- 0, trades <- 0

-----------------------------------------------------------------------------
(* Quotes: what BondingCurve_proofs says of the curve, said of its         *)
(* instance here.  The definitions are the same, letter by letter.         *)

LEMMA SameMinus == \A a, b : B!Minus(a, b) = C!Minus(a, b)
BY DEF B!Minus, C!Minus

LEMMA SameExpNeg == ASSUME NEW x PROVE B!ExpNeg(x) = C!ExpNeg(x)
<1>1. B!ExpFraction(x % Scale) = C!ExpFraction(x % Scale)
  BY DEF B!ExpFraction, C!ExpFraction, B!Minus, C!Minus
<1>. QED BY <1>1 DEF B!ExpNeg, C!ExpNeg

LEMMA SameBisection == ASSUME NEW target PROVE B!Bisection(target) = C!Bisection(target)
BY DEF B!Bisection, C!Bisection, B!Halve, C!Halve, B!ExpNeg, C!ExpNeg,
       B!ExpFraction, C!ExpFraction, B!Minus, C!Minus

LEMMA SameArgument == ASSUME NEW minted PROVE B!CurveArgument(minted) = C!CurveArgument(minted)
BY SameBisection, SameMinus
   DEF B!CurveArgument, C!CurveArgument, B!LnInv, C!LnInv,
       B!SolveExpInverse, C!SolveExpInverse, B!Middle, C!Middle

(* A buy brings a natural number of tokens and stays within the cap. *)
LEMMA BuyOut ==
  ASSUME NEW cumulativeSol \in Nat, NEW totalMinted \in 0 .. CurveK, NEW sol \in Nat
  PROVE  LET net == sol - B!LockFee(sol)
             out == B!QuoteBuy(cumulativeSol, totalMinted, net).out
         IN net \in Nat /\ out \in Nat /\ totalMinted + out \in 0 .. CurveK
<1>. DEFINE net == sol - B!LockFee(sol)
<1>1. net \in Nat
  BY DEF B!LockFee
<1>. HIDE DEF net
<1>2. B!MintedAt(cumulativeSol + net) = C!MintedAt(cumulativeSol + net)
  BY SameMinus, SameExpNeg DEF B!MintedAt, C!MintedAt
<1>3. B!QuoteBuy(cumulativeSol, totalMinted, net) = C!QuoteBuy(cumulativeSol, totalMinted, net)
  BY <1>2, SameMinus DEF B!QuoteBuy, C!QuoteBuy, B!NoQuote, C!NoQuote
<1>4. /\ C!QuoteBuy(cumulativeSol, totalMinted, net).out \in Nat
      /\ totalMinted + C!QuoteBuy(cumulativeSol, totalMinted, net).out \in 0 .. CurveK
  BY <1>1, Curve, Bounds, Threshold, C!QuoteBuyType
     DEF B!SelfDeprecatedThreshold, C!SelfDeprecatedThreshold
<1>. QED BY <1>1, <1>3, <1>4 DEF net

(* A sale pays a natural number of SOL units. *)
LEMMA SellOut ==
  ASSUME NEW totalMinted \in Nat, NEW amount \in Nat
  PROVE  B!QuoteSell(totalMinted, amount).out \in Nat
<1>1. B!QuoteSell(totalMinted, amount) = C!QuoteSell(totalMinted, amount)
  BY SameArgument, SameMinus
     DEF B!QuoteSell, C!QuoteSell, B!SellTooLarge, C!SellTooLarge, B!NoQuote, C!NoQuote
<1>2. C!QuoteSell(totalMinted, amount).out \in Nat
  BY Curve, Bounds, Threshold, C!QuoteSellType
     DEF B!SelfDeprecatedThreshold, C!SelfDeprecatedThreshold
<1>. QED BY <1>1, <1>2

-----------------------------------------------------------------------------
(* Units *)

LEMMA UnitsNat == ASSUME NEW balance \in Nat PROVE G!WholeUnits(balance) \in Nat
BY Quantities DEF G!WholeUnits

(* A larger balance holds no fewer units. *)
LEMMA UnitsMonotone ==
  ASSUME NEW a \in Nat, NEW b \in Nat, a <= b
  PROVE  G!WholeUnits(a) <= G!WholeUnits(b)
<1>. DEFINE p == a \div Quantum
            q == b \div Quantum
<1>1. Quantum \in Nat /\ Quantum > 0
  BY Quantities
<1>2. /\ p \in Nat /\ q \in Nat
      /\ a = Quantum * p + (a % Quantum) /\ a % Quantum \in 0 .. Quantum - 1
      /\ b = Quantum * q + (b % Quantum) /\ b % Quantum \in 0 .. Quantum - 1
  BY <1>1
<1>. HIDE DEF p, q
<1>3. SUFFICES ASSUME p >= q + 1 PROVE FALSE
  BY <1>2 DEF p, q, G!WholeUnits
<1>4. p - q - 1 \in Nat /\ Quantum * (p - q - 1) >= 0
  BY <1>1, <1>2, <1>3
<1>5. Quantum * p = Quantum * q + Quantum + Quantum * (p - q - 1)
  BY <1>1, <1>2, <1>3
<1>6. Quantum * p \in Nat /\ Quantum * q \in Nat
  BY <1>1, <1>2
<1>. QED BY <1>1, <1>2, <1>4, <1>5, <1>6

(* A debit that crosses no boundary the Souls above it would miss leaves   *)
(* them their units.                                                       *)
LEMMA DebitCovers ==
  ASSUME NEW pre \in Nat, NEW amount \in Nat, amount <= pre, NEW active \in Nat,
         active <= G!WholeUnits(pre),
         G!CrossedDown(pre, amount) > 0 => active <= G!PostUnits(pre, amount)
  PROVE  active <= G!WholeUnits(pre - amount)
<1>1. G!WholeUnits(pre) \in Nat /\ G!WholeUnits(pre - amount) \in Nat
  BY UnitsNat
<1>. QED BY <1>1 DEF G!CrossedDown, G!PostUnits

-----------------------------------------------------------------------------
(* The inductive invariant *)

Registries ==
  [Wallets -> [open : BOOLEAN, active : Nat, burned : Nat, forfeited : Nat]]

Curves ==
  [open : BOOLEAN, cumulativeSol : Nat, totalMinted : 0 .. CurveK,
   selfDeprecated : BOOLEAN, lastSlot : Nat]

(* ReceiptsBacked of some registries and balances, with their shape. *)
Backed(registries, balances, burns, account) ==
  /\ registries \in Registries
  /\ balances \in [G!Accounts -> Nat] /\ burns \in [Wallets -> Nat]
  /\ account \in Curves
  /\ \A w \in Wallets : burns[w] = 0 =>
       registries[w].active <= G!WholeUnits(balances[G!Ata(w)])

TxShape ==
  tx = [open |-> tx.open, steps |-> tx.steps, owed |-> tx.owed, debited |-> tx.debited,
        saved |-> tx.saved]

(* Whoever has more settled Souls than when the transaction began has moved *)
(* tokens, or still owes a movement.                                       *)
Owing ==
  tx.open => \A w \in Wallets :
    Settled(registry, w) > Settled(tx.saved.registry, w) =>
      w \in tx.debited \/ \E m \in tx.owed : Owner(m.account) = w

SolInv ==
  /\ slot \in Nat /\ TxShape /\ Owing
  /\ Backed(registry, tok, burned, curve)
  /\ Backed(tx.saved.registry, tx.saved.tok, tx.saved.burned, tx.saved.curve)

LEMMA SettledNat ==
  ASSUME NEW registries \in Registries, NEW w \in Wallets
  PROVE  Settled(registries, w) \in Nat
BY DEF Registries, Settled

(* Every account is its owner's canonical one or no canonical one. *)
LEMMA AccountsOwned ==
  /\ \A w \in Wallets : G!Ata(w) \in G!Accounts /\ Owner(G!Ata(w)) = w
  /\ \A a \in G!Accounts : Owner(a) \in Wallets
  /\ \A a \in G!Accounts, w \in Wallets : a = G!Ata(w) => Owner(a) = w
BY DEF G!Accounts, G!Ata, Owner

-----------------------------------------------------------------------------
(* The transaction around an instruction *)

(* An instruction that settles nothing and moves nothing keeps the         *)
(* invariant, if it leaves the Souls backed.                               *)
LEMMA StepKeeps ==
  ASSUME SolInv, Step, slot' = slot, registry' = registry,
         Backed(registry, tok', burned', curve')
  PROVE  SolInv'
<1>1. tx' = [tx EXCEPT !.steps = @ + 1]
  BY DEF Step
<1>2. /\ tx'.open = tx.open /\ tx'.owed = tx.owed /\ tx'.debited = tx.debited
      /\ tx'.saved = tx.saved /\ TxShape'
  BY <1>1, Zenon DEF SolInv, TxShape
<1>3. Owing'
  BY <1>2 DEF SolInv, Owing
<1>. QED BY <1>2, <1>3, Zenon DEF SolInv

(* A movement takes a debt off the list and puts its wallet on the other.  *)
LEMMA MovingKeeps ==
  ASSUME SolInv, NEW account \in G!Accounts, NEW amount, MovingStep(account, amount),
         slot' = slot, registry' = registry, Backed(registry, tok', burned', curve')
  PROVE  SolInv'
<1>1. tx' = [tx EXCEPT !.steps = @ + 1, !.owed = @ \ {Movement(account, amount)},
                       !.debited = @ \cup {Owner(account)}]
  BY DEF MovingStep
<1>2. /\ tx'.open = tx.open /\ tx'.owed = tx.owed \ {Movement(account, amount)}
      /\ tx'.debited = tx.debited \cup {Owner(account)}
      /\ tx'.saved = tx.saved /\ TxShape'
  BY <1>1, Zenon DEF SolInv, TxShape
<1>3. Owing'
  <2>. SUFFICES ASSUME tx.open, NEW w \in Wallets,
                       Settled(registry, w) > Settled(tx.saved.registry, w)
                PROVE  w \in tx'.debited \/ \E m \in tx'.owed : Owner(m.account) = w
    BY <1>2, Zenon DEF Owing
  <2>1. CASE w \in tx.debited
    BY <1>2, <2>1
  <2>2. CASE w \notin tx.debited
    <3>1. PICK m \in tx.owed : Owner(m.account) = w
      BY <2>2 DEF SolInv, Owing
    <3>2. CASE m = Movement(account, amount)
      <4>1. m.account = account
        BY <3>2 DEF Movement
      <4>. QED BY <1>2, <3>1, <4>1
    <3>. QED BY <1>2, <3>1, <3>2
  <2>. QED BY <2>1, <2>2
<1>. QED BY <1>2, <1>3, Zenon DEF SolInv

(* A settlement puts the movement it waits for on the list.                *)
LEMMA OwingKeeps ==
  ASSUME SolInv, NEW account \in G!Accounts, NEW amount, OwingStep(account, amount),
         slot' = slot, tok' = tok, burned' = burned, curve' = curve,
         Backed(registry', tok, burned, curve),
         \A w \in Wallets \ {Owner(account)} : registry'[w] = registry[w]
  PROVE  SolInv'
<1>1. tx' = [tx EXCEPT !.steps = @ + 1, !.owed = @ \cup {Movement(account, amount)}]
  BY DEF OwingStep
<1>2. /\ tx'.open = tx.open /\ tx'.owed = tx.owed \cup {Movement(account, amount)}
      /\ tx'.debited = tx.debited /\ tx'.saved = tx.saved /\ TxShape'
  BY <1>1, Zenon DEF SolInv, TxShape
<1>3. Owing'
  <2>. SUFFICES ASSUME tx.open, NEW w \in Wallets,
                       Settled(registry', w) > Settled(tx.saved.registry, w)
                PROVE  w \in tx.debited \/ \E m \in tx'.owed : Owner(m.account) = w
    BY <1>2, Zenon DEF Owing
  <2>1. CASE w = Owner(account)
    <3>1. Movement(account, amount).account = account
      BY DEF Movement
    <3>. QED BY <1>2, <2>1, <3>1, Zenon
  <2>2. CASE w # Owner(account)
    <3>1. Settled(registry', w) = Settled(registry, w)
      BY <2>2, Zenon DEF Settled
    <3>. QED BY <1>2, <3>1 DEF SolInv, Owing
  <2>. QED BY <2>1, <2>2
<1>. QED BY <1>2, <1>3, Zenon DEF SolInv

(* Once the transaction is closed nothing is owed, and what it left is what *)
(* the next one would restore.                                             *)
LEMMA FreshKeeps ==
  ASSUME SolInv, NEW open \in BOOLEAN, tx' = Tx(open), UNCHANGED chain
  PROVE  SolInv'
<1>1. /\ tx'.saved = Written /\ TxShape'
  BY DEF Tx, TxShape
<1>2. /\ tx'.saved.registry = registry /\ tx'.saved.tok = tok
      /\ tx'.saved.burned = burned /\ tx'.saved.curve = curve
  BY <1>1 DEF Written
<1>3. registry' = registry /\ tok' = tok /\ burned' = burned /\ curve' = curve /\ slot' = slot
  BY DEF chain
<1>4. Owing'
  <2>. SUFFICES ASSUME NEW w \in Wallets PROVE ~(Settled(registry, w) > Settled(registry, w))
    BY <1>2, <1>3, Zenon DEF Owing
  <2>. QED BY SettledNat DEF SolInv, Backed
<1>. QED BY <1>1, <1>2, <1>3, <1>4, Zenon DEF SolInv

(* An aborted transaction leaves what it found.                            *)
LEMMA AbortKeeps == ASSUME SolInv, Abort PROVE SolInv'
<1>1. tx' = [tx EXCEPT !.open = FALSE, !.steps = 0, !.owed = {}, !.debited = {}]
  BY DEF Abort
<1>2. /\ registry' = tx.saved.registry /\ tok' = tx.saved.tok
      /\ burned' = tx.saved.burned /\ curve' = tx.saved.curve /\ slot' = slot
  BY DEF Abort
<1>3. tx'.open = FALSE /\ tx'.saved = tx.saved /\ TxShape'
  BY <1>1, Zenon DEF SolInv, TxShape
<1>4. Owing'
  BY <1>3 DEF Owing
<1>. QED BY <1>2, <1>3, <1>4, Zenon DEF SolInv

-----------------------------------------------------------------------------
(* Instructions *)

(* A buy credits an account. *)
LEMMA BuyKeeps ==
  ASSUME SolInv, NEW w \in Wallets, NEW account \in G!Accounts, NEW sol \in SolAmounts,
         Buy(w, account, sol)
  PROVE  SolInv'
<1>. DEFINE net == sol - B!LockFee(sol)
            out == B!QuoteBuy(curve.cumulativeSol, curve.totalMinted, net).out
<1>1. /\ curve \in Curves /\ curve.cumulativeSol \in Nat
      /\ curve.totalMinted \in 0 .. CurveK /\ slot \in Nat
  BY DEF SolInv, Backed, Curves
<1>2. sol \in Nat
  BY Bounds
<1>3. net \in Nat /\ out \in Nat /\ curve.totalMinted + out \in 0 .. CurveK
  BY <1>1, <1>2, BuyOut
<1>4. B!RecordBuy(net, out) /\ slot' = slot /\ Step /\ burned' = burned
  BY DEF Buy, B!Buy
<1>5. tok' = [tok EXCEPT ![account] = @ + out] /\ registry' = registry
  BY DEF Buy, G!GenerateSoul
<1>. HIDE DEF net, out
<1>6. curve' \in Curves
  <2>1. curve.cumulativeSol + net \in Nat
    BY <1>1, <1>3
  <2>. QED BY <1>1, <1>3, <1>4, <2>1, Zenon DEF B!RecordBuy, Curves
<1>7. Backed(registry, tok', burned', curve')
  <2>1. tok \in [G!Accounts -> Nat] /\ tok[account] + out \in Nat
    BY <1>3 DEF SolInv, Backed
  <2>2. tok' \in [G!Accounts -> Nat]
    BY <1>5, <2>1, Zenon
  <2>3. ASSUME NEW v \in Wallets PROVE tok[G!Ata(v)] <= tok'[G!Ata(v)]
    BY <1>3, <1>5, <2>1, AccountsOwned
  <2>4. ASSUME NEW v \in Wallets, burned[v] = 0
        PROVE  registry[v].active <= G!WholeUnits(tok'[G!Ata(v)])
    <3>1. registry[v].active \in Nat
      BY DEF SolInv, Backed, Registries
    <3>2. registry[v].active <= G!WholeUnits(tok[G!Ata(v)])
      BY <2>4 DEF SolInv, Backed
    <3>3. /\ tok[G!Ata(v)] \in Nat /\ tok'[G!Ata(v)] \in Nat
      BY <2>1, <2>2, AccountsOwned
    <3>4. G!WholeUnits(tok[G!Ata(v)]) <= G!WholeUnits(tok'[G!Ata(v)])
      BY <2>3, <3>3, UnitsMonotone
    <3>. QED BY <3>1, <3>2, <3>3, <3>4, UnitsNat
  <2>. QED BY <1>4, <1>6, <2>2, <2>4 DEF SolInv, Backed
<1>. QED BY <1>4, <1>5, <1>7, StepKeeps

(* Debiting an account by no more than the Souls can spare.                *)
LEMMA DebitBacks ==
  ASSUME SolInv, NEW account \in G!Accounts, NEW amount \in Nat,
         amount <= tok[account],
         \A w \in Wallets : account = G!Ata(w) /\ G!CrossedDown(tok[account], amount) > 0
            => registry[w].active <= G!PostUnits(tok[account], amount),
         NEW left, left = [tok EXCEPT ![account] = @ - amount]
  PROVE  /\ left \in [G!Accounts -> Nat]
         /\ \A w \in Wallets : burned[w] = 0 =>
              registry[w].active <= G!WholeUnits(left[G!Ata(w)])
<1>1. tok \in [G!Accounts -> Nat] /\ tok[account] \in Nat /\ tok[account] - amount \in Nat
  BY DEF SolInv, Backed
<1>2. left \in [G!Accounts -> Nat]
  BY <1>1, Zenon
<1>3. ASSUME NEW w \in Wallets, burned[w] = 0
      PROVE  registry[w].active <= G!WholeUnits(left[G!Ata(w)])
  <2>1. registry[w].active \in Nat /\ registry[w].active <= G!WholeUnits(tok[G!Ata(w)])
    BY <1>3 DEF SolInv, Backed, Registries
  <2>2. CASE account = G!Ata(w)
    <3>1. registry[w].active <= G!WholeUnits(tok[account])
      BY <2>1, <2>2, Zenon
    <3>2. G!CrossedDown(tok[account], amount) > 0
             => registry[w].active <= G!PostUnits(tok[account], amount)
      BY <2>2, Zenon
    <3>3. registry[w].active <= G!WholeUnits(tok[account] - amount)
      BY <1>1, <2>1, <3>1, <3>2, DebitCovers
    <3>4. left[G!Ata(w)] = tok[account] - amount
      BY <1>1, <2>2, Zenon
    <3>. QED BY <3>3, <3>4, Zenon
  <2>3. CASE account # G!Ata(w)
    <3>1. left[G!Ata(w)] = tok[G!Ata(w)]
      BY <1>1, <2>3, AccountsOwned, Zenon
    <3>. QED BY <2>1, <3>1, Zenon
  <2>. QED BY <2>2, <2>3
<1>. QED BY <1>2, <1>3

(* The amounts an instruction names are natural numbers. *)
LEMMA AmountsNat ==
  ASSUME SolInv, NEW account \in G!Accounts, NEW n \in Amounts(account)
  PROVE  n \in Nat /\ n > 0 /\ tok[account] \in Nat
<1>1. tok[account] \in Nat
  BY DEF SolInv, Backed
<1>. QED BY <1>1, Quantities DEF Amounts

(* A sale leaves its owner the units the Souls need (SellBinding). *)
LEMMA SellKeeps ==
  ASSUME SolInv, NEW account \in G!Accounts, NEW amount \in Amounts(account),
         NEW withSoul \in BOOLEAN, Sell(account, amount, withSoul)
  PROVE  SolInv'
<1>. DEFINE out == B!QuoteSell(curve.totalMinted, amount).out
<1>1. amount \in Nat /\ amount <= tok[account]
  BY AmountsNat DEF Sell, G!Debits
<1>2. /\ curve \in Curves /\ curve.cumulativeSol \in Nat
      /\ curve.totalMinted \in 0 .. CurveK /\ slot \in Nat /\ CurveK \in Nat
  BY Curve DEF SolInv, Backed, Curves
<1>3. out \in Nat
  BY <1>1, <1>2, SellOut
<1>4. B!RecordSell(out, amount) /\ slot' = slot
  BY DEF Sell, B!Sell
<1>5. /\ MovingStep(account, amount) /\ burned' = burned
      /\ tok' = [tok EXCEPT ![account] = @ - amount]
      /\ SellBinding(account, amount)
  BY DEF Sell
<1>6. registry' = registry
  BY Zenon DEF Sell, G!GenerateSoul
<1>. HIDE DEF out
<1>7. curve' \in Curves
  <2>1. curve.cumulativeSol - out \in Nat /\ curve.totalMinted - amount \in 0 .. CurveK
    BY <1>1, <1>2, <1>3, <1>4 DEF B!RecordSell
  <2>. QED BY <1>2, <1>4, <2>1, Zenon DEF B!RecordSell, Curves
<1>8. \A w \in Wallets : account = G!Ata(w) /\ G!CrossedDown(tok[account], amount) > 0
         => registry[w].active <= G!PostUnits(tok[account], amount)
  BY <1>5, AccountsOwned, Zenon DEF SellBinding
<1>9. Backed(registry, tok', burned', curve')
  <2>1. /\ tok' \in [G!Accounts -> Nat]
        /\ \A w \in Wallets : burned[w] = 0 =>
             registry[w].active <= G!WholeUnits(tok'[G!Ata(w)])
    BY <1>1, <1>5, <1>8, DebitBacks
  <2>. QED BY <1>5, <1>7, <2>1, Zenon DEF SolInv, Backed
<1>. QED BY <1>4, <1>5, <1>6, <1>9, MovingKeeps

(* A transfer leaves its owner the units too (the hook), and credits the   *)
(* destination.                                                            *)
LEMMA TransferKeeps ==
  ASSUME SolInv, NEW source \in G!Accounts, NEW destination \in G!Accounts,
         NEW amount \in Amounts(source), Transfer(source, destination, amount)
  PROVE  SolInv'
<1>. DEFINE left == [tok EXCEPT ![source] = @ - amount]
<1>1. amount \in Nat /\ amount <= tok[source]
  BY AmountsNat DEF Transfer, G!Debits
<1>2. /\ MovingStep(source, amount) /\ source # destination
      /\ HookAllows(source, tok[source], amount)
      /\ tok' = [tok EXCEPT ![source] = @ - amount, ![destination] = @ + amount]
      /\ registry' = registry /\ burned' = burned /\ curve' = curve /\ slot' = slot
  BY DEF Transfer
<1>3. \A w \in Wallets : source = G!Ata(w) /\ G!CrossedDown(tok[source], amount) > 0
         => registry[w].active <= G!PostUnits(tok[source], amount)
  BY <1>2, AccountsOwned, Zenon DEF HookAllows
<1>4. /\ left \in [G!Accounts -> Nat]
      /\ \A w \in Wallets : burned[w] = 0 =>
           registry[w].active <= G!WholeUnits(left[G!Ata(w)])
  BY <1>1, <1>3, DebitBacks
<1>5. tok' = [left EXCEPT ![destination] = @ + amount]
  BY <1>2, Zenon
<1>. HIDE DEF left
<1>6. Backed(registry, tok', burned', curve')
  <2>1. left[destination] + amount \in Nat
    BY <1>1, <1>4
  <2>2. tok' \in [G!Accounts -> Nat]
    BY <1>4, <1>5, <2>1, Zenon
  <2>3. ASSUME NEW v \in Wallets PROVE left[G!Ata(v)] <= tok'[G!Ata(v)]
    BY <1>1, <1>4, <1>5, AccountsOwned
  <2>4. ASSUME NEW v \in Wallets, burned[v] = 0
        PROVE  registry[v].active <= G!WholeUnits(tok'[G!Ata(v)])
    <3>1. registry[v].active \in Nat
      BY DEF SolInv, Backed, Registries
    <3>2. registry[v].active <= G!WholeUnits(left[G!Ata(v)])
      BY <1>4, <2>4
    <3>3. /\ left[G!Ata(v)] \in Nat /\ tok'[G!Ata(v)] \in Nat
      BY <1>4, <2>2, AccountsOwned
    <3>4. G!WholeUnits(left[G!Ata(v)]) <= G!WholeUnits(tok'[G!Ata(v)])
      BY <2>3, <3>3, UnitsMonotone
    <3>. QED BY <3>1, <3>2, <3>3, <3>4, UnitsNat
  <2>. QED BY <1>2, <2>2, <2>4, Zenon DEF SolInv, Backed
<1>. QED BY <1>2, <1>6, MovingKeeps

(* Who burns tokens outside the curve loses the promise. *)
LEMMA DirectBurnKeeps ==
  ASSUME SolInv, NEW account \in G!Accounts, NEW amount \in Amounts(account),
         DirectBurn(account, amount)
  PROVE  SolInv'
<1>1. amount \in Nat /\ amount > 0 /\ amount <= tok[account]
  BY AmountsNat DEF DirectBurn, G!Debits
<1>2. /\ Step /\ tok' = [tok EXCEPT ![account] = @ - amount]
      /\ burned' = [burned EXCEPT ![Owner(account)] = @ + amount]
      /\ registry' = registry /\ curve' = curve /\ slot' = slot
  BY DEF DirectBurn
<1>3. tok \in [G!Accounts -> Nat] /\ burned \in [Wallets -> Nat] /\ Owner(account) \in Wallets
  BY AccountsOwned DEF SolInv, Backed
<1>4. tok[account] - amount \in Nat /\ burned[Owner(account)] + amount \in Nat \ {0}
  BY <1>1, <1>3
<1>5. tok' \in [G!Accounts -> Nat] /\ burned' \in [Wallets -> Nat]
  BY <1>2, <1>3, <1>4, Zenon
<1>6. ASSUME NEW v \in Wallets, burned'[v] = 0
      PROVE  registry[v].active <= G!WholeUnits(tok'[G!Ata(v)])
  <2>1. v # Owner(account)
    BY <1>2, <1>3, <1>4, <1>6
  <2>2. burned[v] = 0 /\ account # G!Ata(v)
    BY <1>2, <1>3, <1>6, <2>1, AccountsOwned
  <2>3. tok'[G!Ata(v)] = tok[G!Ata(v)]
    BY <1>2, <1>3, <2>2, AccountsOwned, Zenon
  <2>4. registry[v].active <= G!WholeUnits(tok[G!Ata(v)])
    BY <2>2 DEF SolInv, Backed
  <2>. QED BY <2>3, <2>4, Zenon
<1>7. Backed(registry, tok', burned', curve')
  BY <1>2, <1>5, <1>6, Zenon DEF SolInv, Backed
<1>. QED BY <1>2, <1>7, StepKeeps

(* A claim finds a unit without a Soul (HasCapacity) and settles nothing. *)
LEMMA ClaimKeeps ==
  ASSUME SolInv, NEW w \in Wallets, Claim(w)
  PROVE  SolInv'
<1>. DEFINE balance == tok[G!Ata(w)]
<1>1. /\ Step /\ G!HasCapacity(w, balance)
      /\ registry' = [registry EXCEPT ![w].open = TRUE, ![w].active = @ + 1]
      /\ UNCHANGED <<curve, slot, tok, burned>>
  BY DEF Claim, G!ClaimSoul
<1>2. registry \in Registries /\ balance \in Nat
  BY AccountsOwned DEF SolInv, Backed
<1>3. /\ registry[w].active \in Nat /\ registry[w].active + 1 \in Nat
      /\ registry[w].active + 1 <= G!WholeUnits(balance)
  BY <1>1, <1>2, UnitsNat DEF G!HasCapacity, Registries
<1>4. registry' \in Registries
  BY <1>1, <1>2, <1>3, Zenon DEF Registries
<1>5. \A v \in Wallets : /\ registry'[v].burned = registry[v].burned
                         /\ registry'[v].forfeited = registry[v].forfeited
                         /\ v # w => registry'[v] = registry[v]
  BY <1>1, <1>2, Zenon DEF Registries
<1>6. registry'[w].active = registry[w].active + 1
  BY <1>1, <1>2, Zenon DEF Registries
<1>7. Backed(registry', tok, burned, curve)
  <2>1. ASSUME NEW v \in Wallets, burned[v] = 0
        PROVE  registry'[v].active <= G!WholeUnits(tok[G!Ata(v)])
    BY <1>3, <1>5, <1>6, <2>1, Zenon DEF SolInv, Backed
  <2>. QED BY <1>4, <2>1, Zenon DEF SolInv, Backed
<1>8. \A v \in Wallets : Settled(registry', v) = Settled(registry, v)
  BY <1>5 DEF Settled
<1>9. /\ tx'.open = tx.open /\ tx'.owed = tx.owed /\ tx'.debited = tx.debited
      /\ tx'.saved = tx.saved /\ TxShape'
  <2>1. tx' = [tx EXCEPT !.steps = @ + 1]
    BY <1>1 DEF Step
  <2>. QED BY <2>1, Zenon DEF SolInv, TxShape
<1>10. Owing'
  BY <1>8, <1>9 DEF SolInv, Owing
<1>. QED BY <1>1, <1>7, <1>9, <1>10, Zenon DEF SolInv

(* A settlement retires Souls of one wallet, no more than it has. *)
LEMMA SettleKeeps ==
  ASSUME SolInv, NEW account \in G!Accounts, NEW amount \in Amounts(account),
         NEW newState, NEW list, Settle(account, amount, newState, list)
  PROVE  SolInv'
<1>. DEFINE w == Owner(account)
            post == G!PostUnits(tok[account], amount)
            n == Len(list)
<1>1. /\ OwingStep(account, amount)
      /\ n = G!RequiredCount(w, post)
      /\ registry' = [registry EXCEPT
                        ![w].active = @ - n,
                        ![w].burned = IF newState = "burned" THEN @ + n ELSE @,
                        ![w].forfeited = IF newState = "burned" THEN @ ELSE @ + n]
      /\ UNCHANGED <<curve, slot, tok, burned>>
  BY DEF Settle, G!SettleReceipts
<1>2. w \in Wallets /\ registry \in Registries
  BY AccountsOwned DEF SolInv, Backed
<1>3. /\ registry[w].active \in Nat /\ registry[w].burned \in Nat
      /\ registry[w].forfeited \in Nat
  BY <1>2 DEF Registries
<1>4. post \in Nat
  <2>1. amount \in Nat /\ tok[account] \in Nat /\ amount <= tok[account]
    BY AmountsNat DEF Settle, G!SettleReceipts, G!Debits
  <2>. QED BY <2>1, UnitsNat DEF G!PostUnits
<1>. HIDE DEF post, n, w
<1>5. n \in Nat /\ registry[w].active - n \in Nat
  BY <1>1, <1>3, <1>4 DEF G!RequiredCount
<1>6. registry[w].burned + n \in Nat /\ registry[w].forfeited + n \in Nat
  BY <1>3, <1>5
<1>7. registry' \in Registries
  BY <1>1, <1>2, <1>3, <1>5, <1>6, ZenonT(40) DEF Registries
<1>8. /\ registry'[w].active = registry[w].active - n
      /\ \A v \in Wallets \ {w} : registry'[v] = registry[v]
  BY <1>1, <1>2, Zenon DEF Registries
<1>9. Backed(registry', tok, burned, curve)
  <2>1. ASSUME NEW v \in Wallets, burned[v] = 0
        PROVE  registry'[v].active <= G!WholeUnits(tok[G!Ata(v)])
    <3>1. registry[v].active <= G!WholeUnits(tok[G!Ata(v)])
      BY <2>1 DEF SolInv, Backed
    <3>2. G!WholeUnits(tok[G!Ata(v)]) \in Nat
      BY AccountsOwned, UnitsNat DEF SolInv, Backed
    <3>. QED BY <1>3, <1>5, <1>8, <3>1, <3>2
  <2>. QED BY <1>7, <2>1, Zenon DEF SolInv, Backed
<1>. QED BY <1>1, <1>8, <1>9, OwingKeeps DEF w

-----------------------------------------------------------------------------
(* Sums over a finite set *)

Sum(f, S) == MapThenSumSet(LAMBDA a : f[a], S)

(* The recursion MapThenSumSet is defined by. *)
Pick(T) == CHOOSE x \in T : TRUE
Sums(g, f, S) ==
  g = [T \in SUBSET S |-> IF T = {} THEN 0 ELSE f[Pick(T)] + g[T \ {Pick(T)}]]

(* The sum, by that recursion. *)
LEMMA SumIs == ASSUME NEW f, NEW S PROVE Sum(f, S) = (CHOOSE g : Sums(g, f, S))[S]
BY Zenon DEF Sum, MapThenSumSet, MapThenFoldSet, Sums, Pick

(* Two facts proved beside the bisection: every set of natural numbers has *)
(* a least element, and every function can be iterated.                    *)
LEMMA LeastOf ==
  ASSUME NEW T \in SUBSET Nat, T # {}
  PROVE  \E m \in T : \A n \in T : m <= n
BY C!LeastNat, Curve, Bounds, Threshold
   DEF B!SelfDeprecatedThreshold, C!SelfDeprecatedThreshold

LEMMA Iterates ==
  ASSUME NEW S, NEW start \in S, NEW F \in [S -> S]
  PROVE  \E g \in [Nat -> S] :
            g[0] = start /\ \A i \in Nat : g[i + 1] = F[g[i]]
<1>1. C!SelfDeprecatedThreshold > 0
  BY Threshold, SMT DEF B!SelfDeprecatedThreshold, C!SelfDeprecatedThreshold
<1>2. \A V : \A v \in V : \A G0 \in [V -> V] : \E g \in [Nat -> V] :
         g[0] = v /\ \A i \in Nat : g[i + 1] = G0[g[i]]
  BY C!IterationExists, Curve, Bounds, <1>1
<1>. QED BY <1>2

(* Taking the picked element away leaves a smaller subset. *)
LEMMA Smaller ==
  ASSUME NEW S, IsFiniteSet(S), NEW T \in SUBSET S, T # {}
  PROVE  /\ Pick(T) \in T /\ T \ {Pick(T)} \in SUBSET S
         /\ Cardinality(T) \in Nat \ {0}
         /\ Cardinality(T \ {Pick(T)}) = Cardinality(T) - 1
<1>1. Pick(T) \in T
  BY DEF Pick
<1>2. IsFiniteSet(T)
  BY FS_Subset
<1>3. Cardinality(T \ {Pick(T)}) = Cardinality(T) - 1
  BY <1>1, <1>2, FS_RemoveElement
<1>4. Cardinality(T) \in Nat \ {0}
  BY <1>2, FS_CardinalityType, FS_EmptySet
<1>. QED BY <1>1, <1>3, <1>4

(* A claim about the subsets of a finite set holds of all of them if it    *)
(* holds of each whose part without its picked element it holds of.        *)
LEMMA SmallestSubset ==
  ASSUME NEW S, IsFiniteSet(S), NEW Good \in SUBSET SUBSET S,
         \A T \in SUBSET S : (T # {} => T \ {Pick(T)} \in Good) => T \in Good
  PROVE  \A T \in SUBSET S : T \in Good
<1>. DEFINE Sizes == {Cardinality(T) : T \in (SUBSET S) \ Good}
<1>1. SUFFICES ASSUME (SUBSET S) \ Good # {} PROVE FALSE
  OBVIOUS
<1>2. Sizes \in SUBSET Nat /\ Sizes # {}
  BY <1>1, FS_Subset, FS_CardinalityType
<1>3. PICK m \in Sizes : \A n \in Sizes : m <= n
  <2>. HIDE DEF Sizes
  <2>. QED BY <1>2, LeastOf
<1>4. PICK T \in (SUBSET S) \ Good : Cardinality(T) = m
  OBVIOUS
<1>5. T # {} /\ T \ {Pick(T)} \notin Good
  BY <1>4
<1>6. /\ T \ {Pick(T)} \in (SUBSET S) \ Good
      /\ Cardinality(T \ {Pick(T)}) = m - 1 /\ m \in Nat
  BY <1>4, <1>5, Smaller
<1>7. m - 1 \in Sizes
  BY <1>6
<1>. HIDE DEF Sizes
<1>. QED BY <1>3, <1>6, <1>7

(* Iterating the recursion once more than there are elements solves it.    *)
LEMMA SumExists ==
  ASSUME NEW S, IsFiniteSet(S), NEW f \in [S -> Nat]
  PROVE  \E g \in [SUBSET S -> Nat] : Sums(g, f, S)
<1>. DEFINE H == [SUBSET S -> Nat]
            Next1(h) == [T \in SUBSET S |->
                           IF T = {} THEN 0 ELSE f[Pick(T)] + h[T \ {Pick(T)}]]
<1>1. ASSUME NEW h \in H PROVE Next1(h) \in H
  <2>. SUFFICES ASSUME NEW T \in SUBSET S, T # {}
                PROVE  f[Pick(T)] + h[T \ {Pick(T)}] \in Nat
    OBVIOUS
  <2>1. Pick(T) \in S /\ T \ {Pick(T)} \in SUBSET S
    BY Smaller
  <2>2. f[Pick(T)] \in Nat /\ h[T \ {Pick(T)}] \in Nat
    BY <2>1
  <2>. QED BY <2>2
<1>2. PICK start \in H, F \in [H -> H] : \A h \in H : F[h] = Next1(h)
  <2>1. [h \in H |-> Next1(h)] \in [H -> H]
    BY <1>1
  <2>2. [T \in SUBSET S |-> 0] \in H
    OBVIOUS
  <2>. HIDE DEF H, Next1
  <2>3. \A h \in H : [k \in H |-> Next1(k)][h] = Next1(h)
    OBVIOUS
  <2>. QED BY <2>1, <2>2, <2>3, Zenon
<1>3. PICK g \in [Nat -> H] : \A i \in Nat : g[i + 1] = F[g[i]]
  <2>. HIDE DEF H, Next1
  <2>. QED BY Iterates
<1>4. \A i \in Nat : g[i] \in H /\ g[i + 1] = Next1(g[i])
  <2>. HIDE DEF H, Next1
  <2>. QED BY <1>2, <1>3
<1>. DEFINE Good == {T \in SUBSET S :
                       \A i \in Nat : Cardinality(T) < i => g[i][T] = g[i + 1][T]}
<1>5. ASSUME NEW T \in SUBSET S, T # {} => T \ {Pick(T)} \in Good PROVE T \in Good
  <2>. SUFFICES ASSUME NEW i \in Nat, Cardinality(T) < i PROVE g[i][T] = g[i + 1][T]
    OBVIOUS
  <2>1. Cardinality(T) \in Nat
    BY FS_Subset, FS_CardinalityType
  <2>2. i - 1 \in Nat /\ (i - 1) + 1 = i
    BY <2>1
  <2>3. g[i] = Next1(g[i - 1]) /\ g[i + 1] = Next1(g[i])
    BY <1>4, <2>2
  <2>4. CASE T = {}
    BY <2>3, <2>4
  <2>5. CASE T # {}
    <3>1. g[i][T] = f[Pick(T)] + g[i - 1][T \ {Pick(T)}]
      BY <2>3, <2>5, Zenon
    <3>2. g[i + 1][T] = f[Pick(T)] + g[i][T \ {Pick(T)}]
      BY <2>3, <2>5, Zenon
    <3>3. Cardinality(T \ {Pick(T)}) < i - 1
      BY <2>1, <2>5, Smaller
    <3>4. g[i - 1][T \ {Pick(T)}] = g[i][T \ {Pick(T)}]
      BY <1>5, <2>2, <2>5, <3>3
    <3>. QED BY <3>1, <3>2, <3>4
  <2>. QED BY <2>4, <2>5
<1>6. \A T \in SUBSET S : T \in Good
  <2>1. Good \in SUBSET SUBSET S
    OBVIOUS
  <2>. HIDE DEF Good
  <2>. QED BY <1>5, <2>1, SmallestSubset
<1>. DEFINE n == Cardinality(S) + 1
<1>7. n \in Nat /\ n + 1 \in Nat
  BY FS_CardinalityType
<1>8. \A T \in SUBSET S : Cardinality(T) < n
  BY FS_Subset, FS_CardinalityType
<1>9. \A T \in SUBSET S : g[n][T] = g[n + 1][T]
  BY <1>6, <1>7, <1>8
<1>. HIDE DEF n
<1>10. g[n] \in H /\ g[n + 1] \in H /\ g[n + 1] = Next1(g[n])
  BY <1>4, <1>7, Zenon
<1>11. g[n] = g[n + 1]
  BY <1>9, <1>10
<1>. QED BY <1>10, <1>11, Zenon DEF Sums

(* The sums over the subsets: of no elements, and of one element more. *)
Adds(g, f, S) ==
  /\ Sum(f, S) = g[S] /\ g[{}] = 0
  /\ \A T \in SUBSET S : T # {} => g[T] = f[Pick(T)] + g[T \ {Pick(T)}]

LEMMA SumRecursion ==
  ASSUME NEW S, IsFiniteSet(S), NEW f \in [S -> Nat]
  PROVE  \E g \in [SUBSET S -> Nat] : Adds(g, f, S)
<1>. DEFINE g == CHOOSE h : Sums(h, f, S)
<1>1. Sums(g, f, S)
  BY SumExists, Zenon
<1>2. Sum(f, S) = g[S]
  BY SumIs
<1>. HIDE DEF g
<1>3. /\ g[{}] = 0
      /\ \A T \in SUBSET S : T # {} => g[T] = f[Pick(T)] + g[T \ {Pick(T)}]
  BY <1>1, Zenon DEF Sums
<1>4. \A T \in SUBSET S : g[T] \in Nat
  <2>. DEFINE Good == {T \in SUBSET S : g[T] \in Nat}
  <2>1. ASSUME NEW T \in SUBSET S, T # {} => T \ {Pick(T)} \in Good PROVE T \in Good
    <3>1. CASE T = {}
      BY <1>3, <3>1
    <3>2. CASE T # {}
      <4>1. g[T] = f[Pick(T)] + g[T \ {Pick(T)}]
        BY <1>3, <3>2
      <4>2. f[Pick(T)] \in Nat
        BY <3>2, Smaller
      <4>. QED BY <2>1, <3>2, <4>1, <4>2
    <3>. QED BY <3>1, <3>2
  <2>2. Good \in SUBSET SUBSET S
    OBVIOUS
  <2>3. \A T \in SUBSET S : T \in Good
    <3>. HIDE DEF Good
    <3>. QED BY <2>1, <2>2, SmallestSubset
  <2>. QED BY <2>3
<1>5. g = [T \in SUBSET S |-> g[T]]
  BY <1>1, Zenon DEF Sums
<1>6. g \in [SUBSET S -> Nat]
  BY <1>4, <1>5
<1>. QED BY <1>2, <1>3, <1>6, Zenon DEF Adds

(* A sum is a natural number. *)
LEMMA SumNat ==
  ASSUME NEW S, IsFiniteSet(S), NEW f \in [S -> Nat]
  PROVE  Sum(f, S) \in Nat
<1>1. PICK g \in [SUBSET S -> Nat] : Adds(g, f, S)
  BY SumRecursion, Zenon
<1>. QED BY <1>1 DEF Adds

(* Changing one term changes the sum by as much. *)
LEMMA SumChange ==
  ASSUME NEW S, IsFiniteSet(S), NEW f \in [S -> Nat], NEW h \in [S -> Nat],
         NEW x \in S, \A y \in S \ {x} : h[y] = f[y]
  PROVE  Sum(h, S) = Sum(f, S) + h[x] - f[x]
<1>1. PICK g \in [SUBSET S -> Nat] : Adds(g, f, S)
  BY SumRecursion, Zenon
<1>2. PICK k \in [SUBSET S -> Nat] : Adds(k, h, S)
  BY SumRecursion, Zenon
<1>. DEFINE Good == {T \in SUBSET S : k[T] = g[T] + IF x \in T THEN h[x] - f[x] ELSE 0}
<1>3. ASSUME NEW T \in SUBSET S, T # {} => T \ {Pick(T)} \in Good PROVE T \in Good
  <2>1. CASE T = {}
    BY <1>1, <1>2, <2>1 DEF Adds
  <2>2. CASE T # {}
    <3>. DEFINE p == Pick(T)
                R == T \ {p}
    <3>1. p \in S /\ p \in T /\ R \in SUBSET S /\ p \notin R
      BY <2>2, Smaller
    <3>2. g[T] = f[p] + g[R] /\ k[T] = h[p] + k[R]
      BY <1>1, <1>2, <2>2 DEF Adds
    <3>3. k[R] = g[R] + IF x \in R THEN h[x] - f[x] ELSE 0
      BY <1>3, <2>2
    <3>4. g[R] \in Nat /\ k[R] \in Nat /\ f[p] \in Nat /\ h[p] \in Nat
          /\ f[x] \in Nat /\ h[x] \in Nat
      BY <3>1
    <3>5. x \in T <=> x = p \/ x \in R
      BY <3>1
    <3>. HIDE DEF p, R
    <3>6. k[T] = g[T] + IF x \in T THEN h[x] - f[x] ELSE 0
      <4>1. CASE p = x
        BY <3>1, <3>2, <3>3, <3>4, <3>5, <4>1
      <4>2. CASE p # x
        <5>1. h[p] = f[p]
          BY <3>1, <4>2
        <5>. QED BY <3>2, <3>3, <3>4, <3>5, <4>2, <5>1
      <4>. QED BY <4>1, <4>2
    <3>. QED BY <3>6
  <2>. QED BY <2>1, <2>2
<1>4. \A T \in SUBSET S : T \in Good
  <2>1. Good \in SUBSET SUBSET S
    OBVIOUS
  <2>. HIDE DEF Good
  <2>. QED BY <1>3, <2>1, SmallestSubset
<1>5. k[S] = g[S] + (h[x] - f[x])
  BY <1>4
<1>6. k[S] \in Nat /\ g[S] \in Nat /\ h[x] \in Nat /\ f[x] \in Nat
  OBVIOUS
<1>. QED BY <1>1, <1>2, <1>5, <1>6 DEF Adds

(* A sum of zeros. *)
LEMMA SumZero ==
  ASSUME NEW S, IsFiniteSet(S)
  PROVE  Sum([x \in S |-> 0], S) = 0
<1>. DEFINE f == [x \in S |-> 0]
<1>0. f \in [S -> Nat]
  OBVIOUS
<1>1. PICK g \in [SUBSET S -> Nat] : Adds(g, f, S)
  <2>. HIDE DEF f
  <2>. QED BY <1>0, SumRecursion, Zenon
<1>. DEFINE Good == {T \in SUBSET S : g[T] = 0}
<1>2. ASSUME NEW T \in SUBSET S, T # {} => T \ {Pick(T)} \in Good PROVE T \in Good
  <2>1. CASE T = {}
    BY <1>1, <2>1 DEF Adds
  <2>2. CASE T # {}
    <3>1. Pick(T) \in S
      BY <2>2, Smaller
    <3>2. g[T] = f[Pick(T)] + g[T \ {Pick(T)}] /\ g[T \ {Pick(T)}] = 0
      BY <1>1, <1>2, <2>2 DEF Adds
    <3>. QED BY <3>1, <3>2
  <2>. QED BY <2>1, <2>2
<1>3. \A T \in SUBSET S : T \in Good
  <2>1. Good \in SUBSET SUBSET S
    OBVIOUS
  <2>. HIDE DEF Good
  <2>. QED BY <1>2, <2>1, SmallestSubset
<1>. QED BY <1>1, <1>3 DEF Adds

(* The sums of the model. *)
LEMMA TotalIs == ASSUME NEW f PROVE Total(f) = Sum(f, Wallets)
BY Zenon DEF Sum, Total

LEMMA SupplyIs ==
  SupplyAgrees <=> curve.totalMinted = Sum(tok, G!Accounts) + Sum(burned, Wallets)
BY Zenon DEF Sum, SupplyAgrees

-----------------------------------------------------------------------------
(* The theorems *)

(* After the launch nobody holds anything, and no transaction is open. *)
LEMMA SolInit == Launched => SolInv
<1>. SUFFICES ASSUME Launched PROVE SolInv
  OBVIOUS
<1>1. /\ registry = [w \in Wallets |-> G!NoRegistry] /\ tok = [a \in G!Accounts |-> 0]
      /\ burned = [w \in Wallets |-> 0] /\ curve = [B!NoCurve EXCEPT !.open = TRUE]
      /\ slot = 1 /\ tx = Tx(FALSE)
  BY DEF Launched
<1>2. CurveK \in Nat
  BY Curve
<1>3. Backed(registry, tok, burned, curve)
  <2>0. curve = [open |-> TRUE, cumulativeSol |-> 0, totalMinted |-> 0,
                 selfDeprecated |-> FALSE, lastSlot |-> 0]
    <3>1. curve = [B!NoCurve EXCEPT !.open = TRUE]
      BY <1>1
    <3>. QED BY <3>1 DEF B!NoCurve
  <2>1. registry \in Registries /\ curve \in Curves
    <3>1. registry = [w \in Wallets |-> G!NoRegistry]
      BY <1>1
    <3>. QED BY <1>2, <2>0, <3>1 DEF G!NoRegistry, Registries, Curves
  <2>2. ASSUME NEW w \in Wallets PROVE registry[w].active <= G!WholeUnits(tok[G!Ata(w)])
    <3>1. registry[w].active = 0 /\ tok[G!Ata(w)] = 0
      BY <1>1, AccountsOwned DEF G!NoRegistry
    <3>. QED BY <3>1, UnitsNat
  <2>. QED BY <1>1, <2>1, <2>2 DEF Backed
<1>4. /\ tx.open = FALSE /\ tx.saved = Written /\ TxShape
  BY <1>1 DEF Tx, TxShape
<1>5. /\ tx.saved.registry = registry /\ tx.saved.tok = tok
      /\ tx.saved.burned = burned /\ tx.saved.curve = curve
  BY <1>4 DEF Written
<1>. QED BY <1>1, <1>3, <1>4, <1>5, Zenon DEF SolInv, Owing

(* Every step keeps the invariant. *)
LEMMA SolStep == SolInv /\ [Next]_vars => SolInv'
<1>. SUFFICES ASSUME SolInv, [Next]_vars PROVE SolInv'
  OBVIOUS
<1>1. CASE Begin
  BY <1>1, FreshKeeps DEF Begin
<1>2. CASE Commit
  BY <1>2, FreshKeeps DEF Commit
<1>3. CASE Abort
  BY <1>3, AbortKeeps
<1>4. CASE Tick
  <2>1. /\ slot' = slot + 1 /\ curve' = curve
        /\ UNCHANGED <<registry, tok, burned, tx>>
    BY <1>4 DEF Tick, B!Tick
  <2>. QED BY <2>1 DEF SolInv, TxShape, Owing
<1>5. ASSUME NEW w \in Wallets, NEW a \in G!Accounts, NEW sol \in SolAmounts,
             Buy(w, a, sol)
      PROVE  SolInv'
  BY <1>5, BuyKeeps
<1>6. ASSUME NEW a \in G!Accounts, NEW withSoul \in BOOLEAN, NEW n \in Amounts(a),
             Sell(a, n, withSoul)
      PROVE  SolInv'
  BY <1>6, SellKeeps
<1>7. ASSUME NEW a \in G!Accounts, NEW b \in G!Accounts, NEW n \in Amounts(a),
             Transfer(a, b, n)
      PROVE  SolInv'
  BY <1>7, TransferKeeps
<1>8. ASSUME NEW a \in G!Accounts, NEW n \in Amounts(a), DirectBurn(a, n) PROVE SolInv'
  BY <1>8, DirectBurnKeeps
<1>9. ASSUME NEW w \in Wallets, Claim(w) PROVE SolInv'
  BY <1>9, ClaimKeeps
<1>10. ASSUME NEW a \in G!Accounts, NEW newState \in G!TerminalStates,
              NEW list \in G!ReceiptLists, NEW n \in Amounts(a),
              Settle(a, n, newState, list)
       PROVE  SolInv'
  BY <1>10, SettleKeeps
<1>11. CASE UNCHANGED vars
  <2>1. UNCHANGED <<slot, registry, tok, burned, curve, tx>>
    BY <1>11 DEF vars, chain
  <2>. QED BY <2>1, Zenon DEF SolInv, TxShape, Owing
<1>. QED BY <1>1, <1>2, <1>3, <1>4, <1>5, <1>6, <1>7, <1>8, <1>9, <1>10, <1>11
       DEF Next

(* In every committed state each active Soul is backed by a whole unit in  *)
(* its owner's canonical account, unless the owner burned tokens outside   *)
(* the curve: sell, transfer hook, claim and settlement together, however  *)
(* many wallets and instructions a transaction has.                        *)
THEOREM UnitsBack == Spec => []ReceiptsBacked
<1>1. SolInv => ReceiptsBacked
  BY Zenon DEF SolInv, Backed, ReceiptsBacked
<1>. QED BY <1>1, SolInit, SolStep, PTL DEF Spec

(* No transaction that closes has settled Souls of a wallet that neither   *)
(* sold nor transferred in it: the settlement's look ahead for a movement  *)
(* is the only thing that forces one.                                      *)
THEOREM EndsMove == Spec => SettlementMovesTokens
<1>. DEFINE Ends == tx.open /\ ~tx'.open =>
                      \A w \in Wallets :
                        Settled(registry', w) > Settled(tx.saved.registry, w) =>
                          w \in tx.debited
<1>1. SolInv /\ [Next]_vars => [Ends]_vars
  <2>. SUFFICES ASSUME SolInv, Next, tx.open, ~tx'.open, NEW w \in Wallets,
                       Settled(registry', w) > Settled(tx.saved.registry, w)
                PROVE  w \in tx.debited
    BY Zenon
  <2>1. CASE Commit
    <3>1. tx.owed = {} /\ registry' = registry
      BY <2>1 DEF Commit, chain
    <3>. QED BY <3>1 DEF SolInv, Owing
  <2>2. CASE Abort
    <3>1. registry' = tx.saved.registry
      BY <2>2 DEF Abort
    <3>2. Settled(tx.saved.registry, w) \in Nat
      BY SettledNat DEF SolInv, Backed
    <3>3. Settled(registry', w) = Settled(tx.saved.registry, w)
      BY <3>1, Zenon
    <3>. QED BY <3>2, <3>3
  <2>3. CASE Begin \/ Tick
    BY <2>3 DEF Begin, Tick
  <2>4. ASSUME Step PROVE FALSE
    <3>1. tx'.open = tx.open
      BY <2>4, Zenon DEF Step, SolInv, TxShape
    <3>. QED BY <3>1
  <2>5. ASSUME NEW a, NEW n, MovingStep(a, n) \/ OwingStep(a, n) PROVE FALSE
    <3>1. tx'.open = tx.open
      BY <2>5, Zenon DEF MovingStep, OwingStep, SolInv, TxShape
    <3>. QED BY <3>1
  <2>. QED
    BY <2>1, <2>2, <2>3, <2>4, <2>5, Zenon
       DEF Next, Buy, Sell, Transfer, DirectBurn, Claim, Settle
<1>. QED BY <1>1, SolInit, SolStep, PTL DEF Spec, SettlementMovesTokens

-----------------------------------------------------------------------------
(* Supply *)

(* There are finitely many token accounts. *)
LEMMA AccountsFinite == IsFiniteSet(G!Accounts)
<1>1. IsFiniteSet({"ata", "aux"})
  <2>1. IsFiniteSet({"ata"})
    BY FS_Singleton
  <2>2. IsFiniteSet({"ata"} \cup {"aux"})
    BY <2>1, FS_AddElement
  <2>3. {"ata"} \cup {"aux"} = {"ata", "aux"}
    OBVIOUS
  <2>. QED BY <2>2, <2>3
<1>. QED BY <1>1, FinitelyMany, FS_Product DEF G!Accounts

(* An instruction touches nothing of what an abort would restore. *)
LEMMA InstructionKeepsSaved ==
  ASSUME SolInv,
         Step \/ (\E a, n : MovingStep(a, n)) \/ (\E a, n : OwingStep(a, n))
  PROVE  tx.open /\ tx'.open /\ tx'.saved = tx.saved
<1>1. CASE Step
  BY <1>1, Zenon DEF Step, Running, SolInv, TxShape
<1>2. ASSUME NEW a, NEW n, MovingStep(a, n) PROVE tx.open /\ tx'.open /\ tx'.saved = tx.saved
  BY <1>2, Zenon DEF MovingStep, Running, SolInv, TxShape
<1>3. ASSUME NEW a, NEW n, OwingStep(a, n) PROVE tx.open /\ tx'.open /\ tx'.saved = tx.saved
  BY <1>3, Zenon DEF OwingStep, Running, SolInv, TxShape
<1>. QED BY <1>1, <1>2, <1>3

(* SupplyAgrees, of some account of the curve and some balances.           *)
Minted(account, balances, burns) ==
  account.totalMinted = Sum(balances, G!Accounts) + Sum(burns, Wallets)

SupplyInv ==
  /\ Minted(curve, tok, burned)
  /\ Minted(tx.saved.curve, tx.saved.tok, tx.saved.burned)

(* Crediting or debiting one account changes the sum by the amount.        *)
Credited(f, x, d) == [f EXCEPT ![x] = @ + d]
Debited(f, x, d) == [f EXCEPT ![x] = @ - d]

LEMMA SumCredited ==
  ASSUME NEW S, IsFiniteSet(S), NEW f \in [S -> Nat], NEW x \in S, NEW d \in Nat
  PROVE  /\ Credited(f, x, d) \in [S -> Nat] /\ Sum(f, S) \in Nat
         /\ Sum(Credited(f, x, d), S) = Sum(f, S) + d
<1>1. f[x] \in Nat /\ f[x] + d \in Nat
  OBVIOUS
<1>2. PICK h \in [S -> Nat] : h = Credited(f, x, d)
  BY <1>1, Zenon DEF Credited
<1>3. h[x] = f[x] + d /\ \A y \in S \ {x} : h[y] = f[y]
  BY <1>2, Zenon DEF Credited
<1>4. Sum(h, S) = Sum(f, S) + h[x] - f[x]
  BY <1>3, SumChange
<1>5. Sum(f, S) \in Nat
  BY SumNat
<1>. QED BY <1>1, <1>2, <1>3, <1>4, <1>5

LEMMA SumDebited ==
  ASSUME NEW S, IsFiniteSet(S), NEW f \in [S -> Nat], NEW x \in S, NEW d \in Nat,
         d <= f[x]
  PROVE  /\ Debited(f, x, d) \in [S -> Nat] /\ Sum(f, S) \in Nat
         /\ Sum(Debited(f, x, d), S) = Sum(f, S) - d
<1>1. f[x] \in Nat /\ f[x] - d \in Nat
  OBVIOUS
<1>2. PICK h \in [S -> Nat] : h = Debited(f, x, d)
  BY <1>1, Zenon DEF Debited
<1>3. h[x] = f[x] - d /\ \A y \in S \ {x} : h[y] = f[y]
  BY <1>2, Zenon DEF Debited
<1>4. Sum(h, S) = Sum(f, S) + h[x] - f[x]
  BY <1>3, SumChange
<1>5. Sum(f, S) \in Nat
  BY SumNat
<1>. QED BY <1>1, <1>2, <1>3, <1>4, <1>5

(* A buy mints what it records. *)
LEMMA SupplyBuy ==
  ASSUME SolInv, SupplyInv, NEW w \in Wallets, NEW account \in G!Accounts,
         NEW sol \in SolAmounts, Buy(w, account, sol)
  PROVE  Minted(curve', tok', burned')
<1>. DEFINE net == sol - B!LockFee(sol)
            out == B!QuoteBuy(curve.cumulativeSol, curve.totalMinted, net).out
<1>1. /\ curve \in Curves /\ curve.cumulativeSol \in Nat
      /\ curve.totalMinted \in 0 .. CurveK /\ sol \in Nat
  BY Bounds DEF SolInv, Backed, Curves
<1>2. out \in Nat
  BY <1>1, BuyOut
<1>3. /\ B!RecordBuy(net, out) /\ burned' = burned
      /\ tok' = Credited(tok, account, out)
  BY DEF Buy, B!Buy, Credited
<1>. HIDE DEF net, out
<1>4. curve'.totalMinted = curve.totalMinted + out
  BY <1>1, <1>3, Zenon DEF B!RecordBuy, Curves
<1>5. tok \in [G!Accounts -> Nat]
  BY DEF SolInv, Backed
<1>6. /\ Sum(tok', G!Accounts) = Sum(tok, G!Accounts) + out
      /\ Sum(tok, G!Accounts) \in Nat
  BY <1>2, <1>3, <1>5, AccountsFinite, SumCredited
<1>7. Sum(burned, Wallets) \in Nat
  BY FinitelyMany, SumNat DEF SolInv, Backed
<1>. QED BY <1>2, <1>3, <1>4, <1>6, <1>7 DEF SupplyInv, Minted

(* A sale burns what it records. *)
LEMMA SupplySell ==
  ASSUME SolInv, SupplyInv, NEW account \in G!Accounts, NEW amount \in Amounts(account),
         NEW withSoul \in BOOLEAN, Sell(account, amount, withSoul)
  PROVE  Minted(curve', tok', burned')
<1>. DEFINE out == B!QuoteSell(curve.totalMinted, amount).out
<1>1. amount \in Nat /\ amount <= tok[account]
  BY AmountsNat DEF Sell, G!Debits
<1>2. /\ B!RecordSell(out, amount) /\ burned' = burned
      /\ tok' = Debited(tok, account, amount)
  BY DEF Sell, B!Sell, Debited
<1>. HIDE DEF out
<1>3. curve \in Curves /\ tok \in [G!Accounts -> Nat] /\ burned \in [Wallets -> Nat]
  BY DEF SolInv, Backed
<1>4. curve'.totalMinted = curve.totalMinted - amount
  BY <1>2, <1>3, Zenon DEF B!RecordSell, Curves
<1>5. /\ Sum(tok', G!Accounts) = Sum(tok, G!Accounts) - amount
      /\ Sum(tok, G!Accounts) \in Nat
  BY <1>1, <1>2, <1>3, AccountsFinite, SumDebited
<1>6. Sum(burned, Wallets) \in Nat
  BY <1>3, FinitelyMany, SumNat
<1>. QED BY <1>1, <1>2, <1>4, <1>5, <1>6 DEF SupplyInv, Minted

(* A transfer leaves the supply alone. *)
LEMMA SupplyTransfer ==
  ASSUME SolInv, SupplyInv, NEW source \in G!Accounts, NEW destination \in G!Accounts,
         NEW amount \in Amounts(source), Transfer(source, destination, amount)
  PROVE  Minted(curve', tok', burned')
<1>. DEFINE left == Debited(tok, source, amount)
<1>1. amount \in Nat /\ amount <= tok[source]
  BY AmountsNat DEF Transfer, G!Debits
<1>2. /\ source # destination /\ burned' = burned /\ curve' = curve
      /\ tok' = [tok EXCEPT ![source] = @ - amount, ![destination] = @ + amount]
  BY DEF Transfer
<1>3. tok \in [G!Accounts -> Nat]
  BY DEF SolInv, Backed
<1>4. /\ left \in [G!Accounts -> Nat]
      /\ Sum(left, G!Accounts) = Sum(tok, G!Accounts) - amount
      /\ Sum(tok, G!Accounts) \in Nat
  BY <1>1, <1>3, AccountsFinite, SumDebited
<1>5. tok' = Credited(left, destination, amount)
  BY <1>2, Zenon DEF Credited, Debited
<1>. HIDE DEF left
<1>6. Sum(tok', G!Accounts) = Sum(left, G!Accounts) + amount
  BY <1>1, <1>4, <1>5, AccountsFinite, SumCredited
<1>7. Sum(tok', G!Accounts) = Sum(tok, G!Accounts)
  BY <1>1, <1>4, <1>6
<1>. QED BY <1>2, <1>7 DEF SupplyInv, Minted

(* What is burned outside the curve is counted as burned. *)
LEMMA SupplyDirectBurn ==
  ASSUME SolInv, SupplyInv, NEW account \in G!Accounts, NEW amount \in Amounts(account),
         DirectBurn(account, amount)
  PROVE  Minted(curve', tok', burned')
<1>1. amount \in Nat /\ amount <= tok[account]
  BY AmountsNat DEF DirectBurn, G!Debits
<1>2. /\ tok' = Debited(tok, account, amount) /\ curve' = curve
      /\ burned' = Credited(burned, Owner(account), amount)
  BY DEF DirectBurn, Credited, Debited
<1>3. tok \in [G!Accounts -> Nat] /\ burned \in [Wallets -> Nat] /\ Owner(account) \in Wallets
  BY AccountsOwned DEF SolInv, Backed
<1>4. /\ Sum(tok', G!Accounts) = Sum(tok, G!Accounts) - amount
      /\ Sum(tok, G!Accounts) \in Nat
  BY <1>1, <1>2, <1>3, AccountsFinite, SumDebited
<1>5. /\ Sum(burned', Wallets) = Sum(burned, Wallets) + amount
      /\ Sum(burned, Wallets) \in Nat
  BY <1>1, <1>2, <1>3, FinitelyMany, SumCredited
<1>. QED BY <1>1, <1>2, <1>4, <1>5 DEF SupplyInv, Minted

(* Every step keeps the supply; an abort restores all three figures.       *)
LEMMA SupplyStep ==
  ASSUME SolInv, SupplyInv, [Next]_vars
  PROVE  SupplyInv'
<1>1. ASSUME Minted(curve', tok', burned'),
             Step \/ (\E a, n : MovingStep(a, n)) \/ (\E a, n : OwingStep(a, n))
      PROVE  SupplyInv'
  BY <1>1, InstructionKeepsSaved DEF SupplyInv
<1>2. ASSUME UNCHANGED chain, NEW open, tx' = Tx(open) PROVE SupplyInv'
  <2>1. tx'.saved = Written
    BY <1>2 DEF Tx
  <2>2. tx'.saved.curve = curve /\ tx'.saved.tok = tok /\ tx'.saved.burned = burned
    BY <2>1 DEF Written
  <2>. QED BY <1>2, <2>2 DEF SupplyInv, chain
<1>3. CASE Begin \/ Commit
  BY <1>2, <1>3 DEF Begin, Commit
<1>4. CASE Abort
  <2>1. tx' = [tx EXCEPT !.open = FALSE, !.steps = 0, !.owed = {}, !.debited = {}]
    BY <1>4 DEF Abort
  <2>2. tx'.saved = tx.saved
    BY <2>1, Zenon DEF SolInv, TxShape
  <2>3. curve' = tx.saved.curve /\ tok' = tx.saved.tok /\ burned' = tx.saved.burned
    BY <1>4 DEF Abort
  <2>. QED BY <2>2, <2>3 DEF SupplyInv
<1>5. CASE Tick
  BY <1>5 DEF Tick, B!Tick, SupplyInv
<1>6. CASE UNCHANGED vars
  <2>1. UNCHANGED <<curve, tok, burned, tx>>
    BY <1>6 DEF vars, chain
  <2>. QED BY <2>1 DEF SupplyInv
<1>7. ASSUME NEW w \in Wallets, NEW a \in G!Accounts, NEW sol \in SolAmounts,
             Buy(w, a, sol)
      PROVE  SupplyInv'
  BY <1>1, <1>7, SupplyBuy DEF Buy
<1>8. ASSUME NEW a \in G!Accounts, NEW withSoul \in BOOLEAN, NEW n \in Amounts(a),
             Sell(a, n, withSoul)
      PROVE  SupplyInv'
  BY <1>1, <1>8, SupplySell DEF Sell
<1>9. ASSUME NEW a \in G!Accounts, NEW b \in G!Accounts, NEW n \in Amounts(a),
             Transfer(a, b, n)
      PROVE  SupplyInv'
  BY <1>1, <1>9, SupplyTransfer DEF Transfer
<1>10. ASSUME NEW a \in G!Accounts, NEW n \in Amounts(a), DirectBurn(a, n)
       PROVE  SupplyInv'
  BY <1>1, <1>10, SupplyDirectBurn DEF DirectBurn
<1>11. ASSUME NEW w \in Wallets, Claim(w) PROVE SupplyInv'
  BY <1>1, <1>11 DEF Claim, SupplyInv
<1>12. ASSUME NEW a \in G!Accounts, NEW newState, NEW list, NEW n,
              Settle(a, n, newState, list)
       PROVE  SupplyInv'
  BY <1>1, <1>12 DEF Settle, SupplyInv
<1>. QED BY <1>3, <1>4, <1>5, <1>6, <1>7, <1>8, <1>9, <1>10, <1>11, <1>12 DEF Next

(* Nothing is minted at the launch. *)
LEMMA SupplyInit == Launched => SupplyInv
<1>. SUFFICES ASSUME Launched PROVE SupplyInv
  OBVIOUS
<1>1. /\ tok = [a \in G!Accounts |-> 0] /\ burned = [w \in Wallets |-> 0]
      /\ curve = [B!NoCurve EXCEPT !.open = TRUE] /\ tx = Tx(FALSE)
  BY DEF Launched
<1>2. Sum(tok, G!Accounts) = 0 /\ Sum(burned, Wallets) = 0
  BY <1>1, AccountsFinite, FinitelyMany, SumZero
<1>3. curve.totalMinted = 0
  BY <1>1 DEF B!NoCurve
<1>4. tx.saved.curve = curve /\ tx.saved.tok = tok /\ tx.saved.burned = burned
  BY <1>1 DEF Tx, Written
<1>. QED BY <1>2, <1>3, <1>4 DEF SupplyInv, Minted

(* The supply the curve prices is the supply that exists, together with    *)
(* the tokens burned outside the curve: buys mint what they record, sales  *)
(* burn what they record, and an abort restores all three.                 *)
THEOREM SupplyHolds == Spec => []SupplyAgrees
<1>1. Launched => SolInv /\ SupplyInv
  BY SolInit, SupplyInit
<1>2. SolInv /\ SupplyInv /\ [Next]_vars => SolInv' /\ SupplyInv'
  BY SolStep, SupplyStep
<1>3. SupplyInv => SupplyAgrees
  BY SupplyIs DEF SupplyInv, Minted
<1>. QED BY <1>1, <1>2, <1>3, PTL DEF Spec

-----------------------------------------------------------------------------
(* The ledger of BoundUnits *)

Actives(registries) == [w \in Wallets |-> registries[w].active]
Settleds(registries) == [w \in Wallets |-> Settled(registries, w)]
Issued(registries) == Sum(Actives(registries), Wallets) + Sum(Settleds(registries), Wallets)

(* Counted over all wallets, Souls are a natural number. *)
LEMMA IssuedNat ==
  ASSUME NEW registries \in Registries
  PROVE  /\ Actives(registries) \in [Wallets -> Nat]
         /\ Settleds(registries) \in [Wallets -> Nat]
         /\ Issued(registries) \in Nat
<1>1. Actives(registries) \in [Wallets -> Nat]
  BY DEF Registries, Actives
<1>2. Settleds(registries) \in [Wallets -> Nat]
  BY SettledNat DEF Settleds
<1>3. /\ Sum(Actives(registries), Wallets) \in Nat
      /\ Sum(Settleds(registries), Wallets) \in Nat
  BY <1>1, <1>2, FinitelyMany, SumNat
<1>. QED BY <1>1, <1>2, <1>3 DEF Issued

(* The Soul account counts trades, and claims no trade before it happened. *)
SoulShape(s) ==
  s = [open |-> s.open, authority |-> s.authority, generation |-> s.generation,
       picture |-> s.picture, claimCount |-> s.claimCount, renderer |-> s.renderer,
       provenance |-> s.provenance]

Counts(s) == SoulShape(s) /\ s.generation \in Nat /\ s.claimCount \in 0 .. s.generation

(* What instructions may do to Souls, however many of them there were: an  *)
(* issue takes a trade of its own, and what is settled stays settled.      *)
Advances(s, r, b, s2, r2, b2) ==
  /\ s.generation <= s2.generation
  /\ Issued(r) <= Issued(r2)
  /\ s.claimCount + (Issued(r2) - Issued(r)) <= s2.claimCount
  /\ \A w \in Wallets : Settled(r, w) <= Settled(r2, w) /\ b[w] <= b2[w]

LedgerInv ==
  /\ Counts(soul) /\ Counts(tx.saved.soul)
  /\ Advances(tx.saved.soul, tx.saved.registry, tx.saved.burned, soul, registry, burned)

(* Advances is reflexive and transitive. *)
LEMMA AdvancesFrom ==
  ASSUME NEW s, Counts(s), NEW r \in Registries, NEW b \in [Wallets -> Nat]
  PROVE  Advances(s, r, b, s, r, b)
<1>1. Issued(r) \in Nat /\ \A w \in Wallets : Settled(r, w) \in Nat
  BY IssuedNat, SettledNat
<1>. QED BY <1>1 DEF Advances, Counts

LEMMA AdvancesTwice ==
  ASSUME NEW s, Counts(s), NEW r \in Registries, NEW b \in [Wallets -> Nat],
         NEW s2, Counts(s2), NEW r2 \in Registries, NEW b2 \in [Wallets -> Nat],
         NEW s3, Counts(s3), NEW r3 \in Registries, NEW b3 \in [Wallets -> Nat],
         Advances(s, r, b, s2, r2, b2), Advances(s2, r2, b2, s3, r3, b3)
  PROVE  Advances(s, r, b, s3, r3, b3)
<1>1. Issued(r) \in Nat /\ Issued(r2) \in Nat /\ Issued(r3) \in Nat
  BY IssuedNat
<1>2. ASSUME NEW w \in Wallets
      PROVE  Settled(r, w) <= Settled(r3, w) /\ b[w] <= b3[w]
  <2>1. Settled(r, w) \in Nat /\ Settled(r2, w) \in Nat /\ Settled(r3, w) \in Nat
    BY SettledNat
  <2>2. b[w] \in Nat /\ b2[w] \in Nat /\ b3[w] \in Nat
    OBVIOUS
  <2>3. /\ Settled(r, w) <= Settled(r2, w) /\ Settled(r2, w) <= Settled(r3, w)
        /\ b[w] <= b2[w] /\ b2[w] <= b3[w]
    BY DEF Advances
  <2>. QED BY <2>1, <2>2, <2>3
<1>3. /\ s.generation <= s3.generation /\ Issued(r) <= Issued(r3)
      /\ s.claimCount + (Issued(r3) - Issued(r)) <= s3.claimCount
  BY <1>1 DEF Advances, Counts
<1>. QED BY <1>2, <1>3 DEF Advances

(* A trade is reported at most once more, and nobody's Souls change.       *)
ReportsTrade ==
  \/ soul' = soul
  \/ \E picture, provenance :
       soul' = [soul EXCEPT !.generation = @ + 1, !.picture = picture,
                            !.provenance = provenance]

LEMMA TradeAdvances ==
  ASSUME SolInv, Counts(soul), registry' = registry, burned' \in [Wallets -> Nat],
         \A w \in Wallets : burned[w] <= burned'[w], ReportsTrade
  PROVE  Counts(soul') /\ Advances(soul, registry, burned, soul', registry', burned')
<1>1. registry \in Registries
  BY DEF SolInv, Backed
<1>2. /\ soul'.generation \in {soul.generation, soul.generation + 1}
      /\ soul'.claimCount = soul.claimCount /\ SoulShape(soul')
  <2>1. CASE soul' = soul
    BY <2>1 DEF Counts
  <2>2. ASSUME NEW picture, NEW provenance,
               soul' = [soul EXCEPT !.generation = @ + 1, !.picture = picture,
                                    !.provenance = provenance]
        PROVE  /\ soul'.generation = soul.generation + 1
               /\ soul'.claimCount = soul.claimCount /\ SoulShape(soul')
    BY <2>2, Zenon DEF Counts, SoulShape
  <2>. QED BY <2>1, <2>2, Zenon DEF ReportsTrade
<1>3. Issued(registry) \in Nat /\ \A w \in Wallets : Settled(registry, w) \in Nat
  BY <1>1, IssuedNat, SettledNat
<1>4. Counts(soul')
  BY <1>2 DEF Counts
<1>5. /\ soul.generation <= soul'.generation
      /\ Issued(registry) <= Issued(registry')
      /\ soul.claimCount + (Issued(registry') - Issued(registry)) <= soul'.claimCount
  <2>1. Issued(registry') = Issued(registry)
    OBVIOUS
  <2>. QED BY <1>2, <1>3, <2>1 DEF Counts
<1>6. \A w \in Wallets : Settled(registry, w) <= Settled(registry', w)
  <2>. TAKE w \in Wallets
  <2>1. Settled(registry', w) = Settled(registry, w)
    OBVIOUS
  <2>. QED BY <1>3, <2>1
<1>. QED BY <1>4, <1>5, <1>6 DEF Advances

(* A claim issues one Soul, for a trade later than the last one claimed.   *)
LEMMA ClaimAdvances ==
  ASSUME SolInv, Counts(soul), NEW w \in Wallets, Claim(w)
  PROVE  Counts(soul') /\ Advances(soul, registry, burned, soul', registry', burned')
<1>1. /\ soul.claimCount < soul.generation
      /\ registry' = [registry EXCEPT ![w].open = TRUE, ![w].active = @ + 1]
      /\ soul' = [soul EXCEPT !.claimCount = soul.generation] /\ burned' = burned
  BY DEF Claim, G!ClaimSoul, G!Claimable
<1>2. registry \in Registries /\ burned \in [Wallets -> Nat]
  BY DEF SolInv, Backed
<1>3. /\ soul'.generation = soul.generation /\ soul'.claimCount = soul.generation
      /\ SoulShape(soul')
  BY <1>1, Zenon DEF Counts, SoulShape
<1>4. /\ Actives(registry') = Credited(Actives(registry), w, 1)
      /\ Settleds(registry') = Settleds(registry)
  <2>1. /\ registry'[w].active = registry[w].active + 1
        /\ \A v \in Wallets : /\ registry'[v].burned = registry[v].burned
                              /\ registry'[v].forfeited = registry[v].forfeited
                              /\ v # w => registry'[v] = registry[v]
    BY <1>1, <1>2, Zenon DEF Registries
  <2>2. Settleds(registry') = Settleds(registry)
    BY <2>1, Zenon DEF Settleds, Settled
  <2>3. Actives(registry') = Credited(Actives(registry), w, 1)
    BY <2>1, Zenon DEF Actives, Credited
  <2>. QED BY <2>2, <2>3
<1>5. /\ Sum(Actives(registry'), Wallets) = Sum(Actives(registry), Wallets) + 1
      /\ Sum(Actives(registry), Wallets) \in Nat
      /\ Sum(Settleds(registry), Wallets) \in Nat
  <2>1. PICK f \in [Wallets -> Nat] : f = Actives(registry)
    BY <1>2, IssuedNat
  <2>2. Sum(Credited(f, w, 1), Wallets) = Sum(f, Wallets) + 1 /\ Sum(f, Wallets) \in Nat
    BY FinitelyMany, SumCredited
  <2>3. Sum(Settleds(registry), Wallets) \in Nat
    BY <1>2, IssuedNat, FinitelyMany, SumNat
  <2>. QED BY <1>4, <2>1, <2>2, <2>3
<1>6. Issued(registry') = Issued(registry) + 1 /\ Issued(registry) \in Nat
  BY <1>4, <1>5 DEF Issued
<1>7. \A v \in Wallets : Settled(registry', v) = Settled(registry, v)
  BY <1>4, Zenon DEF Settleds
<1>8. \A v \in Wallets : Settled(registry, v) \in Nat /\ burned[v] \in Nat
  BY <1>2, SettledNat
<1>9. Counts(soul')
  BY <1>3 DEF Counts
<1>10. /\ soul.generation <= soul'.generation
       /\ Issued(registry) <= Issued(registry')
       /\ soul.claimCount + (Issued(registry') - Issued(registry)) <= soul'.claimCount
  BY <1>1, <1>3, <1>6 DEF Counts
<1>11. \A v \in Wallets : Settled(registry, v) <= Settled(registry', v)
                           /\ burned[v] <= burned'[v]
  <2>1. burned' = burned
    BY <1>1
  <2>. QED BY <1>7, <1>8, <2>1
<1>. QED BY <1>9, <1>10, <1>11 DEF Advances

(* A settlement turns bound Souls into retired ones, as many.              *)
LEMMA SettleAdvances ==
  ASSUME SolInv, Counts(soul), NEW account \in G!Accounts, NEW amount \in Amounts(account),
         NEW newState, NEW list, Settle(account, amount, newState, list)
  PROVE  Counts(soul') /\ Advances(soul, registry, burned, soul', registry', burned')
<1>. DEFINE w == Owner(account)
            post == G!PostUnits(tok[account], amount)
            n == Len(list)
<1>1. /\ n = G!RequiredCount(w, post)
      /\ registry' = [registry EXCEPT
                        ![w].active = @ - n,
                        ![w].burned = IF newState = "burned" THEN @ + n ELSE @,
                        ![w].forfeited = IF newState = "burned" THEN @ ELSE @ + n]
      /\ UNCHANGED <<soul, burned>>
  BY DEF Settle, G!SettleReceipts
<1>2. w \in Wallets /\ registry \in Registries /\ burned \in [Wallets -> Nat]
  BY AccountsOwned DEF SolInv, Backed
<1>3. /\ registry[w].active \in Nat /\ registry[w].burned \in Nat
      /\ registry[w].forfeited \in Nat
  BY <1>2 DEF Registries
<1>4. post \in Nat
  <2>1. amount \in Nat /\ tok[account] \in Nat /\ amount <= tok[account]
    BY AmountsNat DEF Settle, G!SettleReceipts, G!Debits
  <2>. QED BY <2>1, UnitsNat DEF G!PostUnits
<1>. HIDE DEF post, n, w
<1>5. n \in Nat /\ n <= registry[w].active
  BY <1>1, <1>3, <1>4 DEF G!RequiredCount
<1>6. /\ Actives(registry') = Debited(Actives(registry), w, n)
      /\ Settleds(registry') = Credited(Settleds(registry), w, n)
  <2>1. /\ registry'[w].active = registry[w].active - n
        /\ registry'[w].burned = (IF newState = "burned" THEN registry[w].burned + n
                                                         ELSE registry[w].burned)
        /\ registry'[w].forfeited = (IF newState = "burned" THEN registry[w].forfeited
                                                            ELSE registry[w].forfeited + n)
        /\ \A v \in Wallets \ {w} : registry'[v] = registry[v]
    BY <1>1, <1>2, Zenon DEF Registries
  <2>2. Settled(registry', w) = Settled(registry, w) + n
    BY <1>3, <1>5, <2>1 DEF Settled
  <2>3. \A v \in Wallets \ {w} : Settled(registry', v) = Settled(registry, v)
    BY <2>1, Zenon DEF Settled
  <2>4. Settleds(registry') = Credited(Settleds(registry), w, n)
    BY <2>2, <2>3, Zenon DEF Settleds, Credited
  <2>5. Actives(registry') = Debited(Actives(registry), w, n)
    BY <2>1, Zenon DEF Actives, Debited
  <2>. QED BY <2>4, <2>5
<1>7. /\ Sum(Actives(registry'), Wallets) = Sum(Actives(registry), Wallets) - n
      /\ Sum(Actives(registry), Wallets) \in Nat
  <2>1. Actives(registry) \in [Wallets -> Nat] /\ n <= Actives(registry)[w]
    BY <1>2, <1>5, IssuedNat DEF Actives
  <2>. QED BY <1>2, <1>5, <1>6, <2>1, FinitelyMany, SumDebited
<1>8. /\ Sum(Settleds(registry'), Wallets) = Sum(Settleds(registry), Wallets) + n
      /\ Sum(Settleds(registry), Wallets) \in Nat
  BY <1>2, <1>5, <1>6, IssuedNat, FinitelyMany, SumCredited
<1>9. Issued(registry') = Issued(registry) /\ Issued(registry) \in Nat
  BY <1>5, <1>7, <1>8 DEF Issued
<1>10. \A v \in Wallets : Settled(registry, v) <= Settled(registry', v)
  <2>. TAKE v \in Wallets
  <2>1. Settled(registry, v) \in Nat
    BY <1>2, SettledNat
  <2>2. Settled(registry', v) = IF v = w THEN Settled(registry, v) + n
                                         ELSE Settled(registry, v)
    BY <1>2, <1>6, Zenon DEF Settleds, Credited
  <2>. QED BY <1>5, <2>1, <2>2
<1>11. \A v \in Wallets : burned[v] <= burned'[v]
  BY <1>1, <1>2
<1>12. /\ soul.generation <= soul'.generation
       /\ Issued(registry) <= Issued(registry')
       /\ soul.claimCount + (Issued(registry') - Issued(registry)) <= soul'.claimCount
  BY <1>1, <1>9 DEF Counts
<1>13. Counts(soul')
  BY <1>1
<1>. QED BY <1>10, <1>11, <1>12, <1>13 DEF Advances

(* An instruction that is run. *)
LEMMA LedgerInstruction ==
  ASSUME SolInv, SolInv', LedgerInv,
         Step \/ (\E a, n : MovingStep(a, n)) \/ (\E a, n : OwingStep(a, n)),
         Counts(soul'), Advances(soul, registry, burned, soul', registry', burned')
  PROVE  LedgerInv'
<1>1. tx'.saved = tx.saved
  BY InstructionKeepsSaved
<1>2. PICK from : from = tx.saved
  OBVIOUS
<1>3. /\ from.registry \in Registries /\ from.burned \in [Wallets -> Nat]
      /\ Counts(from.soul)
      /\ Advances(from.soul, from.registry, from.burned, soul, registry, burned)
  BY <1>2 DEF SolInv, Backed, LedgerInv
<1>4. /\ registry \in Registries /\ burned \in [Wallets -> Nat] /\ Counts(soul)
      /\ registry' \in Registries /\ burned' \in [Wallets -> Nat]
  BY DEF SolInv, Backed, LedgerInv
<1>5. Advances(from.soul, from.registry, from.burned, soul', registry', burned')
  BY <1>3, <1>4, AdvancesTwice
<1>. QED BY <1>1, <1>2, <1>3, <1>5 DEF LedgerInv

(* Every step keeps the account of what a transaction has done so far.     *)
LEMMA LedgerStep ==
  ASSUME SolInv, SolInv', LedgerInv, [Next]_vars
  PROVE  LedgerInv'
<1>1. /\ registry \in Registries /\ burned \in [Wallets -> Nat]
      /\ registry' \in Registries /\ burned' \in [Wallets -> Nat]
      /\ Counts(soul) /\ Counts(tx.saved.soul)
      /\ tx.saved.registry \in Registries /\ tx.saved.burned \in [Wallets -> Nat]
  BY DEF SolInv, Backed, LedgerInv
<1>2. \A v \in Wallets : burned[v] \in Nat
  BY <1>1
<1>3. ASSUME UNCHANGED chain, NEW open, tx' = Tx(open) PROVE LedgerInv'
  <2>1. tx'.saved = Written
    BY <1>3 DEF Tx
  <2>2. /\ tx'.saved.soul = soul /\ tx'.saved.registry = registry
        /\ tx'.saved.burned = burned
    BY <2>1 DEF Written
  <2>3. soul' = soul /\ registry' = registry /\ burned' = burned
    BY <1>3 DEF chain
  <2>4. Advances(soul, registry, burned, soul, registry, burned)
    BY <1>1, AdvancesFrom
  <2>. QED BY <1>1, <2>2, <2>3, <2>4, Zenon DEF LedgerInv
<1>4. CASE Begin \/ Commit
  BY <1>3, <1>4 DEF Begin, Commit
<1>5. CASE Abort
  <2>1. tx' = [tx EXCEPT !.open = FALSE, !.steps = 0, !.owed = {}, !.debited = {}]
    BY <1>5 DEF Abort
  <2>2. tx'.saved = tx.saved
    BY <2>1, Zenon DEF SolInv, TxShape
  <2>3. soul' = tx.saved.soul /\ registry' = tx.saved.registry /\ burned' = tx.saved.burned
    BY <1>5 DEF Abort
  <2>4. PICK from : from = tx.saved
    OBVIOUS
  <2>5. Advances(from.soul, from.registry, from.burned,
                 from.soul, from.registry, from.burned)
    BY <1>1, <2>4, AdvancesFrom
  <2>. QED BY <1>1, <2>2, <2>3, <2>4, <2>5, Zenon DEF LedgerInv
<1>6. CASE Tick \/ UNCHANGED vars
  <2>1. UNCHANGED <<soul, registry, burned, tx>>
    BY <1>6 DEF Tick, B!Tick, vars, chain
  <2>. QED BY <2>1, Zenon DEF LedgerInv
<1>7. ASSUME ReportsTrade, registry' = registry,
             \A v \in Wallets : burned[v] <= burned'[v],
             Step \/ (\E a, n : MovingStep(a, n)) \/ (\E a, n : OwingStep(a, n))
      PROVE  LedgerInv'
  <2>1. Counts(soul') /\ Advances(soul, registry, burned, soul', registry', burned')
    BY <1>1, <1>7, TradeAdvances
  <2>. QED BY <1>7, <2>1, LedgerInstruction
<1>8. ASSUME NEW side, NEW v, NEW a, NEW t, G!GenerateSoul(side, v, a, t)
      PROVE  ReportsTrade /\ registry' = registry
  BY <1>8, Zenon DEF G!GenerateSoul, ReportsTrade
<1>9. burned' = burned => \A v \in Wallets : burned[v] <= burned'[v]
  BY <1>2
<1>10. ASSUME NEW w \in Wallets, NEW a \in G!Accounts, NEW sol \in SolAmounts,
              Buy(w, a, sol)
       PROVE  LedgerInv'
  BY <1>7, <1>8, <1>9, <1>10, Zenon DEF Buy
<1>11. ASSUME NEW a \in G!Accounts, NEW withSoul \in BOOLEAN, NEW n \in Amounts(a),
              Sell(a, n, withSoul)
       PROVE  LedgerInv'
  <2>1. burned' = burned /\ MovingStep(a, n)
    BY <1>11 DEF Sell
  <2>2. ReportsTrade /\ registry' = registry
    <3>1. CASE withSoul
      BY <1>8, <1>11, <3>1, Zenon DEF Sell
    <3>2. CASE ~withSoul
      BY <1>11, <3>2, Zenon DEF Sell, ReportsTrade
    <3>. QED BY <3>1, <3>2
  <2>. QED BY <1>7, <1>9, <2>1, <2>2, Zenon
<1>12. ASSUME NEW a \in G!Accounts, NEW b \in G!Accounts, NEW n \in Amounts(a),
              Transfer(a, b, n)
       PROVE  LedgerInv'
  <2>1. /\ burned' = burned /\ MovingStep(a, n) /\ registry' = registry /\ soul' = soul
    BY <1>12 DEF Transfer
  <2>. QED BY <1>7, <1>9, <2>1, Zenon DEF ReportsTrade
<1>13. ASSUME NEW a \in G!Accounts, NEW n \in Amounts(a), DirectBurn(a, n)
       PROVE  LedgerInv'
  <2>1. n \in Nat /\ Owner(a) \in Wallets
    BY AmountsNat, AccountsOwned
  <2>2. /\ Step /\ registry' = registry /\ soul' = soul
        /\ burned' = Credited(burned, Owner(a), n)
    BY <1>13 DEF DirectBurn, Credited
  <2>3. \A v \in Wallets : burned'[v] = burned[v] \/ burned'[v] = burned[v] + n
    BY <1>1, <2>2, Zenon DEF Credited
  <2>4. \A v \in Wallets : burned[v] <= burned'[v]
    BY <1>2, <2>1, <2>3
  <2>. QED BY <1>7, <2>2, <2>4, Zenon DEF ReportsTrade
<1>14. ASSUME NEW w \in Wallets, Claim(w) PROVE LedgerInv'
  BY <1>1, <1>14, ClaimAdvances, LedgerInstruction DEF Claim
<1>15. ASSUME NEW a \in G!Accounts, NEW newState, NEW list, NEW n \in Amounts(a),
              Settle(a, n, newState, list)
       PROVE  LedgerInv'
  <2>1. OwingStep(a, n)
    BY <1>15 DEF Settle
  <2>2. Counts(soul') /\ Advances(soul, registry, burned, soul', registry', burned')
    BY <1>1, <1>15, SettleAdvances
  <2>. QED BY <2>1, <2>2, LedgerInstruction
<1>. QED
  BY <1>4, <1>5, <1>6, <1>10, <1>11, <1>12, <1>13, <1>14, <1>15 DEF Next

(* At the launch no transaction has done anything. *)
LEMMA LedgerInit == Launched => LedgerInv
<1>. SUFFICES ASSUME Launched PROVE LedgerInv
  OBVIOUS
<1>1. SolInv
  BY SolInit
<1>2. PICK w \in Wallets : soul = [G!SoulInit EXCEPT !.open = TRUE, !.authority = w]
  BY DEF Launched
<1>3. Counts(soul)
  <2>1. soul = [open |-> TRUE, authority |-> w, generation |-> 0, picture |-> G!NoPicture,
                claimCount |-> 0, renderer |-> "builtin", provenance |-> G!NoProvenance]
    BY <1>2 DEF G!SoulInit
  <2>. QED BY <2>1 DEF Counts, SoulShape
<1>4. tx = Tx(FALSE)
  BY DEF Launched
<1>5. /\ tx.saved.soul = soul /\ tx.saved.registry = registry /\ tx.saved.burned = burned
  BY <1>4 DEF Tx, Written
<1>6. Advances(soul, registry, burned, soul, registry, burned)
  BY <1>1, <1>3, AdvancesFrom DEF SolInv, Backed
<1>. QED BY <1>3, <1>5, <1>6, Zenon DEF LedgerInv

(* What the ledger shows: what the last closed transaction left.           *)
LEMMA LedgerOpen == ASSUME tx.open PROVE Closed = tx.saved
BY DEF Closed

LEMMA LedgerClosed ==
  ASSUME ~tx.open
  PROVE  /\ Closed.soul = soul /\ Closed.registry = registry
         /\ Closed.tok = tok /\ Closed.burned = burned
BY DEF Closed, Written

(* The issued Souls of the ledger are the bound and the retired ones.      *)
LEMMA IssuedIs == ClosedIssued = Issued(Closed.registry)
<1>1. ClosedBound = Actives(Closed.registry) /\ ClosedRetired = Settleds(Closed.registry)
  BY DEF ClosedBound, ClosedRetired, Actives, Settleds
<1>. QED BY <1>1, TotalIs DEF ClosedIssued, Issued

(* A transaction that commits moves the ledger in one step. *)
LEMMA CommitTransacts ==
  ASSUME SolInv, SolInv', LedgerInv, LedgerInv', Commit
  PROVE  L!Transact
<1>1. PICK from : from = tx.saved
  OBVIOUS
<1>2. Closed = from
  BY <1>1, LedgerOpen DEF Commit
<1>3. ~tx'.open
  BY DEF Commit, Tx
<1>4. /\ Closed'.soul = soul /\ Closed'.registry = registry
      /\ Closed'.tok = tok /\ Closed'.burned = burned
  BY <1>3 DEF Commit, chain, Closed, Written
<1>5. /\ registry \in Registries /\ tok \in [G!Accounts -> Nat]
      /\ burned \in [Wallets -> Nat] /\ from.registry \in Registries
      /\ Counts(soul) /\ Counts(from.soul) /\ from.burned \in [Wallets -> Nat]
      /\ Advances(from.soul, from.registry, from.burned, soul, registry, burned)
  BY <1>1 DEF SolInv, Backed, LedgerInv
<1>6. ClosedHeld' = [w \in Wallets |-> G!WholeUnits(tok[G!Ata(w)])]
  BY <1>4 DEF ClosedHeld
<1>7. ClosedBound' = Actives(registry) /\ ClosedRetired' = Settleds(registry)
  BY <1>4 DEF ClosedBound, ClosedRetired, Actives, Settleds
<1>8. ClosedIssued' = Issued(registry)
  BY <1>7, TotalIs DEF ClosedIssued, Issued
<1>9. /\ ClosedTraded' = soul.generation /\ ClosedClaimed' = soul.claimCount
      /\ ClosedOutside' = {w \in Wallets : burned[w] > 0}
  BY <1>4 DEF ClosedTraded, ClosedClaimed, ClosedOutside
<1>10. /\ ClosedRetired = Settleds(from.registry) /\ ClosedIssued = Issued(from.registry)
       /\ ClosedTraded = from.soul.generation /\ ClosedClaimed = from.soul.claimCount
       /\ ClosedOutside = {w \in Wallets : from.burned[w] > 0}
  BY <1>2, IssuedIs
     DEF ClosedRetired, Settleds, ClosedTraded, ClosedClaimed, ClosedOutside
<1>11. /\ ClosedHeld' \in [Wallets -> Nat] /\ ClosedBound' \in [Wallets -> Nat]
       /\ ClosedRetired' \in [Wallets -> Nat] /\ ClosedTraded' \in Nat
       /\ ClosedOutside' \in SUBSET Wallets
  <2>1. \A w \in Wallets : G!WholeUnits(tok[G!Ata(w)]) \in Nat
    BY <1>5, AccountsOwned, UnitsNat
  <2>. QED BY <1>5, <1>6, <1>7, <1>9, <2>1, IssuedNat DEF Counts
<1>12. ClosedOutside \subseteq ClosedOutside'
  <2>. SUFFICES ASSUME NEW w \in Wallets, from.burned[w] > 0 PROVE burned[w] > 0
    BY <1>9, <1>10
  <2>1. from.burned[w] \in Nat /\ burned[w] \in Nat /\ from.burned[w] <= burned[w]
    BY <1>5 DEF Advances
  <2>. QED BY <2>1
<1>13. \A w \in Wallets : ClosedRetired'[w] >= ClosedRetired[w]
  <2>. TAKE w \in Wallets
  <2>1. /\ Settled(from.registry, w) \in Nat /\ Settled(registry, w) \in Nat
        /\ Settled(from.registry, w) <= Settled(registry, w)
    BY <1>5, SettledNat DEF Advances
  <2>. QED BY <1>7, <1>10, <2>1 DEF Settleds
<1>14. \A w \in Wallets \ ClosedOutside' : ClosedBound'[w] <= ClosedHeld'[w]
  <2>. SUFFICES ASSUME NEW w \in Wallets, ~(burned[w] > 0)
                PROVE  registry[w].active <= G!WholeUnits(tok[G!Ata(w)])
    BY <1>6, <1>7, <1>9 DEF Actives
  <2>1. burned[w] = 0
    BY <1>5
  <2>. QED BY <2>1 DEF SolInv, Backed
<1>15. \E n \in 0 .. ClosedTraded' :
         /\ ClosedIssued' = ClosedIssued + n
         /\ ClosedTraded' >= ClosedTraded
         /\ ClosedClaimed' \in ClosedClaimed + n .. ClosedTraded'
  <2>. DEFINE n == Issued(registry) - Issued(from.registry)
  <2>1. Issued(registry) \in Nat /\ Issued(from.registry) \in Nat
    BY <1>5, IssuedNat
  <2>2. /\ from.soul.generation \in Nat /\ from.soul.claimCount \in Nat
        /\ soul.generation \in Nat /\ soul.claimCount \in 0 .. soul.generation
    BY <1>5 DEF Counts
  <2>3. /\ from.soul.generation <= soul.generation
        /\ Issued(from.registry) <= Issued(registry)
        /\ from.soul.claimCount + n <= soul.claimCount
    BY <1>5 DEF Advances
  <2>. QED BY <1>8, <1>9, <1>10, <2>1, <2>2, <2>3
<1>. QED
  BY <1>11, <1>12, <1>13, <1>14, <1>15
     DEF L!Transact, L!Retires, L!Covers, L!Issues

(* Every other step leaves the ledger as it was. *)
LEMMA LedgerStays ==
  ASSUME SolInv, SolInv', Closed'.soul = Closed.soul, Closed'.registry = Closed.registry,
         Closed'.tok = Closed.tok, Closed'.burned = Closed.burned
  PROVE  UNCHANGED L!ledger
<1>1. /\ ClosedHeld' = ClosedHeld /\ ClosedBound' = ClosedBound
      /\ ClosedRetired' = ClosedRetired
  BY DEF ClosedHeld, ClosedBound, ClosedRetired
<1>2. ClosedIssued' = ClosedIssued
  BY <1>1 DEF ClosedIssued
<1>3. /\ ClosedTraded' = ClosedTraded /\ ClosedClaimed' = ClosedClaimed
      /\ ClosedOutside' = ClosedOutside
  BY DEF ClosedTraded, ClosedClaimed, ClosedOutside
<1>. QED BY <1>1, <1>2, <1>3 DEF L!ledger

(* Every step is one transaction of the ledger, or none. *)
LEMMA StepTransacts ==
  ASSUME SolInv, SolInv', LedgerInv, LedgerInv', [Next]_vars
  PROVE  [L!Transact]_L!ledger
<1>1. CASE Commit
  BY <1>1, CommitTransacts
<1>2. CASE Begin
  <2>1. tx' = Tx(TRUE) /\ ~tx.open /\ UNCHANGED chain
    BY <1>2 DEF Begin
  <2>2. tx'.open /\ tx'.saved = Written
    BY <2>1 DEF Tx
  <2>3. Closed' = Written /\ Closed = Written
    BY <2>1, <2>2 DEF Closed
  <2>. QED BY <2>3, LedgerStays
<1>3. CASE Abort
  <2>1. tx' = [tx EXCEPT !.open = FALSE, !.steps = 0, !.owed = {}, !.debited = {}]
    BY <1>3 DEF Abort
  <2>2. tx'.open = FALSE
    BY <2>1, Zenon DEF SolInv, TxShape
  <2>3. tx.open /\ soul' = tx.saved.soul /\ registry' = tx.saved.registry
        /\ tok' = tx.saved.tok /\ burned' = tx.saved.burned
    BY <1>3 DEF Abort
  <2>4. Closed = tx.saved
    BY <2>3, LedgerOpen
  <2>5. /\ Closed'.soul = soul' /\ Closed'.registry = registry'
        /\ Closed'.tok = tok' /\ Closed'.burned = burned'
    BY <2>2 DEF Closed, Written
  <2>. QED BY <2>3, <2>4, <2>5, LedgerStays
<1>4. CASE Tick \/ UNCHANGED vars
  <2>1. UNCHANGED <<soul, receipts, registry, events, curve, vault, lockFees, tok, burned, tx>>
    BY <1>4 DEF Tick, B!Tick, vars, chain
  <2>2. Closed' = Closed
    BY <2>1 DEF Closed, Written
  <2>. QED BY <2>2, LedgerStays
<1>5. ASSUME Step \/ (\E a, n : MovingStep(a, n)) \/ (\E a, n : OwingStep(a, n))
      PROVE  UNCHANGED L!ledger
  <2>1. tx.open /\ tx'.open /\ tx'.saved = tx.saved
    BY <1>5, InstructionKeepsSaved
  <2>2. Closed = tx.saved /\ Closed' = tx'.saved
    BY <2>1 DEF Closed
  <2>. QED BY <2>1, <2>2, LedgerStays
<1>. QED
  BY <1>1, <1>2, <1>3, <1>4, <1>5, Zenon
     DEF Next, Buy, Sell, Transfer, DirectBurn, Claim, Settle

(* The launch leaves an empty ledger. *)
LEMMA LedgerStarts == Launched => L!Init
<1>. SUFFICES ASSUME Launched PROVE L!Init
  OBVIOUS
<1>1. PICK w \in Wallets : soul = [G!SoulInit EXCEPT !.open = TRUE, !.authority = w]
  BY DEF Launched
<1>2. /\ registry = [v \in Wallets |-> G!NoRegistry] /\ tok = [a \in G!Accounts |-> 0]
      /\ burned = [v \in Wallets |-> 0] /\ ~tx.open
  BY DEF Launched, Tx
<1>3. /\ Closed.soul = soul /\ Closed.registry = registry
      /\ Closed.tok = tok /\ Closed.burned = burned
  BY <1>2, LedgerClosed
<1>4. ClosedHeld = [v \in Wallets |-> 0]
  <2>1. G!WholeUnits(0) = 0
    BY Quantities DEF G!WholeUnits
  <2>2. \A v \in Wallets : tok[G!Ata(v)] = 0
    BY <1>2, AccountsOwned
  <2>. QED BY <1>3, <2>1, <2>2 DEF ClosedHeld
<1>5. ClosedBound = [v \in Wallets |-> 0] /\ ClosedRetired = [v \in Wallets |-> 0]
  <2>1. \A v \in Wallets : registry[v].active = 0 /\ Settled(registry, v) = 0
    BY <1>2 DEF G!NoRegistry, Settled
  <2>. QED BY <1>3, <2>1 DEF ClosedBound, ClosedRetired
<1>6. ClosedIssued = 0
  BY <1>5, FinitelyMany, SumZero, TotalIs DEF ClosedIssued
<1>7. ClosedTraded = 0 /\ ClosedClaimed = 0
  BY <1>1, <1>3 DEF G!SoulInit, ClosedTraded, ClosedClaimed
<1>8. ClosedOutside = {}
  BY <1>2, <1>3 DEF ClosedOutside
<1>. QED BY <1>4, <1>5, <1>6, <1>7, <1>8 DEF L!Init, L!Empty

(* The programs implement the ledger of Souls and whole units: whatever    *)
(* instructions a transaction is put together from, and wherever it is     *)
(* rolled back, what it does to Souls is one transaction of BoundUnits.    *)
THEOREM ProgramsImplementLedger == Spec => ImplementsBoundUnits
<1>1. Launched => SolInv /\ LedgerInv /\ L!Init
  BY SolInit, LedgerInit, LedgerStarts
<1>2. SolInv /\ LedgerInv /\ [Next]_vars => SolInv' /\ LedgerInv'
  BY SolStep, LedgerStep
<1>3. SolInv /\ SolInv' /\ LedgerInv /\ LedgerInv' /\ [Next]_vars
        => [L!Transact]_L!ledger
  BY StepTransacts
<1>. QED BY <1>1, <1>2, <1>3, PTL DEF Spec, ImplementsBoundUnits, L!Spec

-----------------------------------------------------------------------------
(* The curve in transactions *)

(* ReserveInv and ReserveCoversSupply of BondingCurve_proofs, of a curve   *)
(* account and a vault.                                                    *)
Reserved(account, lamports) ==
  /\ account.open /\ lamports \in Nat
  /\ lamports >= VaultRent + account.cumulativeSol
  /\ account.totalMinted >= C!SelfDeprecatedThreshold => account.selfDeprecated
  /\ CurveS * C!CurveArgument(account.totalMinted)
       <= Scale * (account.cumulativeSol + RoundingSlack)

(* An abort restores what the transaction found: both are reserved.        *)
CurveInv == Reserved(curve, vault) /\ Reserved(tx.saved.curve, tx.saved.vault)

(* What the invariants say is what BondingCurve_proofs asks for. *)
LEMMA ReservedGives ==
  ASSUME curve \in Curves, Reserved(curve, vault)
  PROVE  C!Shaped /\ C!ReserveInv /\ C!ReserveCoversSupply
BY DEF Curves, Reserved, C!Shaped, C!ReserveInv, C!Blank, C!VaultHoldsReserve,
       C!DeprecatedAboveThreshold, C!ReserveCoversSupply

LEMMA ReservedFrom ==
  ASSUME curve'.open, vault' \in Nat, C!ReserveInv', C!ReserveCoversSupply'
  PROVE  Reserved(curve', vault')
BY DEF Reserved, C!ReserveInv, C!VaultHoldsReserve, C!DeprecatedAboveThreshold,
       C!ReserveCoversSupply

(* The trades of the two instances of the curve are the same trades.       *)
LEMMA SameBuy ==
  ASSUME curve \in Curves, NEW sol \in Nat, B!Buy(sol)
  PROVE  C!Buy(sol)
<1>1. B!LockFee(sol) = C!LockFee(sol)
  BY DEF B!LockFee, C!LockFee
<1>2. \A r : B!MintedAt(r) = C!MintedAt(r)
  BY SameMinus, SameExpNeg DEF B!MintedAt, C!MintedAt
<1>3. \A c, m, n : B!QuoteBuy(c, m, n) = C!QuoteBuy(c, m, n)
  BY <1>2, SameMinus DEF B!QuoteBuy, C!QuoteBuy, B!NoQuote, C!NoQuote
<1>. QED
  BY <1>1, <1>3 DEF B!Buy, C!Buy, B!RecordBuy, C!RecordBuy, B!NotPaused, C!NotPaused,
     B!FirstInSlot, C!FirstInSlot, B!SelfDeprecatedThreshold, C!SelfDeprecatedThreshold

LEMMA SameSell ==
  ASSUME NEW amount \in Nat, B!Sell(amount)
  PROVE  C!Sell(amount)
<1>1. \A m, n : B!QuoteSell(m, n) = C!QuoteSell(m, n)
  BY SameArgument, SameMinus
     DEF B!QuoteSell, C!QuoteSell, B!SellTooLarge, C!SellTooLarge, B!NoQuote, C!NoQuote
<1>. QED
  BY <1>1 DEF B!Sell, C!Sell, B!RecordSell, C!RecordSell, B!NotPaused, C!NotPaused,
     B!FirstInSlot, C!FirstInSlot

(* A buy keeps the curve reserved. *)
LEMMA ReservedBuy ==
  ASSUME C!MintsCovered(RoundingSlack), curve \in Curves, Reserved(curve, vault),
         NEW sol \in SolAmounts, B!Buy(sol)
  PROVE  Reserved(curve', vault')
<1>1. sol \in Nat
  BY Bounds
<1>2. C!Buy(sol) /\ C!Shaped /\ C!ReserveInv
  BY <1>1, SameBuy, ReservedGives
<1>3. C!ReserveInv' /\ C!ReserveCoversSupply'
  BY <1>2, C!ReserveBuy, C!CoverBuy, Curve, Bounds, Threshold
     DEF B!SelfDeprecatedThreshold, C!SelfDeprecatedThreshold
<1>4. curve'.open
  BY DEF B!Buy, B!RecordBuy, Reserved, Curves
<1>5. vault' \in Nat
  <2>. DEFINE net == sol - B!LockFee(sol)
  <2>1. net \in Nat
    BY <1>1 DEF B!LockFee
  <2>2. vault' = vault + net
    BY DEF B!Buy
  <2>. HIDE DEF net
  <2>. QED BY <2>1, <2>2 DEF Reserved
<1>. QED BY <1>3, <1>4, <1>5, ReservedFrom

(* A sale does, whatever part of a balance it sells. *)
LEMMA ReservedSell ==
  ASSUME curve \in Curves, Reserved(curve, vault), NEW amount \in Nat, B!Sell(amount)
  PROVE  Reserved(curve', vault')
<1>1. C!Sell(amount) /\ C!Shaped /\ C!ReserveInv /\ C!ReserveCoversSupply
  BY SameSell, ReservedGives
<1>2. C!ReserveInv' /\ C!ReserveCoversSupply'
  BY <1>1, C!ReserveSell, C!CoverSell, Curve, Bounds, Threshold
     DEF B!SelfDeprecatedThreshold, C!SelfDeprecatedThreshold
<1>3. curve'.open
  BY DEF B!Sell, B!RecordSell, Reserved, Curves
<1>4. vault' \in Nat
  <2>. DEFINE out == B!QuoteSell(curve.totalMinted, amount).out
  <2>1. out \in Nat
    <3>1. curve.totalMinted \in Nat
      BY Curve DEF Curves
    <3>. QED BY <3>1, SellOut
  <2>2. vault' = vault - out /\ vault >= out
    BY DEF B!Sell
  <2>. HIDE DEF out
  <2>. QED BY <2>1, <2>2 DEF Reserved
<1>. QED BY <1>2, <1>3, <1>4, ReservedFrom

(* An instruction that does not trade leaves curve and vault alone.        *)
LEMMA CurveFrame ==
  ASSUME CurveInv, curve' = curve, vault' = vault, tx'.saved = tx.saved
  PROVE  CurveInv'
BY Zenon DEF CurveInv

(* Every step keeps the curve and its saved copy reserved. *)
LEMMA CurveStep ==
  ASSUME C!MintsCovered(RoundingSlack), SolInv, CurveInv, [Next]_vars
  PROVE  CurveInv'
<1>1. curve \in Curves /\ TxShape
  BY DEF SolInv, Backed
<1>2. ASSUME UNCHANGED chain, NEW open, tx' = Tx(open) PROVE CurveInv'
  <2>1. tx'.saved = Written
    BY <1>2 DEF Tx
  <2>2. tx'.saved.curve = curve /\ tx'.saved.vault = vault
    BY <2>1 DEF Written
  <2>3. curve' = curve /\ vault' = vault
    BY <1>2 DEF chain
  <2>. QED BY <2>2, <2>3, Zenon DEF CurveInv
<1>3. CASE Begin \/ Commit
  BY <1>2, <1>3 DEF Begin, Commit
<1>4. CASE Abort
  <2>1. tx' = [tx EXCEPT !.open = FALSE, !.steps = 0, !.owed = {}, !.debited = {}]
    BY <1>4 DEF Abort
  <2>2. tx'.saved = tx.saved
    BY <1>1, <2>1, Zenon DEF TxShape
  <2>3. curve' = tx.saved.curve /\ vault' = tx.saved.vault
    BY <1>4 DEF Abort
  <2>. QED BY <2>2, <2>3, Zenon DEF CurveInv
<1>5. CASE Tick \/ UNCHANGED vars
  <2>1. curve' = curve /\ vault' = vault /\ tx' = tx
    BY <1>5 DEF Tick, B!Tick, vars, chain
  <2>. QED BY <2>1, CurveFrame
<1>6. ASSUME Reserved(curve', vault'), Step \/ (\E a, n : MovingStep(a, n))
      PROVE  CurveInv'
  <2>1. tx'.saved = tx.saved
    BY <1>6, InstructionKeepsSaved
  <2>. QED BY <1>6, <2>1, Zenon DEF CurveInv
<1>7. ASSUME NEW w \in Wallets, NEW a \in G!Accounts, NEW sol \in SolAmounts,
             Buy(w, a, sol)
      PROVE  CurveInv'
  <2>1. B!Buy(sol) /\ Step
    BY <1>7 DEF Buy
  <2>. QED BY <1>1, <1>6, <2>1, ReservedBuy DEF CurveInv
<1>8. ASSUME NEW a \in G!Accounts, NEW withSoul \in BOOLEAN, NEW n \in Amounts(a),
             Sell(a, n, withSoul)
      PROVE  CurveInv'
  <2>1. B!Sell(n) /\ MovingStep(a, n) /\ n \in Nat
    BY <1>8, AmountsNat DEF Sell
  <2>. QED BY <1>1, <1>6, <2>1, ReservedSell DEF CurveInv
<1>9. ASSUME curve' = curve, vault' = vault,
             Step \/ (\E a, n : MovingStep(a, n)) \/ (\E a, n : OwingStep(a, n))
      PROVE  CurveInv'
  BY <1>9, InstructionKeepsSaved, CurveFrame
<1>. QED
  BY <1>3, <1>4, <1>5, <1>7, <1>8, <1>9
     DEF Next, Transfer, DirectBurn, Claim, Settle

(* The launch leaves an empty curve and a vault at its rent. *)
LEMMA CurveStart == Launched => CurveInv
<1>. SUFFICES ASSUME Launched PROVE CurveInv
  OBVIOUS
<1>1. /\ curve = [open |-> TRUE, cumulativeSol |-> 0, totalMinted |-> 0,
                  selfDeprecated |-> FALSE, lastSlot |-> 0]
      /\ vault = VaultRent /\ tx = Tx(FALSE)
  BY DEF Launched, B!NoCurve
<1>2. tx.saved.curve = curve /\ tx.saved.vault = vault
  BY <1>1 DEF Tx, Written
<1>3. /\ Scale \in Nat /\ CurveS \in Nat /\ RoundingSlack \in Nat /\ VaultRent \in Nat
      /\ CurveK \in Nat /\ CurveK # 0
  BY Curve, Bounds
<1>4. C!CurveArgument(0) = 0
  <2>1. (0 * Scale) \div CurveK = 0
    BY <1>3
  <2>. QED BY <2>1 DEF C!CurveArgument, C!LnInv
<1>5. C!SelfDeprecatedThreshold > 0 /\ C!SelfDeprecatedThreshold \in Int
  BY <1>3, Threshold DEF B!SelfDeprecatedThreshold, C!SelfDeprecatedThreshold
<1>6. CurveS * C!CurveArgument(0) <= Scale * (0 + RoundingSlack)
  BY <1>3, <1>4
<1>7. Reserved(curve, vault)
  BY <1>1, <1>3, <1>5, <1>6 DEF Reserved
<1>. QED BY <1>2, <1>7, Zenon DEF CurveInv

(* The curve's guarantees survive its composition with the other programs, *)
(* trades of any amount and rollbacks, with the program's table.           *)
THEOREM CurveStays ==
  ASSUME C!ProgramArithmetic, RoundingSlack >= 1083
  PROVE  Spec => []CurveStaysSound
<1>1. C!MintsCovered(RoundingSlack)
  BY C!ProgramMintsCovered, Curve, Bounds, Threshold
     DEF B!SelfDeprecatedThreshold, C!SelfDeprecatedThreshold
<1>2. SolInv /\ CurveInv /\ [Next]_vars => SolInv' /\ CurveInv'
  BY <1>1, SolStep, CurveStep
<1>3. Launched => SolInv /\ CurveInv
  BY SolInit, CurveStart
<1>4. CurveInv => CurveStaysSound
  BY SameArgument
     DEF CurveInv, Reserved, CurveStaysSound, B!VaultHoldsReserve, B!ReserveCoversSupply
<1>. QED BY <1>2, <1>3, <1>4, PTL DEF Spec

-----------------------------------------------------------------------------
(* The soul generator in transactions *)

(* The soul generator with every balance and amount, as the other programs *)
(* supply them: of the accounts as they are, and as an abort restores them.*)
P == INSTANCE SoulGenerator_proofs WITH Balances <- Nat, TokenAmounts <- Nat

S == INSTANCE SoulGenerator_proofs
       WITH soul <- tx.saved.soul, receipts <- tx.saved.receipts,
            registry <- tx.saved.registry, events <- tx.saved.events,
            Balances <- Nat, TokenAmounts <- Nat

(* The inductive invariants of SoulGenerator_proofs. *)
Sound == P!TypeOK /\ P!ReceiptLadder /\ P!Tallies /\ P!ProvenanceInv /\ P!Announced
SavedSound == S!TypeOK /\ S!ReceiptLadder /\ S!Tallies /\ S!ProvenanceInv /\ S!Announced

(* The instances count alike. *)
LEMMA SameCardinality ==
  \A T : /\ P!Cardinality(T) = S!Cardinality(T) /\ G!Cardinality(T) = P!Cardinality(T)
         /\ P!Cardinality(T) = Cardinality(T)
BY DEF P!Cardinality, S!Cardinality, G!Cardinality, Cardinality

(* An abort makes what was saved the present, and what opens or closes a   *)
(* transaction saves the present.                                          *)
LEMMA SoundRestored ==
  ASSUME SavedSound, config' = config, soul' = tx.saved.soul,
         receipts' = tx.saved.receipts, registry' = tx.saved.registry,
         events' = tx.saved.events
  PROVE  Sound'
<1>. USE DEF P!ClaimSequences, S!ClaimSequences
<1>1. P!TypeOK'
  BY DEF SavedSound, P!TypeOK, S!TypeOK, P!ReceiptStates, S!ReceiptStates,
         P!Provenances, S!Provenances, P!Accounts, S!Accounts, P!NoAccount, S!NoAccount,
         P!NoPicture, S!NoPicture
<1>2. P!ReceiptLadder'
  BY DEF SavedSound, P!ReceiptLadder, S!ReceiptLadder, P!LadderOf, S!LadderOf,
         P!ActiveOf, S!ActiveOf
<1>3. P!Tallies'
  <2>1. \A w, st : P!TallyOf(w, st)' = S!TallyOf(w, st)
    BY DEF P!TallyOf, S!TallyOf
  <2>. QED BY <2>1, SameCardinality, Zenon DEF SavedSound, P!Tallies, S!Tallies
<1>4. P!ProvenanceInv'
  BY DEF SavedSound, P!ProvenanceInv, S!ProvenanceInv, P!LastTradeRecorded,
         S!LastTradeRecorded, P!ClaimedFromBuy, S!ClaimedFromBuy, P!Ata, S!Ata
<1>5. P!Announced'
  BY DEF SavedSound, P!Announced, S!Announced, P!Of, S!Of
<1>. QED BY <1>1, <1>2, <1>3, <1>4, <1>5 DEF Sound

(* A transaction that has not written yet has saved what is there. *)
Fresh ==
  /\ tx.saved.soul = soul /\ tx.saved.receipts = receipts
  /\ tx.saved.registry = registry /\ tx.saved.events = events

(* What is saved is then as sound as what is there. *)
LEMMA SoundSaved == Sound /\ Fresh => SavedSound
<1>. SUFFICES ASSUME Sound, Fresh PROVE SavedSound
  OBVIOUS
<1>. USE DEF Fresh, P!ClaimSequences, S!ClaimSequences
<1>1. S!TypeOK
  BY DEF Sound, P!TypeOK, S!TypeOK, P!ReceiptStates, S!ReceiptStates,
         P!Provenances, S!Provenances, P!Accounts, S!Accounts, P!NoAccount, S!NoAccount,
         P!NoPicture, S!NoPicture
<1>2. S!ReceiptLadder
  BY DEF Sound, P!ReceiptLadder, S!ReceiptLadder, P!LadderOf, S!LadderOf,
         P!ActiveOf, S!ActiveOf
<1>3. S!Tallies
  <2>1. \A w, st : S!TallyOf(w, st) = P!TallyOf(w, st)
    BY DEF P!TallyOf, S!TallyOf
  <2>. QED BY <2>1, SameCardinality, Zenon DEF Sound, P!Tallies, S!Tallies
<1>4. S!ProvenanceInv
  BY DEF Sound, P!ProvenanceInv, S!ProvenanceInv, P!LastTradeRecorded,
         S!LastTradeRecorded, P!ClaimedFromBuy, S!ClaimedFromBuy, P!Ata, S!Ata
<1>5. S!Announced
  BY DEF Sound, P!Announced, S!Announced, P!Of, S!Of
<1>. QED BY <1>1, <1>2, <1>3, <1>4, <1>5 DEF SavedSound

LEMMA SoundSavedNext == (Sound /\ Fresh => SavedSound)'
BY SoundSaved, PTL

LEMMA SoundKept ==
  ASSUME SavedSound, config' = config, tx'.saved = tx.saved
  PROVE  SavedSound'
<1>1. S!TypeOK' /\ S!ReceiptLadder'
  BY DEF SavedSound, S!TypeOK, S!ReceiptLadder, S!LadderOf, S!ActiveOf
<1>2. S!Tallies'
  <2>1. \A w, st : S!TallyOf(w, st)' = S!TallyOf(w, st)
    BY DEF S!TallyOf
  <2>. QED BY <2>1, Zenon DEF SavedSound, S!Tallies
<1>3. S!ProvenanceInv' /\ S!Announced'
  BY DEF SavedSound, S!ProvenanceInv, S!LastTradeRecorded, S!ClaimedFromBuy,
         S!Announced, S!Of
<1>. QED BY <1>1, <1>2, <1>3 DEF SavedSound

(* What CommittedReceiptsAreFinal says of the receipts before and after.   *)
FinalFrom(before, after) ==
  \A s \in G!ClaimSequences :
    before[s].state # "none" =>
      /\ after[s].claimant = before[s].claimant /\ after[s].boundary = before[s].boundary
      /\ after[s].state # "none"
      /\ before[s].state \in G!TerminalStates => after[s] = before[s]

LEMMA FinalTwice ==
  ASSUME NEW a, NEW b, NEW c, FinalFrom(a, b), FinalFrom(b, c)
  PROVE  FinalFrom(a, c)
BY DEF FinalFrom

LEMMA FinalSame == ASSUME NEW a PROVE FinalFrom(a, a)
BY DEF FinalFrom

SoulsInv == Sound /\ SavedSound /\ FinalFrom(tx.saved.receipts, receipts)

(* An instruction of the soul generator, and one that leaves its accounts  *)
(* alone, keep its invariants inside a transaction.                        *)
LEMMA SoulInstruction ==
  ASSUME SoulsInv, [P!Next]_P!sgVars, config' = config, tx'.saved = tx.saved
  PROVE  SoulsInv'
<1>. USE Quantities, NobodyIsNoWallet
<1>1. Sound'
  BY P!TypeStep, P!LadderStep, P!TalliesStep, P!ProvenanceStep, P!AnnouncedStep
     DEF SoulsInv, Sound
<1>2. SavedSound'
  BY SoundKept DEF SoulsInv
<1>3. FinalFrom(receipts, receipts')
  <2>1. \A s \in P!ClaimSequences : P!Final(s)
    BY P!FinalStep DEF SoulsInv, Sound
  <2>. QED BY <2>1, Zenon DEF FinalFrom, P!Final, P!ClaimSequences, G!ClaimSequences,
                              P!TerminalStates, G!TerminalStates
<1>4. FinalFrom(tx'.saved.receipts, receipts')
  <2>1. FinalFrom(tx.saved.receipts, receipts)
    BY DEF SoulsInv
  <2>2. PICK a : a = tx.saved.receipts
    OBVIOUS
  <2>. QED BY <1>3, <2>1, <2>2, FinalTwice
<1>. QED BY <1>1, <1>2, <1>4 DEF SoulsInv

(* The composition's instructions are instructions of that instance.       *)
LEMMA SameGenerate ==
  ASSUME NEW side \in {"buy", "sell"}, NEW w \in Wallets, NEW a \in G!Accounts,
         NEW t \in Nat, G!GenerateSoul(side, w, a, t)
  PROVE  P!Next
<1>1. P!GenerateSoul(side, w, a, t)
  BY DEF G!GenerateSoul, P!GenerateSoul, G!TradeProvenance, P!TradeProvenance,
         G!NotPaused, P!NotPaused, G!Renders, P!Renders,
         G!RenderBufferExists, P!RenderBufferExists
<1>2. a \in P!Accounts
  BY DEF G!Accounts, P!Accounts
<1>. QED BY <1>1, <1>2, Zenon DEF P!Next

LEMMA SameClaim ==
  ASSUME NEW w \in Wallets, NEW balance \in Nat, G!ClaimSoul(w, balance)
  PROVE  P!Next
<1>1. P!ClaimSoul(w, balance)
  BY DEF G!ClaimSoul, P!ClaimSoul, G!NotPaused, P!NotPaused, G!Claimable, P!Claimable,
         G!ClaimSequence, P!ClaimSequence, G!NoPicture, P!NoPicture, G!BoughtBy, P!BoughtBy,
         G!Ata, P!Ata, G!HasCapacity, P!HasCapacity, G!WholeUnits, P!WholeUnits
<1>. QED BY <1>1, Zenon DEF P!Next

LEMMA SameSettle ==
  ASSUME NEW w \in Wallets, NEW pre \in Nat, NEW amount \in Nat,
         NEW newState \in G!TerminalStates, NEW list \in G!ReceiptLists,
         G!SettleReceipts(w, pre, amount, newState, list)
  PROVE  P!Next
<1>0. /\ G!PostUnits(pre, amount) = P!PostUnits(pre, amount)
      /\ G!WholeUnits(pre) = P!WholeUnits(pre)
      /\ G!Debits(pre, amount) = P!Debits(pre, amount)
  BY DEF G!PostUnits, P!PostUnits, G!WholeUnits, P!WholeUnits, G!Debits, P!Debits
<1>1. P!SettleReceipts(w, pre, amount, newState, list)
  BY <1>0 DEF G!SettleReceipts, P!SettleReceipts, G!RequiredCount, P!RequiredCount,
         G!ListMatches, P!ListMatches, G!Listed, P!Listed,
         G!ClaimSequences, P!ClaimSequences
<1>2. newState \in P!TerminalStates /\ list \in P!ReceiptLists
  BY DEF G!TerminalStates, P!TerminalStates, G!ReceiptLists, P!ReceiptLists,
         G!ClaimSequences, P!ClaimSequences
<1>. QED BY <1>1, <1>2, Zenon DEF P!Next

(* Every step keeps the accounts, present and saved, sound. *)
LEMMA SoulsStep ==
  ASSUME SolInv, SoulsInv, [Next]_vars
  PROVE  SoulsInv'
<1>0. tok \in [G!Accounts -> Nat]
  BY DEF SolInv, Backed
<1>1. ASSUME UNCHANGED chain, NEW open, tx' = Tx(open) PROVE SoulsInv'
  <2>1. tx'.saved = Written
    BY <1>1 DEF Tx
  <2>2. /\ tx'.saved.soul = soul /\ tx'.saved.receipts = receipts
        /\ tx'.saved.registry = registry /\ tx'.saved.events = events
    BY <2>1 DEF Written
  <2>3. UNCHANGED <<soul, receipts, registry, config, events>>
    BY <1>1 DEF chain
  <2>4. Sound'
    BY <2>3, Quantities, NobodyIsNoWallet, P!TypeStep, P!LadderStep, P!TalliesStep,
       P!ProvenanceStep, P!AnnouncedStep DEF SoulsInv, Sound, P!sgVars
  <2>5. SavedSound'
    BY <2>2, <2>3, <2>4, SoundSavedNext DEF Fresh
  <2>. QED BY <2>2, <2>3, <2>4, <2>5, FinalSame DEF SoulsInv
<1>2. CASE Begin \/ Commit
  BY <1>1, <1>2 DEF Begin, Commit
<1>3. CASE Abort
  <2>1. tx' = [tx EXCEPT !.open = FALSE, !.steps = 0, !.owed = {}, !.debited = {}]
    BY <1>3 DEF Abort
  <2>2. tx'.saved = tx.saved
    BY <2>1, Zenon DEF SolInv, TxShape
  <2>3. /\ soul' = tx.saved.soul /\ receipts' = tx.saved.receipts
        /\ registry' = tx.saved.registry /\ events' = tx.saved.events
        /\ config' = config
    BY <1>3 DEF Abort
  <2>4. Sound' /\ SavedSound'
    BY <2>2, <2>3, SoundRestored, SoundKept DEF SoulsInv
  <2>. QED BY <2>2, <2>3, <2>4, FinalSame DEF SoulsInv
<1>4. CASE Tick \/ UNCHANGED vars
  <2>1. UNCHANGED P!sgVars /\ tx' = tx /\ config' = config
    BY <1>4 DEF Tick, vars, chain, P!sgVars
  <2>. QED BY <2>1, SoulInstruction
<1>5. ASSUME UNCHANGED <<soul, receipts, registry, config, events>>,
             Step \/ (\E a, n : MovingStep(a, n)) \/ (\E a, n : OwingStep(a, n))
      PROVE  SoulsInv'
  <2>1. tx'.saved = tx.saved
    BY <1>5, InstructionKeepsSaved
  <2>2. UNCHANGED P!sgVars
    BY <1>5 DEF P!sgVars
  <2>. QED BY <1>5, <2>1, <2>2, SoulInstruction
<1>6. ASSUME P!Next, config' = config,
             Step \/ (\E a, n : MovingStep(a, n)) \/ (\E a, n : OwingStep(a, n))
      PROVE  SoulsInv'
  <2>1. tx'.saved = tx.saved
    BY <1>6, InstructionKeepsSaved
  <2>. QED BY <1>6, <2>1, SoulInstruction
<1>7. ASSUME NEW w \in Wallets, NEW a \in G!Accounts, NEW sol \in SolAmounts,
             Buy(w, a, sol)
      PROVE  SoulsInv'
  <2>. DEFINE net == sol - B!LockFee(sol)
              out == B!QuoteBuy(curve.cumulativeSol, curve.totalMinted, net).out
  <2>1. out \in Nat
    <3>1. sol \in Nat /\ curve.cumulativeSol \in Nat /\ curve.totalMinted \in 0 .. CurveK
      BY Bounds DEF SolInv, Backed, Curves
    <3>. QED BY <3>1, BuyOut
  <2>2. Step /\ G!GenerateSoul("buy", w, a, out)
    BY <1>7 DEF Buy
  <2>. HIDE DEF out
  <2>3. P!Next /\ config' = config
    BY <2>1, <2>2, SameGenerate DEF G!GenerateSoul
  <2>. QED BY <1>6, <2>2, <2>3
<1>8. ASSUME NEW a \in G!Accounts, NEW withSoul \in BOOLEAN, NEW n \in Amounts(a),
             Sell(a, n, withSoul)
      PROVE  SoulsInv'
  <2>1. MovingStep(a, n)
    BY <1>8 DEF Sell
  <2>2. CASE withSoul
    <3>1. G!GenerateSoul("sell", Owner(a), a, 0) /\ Owner(a) \in Wallets
      BY <1>8, <2>2, AccountsOwned DEF Sell
    <3>2. P!Next /\ config' = config
      BY <3>1, SameGenerate DEF G!GenerateSoul
    <3>. QED BY <1>6, <2>1, <3>2
  <2>3. CASE ~withSoul
    BY <1>5, <1>8, <2>1, <2>3 DEF Sell
  <2>. QED BY <2>2, <2>3
<1>9. ASSUME NEW w \in Wallets, Claim(w) PROVE SoulsInv'
  <2>1. tok[G!Ata(w)] \in Nat
    BY <1>0, AccountsOwned
  <2>2. Step /\ G!ClaimSoul(w, tok[G!Ata(w)])
    BY <1>9 DEF Claim
  <2>3. P!Next /\ config' = config
    BY <2>1, <2>2, SameClaim DEF G!ClaimSoul
  <2>. QED BY <1>6, <2>2, <2>3
<1>10. ASSUME NEW a \in G!Accounts, NEW newState \in G!TerminalStates,
              NEW list \in G!ReceiptLists, NEW n \in Amounts(a),
              Settle(a, n, newState, list)
       PROVE  SoulsInv'
  <2>1. tok[a] \in Nat /\ n \in Nat /\ Owner(a) \in Wallets
    BY AmountsNat, AccountsOwned
  <2>2. OwingStep(a, n) /\ G!SettleReceipts(Owner(a), tok[a], n, newState, list)
    BY <1>10 DEF Settle
  <2>3. P!Next /\ config' = config
    BY <2>1, <2>2, SameSettle DEF G!SettleReceipts
  <2>. QED BY <1>6, <2>2, <2>3
<1>. QED
  BY <1>2, <1>3, <1>4, <1>5, <1>7, <1>8, <1>9, <1>10 DEF Next, Transfer, DirectBurn

(* The launch leaves a Soul without a trade, a receipt or an event. *)
LEMMA SoulsStart == Launched => SoulsInv
<1>. SUFFICES ASSUME Launched PROVE SoulsInv
  OBVIOUS
<1>1. PICK w \in Wallets : soul = [G!SoulInit EXCEPT !.open = TRUE, !.authority = w]
  BY DEF Launched
<1>2. soul = [open |-> TRUE, authority |-> w, generation |-> 0, picture |-> P!NoPicture,
              claimCount |-> 0, renderer |-> "builtin", provenance |-> P!NoProvenance]
  BY <1>1 DEF G!SoulInit, G!NoPicture, P!NoPicture, G!NoProvenance, P!NoProvenance,
              G!NoAccount, P!NoAccount
<1>3. /\ receipts = [s \in P!ClaimSequences |-> P!NoReceipt]
      /\ registry = [v \in Wallets |-> P!NoRegistry]
      /\ config = "live" /\ events = {}
  BY DEF Launched, G!ClaimSequences, P!ClaimSequences, G!NoReceipt, P!NoReceipt,
         G!NoRegistry, P!NoRegistry
<1>4. P!TypeOK
  <2>1. P!NoProvenance \in P!Provenances
    BY Quantities DEF P!NoProvenance, P!Provenances
  <2>2. P!NoPicture \in P!NoPicture .. MaxGeneration /\ 0 \in 0 .. MaxGeneration
    BY Quantities DEF P!NoPicture
  <2>. QED BY <1>2, <1>3, <2>1, <2>2
          DEF P!TypeOK, P!NoReceipt, P!NoRegistry, P!ReceiptStates
<1>5. P!ReceiptLadder
  <2>. SUFFICES ASSUME NEW v \in Wallets PROVE P!LadderOf(v)
    BY DEF P!ReceiptLadder
  <2>1. P!ActiveOf(v) = {}
    BY <1>3 DEF P!ActiveOf, P!NoReceipt
  <2>2. registry[v].active = 0
    BY <1>3 DEF P!NoRegistry
  <2>. QED BY <2>1, <2>2 DEF P!LadderOf
<1>6. P!Tallies
  <2>1. \A v \in Wallets, st \in {"active", "burned", "forfeited"} : P!TallyOf(v, st) = {}
    BY <1>3 DEF P!TallyOf, P!NoReceipt
  <2>2. P!Cardinality({}) = 0
    BY SameCardinality, FS_EmptySet
  <2>3. \A v \in Wallets : /\ registry[v].active = 0 /\ registry[v].burned = 0
                           /\ registry[v].forfeited = 0
    BY <1>3 DEF P!NoRegistry
  <2>. QED BY <2>1, <2>2, <2>3 DEF P!Tallies
<1>7. P!ProvenanceInv /\ P!Announced
  BY <1>2, <1>3, Quantities
     DEF P!ProvenanceInv, P!LastTradeRecorded, P!ClaimedFromBuy, P!NoReceipt,
         P!Announced, P!Of
<1>8. Sound
  BY <1>4, <1>5, <1>6, <1>7 DEF Sound
<1>9. tx = Tx(FALSE)
  BY DEF Launched
<1>10. Fresh
  BY <1>9 DEF Tx, Written, Fresh
<1>. QED BY <1>8, <1>10, SoundSaved, FinalSame DEF SoulsInv, Fresh

(* What is sound is what the properties say. *)
LEMMA SoundNamed == Sound => SoulsStaySound
<1>. SUFFICES ASSUME Sound PROVE SoulsStaySound
  OBVIOUS
<1>. USE DEF P!ClaimSequences, G!ClaimSequences
<1>1. G!ReceiptLadder
  BY DEF Sound, P!ReceiptLadder, G!ReceiptLadder, P!LadderOf, G!LadderOf,
         P!ActiveOf, G!ActiveOf
<1>2. G!RegistryTallies
  <2>1. P!RegistryTallies
    BY P!TalliesNamed, Quantities, NobodyIsNoWallet DEF Sound
  <2>. QED BY <2>1, SameCardinality DEF P!RegistryTallies, G!RegistryTallies
<1>3. G!ClaimedFromBuy
  BY DEF Sound, P!ProvenanceInv, P!ClaimedFromBuy, G!ClaimedFromBuy, P!Ata, G!Ata
<1>4. G!OneEventPerGeneration
  <2>1. P!OneEventPerGeneration
    BY P!AnnouncedNamed, Quantities, NobodyIsNoWallet DEF Sound
  <2>. QED BY <2>1, SameCardinality DEF P!OneEventPerGeneration, G!OneEventPerGeneration
<1>. QED BY <1>1, <1>2, <1>3, <1>4 DEF SoulsStaySound

LEMMA SoulsTogether ==
  /\ Launched => SolInv /\ SoulsInv
  /\ SolInv /\ SoulsInv /\ [Next]_vars => SolInv' /\ SoulsInv'
BY SolInit, SoulsStart, SolStep, SoulsStep

(* The soul generator's guarantees survive its composition with the other  *)
(* programs, and rollbacks.                                                *)
THEOREM SoulsStay == Spec => []SoulsStaySound
BY SoulsTogether, SoundNamed, PTL DEF Spec, SoulsInv

(* No committed transaction changes what a receipt says.                   *)
THEOREM CommitsAreFinal == Spec => CommittedReceiptsAreFinal
<1>1. SolInv /\ SoulsInv /\ [Next]_vars
        => [tx.open /\ ~tx'.open => FinalFrom(tx.saved.receipts, receipts')]_vars
  <2>. SUFFICES ASSUME SolInv, SoulsInv, Next, tx.open, ~tx'.open
                PROVE  FinalFrom(tx.saved.receipts, receipts')
    OBVIOUS
  <2>1. CASE Commit
    <3>1. receipts' = receipts
      BY <2>1 DEF Commit, chain
    <3>. QED BY <3>1, Zenon DEF SoulsInv
  <2>2. CASE Abort
    <3>1. receipts' = tx.saved.receipts
      BY <2>2 DEF Abort
    <3>2. PICK a : a = tx.saved.receipts
      OBVIOUS
    <3>. QED BY <3>1, <3>2, FinalSame
  <2>3. ~ (Begin \/ Tick)
    BY DEF Begin, Tick
  <2>4. ~ (Step \/ (\E a, n : MovingStep(a, n)) \/ (\E a, n : OwingStep(a, n)))
    BY InstructionKeepsSaved
  <2>. QED BY <2>1, <2>2, <2>3, <2>4, Zenon
          DEF Next, Buy, Sell, Transfer, DirectBurn, Claim, Settle
<1>2. CommittedReceiptsAreFinal
        <=> [][tx.open /\ ~tx'.open => FinalFrom(tx.saved.receipts, receipts')]_vars
  BY DEF CommittedReceiptsAreFinal, FinalFrom
<1>. QED BY <1>1, <1>2, SoulsTogether, PTL DEF Spec

=============================================================================
