-------------------------- MODULE TokenPanel_proofs --------------------------
(***************************************************************************)
(* Proofs about the token page, for any wallets, amounts and numbers of    *)
(* operations: what the page reports as done is on the chain, what it has  *)
(* a wallet sign away is the wallet's own, and a movement that lands does  *)
(* what its preview said.                                                  *)
(***************************************************************************)
EXTENDS TokenPanel, FiniteSetTheorems, TLAPS

(* Whole units are natural numbers and grow with the balance.              *)
LEMMA UnitsOf ==
  ASSUME NEW a \in Nat, NEW b \in Nat, a <= b
  PROVE  WholeUnits(a) \in Nat /\ WholeUnits(b) \in Nat /\ WholeUnits(a) <= WholeUnits(b)
<1>1. /\ a \div Quantum \in Nat /\ a % Quantum \in 0 .. Quantum - 1
      /\ a = Quantum * (a \div Quantum) + (a % Quantum)
      /\ b \div Quantum \in Nat /\ b % Quantum \in 0 .. Quantum - 1
      /\ b = Quantum * (b \div Quantum) + (b % Quantum)
  BY QuantumAssumption
<1>. DEFINE p == a \div Quantum
            q == b \div Quantum
            r == a % Quantum
            s == b % Quantum
<1>. HIDE DEF p, q, r, s
<1>2. /\ p \in Nat /\ r \in 0 .. Quantum - 1 /\ a = Quantum * p + r
      /\ q \in Nat /\ s \in 0 .. Quantum - 1 /\ b = Quantum * q + s
  BY <1>1 DEF p, q, r, s
<1>3. p <= q
  <2>. SUFFICES ASSUME p >= q + 1 PROVE FALSE
    BY <1>2
  <2>1. Quantum * (p - q - 1) >= 0
    BY <1>2, QuantumAssumption
  <2>2. Quantum * p = Quantum * q + Quantum + Quantum * (p - q - 1)
    BY <1>2, QuantumAssumption
  <2>. QED BY <1>2, <2>1, <2>2, QuantumAssumption
<1>. QED BY <1>2, <1>3 DEF WholeUnits, p, q

(* Receipts are finitely many. *)
LEMMA IdsFinite ==
  ASSUME NEW S \in SUBSET Ids
  PROVE  IsFiniteSet(S) /\ Cardinality(S) \in Nat
<1>1. IsFiniteSet(Ids)
  BY FS_Interval, PanelBounds DEF Ids
<1>. QED BY <1>1, FS_Subset, FS_CardinalityType

(* A function on 1 .. n is a sequence of length n. *)
LEMMA ListLength ==
  ASSUME NEW n \in Nat, NEW list, list = [i \in 1 .. n |-> list[i]]
  PROVE  Len(list) = n
<1>1. DOMAIN list = 1 .. n
  OBVIOUS
<1>2. list \in Seq({list[i] : i \in 1 .. n})
  OBVIOUS
<1>. QED BY <1>1, <1>2

(* Taking the members of a list out of a set that has them all, each once. *)
LEMMA ListedTaken ==
  ASSUME NEW S, IsFiniteSet(S), NEW n \in Nat, NEW list \in [1 .. n -> S],
         \A i, j \in 1 .. n : i # j => list[i] # list[j]
  PROVE  Cardinality(S \ Range(list)) = Cardinality(S) - n
<1>. DEFINE R == Range(list)
<1>1. R \in SUBSET S /\ list \in Bijection(1 .. n, R)
  BY DEF Range, Bijection, Injection, Surjection, IsInjective
<1>2. Cardinality(R) = n
  BY <1>1, FS_CountingElements DEF ExistsBijection
<1>3. S \cap R = R
  BY <1>1
<1>. HIDE DEF R
<1>. QED BY <1>2, <1>3, FS_Difference DEF R

-----------------------------------------------------------------------------
(* The chain *)

Souls == [generation : 0 .. MaxGeneration, claimCount : 0 .. MaxGeneration,
          side : {"buy", "sell"}, trader : Wallets, whole : BOOLEAN]

(* Active receipts are among those claimed so far, and every one of them   *)
(* has a whole unit in its owner's associated account.                     *)
ChainInv ==
  /\ soul \in Souls /\ soul.claimCount <= soul.generation
  /\ receipts \in [Ids -> [claimant : Wallets \cup {Nobody}, boundary : Nat, active : BOOLEAN]]
  /\ opened \subseteq Wallets
  /\ tok \in [Accounts -> Nat]
  /\ \A id \in Ids : receipts[id].active =>
       id < soul.claimCount /\ receipts[id].claimant \in opened
  /\ \A w \in Wallets : Active(w) <= Units(Ata(w))

(* A transaction somebody may send.                                        *)
Sendable(t) ==
  /\ t.kind \in Kinds \cup {"swap"}
  /\ t.wallet \in Wallets /\ t.amount \in Nat
  /\ t.kind # "claim" => t.source \in AccountsOf(t.wallet)
  /\ t.kind = "transfer" => t.to \in Wallets
  /\ Len(t.list) \in Nat /\ t.list = [i \in 1 .. Len(t.list) |-> t.list[i]]

(* What a receipt says of its claimant and boundary it says for good.      *)
ReceiptsStay ==
  /\ soul'.claimCount >= soul.claimCount
  /\ \A id \in Ids : id < soul.claimCount =>
       /\ receipts'[id].claimant = receipts[id].claimant
       /\ receipts'[id].boundary = receipts[id].boundary

(* A trade makes a generation and leaves the claims.                       *)
LEMMA TradedType ==
  ASSUME ChainInv, NEW t, t.wallet \in Wallets,
         Generates(t) => soul.generation < MaxGeneration
  PROVE  /\ Traded(t) \in Souls /\ Traded(t).claimCount = soul.claimCount
         /\ Traded(t).generation \in soul.generation .. MaxGeneration
<1>0. soul \in Souls
  BY DEF ChainInv
<1>1. CASE Generates(t)
  <2>. DEFINE whole == Buys(t) /\ t.amount >= Quantum
              side == IF Buys(t) THEN "buy" ELSE "sell"
  <2>1. Traded(t) = [soul EXCEPT !.generation = @ + 1, !.side = side,
                                 !.trader = t.wallet, !.whole = whole]
    BY <1>1 DEF Traded
  <2>2. whole \in BOOLEAN /\ side \in {"buy", "sell"}
    OBVIOUS
  <2>. HIDE DEF whole, side
  <2>3. soul.generation + 1 \in soul.generation .. MaxGeneration
        /\ soul.generation + 1 \in 0 .. MaxGeneration
    BY <1>0, <1>1, PanelBounds DEF Souls
  <2>4. /\ Traded(t).generation = soul.generation + 1
        /\ Traded(t).claimCount = soul.claimCount
    BY <1>0, <2>1 DEF Souls
  <2>5. Traded(t) \in Souls
    BY <1>0, <2>1, <2>2, <2>3 DEF Souls
  <2>. QED BY <2>3, <2>4, <2>5
<1>2. CASE ~Generates(t)
  BY <1>0, <1>2, PanelBounds DEF Traded, Souls
<1>. QED BY <1>1, <1>2

(* A claim writes the receipt of the newest generation, which is unclaimed.*)
LEMMA ClaimsKeep ==
  ASSUME ChainInv, NEW t, Sendable(t), Accepted(t), Executed(t), Claims(t)
  PROVE  ChainInv' /\ ReceiptsStay
<1>. DEFINE w == t.wallet
            made == Traded(t)
<1>. USE DEF ChainInv
<1>1. /\ w \in Wallets /\ t.kind \in {"buy", "claim"}
      /\ t.kind = "buy" => t.source \in AccountsOf(w) /\ t.source \in Accounts
      /\ t.amount \in Nat
  BY DEF Sendable, Claims, Accounts, AccountsOf, Ata
<1>2. /\ made \in Souls /\ made.claimCount = soul.claimCount
      /\ made.generation >= soul.generation
  <2>1. Generates(t) => soul.generation < MaxGeneration
    BY DEF Executed
  <2>2. made \in Souls /\ made.claimCount = soul.claimCount
        /\ made.generation \in soul.generation .. MaxGeneration
    BY <1>1, <2>1, TradedType
  <2>. QED BY <2>2
<1>3. /\ t.sequence = made.generation - 1 /\ soul.claimCount < made.generation
      /\ Active(w) < WholeUnits(IF t.kind = "buy" THEN Received(t) ELSE tok[Ata(w)])
  <2>1. CASE t.kind = "buy"
    <3>1. ClaimAccepted(t, made, Received(t))
      BY <2>1 DEF Accepted
    <3>. HIDE DEF made
    <3>. QED BY <1>2, <2>1, <3>1 DEF ClaimAccepted
  <2>2. CASE t.kind = "claim"
    <3>1. made = soul
      BY <2>2 DEF Traded, Generates, Buys
    <3>. HIDE DEF made
    <3>. QED BY <2>2, <3>1 DEF Accepted, ClaimAccepted
  <2>. QED BY <1>1, <2>1, <2>2
<1>4. t.sequence \in Ids /\ soul.claimCount <= t.sequence
  <2>. HIDE DEF made
  <2>1. made.generation \in 0 .. MaxGeneration /\ soul.claimCount \in 0 .. MaxGeneration
    BY <1>2 DEF Souls
  <2>. QED BY <1>3, <2>1, PanelBounds DEF Ids
<1>5. /\ soul' = [made EXCEPT !.claimCount = made.generation]
      /\ receipts' = [receipts EXCEPT ![t.sequence] =
               [claimant |-> w, boundary |-> Active(w) + 1, active |-> TRUE]]
      /\ opened' = opened \cup {w}
      /\ tok' = IF t.kind = "buy" THEN [tok EXCEPT ![t.source] = @ + t.amount] ELSE tok
  BY <1>1 DEF Executed, Claims, Buys
<1>. HIDE DEF made
<1>6. soul' \in Souls /\ soul'.claimCount = made.generation /\ soul'.generation = made.generation
  BY <1>2, <1>5 DEF Souls
<1>7. Active(w) \in Nat
  BY IdsFinite DEF Active, Owned
<1>8. receipts' \in [Ids -> [claimant : Wallets \cup {Nobody}, boundary : Nat, active : BOOLEAN]]
  BY <1>1, <1>4, <1>5, <1>7
<1>9. /\ tok' \in [Accounts -> Nat] /\ \A a \in Accounts : tok'[a] >= tok[a]
      /\ tok'[Ata(w)] = IF t.kind = "buy" THEN Received(t) ELSE tok[Ata(w)]
  BY <1>1, <1>5 DEF Received, Accounts, Ata
<1>10. \A id \in Ids : receipts'[id].active =>
         id < soul'.claimCount /\ receipts'[id].claimant \in opened'
  BY <1>2, <1>3, <1>4, <1>5, <1>6 DEF Souls, Ids
<1>11. \A v \in Wallets : Active(v)' <= Units(Ata(v))'
  <2>. TAKE v \in Wallets
  <2>1. Ata(v) \in Accounts
    BY DEF Ata, Accounts
  <2>2. CASE v = w
    <3>1. Owned(v)' = Owned(v) \cup {t.sequence} /\ t.sequence \notin Owned(v)
      BY <1>4, <1>5, <2>2 DEF Owned, Ids, Souls
    <3>2. IsFiniteSet(Owned(v))
      BY IdsFinite DEF Owned
    <3>3. Active(v)' = Active(v) + 1
      BY <3>1, <3>2, FS_AddElement DEF Active
    <3>4. WholeUnits(tok'[Ata(w)]) \in Nat
      BY <1>9, <2>1, <2>2, UnitsOf
    <3>. QED BY <1>3, <1>7, <1>9, <2>2, <3>3, <3>4 DEF Units
  <2>3. CASE v # w
    <3>1. Owned(v)' = Owned(v)
      BY <1>4, <1>5, <2>3 DEF Owned, Ids, Souls
    <3>2. Units(Ata(v)) <= Units(Ata(v))' /\ Units(Ata(v)) \in Nat /\ Units(Ata(v))' \in Nat
      BY <1>9, <2>1, UnitsOf DEF Units
    <3>3. Active(v) \in Nat
      BY IdsFinite DEF Active, Owned
    <3>. QED BY <3>1, <3>2, <3>3 DEF Active
  <2>. QED BY <2>2, <2>3
<1>12. ReceiptsStay
  BY <1>2, <1>3, <1>4, <1>5, <1>6 DEF ReceiptsStay, Ids, Souls
<1>13. opened' \subseteq Wallets
  BY <1>1, <1>5
<1>14. soul'.claimCount <= soul'.generation
  BY <1>6 DEF Souls
<1>. QED BY <1>6, <1>8, <1>9, <1>10, <1>11, <1>12, <1>13, <1>14

(* A settlement the program accepts ends as many of the owner's receipts   *)
(* as it lists: each has a boundary of its own.                            *)
LEMMA SettlementTakes ==
  ASSUME ChainInv, NEW t, Sendable(t), SettlementAccepted(t),
         Debits(tok[t.source], t.amount), t.kind # "claim"
  PROVE  Cardinality(Owned(t.wallet) \ Range(t.list)) = Active(t.wallet) - Len(t.list)
<1>. DEFINE n == Len(t.list)
            mine == Owned(t.wallet)
            post == PostUnits(tok[t.source], t.amount)
<1>1. n \in Nat /\ DOMAIN t.list = 1 .. n
  BY DEF Sendable
<1>2. post \in Nat
  <2>1. t.source \in Accounts
    BY DEF Sendable, Accounts, AccountsOf, Ata
  <2>2. tok[t.source] \in Nat /\ t.amount \in Nat
    BY <2>1 DEF ChainInv, Sendable
  <2>3. tok[t.source] - t.amount \in Nat
    BY <2>2 DEF Debits
  <2>. QED BY <2>3, UnitsOf DEF PostUnits
<1>3. \A i \in 1 .. n : t.list[i] \in mine /\ receipts[t.list[i]].boundary = post + n + 1 - i
  BY <1>1 DEF SettlementAccepted
<1>4. t.list = [i \in 1 .. n |-> t.list[i]]
  BY DEF Sendable
<1>5. t.list \in [1 .. n -> mine]
  BY <1>3, <1>4
<1>6. IsFiniteSet(mine)
  BY IdsFinite DEF Owned
<1>. HIDE DEF n, post, mine
<1>7. ASSUME NEW i \in 1 .. n, NEW j \in 1 .. n, t.list[i] = t.list[j]
      PROVE  i = j
  <2>1. post + n + 1 - i = post + n + 1 - j
    BY <1>3, <1>7
  <2>. QED BY <1>1, <1>2, <2>1
<1>8. Cardinality(mine \ Range(t.list)) = Cardinality(mine) - n
  BY <1>1, <1>5, <1>6, <1>7, ListedTaken
<1>. QED BY <1>8 DEF Active, mine, n

(* A debit that gives up units leaves as many as there are receipts.       *)
LEMMA DebitsKeep ==
  ASSUME ChainInv, NEW t, Sendable(t), Accepted(t), Executed(t), ~Claims(t)
  PROVE  ChainInv' /\ ReceiptsStay
<1>. DEFINE w == t.wallet
<1>. USE DEF ChainInv
<1>1. /\ w \in Wallets /\ t.kind \in {"swap", "sell", "transfer"}
      /\ t.source \in AccountsOf(w) /\ t.source \in Accounts
      /\ t.amount \in Nat
      /\ t.kind = "transfer" => Ata(t.to) \in Accounts
  BY DEF Sendable, Claims, Accounts, AccountsOf, Ata, Kinds
<1>2. /\ soul' \in Souls /\ soul'.claimCount = soul.claimCount
      /\ soul'.generation >= soul.generation
  <2>1. soul' = Traded(t) /\ (Generates(t) => soul.generation < MaxGeneration)
    BY DEF Executed
  <2>2. soul' \in Souls /\ soul'.claimCount = soul.claimCount
        /\ soul'.generation \in soul.generation .. MaxGeneration
    BY <1>1, <2>1, TradedType
  <2>. QED BY <2>2
<1>3. /\ receipts' = [id \in Ids |->
                        [receipts[id] EXCEPT !.active = @ /\ id \notin Range(t.list)]]
      /\ opened' = opened
  BY DEF Executed
<1>4. \A id \in Ids :
        /\ receipts'[id].claimant = receipts[id].claimant
        /\ receipts'[id].boundary = receipts[id].boundary
        /\ receipts'[id].active = (receipts[id].active /\ id \notin Range(t.list))
  BY <1>3
<1>5. receipts' \in [Ids -> [claimant : Wallets \cup {Nobody}, boundary : Nat, active : BOOLEAN]]
  BY <1>3
<1>6. \A v \in Wallets : Owned(v)' = Owned(v) \ Range(t.list)
  BY <1>4 DEF Owned
<1>7. t.kind \in {"sell", "transfer"} => DebitAccepted(t)
  BY DEF Accepted
<1>8. t.kind = "transfer" => t.source # Ata(t.to)
  BY DEF Accepted
<1>9. tok' \in [Accounts -> Nat]
  <2>1. CASE t.kind = "swap"
    BY <1>1, <2>1 DEF Executed, Buys
  <2>2. CASE t.kind = "sell"
    BY <1>1, <1>7, <2>2 DEF Executed, Buys, DebitAccepted, Debits
  <2>3. CASE t.kind = "transfer"
    <3>1. tok' = [tok EXCEPT ![t.source] = @ - t.amount, ![Ata(t.to)] = @ + t.amount]
      BY <2>3 DEF Executed, Buys
    <3>2. tok[t.source] - t.amount \in Nat
      BY <1>1, <1>7, <2>3 DEF DebitAccepted, Debits
    <3>. QED BY <1>1, <1>8, <2>3, <3>1, <3>2
  <2>. QED BY <1>1, <2>1, <2>2, <2>3
<1>10. \A v \in Wallets : Active(v)' <= Units(Ata(v))'
  <2>. TAKE v \in Wallets
  <2>1. Ata(v) \in Accounts
    BY DEF Ata, Accounts
  <2>2. Active(v) \in Nat /\ Active(v)' \in Nat /\ Active(v)' <= Active(v)
    <3>1. IsFiniteSet(Owned(v)) /\ Owned(v)' \in SUBSET Owned(v)
      BY <1>6, IdsFinite DEF Owned
    <3>. QED BY <3>1, FS_Subset, FS_CardinalityType DEF Active
  <2>3. CASE tok'[Ata(v)] >= tok[Ata(v)]
    <3>1. Units(Ata(v)) <= Units(Ata(v))' /\ Units(Ata(v)) \in Nat /\ Units(Ata(v))' \in Nat
      BY <1>9, <2>1, <2>3, UnitsOf DEF Units
    <3>. QED BY <2>2, <3>1
  <2>4. CASE ~(tok'[Ata(v)] >= tok[Ata(v)])
    <3>1. /\ t.source = Ata(v) /\ t.kind \in {"sell", "transfer"}
          /\ tok'[Ata(v)] = tok[Ata(v)] - t.amount
      <4>1. CASE t.kind = "swap"
        BY <1>1, <2>1, <2>4, <4>1 DEF Executed, Buys
      <4>2. CASE t.kind = "sell"
        BY <1>1, <2>1, <2>4, <4>2 DEF Executed, Buys
      <4>3. CASE t.kind = "transfer"
        <5>1. tok' = [tok EXCEPT ![t.source] = @ - t.amount, ![Ata(t.to)] = @ + t.amount]
          BY <4>3 DEF Executed, Buys
        <5>. QED BY <1>1, <1>8, <2>1, <2>4, <4>3, <5>1
      <4>. QED BY <1>1, <4>1, <4>2, <4>3
    <3>2. v = w
      BY <1>1, <3>1 DEF AccountsOf, Ata
    <3>. DEFINE post == PostUnits(tok[Ata(v)], t.amount)
    <3>3. Units(Ata(v))' = post /\ post \in Nat /\ Units(Ata(v)) \in Nat
      BY <1>9, <2>1, <3>1, UnitsOf DEF Units, PostUnits
    <3>4. CASE Units(Ata(v)) <= post
      BY <2>2, <3>3, <3>4
    <3>5. CASE ~(Units(Ata(v)) <= post)
      <4>1. CrossedDown(tok[t.source], t.amount) > 0
        BY <3>1, <3>3, <3>5 DEF CrossedDown, Units
      <4>2. Active(v) - Len(t.list) <= post
        BY <1>7, <3>1, <3>2, <4>1 DEF DebitAccepted, ActiveAfter
      <4>3. CASE t.list = <<>>
        BY <2>2, <3>3, <4>2, <4>3
      <4>4. CASE t.list # <<>>
        <5>1. SettlementAccepted(t) /\ Debits(tok[t.source], t.amount) /\ t.kind # "claim"
          BY <1>7, <3>1, <4>4 DEF DebitAccepted
        <5>2. Active(v)' = Active(v) - Len(t.list)
          BY <1>6, <3>2, <5>1, SettlementTakes DEF Active
        <5>. QED BY <3>3, <4>2, <5>2
      <4>. QED BY <4>3, <4>4
    <3>. QED BY <3>4, <3>5
  <2>. QED BY <2>3, <2>4
<1>11. ReceiptsStay
  BY <1>2, <1>4 DEF ReceiptsStay, Souls
<1>12. \A id \in Ids : receipts'[id].active =>
         id < soul'.claimCount /\ receipts'[id].claimant \in opened'
  BY <1>2, <1>3, <1>4
<1>13. soul'.claimCount <= soul'.generation
  BY <1>2 DEF Souls
<1>. QED BY <1>2, <1>3, <1>5, <1>9, <1>10, <1>11, <1>12, <1>13

(* So every transaction the programs accept keeps the chain's invariant.   *)
LEMMA ExecutedKeeps ==
  ASSUME ChainInv, NEW t, Sendable(t), Accepted(t), Executed(t)
  PROVE  ChainInv' /\ ReceiptsStay
BY ClaimsKeep, DebitsKeep

-----------------------------------------------------------------------------
(* The receipts the page has read *)

(* Read at any time, receipts still say what the chain says of them.       *)
Kept(found) ==
  \A id \in DOMAIN found :
    /\ id \in Ids /\ id < soul.claimCount
    /\ found[id].claimant = receipts[id].claimant
    /\ found[id].boundary = receipts[id].boundary

Registries == Nat \cup {NoRegistry}

LEMMA KeptStays ==
  ASSUME NEW found, Kept(found), ReceiptsStay, ChainInv, ChainInv'
  PROVE  Kept(found)'
<1>1. soul.claimCount \in Nat /\ soul'.claimCount \in Nat /\ \A id \in Ids : id \in Int
  BY DEF ChainInv, Souls, Ids
<1>. QED BY <1>1 DEF Kept, ReceiptsStay

LEMMA CandidatesKept ==
  ASSUME ChainInv, NEW w
  PROVE  /\ Kept(Candidates(w)) /\ DOMAIN Candidates(w) = Owned(w)
         /\ \A id \in Owned(w) : Candidates(w)[id] = receipts[id]
BY DEF ChainInv, Kept, Candidates, Restrict, Owned

LEMMA RegistryType ==
  ASSUME NEW w
  PROVE  Registry(w) \in Registries
BY IdsFinite DEF Registry, Registries, Active, Owned

LEMMA CountType ==
  ASSUME NEW found, Kept(found), NEW registry \in Registries
  PROVE  ActiveCount(registry, found) \in Nat
<1>1. DOMAIN found \in SUBSET Ids
  BY DEF Kept
<1>2. Cardinality(DOMAIN found) \in Nat
  BY <1>1, IdsFinite
<1>. QED BY <1>2 DEF ActiveCount, Registries, NoRegistry

(* A possible settlement lists a receipt for every unit given up.          *)
LEMMA PlanShape ==
  ASSUME NEW owner, NEW source, NEW held \in Nat, NEW amount \in Nat, amount <= held,
         NEW active \in Nat, NEW found, NEW plan,
         plan = Settlement(owner, source, held, amount, active, found), plan.possible
  PROVE  /\ plan.source = source /\ plan.post = PostUnits(held, amount)
         /\ plan.post \in Nat
         /\ Len(plan.list) = Required(active, plan.post)
         /\ Len(plan.list) \in Nat
         /\ plan.list = [i \in 1 .. Len(plan.list) |-> plan.list[i]]
<1>. DEFINE post == PostUnits(held, amount)
            required == Required(active, post)
<1>1. post \in Nat
  <2>1. held - amount \in Nat
    OBVIOUS
  <2>. QED BY <2>1, UnitsOf DEF PostUnits
<1>2. required \in Nat
  BY <1>1 DEF Required
<1>3. /\ plan.source = source /\ plan.post = post
      /\ plan.possible = CanSettle(owner, post, required, found)
      /\ plan.list = IF plan.possible THEN SelectedReceipts(owner, post, required, found)
                                      ELSE <<>>
  BY DEF Settlement
<1>. HIDE DEF post, required
<1>4. plan.list = [i \in 1 .. required |-> plan.list[i]]
  BY <1>3 DEF SelectedReceipts
<1>5. Len(plan.list) = required
  BY <1>2, <1>4, ListLength
<1>. QED BY <1>1, <1>2, <1>3, <1>4, <1>5 DEF post, required

(* They are the owner's receipts from the top down.                        *)
LEMMA PlanSelects ==
  ASSUME NEW owner, NEW source, NEW held \in Nat, NEW amount \in Nat, amount <= held,
         NEW active \in Nat, NEW found, NEW plan,
         plan = Settlement(owner, source, held, amount, active, found), plan.possible
  PROVE  \A i \in 1 .. Len(plan.list) :
           /\ plan.list[i] \in DOMAIN found
           /\ found[plan.list[i]].claimant = owner
           /\ found[plan.list[i]].boundary = plan.post + Len(plan.list) + 1 - i
<1>. DEFINE post == PostUnits(held, amount)
            required == Required(active, post)
<1>1. post \in Nat
  <2>1. held - amount \in Nat
    OBVIOUS
  <2>. QED BY <2>1, UnitsOf DEF PostUnits
<1>2. required \in Nat
  BY <1>1 DEF Required
<1>3. /\ plan.source = source /\ plan.post = post
      /\ plan.possible = CanSettle(owner, post, required, found)
      /\ plan.list = IF plan.possible THEN SelectedReceipts(owner, post, required, found)
                                      ELSE <<>>
  BY DEF Settlement
<1>. HIDE DEF post, required
<1>4. CanSettle(owner, post, required, found)
  BY <1>3
<1>5. plan.list = [i \in 1 .. required |->
                     CHOOSE id \in MatchingAt(owner, found, post + required + 1 - i) : TRUE]
  BY <1>3, <1>4 DEF SelectedReceipts
<1>6. Len(plan.list) = required
  <2>1. plan.list = [i \in 1 .. required |-> plan.list[i]]
    BY <1>5
  <2>. QED BY <1>2, <2>1, ListLength
<1>7. ASSUME NEW i \in 1 .. required
      PROVE  plan.list[i] \in MatchingAt(owner, found, post + required + 1 - i)
  <2>1. post + required + 1 - i \in post + 1 .. post + required
    BY <1>1, <1>2
  <2>2. MatchingAt(owner, found, post + required + 1 - i) # {}
    BY <1>4, <2>1 DEF CanSettle
  <2>. QED BY <1>5, <2>2
<1>8. \A i \in 1 .. required :
        /\ plan.list[i] \in DOMAIN found
        /\ found[plan.list[i]].claimant = owner
        /\ found[plan.list[i]].boundary = post + required + 1 - i
  BY <1>7 DEF MatchingAt
<1>. QED BY <1>3, <1>6, <1>8

-----------------------------------------------------------------------------
(* The page and its operations *)

Movements == {"sell", "transfer"}
Ready == {"preflight", "sign", "confirm"}
Ended == {"idle", "done", "error"}

(* The answers of the page's reads hold what the chain says.               *)
ReadOK(r) ==
  /\ r = [kind |-> r.kind, by |-> r.by, wallet |-> r.wallet,
          registry |-> r.registry, found |-> r.found]
  /\ r.wallet \in Wallets
  /\ r.registry \subseteq Registries
  /\ \A found \in r.found : Kept(found)

PageInv ==
  /\ wallet \in Wallets \cup {Nobody}
  /\ balances.status = "loaded" =>
       \A a \in DOMAIN balances.held : balances.held[a] \in Nat
  /\ receiptState.status = "loaded" =>
       Kept(receiptState.found) /\ receiptState.active \in Nat
  /\ \A r \in reads : ReadOK(r)

(* What a settlement was worked out from, and the preview it agrees with.  *)
Planned(o) ==
  \E n \in o.registry, found \in o.found :
    LET plan == Settlement(o.wallet, o.source, o.held, o.amount,
                           ActiveCount(n, found), found)
    IN plan.possible /\ o.list = plan.list /\ \A s \in o.seen : s = plan

OpOK(kind, o) ==
  /\ o = [phase |-> o.phase, click |-> o.click, wallet |-> o.wallet, amount |-> o.amount,
          to |-> o.to, seen |-> o.seen, registry |-> o.registry, found |-> o.found,
          source |-> o.source, held |-> o.held, list |-> o.list, sequence |-> o.sequence]
  /\ o.phase \in {"discover", "fetch"} \cup Ready \cup Ended
  /\ o.phase = "discover" => kind \in Movements
  /\ o.phase \notin Ended =>
       /\ o.wallet \in Wallets /\ o.amount \in Nat
       /\ kind = "transfer" => o.to \in Wallets
       /\ kind = "buy" => o.source = Ata(o.wallet)
       /\ kind \notin Movements => o.seen = {}
  /\ kind \in Movements /\ o.phase \in {"fetch"} \cup Ready =>
       o.source \in AccountsOf(o.wallet) /\ o.held \in Nat /\ o.amount <= o.held
  /\ o.registry \subseteq Registries /\ \A m, n \in o.registry : m = n
  /\ \A found \in o.found : Kept(found)
  /\ \A f, g \in o.found : f = g
  /\ kind \in Movements /\ o.phase \in Ready => Planned(o)
  /\ ~(kind \in Movements /\ o.phase \in Ready) => o.list = <<>>

OpInv == op = [kind \in Kinds |-> op[kind]] /\ \A kind \in Kinds : OpOK(kind, op[kind])

LEMMA EndedOK ==
  ASSUME NEW kind, NEW phase \in Ended, NEW click
  PROVE  OpOK(kind, [NoOp EXCEPT !.phase = phase, !.click = click])
<1>0. PICK o : o = [NoOp EXCEPT !.phase = phase, !.click = click]
  OBVIOUS
<1>1. o = [phase |-> phase, click |-> click, wallet |-> Nobody, amount |-> 0,
           to |-> Nobody, seen |-> {}, registry |-> {}, found |-> {},
           source |-> NoAccount, held |-> 0, list |-> <<>>, sequence |-> 0]
  BY <1>0 DEF NoOp
<1>2. phase \notin {"discover", "fetch"} \cup Ready
  BY DEF Ended, Ready
<1>3. /\ o.phase = phase /\ o.registry = {} /\ o.found = {} /\ o.list = <<>>
      /\ o = [phase |-> o.phase, click |-> o.click, wallet |-> o.wallet, amount |-> o.amount,
          to |-> o.to, seen |-> o.seen, registry |-> o.registry, found |-> o.found,
          source |-> o.source, held |-> o.held, list |-> o.list, sequence |-> o.sequence]
  BY <1>1
<1>4. OpOK(kind, o)
  BY <1>2, <1>3 DEF OpOK, Ended, Ready
<1>. QED BY <1>0, <1>4

(* An operation that has just begun.                                       *)
Begun(o) ==
  o = [phase |-> o.phase, click |-> clicks + 1, wallet |-> wallet, amount |-> o.amount,
       to |-> o.to, seen |-> o.seen, registry |-> o.registry, found |-> o.found,
       source |-> o.source, held |-> 0, list |-> <<>>, sequence |-> 0]

LEMMA BegunOK ==
  ASSUME PageInv, wallet # Nobody, NEW kind \in Kinds, NEW o, Begun(o), o.amount \in Nat,
         o.phase \in {"fetch", "discover"}, o.phase = "fetch" <=> kind \notin Movements,
         kind = "transfer" => o.to \in Wallets,
         kind = "buy" => o.source = Ata(wallet),
         kind \notin Movements => o.seen = {},
         o.registry \subseteq Registries, \A m, n \in o.registry : m = n,
         \A f \in o.found : Kept(f), \A f, g \in o.found : f = g
  PROVE  OpOK(kind, o) /\ o.click = clicks + 1
<1>1. wallet \in Wallets
  BY DEF PageInv
<1>2. /\ o.click = clicks + 1 /\ o.wallet = wallet /\ o.list = <<>>
      /\ o = [phase |-> o.phase, click |-> o.click, wallet |-> o.wallet, amount |-> o.amount,
          to |-> o.to, seen |-> o.seen, registry |-> o.registry, found |-> o.found,
          source |-> o.source, held |-> o.held, list |-> o.list, sequence |-> o.sequence]
  BY DEF Begun
<1>3. OpOK(kind, o)
  BY <1>1, <1>2 DEF OpOK, Ended, Ready
<1>. QED BY <1>2, <1>3

(* A click captures what the page has loaded.                              *)
LEMMA StartedOK ==
  ASSUME PageInv, NEW kind \in {"buy", "claim"}, NEW amount \in Nat, wallet # Nobody,
         NEW o, \/ kind = "claim" /\ o = Started(kind, amount, "fetch")
                \/ o = [Started(kind, amount, "fetch") EXCEPT !.source = Ata(wallet)]
  PROVE  OpOK(kind, o) /\ o.click = clicks + 1 /\ o.phase = "fetch"
<1>1. /\ Begun(o) /\ o.phase = "fetch" /\ o.amount = amount
      /\ o.seen = {} /\ o.registry = {} /\ o.found = {}
  <2>1. CASE o = Started(kind, amount, "fetch")
    BY <2>1 DEF Started, NoOp, Begun
  <2>2. CASE o = [Started(kind, amount, "fetch") EXCEPT !.source = Ata(wallet)]
    BY <2>2 DEF Started, NoOp, Begun
  <2>. QED BY <2>1, <2>2
<1>2. kind = "buy" => o.source = Ata(wallet)
  BY DEF Started, NoOp
<1>3. kind \in Kinds /\ kind \notin Movements /\ kind # "transfer"
  BY DEF Kinds, Movements
<1>. QED BY <1>1, <1>2, <1>3, BegunOK

LEMMA CapturedOK ==
  ASSUME PageInv, NEW kind \in Movements, NEW amount \in Nat, wallet # Nobody,
         NEW o, \/ kind = "sell" /\ o = Captured(kind, amount)
                \/ \E to \in Wallets : o = [Captured(kind, amount) EXCEPT !.to = to]
  PROVE  OpOK(kind, o) /\ o.click = clicks + 1 /\ o.phase = "discover"
<1>. DEFINE loaded == receiptState.status = "loaded"
            seen == Preview(amount)
            registry == IF loaded THEN {receiptState.active} ELSE {}
            found == IF loaded THEN {receiptState.found} ELSE {}
<1>1. wallet \in Wallets
  BY DEF PageInv
<1>2. /\ registry \subseteq Registries /\ \A m, n \in registry : m = n
      /\ \A f \in found : Kept(f)
      /\ \A f, g \in found : f = g
  BY DEF PageInv, Registries
<1>. HIDE DEF registry, found, seen
<1>3. /\ Begun(o) /\ o.phase = "discover" /\ o.amount = amount
      /\ o.registry = registry /\ o.found = found
      /\ kind = "transfer" => o.to \in Wallets
  <2>1. CASE kind = "sell" /\ o = Captured(kind, amount)
    BY ZenonT(60), <2>1 DEF Captured, Started, NoOp, Begun, registry, found
  <2>2. ASSUME NEW to \in Wallets, o = [Captured(kind, amount) EXCEPT !.to = to]
        PROVE  /\ Begun(o) /\ o.phase = "discover" /\ o.amount = amount
               /\ o.registry = registry /\ o.found = found /\ o.to \in Wallets
    BY ZenonT(60), <2>2 DEF Captured, Started, NoOp, Begun, registry, found
  <2>. QED BY <2>1, <2>2
<1>4. kind \in Kinds /\ kind # "buy"
  BY DEF Kinds, Movements
<1>. QED BY <1>2, <1>3, <1>4, BegunOK

(* What a step of an operation makes of it: a click starts it anew, a call *)
(* goes on with it, and it is reported as done once it has landed.         *)
Moves(kind) ==
  /\ op' = [op EXCEPT ![kind] = op'[kind]] /\ OpOK(kind, op'[kind])
  /\ \/ clicks' = clicks + 1 /\ op'[kind].click = clicks' /\ clicks + outside < MaxMoves
        /\ op'[kind].phase # "done"
     \/ clicks' = clicks /\ op'[kind].click = op[kind].click /\ op[kind].phase # "idle"
        /\ (kind # "claim" /\ op'[kind].phase = "done" => Fate(kind) = "landed")

LEMMA Set ==
  ASSUME OpInv, NEW kind \in Kinds, NEW o, OpOK(kind, o), SetOp(kind, o),
         o.click = op[kind].click, op[kind].phase # "idle",
         kind # "claim" /\ o.phase = "done" => Fate(kind) = "landed"
  PROVE  Moves(kind)
<1>1. op' = [op EXCEPT ![kind] = o] /\ op'[kind] = o /\ clicks' = clicks
  BY DEF OpInv, SetOp
<1>. QED BY <1>1 DEF Moves

LEMMA FailsMoves ==
  ASSUME OpInv, NEW kind \in Kinds, Fails(kind), op[kind].phase # "idle"
  PROVE  Moves(kind)
<1>. DEFINE o == [NoOp EXCEPT !.phase = "error", !.click = op[kind].click]
<1>1. OpOK(kind, o)
  BY EndedOK DEF Ended
<1>2. SetOp(kind, o)
  BY DEF Fails, Ends
<1>3. o.click = op[kind].click /\ o.phase = "error"
  BY DEF NoOp
<1>. HIDE DEF o
<1>. QED BY <1>1, <1>2, <1>3, Set

LEMMA ClickMoves ==
  ASSUME PageInv, OpInv,
         \/ \E n \in BuyAmounts : HandleBuy(n)
         \/ \E n \in Amounts : HandleSell(n)
         \/ \E n \in Amounts, to \in Recipients : HandleDirectTransfer(n, to)
         \/ HandleClaim
  PROVE  \E kind \in Kinds : Moves(kind)
<1>. DEFINE Anew(kind, o) == /\ op' = [op EXCEPT ![kind] = o] /\ clicks' = clicks + 1
                              /\ OpOK(kind, o) /\ o.click = clicks + 1
                              /\ o.phase \in {"fetch", "discover"}
                              /\ clicks + outside < MaxMoves
<1>1. ASSUME NEW kind \in Kinds, NEW o, Anew(kind, o)
      PROVE  Moves(kind)
  <2>1. op'[kind] = o
    BY <1>1 DEF OpInv
  <2>. QED BY <1>1, <2>1 DEF Moves
<1>. HIDE DEF Anew
<1>2. ASSUME NEW n \in BuyAmounts, HandleBuy(n) PROVE \E o : Anew("buy", o)
  <2>1. PICK o : o = [Started("buy", n, "fetch") EXCEPT !.source = Ata(wallet)]
    OBVIOUS
  <2>2. OpOK("buy", o) /\ o.click = clicks + 1 /\ o.phase = "fetch"
    BY <1>2, <2>1, StartedOK, PanelBounds DEF HandleBuy, MayClick
  <2>. QED BY <1>2, <2>1, <2>2 DEF Anew, HandleBuy, Start, MayClick
<1>3. ASSUME NEW n \in Amounts, HandleSell(n) PROVE \E o : Anew("sell", o)
  <2>1. PICK o : o = Captured("sell", n)
    OBVIOUS
  <2>2. OpOK("sell", o) /\ o.click = clicks + 1 /\ o.phase = "discover"
    BY <1>3, <2>1, CapturedOK, PanelBounds DEF HandleSell, MayMove, MayClick, Movements
  <2>. QED BY <1>3, <2>1, <2>2 DEF Anew, HandleSell, MayMove, Start, MayClick
<1>4. ASSUME NEW n \in Amounts, NEW to \in Recipients, HandleDirectTransfer(n, to)
      PROVE  \E o : Anew("transfer", o)
  <2>1. PICK o : o = [Captured("transfer", n) EXCEPT !.to = to]
    OBVIOUS
  <2>2. OpOK("transfer", o) /\ o.click = clicks + 1 /\ o.phase = "discover"
    BY <1>4, <2>1, CapturedOK, PanelBounds
       DEF HandleDirectTransfer, MayMove, MayClick, Movements
  <2>. QED BY <1>4, <2>1, <2>2 DEF Anew, HandleDirectTransfer, MayMove, Start, MayClick
<1>5. ASSUME HandleClaim PROVE \E o : Anew("claim", o)
  <2>1. PICK o : o = Started("claim", 0, "fetch")
    OBVIOUS
  <2>2. OpOK("claim", o) /\ o.click = clicks + 1 /\ o.phase = "fetch"
    BY <1>5, <2>1, StartedOK DEF HandleClaim, MayClick
  <2>. QED BY <1>5, <2>1, <2>2 DEF Anew, HandleClaim, Start, MayClick
<1>. QED BY <1>1, <1>2, <1>3, <1>4, <1>5 DEF Kinds

(* An operation whose list is settled goes on with it.                     *)
LEMMA NextPhaseOK ==
  ASSUME NEW kind \in Kinds, OpOK(kind, op[kind]), op[kind].phase \in Ready,
         NEW phase \in {"sign", "confirm"}
  PROVE  LET o == [op[kind] EXCEPT !.phase = phase]
         IN OpOK(kind, o) /\ o.click = op[kind].click /\ o.phase = phase
<1>0. PICK o : o = [op[kind] EXCEPT !.phase = phase]
  OBVIOUS
<1>1. /\ o.wallet = op[kind].wallet /\ o.source = op[kind].source
      /\ o.held = op[kind].held /\ o.amount = op[kind].amount /\ o.to = op[kind].to
      /\ o.registry = op[kind].registry /\ o.found = op[kind].found
      /\ o.seen = op[kind].seen /\ o.click = op[kind].click
      /\ o.list = op[kind].list /\ o.phase = phase
      /\ o = [phase |-> o.phase, click |-> o.click, wallet |-> o.wallet, amount |-> o.amount,
          to |-> o.to, seen |-> o.seen, registry |-> o.registry, found |-> o.found,
          source |-> o.source, held |-> o.held, list |-> o.list, sequence |-> o.sequence]
  BY <1>0 DEF OpOK
<1>2. /\ phase \in Ready /\ phase # "discover"
      /\ phase \notin Ended /\ op[kind].phase \notin Ended
  BY DEF Ready, Ended
<1>3. kind \in Movements => Planned(o)
  BY <1>1 DEF OpOK, Planned
<1>4. OpOK(kind, o)
  BY <1>1, <1>2, <1>3 DEF OpOK
<1>. QED BY <1>0, <1>1, <1>4

LEMMA FetchSequenceMoves ==
  ASSUME OpInv, NEW kind \in Kinds, FetchSequence(kind)
  PROVE  Moves(kind)
<1>0. PICK o : o = [op[kind] EXCEPT !.phase = "sign", !.sequence = soul.claimCount]
  OBVIOUS
<1>1. OpOK(kind, op[kind])
  BY DEF OpInv
<1>2. OpOK(kind, o) /\ o.click = op[kind].click /\ o.phase = "sign"
  BY <1>0, <1>1 DEF FetchSequence, OpOK, Ended, Ready, Movements
<1>3. SetOp(kind, o) /\ op[kind].phase # "idle"
  BY <1>0 DEF FetchSequence
<1>. QED BY <1>2, <1>3, Set

(* The account is found to hold the amount.                                *)
LEMMA DiscoverSourceMoves ==
  ASSUME ChainInv, OpInv, NEW kind \in Kinds, DiscoverSource(kind)
  PROVE  Moves(kind)
<1>1. OpOK(kind, op[kind]) /\ op[kind].phase = "discover"
  BY DEF OpInv, DiscoverSource
<1>2. CASE Fails(kind)
  BY <1>1, <1>2, FailsMoves
<1>. DEFINE accounts == AccountsOf(op[kind].wallet)
<1>3. ASSUME NEW a \in SourceFor(Restrict(tok, accounts), op[kind].amount),
             SetOp(kind, [op[kind] EXCEPT !.phase = "fetch", !.source = a, !.held = tok[a]])
      PROVE  Moves(kind)
  <2>0. PICK o : o = [op[kind] EXCEPT !.phase = "fetch", !.source = a, !.held = tok[a]]
    OBVIOUS
  <2>1. a \in accounts /\ op[kind].amount <= tok[a]
    BY <1>3 DEF SourceFor, Restrict
  <2>2. op[kind].wallet \in Wallets
    BY <1>1 DEF OpOK, Ended
  <2>3. a \in Accounts
    BY <2>1, <2>2 DEF AccountsOf, Accounts, Ata
  <2>4. tok[a] \in Nat
    BY <2>3 DEF ChainInv
  <2>. HIDE DEF accounts
  <2>5. OpOK(kind, o) /\ o.click = op[kind].click /\ o.phase = "fetch"
    BY <1>1, <2>0, <2>1, <2>4 DEF OpOK, Ended, Ready, Movements, accounts
  <2>6. SetOp(kind, o)
    BY <1>3, <2>0
  <2>. QED BY <1>1, <2>5, <2>6, Set
<1>. QED BY <1>2, <1>3 DEF DiscoverSource

LEMMA FetchReceiptsMoves ==
  ASSUME ChainInv, OpInv, NEW kind \in Kinds, FetchReceipts(kind)
  PROVE  Moves(kind)
<1>1. OpOK(kind, op[kind]) /\ op[kind].phase = "fetch" /\ kind \in Movements
  BY DEF OpInv, FetchReceipts, Asking, Movements
<1>. DEFINE w == op[kind].wallet
<1>2. CASE SetOp(kind, [op[kind] EXCEPT !.registry = {Registry(w)}])
  <2>0. PICK o : o = [op[kind] EXCEPT !.registry = {Registry(w)}]
    OBVIOUS
  <2>1. Registry(w) \in Registries
    BY RegistryType
  <2>2. OpOK(kind, o) /\ o.click = op[kind].click /\ o.phase = "fetch"
    BY <1>1, <2>0, <2>1 DEF OpOK, Ended, Ready
  <2>3. SetOp(kind, o)
    BY <1>2, <2>0
  <2>. QED BY <1>1, <2>2, <2>3, Set
<1>3. CASE SetOp(kind, [op[kind] EXCEPT !.found = {Candidates(w)}])
  <2>0. PICK o : o = [op[kind] EXCEPT !.found = {Candidates(w)}]
    OBVIOUS
  <2>1. Kept(Candidates(w))
    BY CandidatesKept
  <2>2. OpOK(kind, o) /\ o.click = op[kind].click /\ o.phase = "fetch"
    BY <1>1, <2>0, <2>1 DEF OpOK, Ended, Ready
  <2>3. SetOp(kind, o)
    BY <1>3, <2>0
  <2>. QED BY <1>1, <2>2, <2>3, Set
<1>. QED BY <1>2, <1>3 DEF FetchReceipts

LEMMA ResolveMoves ==
  ASSUME OpInv, NEW kind \in Kinds, ResolveSettlement(kind)
  PROVE  Moves(kind)
<1>1. OpOK(kind, op[kind]) /\ op[kind].phase = "fetch" /\ kind \in Movements
  BY DEF OpInv, ResolveSettlement, Movements
<1>2. CASE Fails(kind)
  BY <1>1, <1>2, FailsMoves
<1>. DEFINE plan(n, found) == Settlement(op[kind].wallet, op[kind].source, op[kind].held,
                                        op[kind].amount, ActiveCount(n, found), found)
            phase == IF kind = "sell" THEN "sign" ELSE "preflight"
<1>3. ASSUME NEW n \in op[kind].registry, NEW found \in op[kind].found,
             plan(n, found).possible, AsPreviewed(op[kind].seen, plan(n, found)),
             SetOp(kind, [op[kind] EXCEPT !.list = plan(n, found).list, !.phase = phase])
      PROVE  Moves(kind)
  <2>0. PICK o : o = [op[kind] EXCEPT !.list = plan(n, found).list, !.phase = phase]
    OBVIOUS
  <2>1. /\ o.wallet = op[kind].wallet /\ o.source = op[kind].source
        /\ o.held = op[kind].held /\ o.amount = op[kind].amount /\ o.to = op[kind].to
        /\ o.registry = op[kind].registry /\ o.found = op[kind].found
        /\ o.seen = op[kind].seen /\ o.click = op[kind].click
        /\ o.list = plan(n, found).list /\ o.phase = phase
        /\ o = [phase |-> o.phase, click |-> o.click, wallet |-> o.wallet, amount |-> o.amount,
          to |-> o.to, seen |-> o.seen, registry |-> o.registry, found |-> o.found,
          source |-> o.source, held |-> o.held, list |-> o.list, sequence |-> o.sequence]
    BY <1>1, <2>0 DEF OpOK
  <2>2. SetOp(kind, o) /\ phase \in Ready /\ phase # "discover" /\ phase # "done"
    BY <1>3, <2>0 DEF Ready
  <2>. HIDE DEF phase
  <2>3. Planned(o)
    BY <1>3, <2>1 DEF Planned, AsPreviewed
  <2>. HIDE DEF plan
  <2>4. OpOK(kind, o)
    BY <1>1, <2>1, <2>2, <2>3 DEF OpOK, Ended, Ready
  <2>. QED BY <1>1, <2>1, <2>2, <2>4, Set
<1>. QED BY <1>2, <1>3 DEF ResolveSettlement

LEMMA PreflightMoves ==
  ASSUME OpInv, NEW kind \in Kinds, Preflight(kind)
  PROVE  Moves(kind)
<1>1. OpOK(kind, op[kind]) /\ op[kind].phase = "preflight" /\ op[kind].phase \in Ready
  BY DEF OpInv, Preflight, Ready
<1>2. CASE Fails(kind)
  BY <1>1, <1>2, FailsMoves
<1>3. CASE SetOp(kind, [op[kind] EXCEPT !.phase = "sign"])
  BY <1>1, <1>3, NextPhaseOK, Set
<1>. QED BY <1>2, <1>3 DEF Preflight

LEMMA FailCallMoves ==
  ASSUME OpInv, NEW kind \in Kinds, FailCall(kind)
  PROVE  Moves(kind)
<1>1. Fails(kind) /\ op[kind].phase # "idle"
  BY DEF FailCall, Asking
<1>. QED BY <1>1, FailsMoves

(* Success is reported of a transaction that has landed.                   *)
LEMMA ConfirmMoves ==
  ASSUME OpInv, NEW kind \in Kinds, Confirm(kind)
  PROVE  Moves(kind)
<1>1. op[kind].phase = "confirm"
  BY DEF Confirm
<1>2. CASE Fails(kind)
  BY <1>1, <1>2, FailsMoves
<1>3. CASE Succeeds(kind) /\ Ends(kind, "done")
  <2>. DEFINE o == [NoOp EXCEPT !.phase = "done", !.click = op[kind].click]
  <2>1. OpOK(kind, o)
    BY EndedOK DEF Ended
  <2>2. SetOp(kind, o)
    BY <1>3 DEF Ends
  <2>3. o.click = op[kind].click
    BY DEF NoOp
  <2>4. kind # "claim" => Fate(kind) = "landed"
    BY <1>3 DEF Succeeds
  <2>. HIDE DEF o
  <2>. QED BY <1>1, <2>1, <2>2, <2>3, <2>4, Set
<1>. QED BY <1>2, <1>3 DEF Confirm

LEMMA SignMoves ==
  ASSUME OpInv, NEW kind \in Kinds, Sign(kind)
  PROVE  Moves(kind)
<1>1. OpOK(kind, op[kind]) /\ op[kind].phase = "sign"
  BY DEF OpInv, Sign
<1>2. CASE Fails(kind)
  BY <1>1, <1>2, FailsMoves
<1>3. CASE SetOp(kind, [op[kind] EXCEPT !.phase = "confirm"])
  <2>1. op[kind].phase \in Ready
    BY <1>1 DEF Ready
  <2>. QED BY <1>1, <1>3, <2>1, NextPhaseOK, Set
<1>. QED BY <1>2, <1>3 DEF Sign

(* A step of an operation keeps every operation's invariant.               *)
LEMMA MovesKeep ==
  ASSUME OpInv, NEW kind \in Kinds, Moves(kind), UNCHANGED <<soul, receipts>>
  PROVE  OpInv'
<1>1. /\ op' = [k \in Kinds |-> op'[k]]
      /\ \A k \in Kinds : op'[k] = op[k] \/ k = kind
  BY DEF OpInv, Moves
<1>2. ASSUME NEW found PROVE Kept(found)' <=> Kept(found)
  BY DEF Kept
<1>3. ASSUME NEW k \in Kinds PROVE OpOK(k, op'[k])
  BY <1>1 DEF OpInv, Moves
<1>4. ASSUME NEW k \in Kinds PROVE OpOK(k, op[k])'
  BY <1>2, <1>3 DEF OpOK, Planned
<1>. QED BY <1>1, <1>4 DEF OpInv

(* What was read stays true whatever the chain does.                       *)
LEMMA StaysKeep ==
  ASSUME OpInv, PageInv, ChainInv, ChainInv', ReceiptsStay, UNCHANGED <<op, page>>
  PROVE  OpInv' /\ PageInv'
<1>1. ASSUME NEW found, Kept(found) PROVE Kept(found)'
  BY <1>1, KeptStays
<1>2. ASSUME NEW k \in Kinds PROVE OpOK(k, op[k])'
  <2>1. OpOK(k, op[k])
    BY DEF OpInv
  <2>2. Planned(op[k]) => Planned(op[k])'
    BY DEF Planned
  <2>. QED BY <1>1, <2>1, <2>2 DEF OpOK
<1>3. OpInv'
  BY <1>2 DEF OpInv
<1>4. PageInv'
  BY <1>1 DEF PageInv, ReadOK, page
<1>. QED BY <1>3, <1>4

LEMMA NewReadOK ==
  ASSUME NEW kind, NEW by, NEW w \in Wallets
  PROVE  ReadOK(Read(kind, by, w))
BY DEF ReadOK, Read

LEMMA AnsweredKeeps ==
  ASSUME ChainInv, PageInv, NEW r \in reads, NEW registry, NEW found,
         registry \subseteq Registries, \A f \in found : Kept(f),
         Answered(r, registry, found)
  PROVE  /\ \A q \in reads' : ReadOK(q)
         /\ receiptState'.status = "loaded" =>
              Kept(receiptState'.found) /\ receiptState'.active \in Nat
<1>1. \A q \in reads : ReadOK(q)
  BY DEF PageInv, ReadOK
<1>2. CASE registry # {} /\ found # {}
  <2>1. PICK n \in registry, f \in found :
          receiptState' = [status |-> "loaded", active |-> ActiveCount(n, f), found |-> f]
    BY <1>2 DEF Answered
  <2>2. Kept(f) /\ ActiveCount(n, f) \in Nat
    BY CountType
  <2>3. reads' = reads \ {r}
    BY <1>2 DEF Answered
  <2>. QED BY <1>1, <2>1, <2>2, <2>3
<1>3. CASE ~(registry # {} /\ found # {})
  <2>0. PICK q : q = [r EXCEPT !.registry = registry, !.found = found]
    OBVIOUS
  <2>1. reads' = (reads \ {r}) \cup {q} /\ receiptState' = receiptState
    BY <1>3, <2>0 DEF Answered
  <2>2. r = [kind |-> r.kind, by |-> r.by, wallet |-> r.wallet,
             registry |-> r.registry, found |-> r.found] /\ r.wallet \in Wallets
    BY <1>1 DEF ReadOK
  <2>3. q = [kind |-> r.kind, by |-> r.by, wallet |-> r.wallet,
             registry |-> registry, found |-> found]
    BY <2>0, <2>2
  <2>4. ReadOK(q)
    BY <2>2, <2>3 DEF ReadOK
  <2>. QED BY <1>1, <2>1, <2>4 DEF PageInv
<1>. QED BY <1>2, <1>3

LEMMA PageSteps ==
  ASSUME ChainInv, PageInv, UNCHANGED <<soul, receipts>>,
         wallet' \in Wallets \cup {Nobody},
         \A r \in reads' : ReadOK(r),
         balances' = balances \/ balances'.status # "loaded"
           \/ (\E w \in Wallets : balances'.held = Restrict(tok, AccountsOf(w))),
         receiptState'.status = "loaded" =>
           Kept(receiptState'.found) /\ receiptState'.active \in Nat
  PROVE  PageInv'
<1>1. ASSUME NEW found PROVE Kept(found)' <=> Kept(found)
  BY DEF Kept
<1>2. \A w \in Wallets : \A a \in AccountsOf(w) : tok[a] \in Nat
  BY DEF ChainInv, AccountsOf, Ata, Accounts
<1>3. balances'.status = "loaded" =>
        \A a \in DOMAIN balances'.held : balances'.held[a] \in Nat
  <2>1. ASSUME NEW w \in Wallets, balances'.held = Restrict(tok, AccountsOf(w))
        PROVE  \A a \in DOMAIN balances'.held : balances'.held[a] \in Nat
    BY <1>2, <2>1 DEF Restrict
  <2>. QED BY <2>1 DEF PageInv
<1>. QED BY <1>1, <1>3 DEF PageInv, ReadOK

LEMMA ReadsKeep ==
  ASSUME ChainInv, PageInv,
         \/ \E w \in Wallets \cup {Nobody} : ChangeWallet(w)
         \/ \E r \in reads : ReadSoul(r) \/ ReadBalance(r) \/ ReadReceipts(r) \/ FailRead(r)
  PROVE  PageInv'
<1>0. /\ \A q \in reads : ReadOK(q)
      /\ receiptState.status = "loaded" =>
           Kept(receiptState.found) /\ receiptState.active \in Nat
      /\ wallet \in Wallets \cup {Nobody}
  BY DEF PageInv, ReadOK
<1>1. ASSUME NEW w \in Wallets \cup {Nobody}, ChangeWallet(w) PROVE PageInv'
  <2>1. /\ UNCHANGED <<soul, receipts>> /\ wallet' = w
        /\ balances'.status # "loaded" /\ receiptState'.status # "loaded"
    BY <1>1 DEF ChangeWallet, Unloaded, NoReceipts, chain
  <2>2. \A r \in reads' : r \in reads \/ (w \in Wallets /\ \E kind \in {"balance", "receipts"} :
                                            r = Read(kind, 0, w))
    BY <1>1 DEF ChangeWallet
  <2>3. \A r \in reads' : ReadOK(r)
    BY <1>0, <2>2, NewReadOK
  <2>. QED BY <2>1, <2>3, PageSteps
<1>2. ASSUME NEW r \in reads, ReadSoul(r) PROVE PageInv'
  BY <1>0, <1>2, PageSteps DEF ReadSoul, chain
<1>3. ASSUME NEW r \in reads, ReadBalance(r) PROVE PageInv'
  <2>1. r.wallet \in Wallets /\ balances'.held = Restrict(tok, AccountsOf(r.wallet))
    BY <1>0, <1>3 DEF ReadBalance, ReadOK
  <2>2. UNCHANGED <<soul, receipts, wallet, receiptState>> /\ reads' = reads \ {r}
    BY <1>3 DEF ReadBalance, chain
  <2>. QED BY <1>0, <2>1, <2>2, PageSteps
<1>4. ASSUME NEW r \in reads, ReadReceipts(r) PROVE PageInv'
  <2>1. /\ r.registry \subseteq Registries /\ \A f \in r.found : Kept(f)
        /\ {Registry(r.wallet)} \subseteq Registries
        /\ \A f \in {Candidates(r.wallet)} : Kept(f)
    BY <1>0, RegistryType, CandidatesKept DEF ReadOK
  <2>2. /\ \A q \in reads' : ReadOK(q)
        /\ receiptState'.status = "loaded" =>
             Kept(receiptState'.found) /\ receiptState'.active \in Nat
    BY <1>4, <2>1, AnsweredKeeps DEF ReadReceipts
  <2>3. UNCHANGED <<soul, receipts, wallet, balances>>
    BY <1>4 DEF ReadReceipts, chain
  <2>. QED BY <1>0, <2>2, <2>3, PageSteps
<1>5. ASSUME NEW r \in reads, FailRead(r) PROVE PageInv'
  <2>1. /\ UNCHANGED <<soul, receipts, wallet>> /\ reads' = reads \ {r}
        /\ balances' = balances \/ balances'.status # "loaded"
        /\ receiptState' = receiptState \/ receiptState'.status # "loaded"
    BY <1>5 DEF FailRead, chain, Unloaded, NoReceipts
  <2>. QED BY <1>0, <2>1, PageSteps
<1>. QED BY <1>1, <1>2, <1>3, <1>4, <1>5

-----------------------------------------------------------------------------
(* Clicks and the transactions signed for them *)

(* Every click that led to an operation has a number of its own.           *)
ClickInv ==
  /\ clicks \in Nat /\ outside \in Nat /\ clicks + outside <= MaxMoves
  /\ \A kind \in Kinds :
       /\ op[kind].click \in 0 .. clicks
       /\ op[kind].phase # "idle" => op[kind].click # 0
  /\ \A j, k \in Kinds : j # k /\ op[j].click = op[k].click => op[j].click = 0

(* A transaction that was previewed lists what the preview did, top down   *)
(* to the units the preview leaves.                                        *)
Promised(t) ==
  \A s \in t.seen :
    /\ t.kind \in Movements
    /\ s.list = t.list /\ s.source = t.source /\ s.post \in Nat
    /\ \A i \in 1 .. Len(t.list) :
         /\ t.list[i] \in Ids /\ t.list[i] < soul.claimCount
         /\ receipts[t.list[i]].boundary = s.post + Len(t.list) + 1 - i

SentInv ==
  /\ sent = [c \in Clicks |-> sent[c]]
  /\ \A c \in Clicks : sent[c].fate = "pending" => Sendable(sent[c]) /\ Promised(sent[c])

PanelInv == ChainInv /\ PageInv /\ OpInv /\ ClickInv /\ SentInv /\ SuccessMeansLanded

(* What the plan of an operation says of its list.                         *)
ListsReceipts(o, plan) ==
  /\ plan.source = o.source /\ plan.post \in Nat
  /\ Len(plan.list) \in Nat
  /\ plan.list = [i \in 1 .. Len(plan.list) |-> plan.list[i]]
  /\ \A i \in 1 .. Len(plan.list) :
       /\ plan.list[i] \in Ids /\ plan.list[i] < soul.claimCount
       /\ receipts[plan.list[i]].claimant = o.wallet
       /\ receipts[plan.list[i]].boundary = plan.post + Len(plan.list) + 1 - i

LEMMA PlanLists ==
  ASSUME NEW o, NEW found, Kept(found), NEW active \in Nat,
         o.held \in Nat, o.amount \in Nat, o.amount <= o.held,
         NEW plan, plan = Settlement(o.wallet, o.source, o.held, o.amount, active, found),
         plan.possible
  PROVE  ListsReceipts(o, plan)
<1>1. PICK owner : owner = o.wallet
  OBVIOUS
<1>2. PICK source : source = o.source
  OBVIOUS
<1>3. PICK held \in Nat : held = o.held
  OBVIOUS
<1>4. PICK amount \in Nat : amount = o.amount
  OBVIOUS
<1>5. amount <= held /\ plan = Settlement(owner, source, held, amount, active, found)
  BY <1>1, <1>2, <1>3, <1>4
<1>6. /\ plan.source = source /\ plan.post \in Nat
      /\ Len(plan.list) \in Nat
      /\ plan.list = [i \in 1 .. Len(plan.list) |-> plan.list[i]]
  BY <1>5, PlanShape
<1>7. ASSUME NEW i \in 1 .. Len(plan.list)
      PROVE  /\ plan.list[i] \in Ids /\ plan.list[i] < soul.claimCount
             /\ receipts[plan.list[i]].claimant = owner
             /\ receipts[plan.list[i]].boundary = plan.post + Len(plan.list) + 1 - i
  <2>1. /\ plan.list[i] \in DOMAIN found
        /\ found[plan.list[i]].claimant = owner
        /\ found[plan.list[i]].boundary = plan.post + Len(plan.list) + 1 - i
    BY <1>5, PlanSelects
  <2>. QED BY <2>1 DEF Kept
<1>. QED BY <1>1, <1>2, <1>6, <1>7 DEF ListsReceipts

LEMMA PlannedLists ==
  ASSUME NEW kind \in Movements, OpOK(kind, op[kind]), op[kind].phase \in Ready,
         NEW o, o = op[kind]
  PROVE  /\ Len(o.list) \in Nat /\ o.list = [i \in 1 .. Len(o.list) |-> o.list[i]]
         /\ \A i \in 1 .. Len(o.list) :
              /\ o.list[i] \in Ids /\ o.list[i] < soul.claimCount
              /\ receipts[o.list[i]].claimant = o.wallet
         /\ \A s \in o.seen :
              /\ s.list = o.list /\ s.source = o.source /\ s.post \in Nat
              /\ \A i \in 1 .. Len(o.list) :
                   receipts[o.list[i]].boundary = s.post + Len(o.list) + 1 - i
<1>1. /\ Planned(o) /\ o.held \in Nat /\ o.amount \in Nat /\ o.amount <= o.held
      /\ o.registry \subseteq Registries /\ \A found \in o.found : Kept(found)
  BY DEF OpOK, Ready, Ended
<1>2. PICK n \in o.registry, found \in o.found :
        LET plan == Settlement(o.wallet, o.source, o.held, o.amount,
                               ActiveCount(n, found), found)
        IN plan.possible /\ o.list = plan.list /\ \A s \in o.seen : s = plan
  BY <1>1 DEF Planned
<1>3. Kept(found) /\ ActiveCount(n, found) \in Nat
  BY <1>1, CountType
<1>4. PICK active \in Nat : active = ActiveCount(n, found)
  BY <1>3
<1>5. PICK plan : /\ plan = Settlement(o.wallet, o.source, o.held, o.amount, active, found)
                  /\ plan.possible /\ o.list = plan.list /\ \A s \in o.seen : s = plan
  BY <1>2, <1>4
<1>6. /\ Kept(found) /\ o.held \in Nat /\ o.amount \in Nat /\ o.amount <= o.held
      /\ plan = Settlement(o.wallet, o.source, o.held, o.amount, active, found)
      /\ plan.possible
  BY <1>1, <1>3, <1>5
<1>7. ListsReceipts(o, plan)
  BY <1>6, PlanLists
<1>8. plan.list = o.list /\ \A s \in o.seen : s = plan
  BY <1>5, Zenon
<1>9. /\ Len(o.list) \in Nat /\ o.list = [i \in 1 .. Len(o.list) |-> o.list[i]]
      /\ \A s \in o.seen : s.list = o.list /\ s.source = o.source /\ s.post \in Nat
  BY <1>8, <1>7 DEF ListsReceipts
<1>10. \A i \in 1 .. Len(o.list) :
        /\ o.list[i] \in Ids /\ o.list[i] < soul.claimCount
        /\ receipts[o.list[i]].claimant = o.wallet
        /\ receipts[o.list[i]].boundary = plan.post + Len(o.list) + 1 - i
  BY <1>8, <1>7 DEF ListsReceipts
<1>11. \A s \in o.seen : \A i \in 1 .. Len(o.list) :
         receipts[o.list[i]].boundary = s.post + Len(o.list) + 1 - i
  <2>1. ASSUME NEW s \in o.seen, NEW i \in 1 .. Len(o.list)
        PROVE  receipts[o.list[i]].boundary = s.post + Len(o.list) + 1 - i
    <3>1. s = plan
      BY <1>8
    <3>2. receipts[o.list[i]].boundary = plan.post + Len(o.list) + 1 - i
      BY <1>10
    <3>. QED BY <3>1, <3>2, Zenon
  <2>. QED BY <2>1
<1>. QED BY <1>9, <1>10, <1>11

(* The transaction of an operation about to be signed.                     *)
LEMMA TxSendable ==
  ASSUME ChainInv, NEW kind \in Kinds, OpOK(kind, op[kind]), op[kind].phase = "sign"
  PROVE  LET t == [TxOf(kind) EXCEPT !.fate = "pending"]
         IN Sendable(t) /\ Promised(t)
<1>. DEFINE o == op[kind]
            t == [TxOf(kind) EXCEPT !.fate = "pending"]
<1>1. /\ t.kind = kind /\ t.wallet = o.wallet /\ t.source = o.source /\ t.to = o.to
      /\ t.amount = o.amount /\ t.list = o.list /\ t.seen = o.seen
  BY DEF TxOf, NoTx
<1>2. /\ o.wallet \in Wallets /\ o.amount \in Nat
      /\ kind = "transfer" => o.to \in Wallets
      /\ kind # "claim" => o.source \in AccountsOf(o.wallet)
      /\ kind \notin Movements => o.seen = {} /\ o.list = <<>>
  BY DEF OpOK, Ready, Ended, Movements, Kinds, AccountsOf
<1>3. kind \in Movements =>
        /\ Len(o.list) \in Nat /\ o.list = [i \in 1 .. Len(o.list) |-> o.list[i]]
        /\ \A i \in 1 .. Len(o.list) : o.list[i] \in Ids /\ o.list[i] < soul.claimCount
        /\ \A s \in o.seen :
             /\ s.list = o.list /\ s.source = o.source /\ s.post \in Nat
             /\ \A i \in 1 .. Len(o.list) :
                  receipts[o.list[i]].boundary = s.post + Len(o.list) + 1 - i
  BY PlannedLists, Zenon DEF Ready
<1>. HIDE DEF o, t
<1>4. Sendable(t)
  BY <1>1, <1>2, <1>3 DEF Sendable
<1>5. Promised(t)
  BY <1>1, <1>2, <1>3 DEF Promised
<1>. QED BY <1>4, <1>5 DEF t

-----------------------------------------------------------------------------
(* The steps *)

Signs(kind) ==
  /\ sent' = [sent EXCEPT ![op[kind].click] = [TxOf(kind) EXCEPT !.fate = "pending"]]
  /\ op[kind].phase = "sign" /\ op'[kind].phase = "confirm" /\ clicks' = clicks

LEMMA SameChain ==
  ASSUME ChainInv, UNCHANGED chain
  PROVE  ChainInv'
BY DEF ChainInv, chain, Active, Owned, Units

LEMMA MovesInPanel ==
  ASSUME PanelInv, NEW kind \in Kinds, Moves(kind), UNCHANGED chain, PageInv',
         UNCHANGED sent \/ Signs(kind)
  PROVE  PanelInv'
<1>. USE DEF PanelInv
<1>1. ChainInv' /\ OpInv'
  BY SameChain, MovesKeep DEF chain
<1>2. /\ \A k \in Kinds \ {kind} : op'[k] = op[k]
      /\ outside' = outside
  BY DEF Moves, OpInv, chain
<1>3. /\ clicks \in Nat /\ outside \in Nat /\ clicks' \in Nat
      /\ clicks <= MaxMoves /\ clicks' + outside <= MaxMoves /\ clicks <= clicks'
      /\ op'[kind].click \in 0 .. clicks' /\ op'[kind].click # 0
      /\ op'[kind].click = op[kind].click \/ op'[kind].click > clicks
  BY PanelBounds DEF Moves, ClickInv
<1>4. ClickInv'
  <2>1. \A k \in Kinds : op'[k].click \in 0 .. clicks' /\ (op'[k].phase # "idle" => op'[k].click # 0)
    BY <1>2, <1>3 DEF ClickInv
  <2>2. ASSUME NEW j \in Kinds, NEW k \in Kinds, j # k, op'[j].click = op'[k].click
        PROVE  op'[j].click = 0
    <3>1. CASE j # kind /\ k # kind
      BY <1>2, <2>2, <3>1 DEF ClickInv
    <3>2. CASE j = kind
      BY <1>2, <1>3, <2>2, <3>2 DEF ClickInv
    <3>3. CASE k = kind
      BY <1>2, <1>3, <2>2, <3>3 DEF ClickInv
    <3>. QED BY <3>1, <3>2, <3>3
  <2>. QED BY <1>2, <1>3, <2>1, <2>2 DEF ClickInv
<1>5. op[kind].phase = "sign" => op[kind].click \in Clicks
  BY <1>3, PanelBounds DEF ClickInv, Clicks
<1>6. SentInv'
  <2>1. ASSUME NEW t PROVE Sendable(t)' <=> Sendable(t)
    BY DEF Sendable
  <2>2. ASSUME NEW t PROVE Promised(t)' <=> Promised(t)
    BY DEF Promised, chain
  <2>3. CASE UNCHANGED sent
    BY <2>1, <2>2, <2>3 DEF SentInv
  <2>4. CASE Signs(kind)
    <3>. DEFINE t == [TxOf(kind) EXCEPT !.fate = "pending"]
    <3>1. Sendable(t) /\ Promised(t)
      BY <2>4, TxSendable DEF Signs, OpInv
    <3>2. sent' = [sent EXCEPT ![op[kind].click] = t]
      BY <2>4 DEF Signs
    <3>. HIDE DEF t
    <3>. QED BY <2>1, <2>2, <3>1, <3>2 DEF SentInv
  <2>. QED BY <2>3, <2>4
<1>7. SuccessMeansLanded'
  <2>. SUFFICES ASSUME NEW k \in Kinds \ {"claim"}, op'[k].phase = "done"
                PROVE  sent'[op'[k].click].fate = "landed"
    BY DEF SuccessMeansLanded, Fate
  <2>1. CASE k = kind
    <3>1. sent[op'[k].click].fate = "landed"
      BY <2>1 DEF Moves, Fate
    <3>. QED BY <2>1, <3>1 DEF Signs
  <2>2. CASE k # kind
    <3>1. op'[k] = op[k] /\ sent[op[k].click].fate = "landed"
      BY <1>2, <2>2 DEF SuccessMeansLanded, Fate
    <3>2. op[k].click # 0
      BY <3>1 DEF ClickInv
    <3>3. op[kind].click # op[k].click
      BY <2>2, <3>2 DEF ClickInv
    <3>4. CASE UNCHANGED sent
      BY <3>1, <3>4
    <3>5. CASE Signs(kind)
      BY <3>1, <3>3, <3>5 DEF Signs, SentInv
    <3>. QED BY <3>4, <3>5
  <2>. QED BY <2>1, <2>2
<1>. QED BY <1>1, <1>4, <1>6, <1>7

LEMMA ConfirmReads ==
  ASSUME PanelInv, NEW kind \in Kinds, Confirm(kind)
  PROVE  PageInv'
<1>. USE DEF PanelInv
<1>1. op[kind].wallet \in Wallets
  BY DEF Confirm, OpInv, OpOK, Ended
<1>2. \A r \in reads' : r \in reads \/ \E what \in Refreshes(kind) :
                                        r = Read(what, op[kind].click, op[kind].wallet)
  BY DEF Confirm
<1>3. \A r \in reads' : ReadOK(r)
  BY <1>1, <1>2, NewReadOK DEF PageInv
<1>4. UNCHANGED <<soul, receipts, wallet, balances, receiptState>>
  BY DEF Confirm, chain
<1>5. /\ wallet \in Wallets \cup {Nobody}
      /\ receiptState.status = "loaded" =>
           Kept(receiptState.found) /\ receiptState.active \in Nat
  BY DEF PageInv
<1>. QED BY <1>3, <1>4, <1>5, PageSteps

LEMMA SamePage ==
  ASSUME PageInv, UNCHANGED <<chain, page>>
  PROVE  PageInv'
<1>1. ASSUME NEW found PROVE Kept(found)' <=> Kept(found)
  BY DEF Kept, chain
<1>. QED BY <1>1 DEF PageInv, ReadOK, page

(* The operations of the page.                                             *)
LEMMA OperationsKeep ==
  ASSUME PanelInv,
         \/ \E n \in BuyAmounts : HandleBuy(n)
         \/ \E n \in Amounts : HandleSell(n)
         \/ \E n \in Amounts, to \in Recipients : HandleDirectTransfer(n, to)
         \/ HandleClaim
         \/ \E kind \in Kinds : Answer(kind) \/ FailCall(kind)
  PROVE  PanelInv'
<1>. USE DEF PanelInv
<1>1. ASSUME \/ \E n \in BuyAmounts : HandleBuy(n)
             \/ \E n \in Amounts : HandleSell(n)
             \/ \E n \in Amounts, to \in Recipients : HandleDirectTransfer(n, to)
             \/ HandleClaim
      PROVE  PanelInv'
  <2>1. UNCHANGED <<chain, page, sent>>
    BY <1>1 DEF HandleBuy, HandleSell, HandleDirectTransfer, HandleClaim
  <2>. QED BY <1>1, <2>1, ClickMoves, SamePage, MovesInPanel
<1>2. ASSUME NEW kind \in Kinds, Answer(kind) \/ FailCall(kind)
      PROVE  PanelInv'
  <2>1. CASE \/ DiscoverSource(kind) \/ FetchSequence(kind) \/ FetchReceipts(kind)
             \/ ResolveSettlement(kind) \/ Preflight(kind) \/ FailCall(kind)
    <3>1. UNCHANGED <<chain, page, sent>>
      BY <2>1 DEF DiscoverSource, FetchSequence, FetchReceipts, ResolveSettlement,
                  Preflight, FailCall
    <3>2. Moves(kind)
      BY <2>1, DiscoverSourceMoves, FetchSequenceMoves, FetchReceiptsMoves, ResolveMoves,
         PreflightMoves, FailCallMoves
    <3>. QED BY <3>1, <3>2, SamePage, MovesInPanel
  <2>2. CASE Sign(kind)
    <3>1. UNCHANGED <<chain, page>> /\ Moves(kind)
      BY <2>2, SignMoves DEF Sign
    <3>2. UNCHANGED sent \/ Signs(kind)
      BY <2>2 DEF Sign, Signs, SetOp, OpInv, OpOK
    <3>. QED BY <3>1, <3>2, SamePage, MovesInPanel
  <2>3. CASE Confirm(kind)
    <3>1. UNCHANGED <<chain, sent>> /\ Moves(kind) /\ PageInv'
      BY <2>3, ConfirmMoves, ConfirmReads DEF Confirm
    <3>. QED BY <3>1, MovesInPanel
  <2>. QED BY <1>2, <2>1, <2>2, <2>3 DEF Answer
<1>. QED BY <1>1, <1>2

(* The page's reads.                                                       *)
LEMMA PageKeeps ==
  ASSUME PanelInv,
         \/ \E w \in Wallets \cup {Nobody} : ChangeWallet(w)
         \/ \E r \in reads : ReadSoul(r) \/ ReadBalance(r) \/ ReadReceipts(r) \/ FailRead(r)
  PROVE  PanelInv'
<1>. USE DEF PanelInv
<1>1. UNCHANGED <<chain, clicks, op, sent>>
  BY DEF ChangeWallet, ReadSoul, ReadBalance, ReadReceipts, FailRead
<1>2. PageInv' /\ ChainInv'
  BY <1>1, ReadsKeep, SameChain
<1>3. ASSUME NEW found PROVE Kept(found)' <=> Kept(found)
  BY <1>1 DEF Kept, chain
<1>4. OpInv'
  <2>1. ASSUME NEW k \in Kinds PROVE OpOK(k, op[k])'
    <3>1. OpOK(k, op[k])
      BY DEF OpInv
    <3>2. Planned(op[k])' <=> Planned(op[k])
      BY <1>1 DEF Planned
    <3>. QED BY <1>1, <1>3, <3>1, <3>2 DEF OpOK
  <2>. QED BY <1>1, <2>1 DEF OpInv
<1>5. ClickInv'
  BY <1>1 DEF ClickInv, chain
<1>6. SentInv'
  BY <1>1 DEF SentInv, Sendable, Promised, chain
<1>7. SuccessMeansLanded'
  BY <1>1 DEF SuccessMeansLanded, Fate
<1>. QED BY <1>2, <1>4, <1>5, <1>6, <1>7

(* A step of the chain, which may decide the fate of one transaction.      *)
Decides(c, fate) == sent[c].fate = "pending" /\ fate # "pending" /\ SetFate(c, fate)

LEMMA ChainKeeps ==
  ASSUME PanelInv, ChainInv', ReceiptsStay, UNCHANGED <<page, clicks, op>>,
         outside' \in Nat, clicks + outside' <= MaxMoves,
         UNCHANGED sent \/ (\E c \in Clicks : \E fate : Decides(c, fate))
  PROVE  PanelInv'
<1>. USE DEF PanelInv
<1>1. OpInv' /\ PageInv'
  BY StaysKeep
<1>2. ClickInv'
  BY DEF ClickInv
<1>3. ASSUME NEW t, Sendable(t) /\ Promised(t) PROVE Sendable(t)' /\ Promised(t)'
  <2>1. Sendable(t)'
    BY <1>3 DEF Sendable
  <2>2. soul.claimCount \in Nat /\ soul'.claimCount \in Nat /\ \A id \in Ids : id \in Int
    BY DEF ChainInv, Souls, Ids
  <2>3. Promised(t)'
    BY <1>3, <2>2 DEF Promised, ReceiptsStay
  <2>. QED BY <2>1, <2>3
<1>4. SentInv'
  <2>1. CASE UNCHANGED sent
    BY <1>3, <2>1 DEF SentInv
  <2>2. ASSUME NEW c \in Clicks, NEW fate, Decides(c, fate)
        PROVE  SentInv'
    <3>1. PICK t : t = [NoTx EXCEPT !.fate = fate]
      OBVIOUS
    <3>2. sent' = [sent EXCEPT ![c] = t] /\ t.fate # "pending"
      BY <2>2, <3>1 DEF Decides, SetFate, NoTx
    <3>. QED BY <1>3, <3>2 DEF SentInv
  <2>. QED BY <2>1, <2>2
<1>5. SuccessMeansLanded'
  <2>. SUFFICES ASSUME NEW k \in Kinds \ {"claim"}, op[k].phase = "done"
                PROVE  sent'[op[k].click].fate = "landed"
    BY DEF SuccessMeansLanded, Fate
  <2>1. sent[op[k].click].fate = "landed"
    BY DEF SuccessMeansLanded, Fate
  <2>2. ASSUME NEW c \in Clicks, NEW fate, Decides(c, fate)
        PROVE  sent'[op[k].click].fate = "landed"
    <3>1. c # op[k].click
      BY <2>1, <2>2 DEF Decides
    <3>. QED BY <2>1, <2>2, <3>1 DEF Decides, SetFate, SentInv
  <2>. QED BY <2>1, <2>2
<1>. QED BY <1>1, <1>2, <1>4, <1>5

(* A transaction of the page lands, is refused or expires.                 *)
LEMMA SettleKeeps ==
  ASSUME PanelInv, NEW c \in Clicks, Settle(c)
  PROVE  PanelInv'
<1>. USE DEF PanelInv
<1>1. /\ UNCHANGED <<page, clicks, op, outside>>
      /\ \E fate : Decides(c, fate)
  BY DEF Settle, Land, Refuse, Expire, Decides, chain
<1>2. outside' \in Nat /\ clicks + outside' <= MaxMoves
  BY <1>1 DEF ClickInv
<1>3. CASE Land(c)
  <2>1. Sendable(sent[c]) /\ Accepted(sent[c]) /\ Executed(sent[c])
    BY <1>3 DEF Land, SentInv
  <2>2. ChainInv' /\ ReceiptsStay
    BY <2>1, ExecutedKeeps
  <2>. QED BY <1>1, <1>2, <2>2, ChainKeeps
<1>4. CASE Refuse(c) \/ Expire(c)
  <2>1. UNCHANGED chain
    BY <1>4 DEF Refuse, Expire
  <2>2. ChainInv'
    BY <2>1, SameChain
  <2>3. ReceiptsStay
    BY <2>1 DEF ReceiptsStay, chain, ChainInv, Souls
  <2>. QED BY <1>1, <1>2, <2>2, <2>3, ChainKeeps
<1>. QED BY <1>3, <1>4 DEF Settle

(* The transactions from outside the page are somebody's own.              *)
LEMMA ElsewhereSendable ==
  ASSUME ChainInv, NEW kind \in Kinds \cup {"swap"}, NEW source \in Accounts,
         NEW amount \in Nat, NEW to, kind = "transfer" => to \in Wallets
  PROVE  Sendable(Elsewhere(kind, source, amount, to))
<1>. DEFINE w == source[1]
            moves == kind \in {"sell", "transfer"} /\ amount <= tok[source]
            post == PostUnits(tok[source], amount)
            required == Required(Active(w), post)
            selected == SelectedReceipts(w, post, required, Candidates(w))
            sequence == IF kind = "buy" THEN soul.generation ELSE soul.generation - 1
            list == IF moves THEN selected ELSE <<>>
<1>1. w \in Wallets /\ source \in AccountsOf(w)
  BY DEF Accounts, AccountsOf, Ata
<1>2. tok[source] \in Nat
  BY DEF ChainInv
<1>3. Len(list) \in Nat /\ list = [i \in 1 .. Len(list) |-> list[i]]
  <2>1. CASE moves
    <3>1. tok[source] - amount \in Nat
      BY <1>2, <2>1
    <3>2. post \in Nat
      BY <3>1, UnitsOf DEF PostUnits
    <3>3. Active(w) \in Nat
      BY IdsFinite DEF Active, Owned
    <3>. HIDE DEF post
    <3>4. required \in Nat
      BY <3>2, <3>3 DEF Required
    <3>. HIDE DEF required, moves
    <3>5. list = [i \in 1 .. required |-> list[i]]
      BY <2>1 DEF SelectedReceipts
    <3>. HIDE DEF list
    <3>6. Len(list) = required
      BY <3>4, <3>5, ListLength
    <3>. QED BY <3>4, <3>5, <3>6
  <2>2. CASE ~moves
    <3>. HIDE DEF moves
    <3>1. list = <<>>
      BY <2>2
    <3>. HIDE DEF list
    <3>. QED BY <3>1
  <2>. QED BY <2>1, <2>2
<1>4. PICK t : t = Elsewhere(kind, source, amount, to)
  OBVIOUS
<1>5. t = [NoTx EXCEPT !.kind = kind, !.wallet = w, !.source = source, !.amount = amount,
                       !.to = to, !.sequence = sequence, !.list = list]
  BY <1>4 DEF Elsewhere
<1>. HIDE DEF w, sequence, list
<1>6. /\ t.kind = kind /\ t.wallet = w /\ t.source = source /\ t.amount = amount
      /\ t.to = to /\ t.list = list
  BY <1>5 DEF NoTx
<1>7. Sendable(t)
  BY <1>1, <1>3, <1>6 DEF Sendable
<1>. QED BY <1>4, <1>7

LEMMA OutsideKeeps ==
  ASSUME PanelInv, NEW t, Sendable(t), Outside(t)
  PROVE  PanelInv'
<1>. USE DEF PanelInv
<1>1. ChainInv' /\ ReceiptsStay
  BY ExecutedKeeps DEF Outside
<1>2. outside' \in Nat /\ clicks + outside' <= MaxMoves
  BY PanelBounds DEF Outside, ClickInv
<1>. QED BY <1>1, <1>2, ChainKeeps DEF Outside

LEMMA ElsewhereKeeps ==
  ASSUME PanelInv,
         \/ \E kind \in {"buy", "swap"}, source \in Accounts, n \in BuyAmounts :
              Outside(Elsewhere(kind, source, n, Nobody))
         \/ \E kind \in {"sell", "transfer"}, source \in Accounts, n \in Amounts,
               to \in Recipients :
              Outside(Elsewhere(kind, source, n, to))
         \/ \E w \in Wallets : Outside(Elsewhere("claim", Ata(w), 0, Nobody))
  PROVE  PanelInv'
<1>1. PICK kind \in Kinds \cup {"swap"}, source \in Accounts, amount \in Nat,
            to \in Wallets \cup {Nobody} :
        /\ Outside(Elsewhere(kind, source, amount, to))
        /\ kind = "transfer" => to \in Wallets
  <2>1. ASSUME NEW kind \in {"buy", "swap"}, NEW source \in Accounts, NEW n \in BuyAmounts
        PROVE  kind \in Kinds \cup {"swap"} /\ n \in Nat /\ kind # "transfer"
    BY PanelBounds DEF Kinds
  <2>2. ASSUME NEW kind \in {"sell", "transfer"}, NEW n \in Amounts, NEW to \in Recipients
        PROVE  kind \in Kinds \cup {"swap"} /\ n \in Nat /\ to \in Wallets
    BY PanelBounds DEF Kinds
  <2>3. ASSUME NEW w \in Wallets
        PROVE  "claim" \in Kinds \cup {"swap"} /\ 0 \in Nat /\ Ata(w) \in Accounts
               /\ "claim" # "transfer"
    BY DEF Kinds, Accounts, Ata
  <2>. QED BY <2>1, <2>2, <2>3
<1>2. Sendable(Elsewhere(kind, source, amount, to))
  BY <1>1, ElsewhereSendable DEF PanelInv
<1>. QED BY <1>1, <1>2, OutsideKeeps

LEMMA PanelStep == PanelInv /\ [Next]_vars => PanelInv'
<1>. SUFFICES ASSUME PanelInv, [Next]_vars PROVE PanelInv'
  OBVIOUS
<1>1. CASE UNCHANGED vars
  <2>1. UNCHANGED <<chain, page, clicks, op, sent>>
    BY <1>1 DEF vars
  <2>2. ChainInv' /\ ReceiptsStay
    BY <2>1, SameChain DEF PanelInv, ReceiptsStay, chain, ChainInv, Souls
  <2>3. outside' \in Nat /\ clicks + outside' <= MaxMoves
    BY <2>1 DEF PanelInv, ClickInv, chain
  <2>. QED BY <2>1, <2>2, <2>3, ChainKeeps
<1>. QED
  BY <1>1, PageKeeps, OperationsKeep, SettleKeeps, ElsewhereKeeps DEF Next

(* A page just loaded.                                                     *)
LEMMA PanelInit == Init => PanelInv
<1>. SUFFICES ASSUME Init PROVE PanelInv
  OBVIOUS
<1>1. PICK n \in Bought :
        /\ soul = [generation |-> n, claimCount |-> n - 1, side |-> "buy",
                   trader |-> Holder, whole |-> TRUE]
        /\ receipts = [id \in Ids |->
             IF id < n - 1 THEN [claimant |-> Holder, boundary |-> id + 1, active |-> TRUE]
                           ELSE NoReceipt]
        /\ opened = IF n = 1 THEN {} ELSE {Holder}
        /\ tok = [a \in Accounts |-> IF a = Ata(Holder) THEN n * Quantum ELSE 0]
        /\ outside = 0 /\ wallet = Holder
        /\ balances = [status |-> "loaded", held |-> Restrict(tok, AccountsOf(Holder))]
        /\ receiptState = [status |-> "loaded", active |-> n - 1,
                            found |-> Candidates(Holder)]
        /\ reads = {} /\ clicks = 0 /\ op = [kind \in Kinds |-> NoOp]
        /\ sent = [c \in Clicks |-> NoTx]
  BY DEF Init
<1>2. n \in 1 .. MaxGeneration /\ Holder \in Wallets /\ MaxMoves \in Nat
      /\ MaxGeneration \in Nat
  BY PanelBounds
<1>3. ChainInv
  <2>1. soul \in Souls /\ soul.claimCount <= soul.generation
    BY <1>1, <1>2 DEF Souls
  <2>2. receipts \in [Ids -> [claimant : Wallets \cup {Nobody}, boundary : Nat, active : BOOLEAN]]
    BY <1>1, <1>2 DEF NoReceipt, Ids
  <2>3. opened \subseteq Wallets
    BY <1>1, <1>2
  <2>4. tok \in [Accounts -> Nat]
    BY <1>1, <1>2, QuantumAssumption
  <2>5. \A id \in Ids : receipts[id].active =>
          id < soul.claimCount /\ receipts[id].claimant \in opened
    BY <1>1, <1>2 DEF NoReceipt, Ids
  <2>6. ASSUME NEW w \in Wallets PROVE Active(w) <= Units(Ata(w))
    <3>1. Ata(w) \in Accounts
      BY DEF Ata, Accounts
    <3>2. CASE w = Holder
      <4>1. Owned(w) = 0 .. n - 2
        BY <1>1, <1>2, <3>2 DEF Owned, NoReceipt, Ids
      <4>2. Active(w) = n - 1
        BY <1>2, <4>1, FS_Interval DEF Active
      <4>3. tok[Ata(w)] = n * Quantum
        BY <1>1, <3>1, <3>2
      <4>4. (n * Quantum) \div Quantum = n
        BY <1>2, QuantumAssumption
      <4>. QED BY <1>2, <4>2, <4>3, <4>4 DEF Units, WholeUnits
    <3>3. CASE w # Holder
      <4>1. Owned(w) = {}
        BY <1>1, <3>3 DEF Owned, NoReceipt
      <4>2. Active(w) = 0
        BY <4>1, FS_EmptySet DEF Active
      <4>3. Units(Ata(w)) \in Nat
        BY <2>4, <3>1, UnitsOf DEF Units
      <4>. QED BY <4>2, <4>3
    <3>. QED BY <3>2, <3>3
  <2>. QED BY <2>1, <2>2, <2>3, <2>4, <2>5, <2>6 DEF ChainInv
<1>4. PageInv
  <2>1. /\ balances.held = Restrict(tok, AccountsOf(Holder))
        /\ receiptState.active = n - 1 /\ receiptState.found = Candidates(Holder)
    BY <1>1
  <2>2. \A a \in AccountsOf(Holder) : tok[a] \in Nat
    BY <1>2, <1>3 DEF ChainInv, AccountsOf, Accounts, Ata
  <2>3. \A a \in DOMAIN balances.held : balances.held[a] \in Nat
    BY <2>1, <2>2 DEF Restrict
  <2>4. Kept(receiptState.found)
    BY <1>3, <2>1, CandidatesKept
  <2>5. receiptState.active \in Nat /\ reads = {} /\ wallet \in Wallets
    BY <1>1, <1>2, <2>1
  <2>. QED BY <2>3, <2>4, <2>5 DEF PageInv
<1>5. NoOp.phase = "idle" /\ NoOp.click = 0
  BY DEF NoOp
<1>6. OpInv
  <2>1. OpOK("buy", NoOp) /\ \A kind : OpOK(kind, NoOp)
    <3>1. NoOp = [phase |-> NoOp.phase, click |-> NoOp.click, wallet |-> NoOp.wallet,
                  amount |-> NoOp.amount, to |-> NoOp.to, seen |-> NoOp.seen,
                  registry |-> NoOp.registry, found |-> NoOp.found, source |-> NoOp.source,
                  held |-> NoOp.held, list |-> NoOp.list, sequence |-> NoOp.sequence]
      BY DEF NoOp
    <3>2. NoOp.registry = {} /\ NoOp.found = {} /\ NoOp.list = <<>>
      BY DEF NoOp
    <3>. QED BY <1>5, <3>1, <3>2 DEF OpOK, Ready, Ended
  <2>. QED BY <1>1, <2>1 DEF OpInv
<1>7. ClickInv
  BY <1>1, <1>2, <1>5 DEF ClickInv
<1>8. SentInv
  BY <1>1 DEF SentInv, NoTx
<1>9. SuccessMeansLanded
  BY <1>1, <1>5 DEF SuccessMeansLanded
<1>. QED BY <1>3, <1>4, <1>6, <1>7, <1>8, <1>9 DEF PanelInv

LEMMA PanelAlways == Spec => []PanelInv
BY PanelInit, PanelStep, PTL DEF Spec

-----------------------------------------------------------------------------
(* What the page shows and what it has signed *)

(* A buy, sale or transfer that the page reports as done is one whose      *)
(* transaction has landed, whatever happened after it was signed           *)
(* (TokenSoulPanel.tsx, the success states of the handlers).               *)
THEOREM ReportedIsLanded == Spec => []SuccessMeansLanded
<1>1. PanelInv => SuccessMeansLanded
  BY DEF PanelInv
<1>. QED BY <1>1, PanelAlways, PTL

(* The receipts in a settlement the wallet is asked to sign are the        *)
(* signer's own, even when the page had loaded another wallet's (the SDK's *)
(* selectSettlementReceipts).                                              *)
THEOREM SettlementIsOwn == Spec => []SettlesOwnReceipts
<1>1. ASSUME PanelInv PROVE SettlesOwnReceipts
  <2>. SUFFICES ASSUME NEW kind \in Kinds, NEW i \in DOMAIN op[kind].list
                PROVE  receipts[op[kind].list[i]].claimant = op[kind].wallet
    BY DEF SettlesOwnReceipts
  <2>1. OpOK(kind, op[kind])
    BY <1>1 DEF PanelInv, OpInv
  <2>2. kind \in Movements /\ op[kind].phase \in Ready
    BY <2>1 DEF OpOK
  <2>3. PICK o : o = op[kind]
    OBVIOUS
  <2>4. /\ Len(o.list) \in Nat /\ o.list = [j \in 1 .. Len(o.list) |-> o.list[j]]
        /\ \A j \in 1 .. Len(o.list) : receipts[o.list[j]].claimant = o.wallet
    BY <2>1, <2>2, <2>3, PlannedLists
  <2>5. DOMAIN o.list = 1 .. Len(o.list)
    BY <2>4
  <2>. QED BY <2>3, <2>4, <2>5
<1>. QED BY <1>1, PanelAlways, PTL

(* A settlement worked out from what the chain still says is accepted.     *)
LEMMA FreshAccepted ==
  ASSUME PanelInv, NEW kind \in Movements, op[kind].phase \in Ready, Fresh(kind),
         op[kind].source = Ata(op[kind].wallet),
         kind = "transfer" => op[kind].to # op[kind].wallet /\ op[kind].wallet \in opened
  PROVE  Accepted(TxOf(kind))
<1>1. PICK o : o = op[kind]
  OBVIOUS
<1>2. PICK w : w = o.wallet
  OBVIOUS
<1>3. /\ Planned(o) /\ o.held \in Nat /\ o.amount \in Nat /\ o.amount <= o.held
      /\ w \in Wallets /\ o.source = Ata(w) /\ Ata(w) \in Accounts
      /\ \A m, n \in o.registry : m = n
      /\ \A f, g \in o.found : f = g
  <2>1. OpOK(kind, op[kind])
    BY DEF PanelInv, OpInv, Movements, Kinds
  <2>. QED BY <1>1, <1>2, <2>1 DEF OpOK, Ready, Ended, Accounts, Ata
<1>4. PICK n \in o.registry, found \in o.found :
        found = Candidates(w) /\ ActiveCount(n, found) = Active(w)
  BY <1>1, <1>2 DEF Fresh
<1>5. o.held = tok[Ata(w)]
  BY <1>1, <1>2, <1>3 DEF Fresh
<1>6. PICK held \in Nat : held = tok[Ata(w)]
  BY <1>3, <1>5
<1>7. PICK amount \in Nat : amount = o.amount /\ amount <= held
  BY <1>3, <1>5, <1>6
<1>8. PICK active \in Nat : active = Active(w)
  BY IdsFinite DEF Active, Owned
<1>9. PICK plan : /\ plan = Settlement(w, Ata(w), held, amount, active, found)
                  /\ plan.possible /\ o.list = plan.list
  <2>1. PICK m \in o.registry, f \in o.found :
          LET plan == Settlement(o.wallet, o.source, o.held, o.amount, ActiveCount(m, f), f)
          IN plan.possible /\ o.list = plan.list
    BY <1>3 DEF Planned
  <2>2. m = n /\ f = found
    BY <1>3
  <2>3. ActiveCount(m, f) = active
    BY <1>4, <1>8, <2>2
  <2>. QED BY <1>2, <1>3, <1>5, <1>6, <1>7, <2>1, <2>2, <2>3
<1>10. PICK post : post = PostUnits(held, amount)
  OBVIOUS
<1>11. PICK list : list = o.list
  OBVIOUS
<1>12. /\ post \in Nat /\ Len(list) \in Nat /\ Len(list) = Required(active, post)
       /\ plan.post = post /\ list = [i \in 1 .. Len(list) |-> list[i]]
  BY <1>7, <1>9, <1>10, <1>11, PlanShape
<1>13. ASSUME NEW i \in 1 .. Len(list)
       PROVE  list[i] \in Owned(w) /\ receipts[list[i]].boundary = post + Len(list) + 1 - i
  <2>1. /\ plan.list[i] \in DOMAIN found
        /\ found[plan.list[i]].boundary = plan.post + Len(plan.list) + 1 - i
    BY <1>7, <1>9, <1>11, PlanSelects
  <2>2. /\ list[i] \in DOMAIN found
        /\ found[list[i]].boundary = post + Len(list) + 1 - i
    BY <1>9, <1>11, <1>12, <2>1
  <2>3. DOMAIN found = Owned(w) /\ \A id \in Owned(w) : found[id] = receipts[id]
    BY <1>4, CandidatesKept DEF PanelInv
  <2>. QED BY <2>2, <2>3
<1>14. PICK t : t = TxOf(kind)
  OBVIOUS
<1>15. /\ t.kind = kind /\ t.wallet = w /\ t.source = Ata(w) /\ t.to = o.to
       /\ t.amount = amount /\ t.list = list
  BY <1>1, <1>2, <1>3, <1>7, <1>11, <1>14 DEF TxOf, NoTx
<1>16. active <= Units(Ata(w))
  BY <1>3, <1>8 DEF PanelInv, ChainInv
<1>17. list # <<>> => SettlementAccepted(t)
  <2>. SUFFICES ASSUME list # <<>> PROVE SettlementAccepted(t)
    OBVIOUS
  <2>1. 1 \in 1 .. Len(list)
    BY <1>12
  <2>2. list[1] \in Owned(w)
    BY <1>13, <2>1
  <2>3. w \in opened
    BY <2>2 DEF Owned, PanelInv, ChainInv
  <2>4. DOMAIN list = 1 .. Len(list)
    BY <1>12
  <2>. QED BY <1>6, <1>8, <1>10, <1>12, <1>13, <1>15, <1>16, <2>3, <2>4
           DEF SettlementAccepted
<1>18. active - Len(list) <= post
  BY <1>12 DEF Required
<1>19. DebitAccepted(t)
  <2>1. kind = "transfer" => w \in opened
    BY <1>1, <1>2
  <2>2. Debits(tok[t.source], t.amount)
    BY <1>6, <1>7, <1>15 DEF Debits
  <2>3. ActiveAfter(t) <= PostUnits(tok[t.source], t.amount)
    BY <1>6, <1>8, <1>10, <1>15, <1>18 DEF ActiveAfter
  <2>. QED BY <1>15, <1>17, <2>1, <2>2, <2>3 DEF DebitAccepted
<1>20. kind = "transfer" => t.source # Ata(t.to)
  BY <1>1, <1>2, <1>15 DEF Ata
<1>. QED BY <1>14, <1>15, <1>19, <1>20 DEF Accepted, Movements

(* The page's arithmetic is the programs': a settlement worked out from    *)
(* data that still hold is accepted (settlementSubmit.ts and the SDK's     *)
(* selectSettlementReceipts against settle_receipts.rs and the hook).      *)
THEOREM FreshIsAccepted == Spec => []FreshPlanAccepted
<1>1. ASSUME PanelInv PROVE FreshPlanAccepted
  BY <1>1, FreshAccepted DEF FreshPlanAccepted, Movements, Ready
<1>. QED BY <1>1, PanelAlways, PTL

-----------------------------------------------------------------------------
(* A movement previewed *)

(* Only the landing of a transaction gives it that fate.                   *)
LEMMA OnlyLands ==
  ASSUME PanelInv, [Next]_vars, NEW c \in Clicks,
         sent[c].fate = "pending", sent'[c].fate = "landed"
  PROVE  Land(c)
<1>. USE DEF PanelInv
<1>1. CASE UNCHANGED sent
  BY <1>1
<1>2. ASSUME NEW kind \in Kinds, Sign(kind), ~UNCHANGED sent PROVE FALSE
  <2>1. PICK t : t = [TxOf(kind) EXCEPT !.fate = "pending"]
    OBVIOUS
  <2>2. sent' = [sent EXCEPT ![op[kind].click] = t] /\ t.fate = "pending"
    BY <1>2, <2>1 DEF Sign, TxOf, NoTx
  <2>. QED BY <2>2 DEF SentInv
<1>3. ASSUME NEW d \in Clicks, Settle(d) PROVE Land(c)
  <2>1. PICK fate : sent' = [sent EXCEPT ![d] = [NoTx EXCEPT !.fate = fate]]
                    /\ (fate = "landed" => Land(d))
    BY <1>3 DEF Settle, Land, Refuse, Expire, SetFate
  <2>2. PICK t : t = [NoTx EXCEPT !.fate = fate]
    OBVIOUS
  <2>3. t.fate = fate /\ sent' = [sent EXCEPT ![d] = t]
    BY <2>1, <2>2 DEF NoTx
  <2>. QED BY <2>1, <2>3 DEF SentInv
<1>4. CASE UNCHANGED vars
  BY <1>1, <1>4 DEF vars
<1>5. ASSUME NEW w, ChangeWallet(w) PROVE UNCHANGED sent
  BY <1>5 DEF ChangeWallet
<1>6. ASSUME NEW r, ReadSoul(r) \/ ReadBalance(r) \/ ReadReceipts(r) \/ FailRead(r)
      PROVE  UNCHANGED sent
  BY <1>6 DEF ReadSoul, ReadBalance, ReadReceipts, FailRead
<1>7. ASSUME NEW n, NEW to,
             HandleBuy(n) \/ HandleSell(n) \/ HandleDirectTransfer(n, to) \/ HandleClaim
      PROVE  UNCHANGED sent
  BY <1>7 DEF HandleBuy, HandleSell, HandleDirectTransfer, HandleClaim
<1>8. ASSUME NEW kind \in Kinds, Answer(kind) \/ FailCall(kind), ~Sign(kind)
      PROVE  UNCHANGED sent
  BY <1>8 DEF Answer, DiscoverSource, FetchSequence, FetchReceipts, ResolveSettlement,
              Preflight, Confirm, FailCall
<1>9. ASSUME NEW t, Outside(t) PROVE UNCHANGED sent
  BY <1>9 DEF Outside
<1>. QED BY <1>1, <1>2, <1>3, <1>4, <1>5, <1>6, <1>7, <1>8, <1>9 DEF Next

(* It lands at the units the preview said, with the preview's receipts     *)
(* ended: the programs check both against the list that was signed.        *)
LEMMA LandedAsPromised ==
  ASSUME ChainInv, ChainInv', NEW t, Sendable(t), Promised(t), Accepted(t), Executed(t),
         NEW s \in t.seen
  PROVE  /\ Owned(t.wallet)' = Owned(t.wallet) \ Range(s.list)
         /\ s.list # <<>> => Units(s.source)' = s.post
<1>1. /\ t.kind \in Movements /\ s.list = t.list /\ s.source = t.source /\ s.post \in Nat
      /\ \A i \in 1 .. Len(t.list) :
           receipts[t.list[i]].boundary = s.post + Len(t.list) + 1 - i
  BY DEF Promised
<1>2. /\ t.source \in Accounts /\ t.amount \in Nat
      /\ t.kind = "transfer" => Ata(t.to) \in Accounts
      /\ Len(t.list) \in Nat /\ t.list = [i \in 1 .. Len(t.list) |-> t.list[i]]
  BY <1>1 DEF Sendable, Movements, Accounts, AccountsOf, Ata
<1>3. DebitAccepted(t) /\ (t.kind = "transfer" => t.source # Ata(t.to))
  BY <1>1 DEF Accepted, Movements
<1>4. Owned(t.wallet)' = Owned(t.wallet) \ Range(t.list)
  <2>1. ~Claims(t)
    BY <1>1 DEF Claims, Movements
  <2>2. receipts' = [id \in Ids |->
                        [receipts[id] EXCEPT !.active = @ /\ id \notin Range(t.list)]]
    BY <2>1 DEF Executed
  <2>3. \A id \in Ids :
          /\ receipts'[id].claimant = receipts[id].claimant
          /\ receipts'[id].active = (receipts[id].active /\ id \notin Range(t.list))
    BY <2>2 DEF ChainInv
  <2>. QED BY <2>3 DEF Owned
<1>5. tok'[t.source] = tok[t.source] - t.amount
  <2>1. CASE t.kind = "sell"
    BY <1>2, <2>1 DEF Executed, Buys, ChainInv
  <2>2. CASE t.kind = "transfer"
    <3>1. tok' = [tok EXCEPT ![t.source] = @ - t.amount, ![Ata(t.to)] = @ + t.amount]
      BY <2>2 DEF Executed, Buys
    <3>. QED BY <1>2, <1>3, <2>2, <3>1 DEF ChainInv
  <2>. QED BY <1>1, <2>1, <2>2 DEF Movements
<1>6. ASSUME t.list # <<>> PROVE Units(t.source)' = s.post
  <2>1. PICK post : post = PostUnits(tok[t.source], t.amount)
    OBVIOUS
  <2>2. post \in Nat
    <3>1. tok[t.source] \in Nat /\ t.amount <= tok[t.source]
      BY <1>2, <1>3 DEF ChainInv, DebitAccepted, Debits
    <3>2. tok[t.source] - t.amount \in Nat
      BY <1>2, <3>1
    <3>. QED BY <2>1, <3>2, UnitsOf DEF PostUnits
  <2>3. 1 \in 1 .. Len(t.list) /\ DOMAIN t.list = 1 .. Len(t.list)
    BY <1>2, <1>6
  <2>4. SettlementAccepted(t)
    BY <1>3, <1>6 DEF DebitAccepted
  <2>5. receipts[t.list[1]].boundary = post + Len(t.list) + 1 - 1
    BY <2>1, <2>3, <2>4 DEF SettlementAccepted
  <2>6. receipts[t.list[1]].boundary = s.post + Len(t.list) + 1 - 1
    BY <1>1, <2>3
  <2>7. post = s.post
    BY <1>1, <1>2, <2>2, <2>5, <2>6
  <2>. QED BY <1>5, <2>1, <2>7 DEF Units, PostUnits
<1>. QED BY <1>1, <1>4, <1>6

(* A sale or transfer the user saw previewed ends, when it lands, exactly  *)
(* the receipts previewed and leaves the units previewed, whatever the     *)
(* chain has done since (TokenSoulPanel.tsx, the preview of a movement).   *)
THEOREM LandsAsItWasPreviewed == Spec => LandsAsPreviewed
<1>. DEFINE As == \A c \in Clicks, w \in Wallets :
       /\ sent[c].fate = "pending" /\ sent'[c].fate = "landed"
       /\ sent[c].wallet = w
       => \A s \in sent[c].seen :
            /\ Owned(w)' = Owned(w) \ Range(s.list)
            /\ s.list # <<>> => Units(s.source)' = s.post
<1>1. ASSUME PanelInv, PanelInv', [Next]_vars PROVE [As]_vars
  <2>. SUFFICES ASSUME NEW c \in Clicks, NEW w \in Wallets, sent[c].fate = "pending",
                       sent'[c].fate = "landed", sent[c].wallet = w,
                       NEW s \in sent[c].seen
                PROVE  /\ Owned(w)' = Owned(w) \ Range(s.list)
                       /\ s.list # <<>> => Units(s.source)' = s.post
    OBVIOUS
  <2>1. Land(c)
    BY <1>1, OnlyLands
  <2>2. PICK t : t = sent[c]
    OBVIOUS
  <2>3. Sendable(t) /\ Promised(t) /\ Accepted(t) /\ Executed(t)
    BY <1>1, <2>1, <2>2 DEF Land, PanelInv, SentInv
  <2>4. ChainInv /\ ChainInv' /\ s \in t.seen /\ t.wallet = w
    BY <1>1, <2>2 DEF PanelInv
  <2>5. /\ Owned(t.wallet)' = Owned(t.wallet) \ Range(s.list)
        /\ s.list # <<>> => Units(s.source)' = s.post
    BY <2>3, <2>4, LandedAsPromised
  <2>. QED BY <2>4, <2>5
<1>. QED BY <1>1, PanelAlways, PTL DEF Spec, LandsAsPreviewed

=============================================================================
