------------------------ MODULE SoulGenerator_proofs ------------------------
(***************************************************************************)
(* Proofs about SoulGenerator for every number of wallets, claims,         *)
(* generations and every quantum.                                          *)
(***************************************************************************)
EXTENDS SoulGenerator, SequenceTheorems, FiniteSetTheorems, TLAPS

-----------------------------------------------------------------------------
(* Arithmetic and lists *)

(* A balance holds a natural number of whole units (whole_units).          *)
LEMMA WholeUnitsNat == \A balance \in Nat : WholeUnits(balance) \in Nat
  BY QuantumAssumption DEF WholeUnits

(* What a settlement list is: a sequence whose domain is 1 .. Len.         *)
LEMMA ListType ==
  ASSUME NEW list \in ReceiptLists
  PROVE  /\ Len(list) \in Nat
         /\ DOMAIN list = 1 .. Len(list)
         /\ list \in [1 .. Len(list) -> ClaimSequences]
<1>1. PICK n \in 0 .. MaxClaims : list \in [1 .. n -> ClaimSequences]
  BY DEF ReceiptLists
<1>2. n \in Nat
  OBVIOUS
<1>3. list \in Seq(ClaimSequences)
  BY <1>1, <1>2, SeqDef
<1>4. Len(list) \in Nat /\ DOMAIN list = 1 .. Len(list)
  BY <1>3, LenProperties
<1>5. 1 .. Len(list) = 1 .. n
  BY <1>1, <1>4
<1> QED
  BY <1>1, <1>4, <1>5

(* The number of receipts a settlement must list never exceeds the active  *)
(* count and leaves min(active, post) of them.                             *)
LEMMA RequiredCountBounds ==
  ASSUME NEW w, NEW post \in Nat, registry[w].active \in Nat
  PROVE  /\ RequiredCount(w, post) \in 0 .. registry[w].active
         /\ RequiredCount(w, post) > 0 =>
              registry[w].active - RequiredCount(w, post) = post
  BY DEF RequiredCount

-----------------------------------------------------------------------------
(* Types *)

(* TypeOK: the accounts keep their shape through every instruction.        *)
LEMMA TypeInit == Init => TypeOK
  BY ClaimBounds DEF Init, TypeOK, SoulInit, NoProvenance, NoReceipt,
     NoRegistry, NoPicture, Provenances, ReceiptStates

(* A trade keeps the shape of the Soul account and the events. *)
LEMMA TypeGenerate ==
  ASSUME TypeOK, NEW side \in {"buy", "sell"}, NEW w \in Wallets,
         NEW a \in Accounts, NEW t \in TokenAmounts, GenerateSoul(side, w, a, t)
  PROVE  TypeOK'
<1>1. TradeProvenance(side, w, a, t) \in Provenances
  BY ClaimBounds DEF TypeOK, GenerateSoul, Provenances, TradeProvenance
<1>2. soul.generation + 1 \in 0 .. MaxGeneration
  BY ClaimBounds DEF TypeOK, GenerateSoul
<1>3. soul.generation + 1 \in NoPicture .. MaxGeneration
  BY <1>2, ClaimBounds DEF NoPicture
<1>4. events' \subseteq Provenances
  BY <1>1 DEF TypeOK, GenerateSoul
<1> QED
  BY <1>1, <1>2, <1>3, <1>4 DEF TypeOK, GenerateSoul

(* A claim keeps the shape of receipts and registries. *)
LEMMA TypeClaim ==
  ASSUME TypeOK, NEW w \in Wallets, NEW b \in Balances, ClaimSoul(w, b)
  PROVE  TypeOK'
<1>1. ClaimSequence \in ClaimSequences
  BY ClaimBounds DEF ClaimSoul, Claimable, ClaimSequence, ClaimSequences, TypeOK
<1> QED
  BY <1>1 DEF TypeOK, ClaimSoul, ReceiptStates

(* A settlement does: it subtracts no more than the active count. *)
LEMMA TypeSettle ==
  ASSUME TypeOK, NEW w \in Wallets, NEW pre \in Balances,
         NEW amount \in Balances, NEW newState \in TerminalStates,
         NEW list \in ReceiptLists,
         SettleReceipts(w, pre, amount, newState, list)
  PROVE  TypeOK'
<1>1. PostUnits(pre, amount) \in Nat
  BY WholeUnitsNat, AmountBounds DEF PostUnits, SettleReceipts, Debits
<1>2. Len(list) \in 0 .. registry[w].active
  BY <1>1, RequiredCountBounds DEF SettleReceipts, TypeOK
<1>3. receipts' \in [ClaimSequences -> [claimant : Wallets \cup {Nobody},
                                      boundary : Nat, state : ReceiptStates]]
  <2>. DEFINE shape == [claimant : Wallets \cup {Nobody}, boundary : Nat, state : ReceiptStates]
              changed(s) == IF s \in Listed(list) THEN [receipts[s] EXCEPT !.state = newState]
                            ELSE receipts[s]
  <2>1. newState \in ReceiptStates /\ receipts \in [ClaimSequences -> shape]
    BY DEF TypeOK, TerminalStates, ReceiptStates
  <2>2. ASSUME NEW s \in ClaimSequences PROVE changed(s) \in shape
    <3>1. receipts[s] \in shape
      BY <2>1
    <3>2. [receipts[s] EXCEPT !.state = newState] \in shape
      BY <2>1, <3>1, Zenon
    <3>. QED BY <3>1, <3>2
  <2>3. receipts' = [s \in ClaimSequences |-> changed(s)]
    BY DEF SettleReceipts
  <2>. HIDE DEF shape, changed
  <2>4. receipts' \in [ClaimSequences -> shape]
    BY <2>2, <2>3
  <2>. QED BY <2>4 DEF shape
<1>4. registry' \in [Wallets -> [open : BOOLEAN, active : Nat, burned : Nat,
                               forfeited : Nat]]
  <2>1. /\ registry[w].active - Len(list) \in Nat
        /\ registry[w].burned + Len(list) \in Nat
        /\ registry[w].forfeited + Len(list) \in Nat
    BY <1>2 DEF TypeOK
  <2>2. CASE newState = "burned"
    BY <2>1, <2>2, ZenonT(40) DEF SettleReceipts, TypeOK
  <2>3. CASE newState # "burned"
    BY <2>1, <2>3, ZenonT(40) DEF SettleReceipts, TypeOK
  <2> QED
    BY <2>2, <2>3
<1> QED
  BY <1>3, <1>4 DEF SettleReceipts, TypeOK

(* Every instruction keeps the accounts' shape. *)
LEMMA TypeStep == TypeOK /\ [Next]_sgVars => TypeOK'
<1> SUFFICES ASSUME TypeOK, [Next]_sgVars PROVE TypeOK'
  OBVIOUS
<1>1. ASSUME NEW w \in Wallets, InitializeSoul(w) PROVE TypeOK'
  BY <1>1 DEF InitializeSoul, TypeOK
<1>2. ASSUME NEW w \in Wallets, NEW r \in {"builtin", "community"},
             UploadTemplate(w, r)
      PROVE TypeOK'
  BY <1>2 DEF UploadTemplate, TypeOK
<1>3. ASSUME NEW side \in {"buy", "sell"}, NEW w \in Wallets, NEW a \in Accounts,
             NEW t \in TokenAmounts, GenerateSoul(side, w, a, t)
      PROVE TypeOK'
  BY <1>3, TypeGenerate
<1>4. CASE PreviewSoul
  <2>1. NoProvenance \in Provenances
    BY ClaimBounds DEF NoProvenance, Provenances
  <2>2. PreviewPicture \in NoPicture .. MaxGeneration
    BY ClaimBounds DEF PreviewPicture, NoPicture
  <2> QED
    BY <1>4, <2>1, <2>2 DEF PreviewSoul, TypeOK
<1>5. ASSUME NEW w \in Wallets, NEW b \in Balances, ClaimSoul(w, b)
      PROVE TypeOK'
  BY <1>5, TypeClaim
<1>6. ASSUME NEW w \in Wallets, NEW pre \in Balances, NEW amount \in Balances,
             NEW newState \in TerminalStates, NEW list \in ReceiptLists,
             SettleReceipts(w, pre, amount, newState, list)
      PROVE TypeOK'
  BY <1>6, TypeSettle
<1>7. CASE Pause
  BY <1>7 DEF Pause, TypeOK
<1>8. CASE Unpause
  BY <1>8 DEF Unpause, TypeOK
<1>9. CASE UNCHANGED sgVars
  BY <1>9 DEF sgVars, TypeOK
<1> QED
  BY <1>1, <1>2, <1>3, <1>4, <1>5, <1>6, <1>7, <1>8, <1>9 DEF Next

(* Type correctness of the specification. *)
THEOREM TypeCorrect == Spec => []TypeOK
  BY TypeInit, TypeStep, PTL DEF Spec

-----------------------------------------------------------------------------
(* The receipt ladder *)

(* A claim puts one receipt on top of the claimant's ladder.               *)
LEMMA LadderClaim ==
  ASSUME TypeOK, ReceiptLadder, NEW w \in Wallets, NEW b \in Balances,
         ClaimSoul(w, b)
  PROVE  ReceiptLadder'
<1> DEFINE s == ClaimSequence
<1>1. s \in ClaimSequences /\ receipts[s].state = "none"
  BY ClaimBounds DEF ClaimSoul, Claimable, ClaimSequence, ClaimSequences, TypeOK
<1>2. /\ receipts' = [receipts EXCEPT ![s] =
                        [claimant |-> w, boundary |-> registry[w].active + 1,
                         state |-> "active"]]
      /\ registry'[w].active = registry[w].active + 1
      /\ \A v \in Wallets \ {w} : registry'[v] = registry[v]
  BY DEF ClaimSoul, TypeOK
<1>3. registry[w].active \in Nat
  BY DEF TypeOK
<1> HIDE DEF s
<1>4. ActiveOf(w)' = ActiveOf(w) \cup {s}
  BY <1>1, <1>2 DEF ActiveOf, TypeOK
<1>5. \A t \in ActiveOf(w) : receipts'[t] = receipts[t] /\ t # s
  BY <1>1, <1>2 DEF ActiveOf, TypeOK
<1>6. receipts'[s].boundary = registry[w].active + 1
  BY <1>1, <1>2 DEF TypeOK
<1>7. LadderOf(w)
  BY DEF ReceiptLadder
<1>8. LadderOf(w)'
  <2>1. \A t \in ActiveOf(w)' : receipts'[t].boundary \in 1 .. registry'[w].active
    BY <1>2, <1>3, <1>4, <1>5, <1>6, <1>7 DEF LadderOf
  <2>2. \A t, u \in ActiveOf(w)' :
          receipts'[t].boundary = receipts'[u].boundary => t = u
    BY <1>3, <1>4, <1>5, <1>6, <1>7 DEF LadderOf
  <2>3. \A i \in 1 .. registry'[w].active :
          \E t \in ActiveOf(w)' : receipts'[t].boundary = i
    <3>1. TAKE i \in 1 .. registry'[w].active
    <3>2. CASE i = registry[w].active + 1
      BY <3>2, <1>4, <1>6
    <3>3. CASE i \in 1 .. registry[w].active
      BY <3>3, <1>4, <1>5, <1>7 DEF LadderOf
    <3> QED
      BY <1>2, <1>3, <3>2, <3>3
  <2> QED
    BY <2>1, <2>2, <2>3 DEF LadderOf
<1>9. ASSUME NEW v \in Wallets \ {w} PROVE LadderOf(v)'
  <2>1. ActiveOf(v)' = ActiveOf(v)
    BY <1>1, <1>2 DEF ActiveOf, TypeOK
  <2>2. \A t \in ActiveOf(v) : receipts'[t] = receipts[t]
    BY <1>1, <1>2 DEF ActiveOf, TypeOK
  <2>3. LadderOf(v) /\ registry'[v] = registry[v]
    BY <1>2 DEF ReceiptLadder
  <2> QED
    BY <2>1, <2>2, <2>3 DEF LadderOf
<1> QED
  BY <1>8, <1>9 DEF ReceiptLadder

(* A settlement takes exactly the boundaries above the balance that will   *)
(* be left off the top of the ladder.                                      *)
LEMMA LadderSettle ==
  ASSUME TypeOK, ReceiptLadder, NEW w \in Wallets, NEW pre \in Balances,
         NEW amount \in Balances, NEW newState \in TerminalStates,
         NEW list \in ReceiptLists,
         SettleReceipts(w, pre, amount, newState, list)
  PROVE  ReceiptLadder'
<1> DEFINE post == PostUnits(pre, amount)
           n == Len(list)
           L == Listed(list)
<1>1. post \in Nat
  BY WholeUnitsNat, AmountBounds DEF PostUnits, SettleReceipts, Debits
<1>2. /\ n \in 0 .. registry[w].active
      /\ n > 0 => registry[w].active - n = post
  BY <1>1, RequiredCountBounds DEF SettleReceipts, TypeOK
<1>3. /\ DOMAIN list = 1 .. n
      /\ \A i \in 1 .. n : list[i] \in ClaimSequences
  BY ListType
<1>4. /\ \A i \in 1 .. n : /\ receipts[list[i]].state = "active"
                          /\ receipts[list[i]].claimant = w
                          /\ receipts[list[i]].boundary = post + n - (i - 1)
  BY <1>3 DEF SettleReceipts, ListMatches
<1>5. /\ receipts' = [s \in ClaimSequences |->
                        IF s \in L THEN [receipts[s] EXCEPT !.state = newState]
                                   ELSE receipts[s]]
      /\ registry'[w].active = registry[w].active - n
      /\ \A v \in Wallets \ {w} : registry'[v] = registry[v]
  BY DEF SettleReceipts, TypeOK
<1>6. L = {list[i] : i \in 1 .. n}
  BY <1>3 DEF Listed
<1> HIDE DEF post, n, L
<1>7. L \subseteq ActiveOf(w)
  BY <1>3, <1>4, <1>6 DEF ActiveOf
<1>8. \A s \in L : receipts[s].boundary > registry[w].active - n
  BY <1>1, <1>2, <1>4, <1>6
<1>9. \A s \in ActiveOf(w) \ L :
        receipts[s].boundary \in 1 .. registry[w].active - n
  <2>1. TAKE s \in ActiveOf(w) \ L
  <2>2. receipts[s].boundary \in 1 .. registry[w].active
    BY DEF ReceiptLadder, LadderOf
  <2>3. registry[w].active \in Nat
    BY DEF TypeOK
  <2>4. SUFFICES ASSUME receipts[s].boundary > registry[w].active - n
                 PROVE  FALSE
    BY <1>2, <2>2, <2>3
  <2>5. n > 0 /\ post + n = registry[w].active
    BY <1>1, <1>2, <2>2, <2>3, <2>4
  <2>6. PICK i \in 1 .. n : receipts[s].boundary = post + n - (i - 1)
    <3>1. post + n - receipts[s].boundary + 1 \in 1 .. n
      BY <1>1, <1>2, <2>2, <2>3, <2>4, <2>5
    <3> QED
      BY <3>1, <1>1, <1>2, <2>2, <2>3
  <2>7. list[i] \in L /\ list[i] \in ActiveOf(w)
    BY <1>6, <1>7, <2>6
  <2>8. s = list[i]
    BY <1>4, <2>1, <2>6, <2>7 DEF ReceiptLadder, LadderOf
  <2> QED
    BY <2>1, <2>7, <2>8
<1>10. ActiveOf(w)' = ActiveOf(w) \ L
  BY <1>5 DEF ActiveOf, TypeOK, TerminalStates
<1>11. \A s \in ActiveOf(w) \ L : receipts'[s] = receipts[s]
  BY <1>5 DEF ActiveOf
<1>12. LadderOf(w)'
  <2>1. \A s \in ActiveOf(w)' : receipts'[s].boundary \in 1 .. registry'[w].active
    BY <1>5, <1>9, <1>10, <1>11
  <2>2. \A s, t \in ActiveOf(w)' :
          receipts'[s].boundary = receipts'[t].boundary => s = t
    BY <1>10, <1>11 DEF ReceiptLadder, LadderOf
  <2>3. \A b \in 1 .. registry'[w].active :
          \E s \in ActiveOf(w)' : receipts'[s].boundary = b
    <3>1. TAKE b \in 1 .. registry'[w].active
    <3>2. b \in 1 .. registry[w].active /\ ~(b > registry[w].active - n)
      BY <1>2, <1>5 DEF TypeOK
    <3>3. PICK s \in ActiveOf(w) : receipts[s].boundary = b
      BY <3>2 DEF ReceiptLadder, LadderOf
    <3> QED
      BY <1>8, <1>10, <1>11, <3>2, <3>3
  <2> QED
    BY <2>1, <2>2, <2>3 DEF LadderOf
<1>13. ASSUME NEW v \in Wallets \ {w} PROVE LadderOf(v)'
  <2>1. \A s \in L : receipts[s].claimant = w
    BY <1>7 DEF ActiveOf
  <2>2. ActiveOf(v)' = ActiveOf(v)
    BY <1>5, <2>1 DEF ActiveOf, TypeOK
  <2>3. \A t \in ActiveOf(v) : receipts'[t] = receipts[t]
    BY <1>5, <2>1 DEF ActiveOf
  <2>4. LadderOf(v) /\ registry'[v] = registry[v]
    BY <1>5 DEF ReceiptLadder
  <2> QED
    BY <2>2, <2>3, <2>4 DEF LadderOf
<1> QED
  BY <1>12, <1>13 DEF ReceiptLadder

(* No other instruction touches receipts or registries.                    *)
LEMMA LadderFrame ==
  ASSUME ReceiptLadder, UNCHANGED <<receipts, registry>>
  PROVE  ReceiptLadder'
  BY DEF ReceiptLadder, LadderOf, ActiveOf

(* Without receipts every ladder is empty. *)
LEMMA LadderInit == Init => ReceiptLadder
<1> SUFFICES ASSUME Init, NEW w \in Wallets PROVE LadderOf(w)
  BY DEF ReceiptLadder
<1>1. ActiveOf(w) = {}
  BY DEF Init, ActiveOf, NoReceipt
<1>2. registry[w].active = 0
  BY DEF Init, NoRegistry
<1> QED
  BY <1>1, <1>2 DEF LadderOf

(* Every instruction keeps every wallet's ladder. *)
LEMMA LadderStep == TypeOK /\ ReceiptLadder /\ [Next]_sgVars => ReceiptLadder'
<1> SUFFICES ASSUME TypeOK, ReceiptLadder, [Next]_sgVars PROVE ReceiptLadder'
  OBVIOUS
<1>1. ASSUME NEW w \in Wallets, InitializeSoul(w) PROVE ReceiptLadder'
  BY <1>1, LadderFrame DEF InitializeSoul
<1>2. ASSUME NEW w \in Wallets, NEW r \in {"builtin", "community"},
             UploadTemplate(w, r)
      PROVE ReceiptLadder'
  BY <1>2, LadderFrame DEF UploadTemplate
<1>3. ASSUME NEW side \in {"buy", "sell"}, NEW w \in Wallets, NEW a \in Accounts,
             NEW t \in TokenAmounts, GenerateSoul(side, w, a, t)
      PROVE ReceiptLadder'
  BY <1>3, LadderFrame DEF GenerateSoul
<1>4. CASE PreviewSoul
  BY <1>4, LadderFrame DEF PreviewSoul
<1>5. ASSUME NEW w \in Wallets, NEW b \in Balances, ClaimSoul(w, b)
      PROVE ReceiptLadder'
  BY <1>5, LadderClaim
<1>6. ASSUME NEW w \in Wallets, NEW pre \in Balances, NEW amount \in Balances,
             NEW newState \in TerminalStates, NEW list \in ReceiptLists,
             SettleReceipts(w, pre, amount, newState, list)
      PROVE ReceiptLadder'
  BY <1>6, LadderSettle
<1>7. CASE Pause
  BY <1>7, LadderFrame DEF Pause
<1>8. CASE Unpause
  BY <1>8, LadderFrame DEF Unpause
<1>9. CASE UNCHANGED sgVars
  BY <1>9, LadderFrame DEF sgVars
<1> QED
  BY <1>1, <1>2, <1>3, <1>4, <1>5, <1>6, <1>7, <1>8, <1>9 DEF Next

(* Every wallet's active receipts are a ladder: boundaries 1 .. active, one *)
(* receipt on each.  ReceiptLadder is inductive together with TypeOK.      *)
THEOREM LadderHolds == Spec => []ReceiptLadder
<1>1. Init => TypeOK /\ ReceiptLadder
  BY TypeInit, LadderInit
<1>2. (TypeOK /\ ReceiptLadder) /\ [Next]_sgVars => (TypeOK /\ ReceiptLadder)'
  BY TypeStep, LadderStep
<1> QED
  BY <1>1, <1>2, PTL DEF Spec

-----------------------------------------------------------------------------
(* Provenance *)

(* What ClaimedFromBuy and PictureOfLastTrade need to be inductive: the    *)
(* Soul account holds the last announced trade, generations are announced  *)
(* before they are claimed, and no claim outruns the counter.              *)
LastTradeRecorded ==
  soul.generation > 0 => /\ soul.provenance \in events
                         /\ soul.provenance.generation = soul.generation
                         /\ soul.picture = soul.generation

ProvenanceInv == LastTradeRecorded /\ ClaimedFromBuy

(* Before the first trade nothing is claimed or painted. *)
LEMMA ProvenanceInit == Init => ProvenanceInv
  BY DEF Init, ProvenanceInv, LastTradeRecorded, ClaimedFromBuy, SoulInit, NoReceipt

(* An instruction that only adds events and leaves receipts alone keeps    *)
(* every claim justified.                                                  *)
LEMMA ClaimsStayJustified ==
  ASSUME ClaimedFromBuy, events \subseteq events', receipts' = receipts
  PROVE  ClaimedFromBuy'
<1> SUFFICES ASSUME NEW s \in ClaimSequences, receipts[s].state # "none"
             PROVE  \E e \in events' :
                      /\ e.generation = s + 1 /\ e.side = "buy"
                      /\ e.trader = receipts[s].claimant
                      /\ e.account = Ata(receipts[s].claimant)
                      /\ e.tokens >= Quantum
  BY DEF ClaimedFromBuy
<1> QED
  BY DEF ClaimedFromBuy

(* A claim is justified by the provenance of the last trade. *)
LEMMA ProvenanceClaim ==
  ASSUME TypeOK, ProvenanceInv, NEW w \in Wallets, NEW b \in Balances,
         ClaimSoul(w, b)
  PROVE  ProvenanceInv'
<1> DEFINE c == ClaimSequence
<1>1. /\ c \in ClaimSequences
      /\ c + 1 = soul.generation
      /\ soul.generation > 0
  BY ClaimBounds DEF ClaimSoul, Claimable, ClaimSequence, ClaimSequences, TypeOK
<1>2. /\ receipts' = [receipts EXCEPT ![c] =
                        [claimant |-> w, boundary |-> registry[w].active + 1,
                         state |-> "active"]]
      /\ events' = events
      /\ soul' = [soul EXCEPT !.claimCount = soul.generation]
  BY DEF ClaimSoul
<1>3. /\ soul.provenance \in events
      /\ soul.provenance.generation = c + 1
      /\ soul.provenance.side = "buy"
      /\ soul.provenance.trader = w
      /\ soul.provenance.account = Ata(w)
      /\ soul.provenance.tokens >= Quantum
  BY <1>1 DEF ProvenanceInv, LastTradeRecorded, ClaimSoul, BoughtBy
<1> HIDE DEF c
<1>4. ClaimedFromBuy'
  <2> SUFFICES ASSUME NEW s \in ClaimSequences, receipts'[s].state # "none"
               PROVE  \E e \in events :
                        /\ e.generation = s + 1 /\ e.side = "buy"
                        /\ e.trader = receipts'[s].claimant
                        /\ e.account = Ata(receipts'[s].claimant)
                        /\ e.tokens >= Quantum
    BY <1>2 DEF ClaimedFromBuy, Ata
  <2>1. CASE s = c
    <3>1. receipts'[s].claimant = w
      BY <1>1, <1>2, <2>1 DEF TypeOK
    <3> QED
      BY <1>3, <2>1, <3>1
  <2>2. CASE s # c
    <3>1. receipts'[s] = receipts[s]
      BY <1>1, <1>2, <2>2 DEF TypeOK
    <3> QED
      BY <3>1 DEF ProvenanceInv, ClaimedFromBuy
  <2> QED
    BY <2>1, <2>2
<1>5. LastTradeRecorded'
  BY <1>2 DEF TypeOK, ProvenanceInv, LastTradeRecorded
<1> QED
  BY <1>4, <1>5 DEF ProvenanceInv

(* A settlement changes no receipt's origin. *)
LEMMA ProvenanceSettle ==
  ASSUME TypeOK, ProvenanceInv, NEW w \in Wallets, NEW pre \in Balances,
         NEW amount \in Balances, NEW newState \in TerminalStates,
         NEW list \in ReceiptLists,
         SettleReceipts(w, pre, amount, newState, list)
  PROVE  ProvenanceInv'
<1>1. UNCHANGED <<soul, events>>
  BY DEF SettleReceipts
<1>2. \A s \in ClaimSequences :
        /\ receipts'[s].claimant = receipts[s].claimant
        /\ receipts[s].state = "none" => receipts'[s].state = "none"
  <2> TAKE s \in ClaimSequences
  <2>1. CASE s \in Listed(list)
    <3>1. receipts[s].state = "active"
      BY <2>1 DEF Listed, SettleReceipts, ListMatches
    <3> QED
      BY <2>1, <3>1 DEF SettleReceipts, TypeOK
  <2>2. CASE s \notin Listed(list)
    BY <2>2 DEF SettleReceipts
  <2> QED
    BY <2>1, <2>2
<1>3. ClaimedFromBuy'
  <2> SUFFICES ASSUME NEW s \in ClaimSequences, receipts'[s].state # "none"
               PROVE  \E e \in events :
                        /\ e.generation = s + 1 /\ e.side = "buy"
                        /\ e.trader = receipts'[s].claimant
                        /\ e.account = Ata(receipts'[s].claimant)
                        /\ e.tokens >= Quantum
    BY <1>1 DEF ClaimedFromBuy, Ata
  <2> QED
    BY <1>2 DEF ProvenanceInv, ClaimedFromBuy
<1> QED
  BY <1>1, <1>3 DEF ProvenanceInv, LastTradeRecorded

(* Every instruction keeps the provenance invariant. *)
LEMMA ProvenanceStep ==
  TypeOK /\ ProvenanceInv /\ [Next]_sgVars => ProvenanceInv'
<1> SUFFICES ASSUME TypeOK, ProvenanceInv, [Next]_sgVars PROVE ProvenanceInv'
  OBVIOUS
<1> USE DEF ProvenanceInv
<1>1. ASSUME NEW w \in Wallets, InitializeSoul(w) PROVE ProvenanceInv'
  BY <1>1, ClaimsStayJustified DEF InitializeSoul, LastTradeRecorded, TypeOK
<1>2. ASSUME NEW w \in Wallets, NEW r \in {"builtin", "community"},
             UploadTemplate(w, r)
      PROVE ProvenanceInv'
  BY <1>2, ClaimsStayJustified DEF UploadTemplate, LastTradeRecorded, TypeOK
<1>3. ASSUME NEW side \in {"buy", "sell"}, NEW w \in Wallets, NEW a \in Accounts,
             NEW t \in TokenAmounts, GenerateSoul(side, w, a, t)
      PROVE ProvenanceInv'
  <2>1. ClaimedFromBuy'
    BY <1>3, ClaimsStayJustified DEF GenerateSoul
  <2>2. LastTradeRecorded'
    BY <1>3 DEF GenerateSoul, TradeProvenance, LastTradeRecorded, TypeOK
  <2> QED
    BY <2>1, <2>2
<1>4. CASE PreviewSoul
  <2>1. ClaimedFromBuy'
    BY <1>4, ClaimsStayJustified DEF PreviewSoul
  <2>2. LastTradeRecorded'
    BY <1>4 DEF PreviewSoul, LastTradeRecorded, TypeOK
  <2> QED
    BY <2>1, <2>2
<1>5. ASSUME NEW w \in Wallets, NEW b \in Balances, ClaimSoul(w, b)
      PROVE ProvenanceInv'
  BY <1>5, ProvenanceClaim
<1>6. ASSUME NEW w \in Wallets, NEW pre \in Balances, NEW amount \in Balances,
             NEW newState \in TerminalStates, NEW list \in ReceiptLists,
             SettleReceipts(w, pre, amount, newState, list)
      PROVE ProvenanceInv'
  BY <1>6, ProvenanceSettle
<1>7. CASE Pause
  BY <1>7, ClaimsStayJustified DEF Pause, LastTradeRecorded
<1>8. CASE Unpause
  BY <1>8, ClaimsStayJustified DEF Unpause, LastTradeRecorded
<1>9. CASE UNCHANGED sgVars
  BY <1>9, ClaimsStayJustified DEF sgVars, LastTradeRecorded
<1> QED
  BY <1>1, <1>2, <1>3, <1>4, <1>5, <1>6, <1>7, <1>8, <1>9 DEF Next

(* A receipt exists only for a buy the curve reported to the generator, and *)
(* the stored picture is the one painted by the last trade.                *)
THEOREM ProvenanceHolds == Spec => [](ClaimedFromBuy /\ PictureOfLastTrade)
<1>1. Init => TypeOK /\ ProvenanceInv
  BY TypeInit, ProvenanceInit
<1>2. (TypeOK /\ ProvenanceInv) /\ [Next]_sgVars => (TypeOK /\ ProvenanceInv)'
  BY TypeStep, ProvenanceStep
<1>3. ProvenanceInv => ClaimedFromBuy /\ PictureOfLastTrade
  BY DEF ProvenanceInv, LastTradeRecorded, PictureOfLastTrade
<1> QED
  BY <1>1, <1>2, <1>3, PTL DEF Spec

-----------------------------------------------------------------------------
(* Finality *)

(* The step form of ReceiptsAreFinal for one receipt.                      *)
Final(s) ==
  /\ receipts[s].state # "none" =>
       /\ receipts'[s].claimant = receipts[s].claimant
       /\ receipts'[s].boundary = receipts[s].boundary
       /\ receipts'[s].state # "none"
  /\ receipts[s].state \in TerminalStates => receipts'[s] = receipts[s]

(* An instruction that leaves the receipts alone ends none. *)
LEMMA FinalFrame ==
  ASSUME receipts' = receipts, NEW s \in ClaimSequences
  PROVE  Final(s)
  BY DEF Final

(* A claim writes only an account that was empty. *)
LEMMA FinalClaim ==
  ASSUME TypeOK, NEW w \in Wallets, NEW b \in Balances, ClaimSoul(w, b),
         NEW s \in ClaimSequences
  PROVE  Final(s)
<1>1. receipts[ClaimSequence].state = "none"
  BY DEF ClaimSoul, Claimable
<1>2. CASE s = ClaimSequence
  BY <1>1, <1>2 DEF Final, TerminalStates
<1>3. CASE s # ClaimSequence
  BY <1>3 DEF Final, ClaimSoul, TypeOK
<1> QED
  BY <1>2, <1>3

(* A settlement ends active receipts only. *)
LEMMA FinalSettle ==
  ASSUME TypeOK, NEW w \in Wallets, NEW pre \in Balances,
         NEW amount \in Balances, NEW newState \in TerminalStates,
         NEW list \in ReceiptLists,
         SettleReceipts(w, pre, amount, newState, list),
         NEW s \in ClaimSequences
  PROVE  Final(s)
<1>1. CASE s \in Listed(list)
  <2>1. receipts[s].state = "active"
    BY <1>1 DEF Listed, SettleReceipts, ListMatches
  <2>2. receipts'[s] = [receipts[s] EXCEPT !.state = newState]
    BY <1>1 DEF SettleReceipts
  <2> QED
    BY <2>1, <2>2 DEF Final, TerminalStates, TypeOK
<1>2. CASE s \notin Listed(list)
  BY <1>2 DEF SettleReceipts, Final
<1> QED
  BY <1>1, <1>2

(* Every instruction respects the end of a receipt. *)
LEMMA FinalStep == TypeOK /\ [Next]_sgVars => \A s \in ClaimSequences : Final(s)
<1> SUFFICES ASSUME TypeOK, [Next]_sgVars, NEW s \in ClaimSequences PROVE Final(s)
  OBVIOUS
<1>1. ASSUME NEW w \in Wallets, InitializeSoul(w) PROVE Final(s)
  BY <1>1, FinalFrame DEF InitializeSoul
<1>2. ASSUME NEW w \in Wallets, NEW r \in {"builtin", "community"},
             UploadTemplate(w, r)
      PROVE Final(s)
  BY <1>2, FinalFrame DEF UploadTemplate
<1>3. ASSUME NEW side \in {"buy", "sell"}, NEW w \in Wallets, NEW a \in Accounts,
             NEW t \in TokenAmounts, GenerateSoul(side, w, a, t)
      PROVE Final(s)
  BY <1>3, FinalFrame DEF GenerateSoul
<1>4. CASE PreviewSoul
  BY <1>4, FinalFrame DEF PreviewSoul
<1>5. ASSUME NEW w \in Wallets, NEW b \in Balances, ClaimSoul(w, b) PROVE Final(s)
  BY <1>5, FinalClaim
<1>6. ASSUME NEW w \in Wallets, NEW pre \in Balances, NEW amount \in Balances,
             NEW newState \in TerminalStates, NEW list \in ReceiptLists,
             SettleReceipts(w, pre, amount, newState, list)
      PROVE Final(s)
  BY <1>6, FinalSettle
<1>7. CASE Pause
  BY <1>7, FinalFrame DEF Pause
<1>8. CASE Unpause
  BY <1>8, FinalFrame DEF Unpause
<1>9. CASE UNCHANGED sgVars
  BY <1>9, FinalFrame DEF sgVars
<1> QED
  BY <1>1, <1>2, <1>3, <1>4, <1>5, <1>6, <1>7, <1>8, <1>9 DEF Next

(* No step rewrites a claimed receipt's claimant or boundary, empties it, or *)
(* changes it at all once it is burned or forfeited.                       *)
THEOREM FinalityHolds == Spec => ReceiptsAreFinal
<1>1. TypeOK /\ [Next]_sgVars =>
        [\A s \in ClaimSequences :
           /\ receipts[s].state # "none" =>
                /\ receipts'[s].claimant = receipts[s].claimant
                /\ receipts'[s].boundary = receipts[s].boundary
                /\ receipts'[s].state # "none"
           /\ receipts[s].state \in TerminalStates =>
                receipts'[s] = receipts[s]]_sgVars
  BY FinalStep DEF Final
<1> QED
  BY <1>1, TypeCorrect, PTL DEF Spec, ReceiptsAreFinal

-----------------------------------------------------------------------------
(* Tallies *)

TallyOf(w, st) ==
  {s \in ClaimSequences : receipts[s].claimant = w /\ receipts[s].state = st}

(* Sets of claims are finite. *)
LEMMA ClaimsFinite == ASSUME NEW S \in SUBSET ClaimSequences PROVE IsFiniteSet(S) /\ Cardinality(S) \in Nat
<1>1. MaxClaims - 1 \in Int
  BY ClaimBounds
<1>2. IsFiniteSet(ClaimSequences)
  BY <1>1, FS_Interval DEF ClaimSequences
<1> QED
  BY <1>2, FS_Subset, FS_CardinalityType

(* RegistryTallies, with the sets named. *)
Tallies ==
  \A w \in Wallets :
    /\ registry[w].active = Cardinality(TallyOf(w, "active"))
    /\ registry[w].burned = Cardinality(TallyOf(w, "burned"))
    /\ registry[w].forfeited = Cardinality(TallyOf(w, "forfeited"))

LEMMA TalliesNamed == Tallies => RegistryTallies
<1> SUFFICES ASSUME Tallies, NEW w \in Wallets, NEW st \in {"active", "burned", "forfeited"}
             PROVE  registry[w][st] = Cardinality(TallyOf(w, st))
  BY DEF RegistryTallies, TallyOf
<1> QED
  BY DEF Tallies

(* Before the first claim everything is zero. *)
LEMMA TalliesInit == Init => Tallies
<1> SUFFICES ASSUME Init PROVE Tallies
  OBVIOUS
<1>1. \A w \in Wallets, st \in {"active", "burned", "forfeited"} : TallyOf(w, st) = {}
  BY DEF Init, NoReceipt, TallyOf
<1>2. Cardinality({}) = 0
  BY FS_EmptySet
<1>3. \A w \in Wallets : registry[w].active = 0 /\ registry[w].burned = 0 /\ registry[w].forfeited = 0
  BY DEF Init, NoRegistry
<1> QED
  BY <1>1, <1>2, <1>3 DEF Tallies

(* A claim adds the account it fills to the claimant's active receipts.    *)
LEMMA TalliesClaim ==
  ASSUME TypeOK, Tallies, NEW w \in Wallets, NEW b \in Balances, ClaimSoul(w, b)
  PROVE  Tallies'
<1> DEFINE c == ClaimSequence
<1>1. c \in ClaimSequences /\ receipts[c].state = "none"
  BY ClaimBounds DEF ClaimSoul, Claimable, ClaimSequence, ClaimSequences, TypeOK
<1>2. /\ receipts' = [receipts EXCEPT ![c] =
                        [claimant |-> w, boundary |-> registry[w].active + 1,
                         state |-> "active"]]
      /\ registry'[w].active = registry[w].active + 1
      /\ registry'[w].burned = registry[w].burned
      /\ registry'[w].forfeited = registry[w].forfeited
      /\ \A v \in Wallets \ {w} : registry'[v] = registry[v]
  BY DEF ClaimSoul, TypeOK
<1> HIDE DEF c
<1>3. TallyOf(w, "active")' = TallyOf(w, "active") \cup {c} /\ c \notin TallyOf(w, "active")
  BY <1>1, <1>2 DEF TallyOf, TypeOK
<1>4. Cardinality(TallyOf(w, "active")') = Cardinality(TallyOf(w, "active")) + 1
  <2>1. TallyOf(w, "active") \in SUBSET ClaimSequences
    BY DEF TallyOf
  <2> QED
    BY <1>3, <2>1, ClaimsFinite, FS_AddElement
<1>5. \A v \in Wallets, st \in {"active", "burned", "forfeited"} :
        v # w \/ st # "active" => TallyOf(v, st)' = TallyOf(v, st)
  BY <1>1, <1>2 DEF TallyOf, TypeOK
<1>6. ASSUME NEW v \in Wallets
      PROVE  /\ registry'[v].active = Cardinality(TallyOf(v, "active")')
             /\ registry'[v].burned = Cardinality(TallyOf(v, "burned")')
             /\ registry'[v].forfeited = Cardinality(TallyOf(v, "forfeited")')
  <2>1. CASE v = w
    BY <1>2, <1>4, <1>5, <2>1 DEF Tallies
  <2>2. CASE v # w
    BY <1>2, <1>5, <2>2 DEF Tallies
  <2> QED
    BY <2>1, <2>2
<1> QED
  BY <1>6 DEF Tallies

(* A settlement list names as many accounts as it is long. *)
LEMMA ListedCount ==
  ASSUME NEW list \in ReceiptLists,
         \A i, j \in DOMAIN list : i # j => list[i] # list[j]
  PROVE  Cardinality(Listed(list)) = Len(list)
<1>1. Len(list) \in Nat /\ DOMAIN list = 1 .. Len(list) /\ list \in [1 .. Len(list) -> ClaimSequences]
  BY ListType
<1>2. list \in [1 .. Len(list) -> Listed(list)]
  BY <1>1 DEF Listed
<1>3. list \in Bijection(1 .. Len(list), Listed(list))
  BY <1>1, <1>2 DEF Bijection, Injection, Surjection, IsInjective, Listed
<1> QED
  BY <1>1, <1>3, FS_CountingElements DEF ExistsBijection

(* A settlement moves the receipts it lists from the active ones to those  *)
(* that ended its way.                                                     *)
LEMMA TalliesSettle ==
  ASSUME TypeOK, Tallies, NEW w \in Wallets, NEW pre \in Balances,
         NEW amount \in Balances, NEW newState \in TerminalStates,
         NEW list \in ReceiptLists,
         SettleReceipts(w, pre, amount, newState, list)
  PROVE  Tallies'
<1> DEFINE L == Listed(list)
           n == Len(list)
<1>1. /\ receipts' = [s \in ClaimSequences |->
                        IF s \in L THEN [receipts[s] EXCEPT !.state = newState]
                                   ELSE receipts[s]]
      /\ registry'[w].active = registry[w].active - n
      /\ newState = "burned" => /\ registry'[w].burned = registry[w].burned + n
                                /\ registry'[w].forfeited = registry[w].forfeited
      /\ newState = "forfeited" => /\ registry'[w].burned = registry[w].burned
                                   /\ registry'[w].forfeited = registry[w].forfeited + n
      /\ \A v \in Wallets \ {w} : registry'[v] = registry[v]
  BY DEF SettleReceipts, TypeOK
<1>2. L \in SUBSET TallyOf(w, "active") /\ n \in Nat
  BY ListType DEF SettleReceipts, ListMatches, Listed, TallyOf
<1>3. Cardinality(L) = n
  BY ListedCount DEF SettleReceipts, ListMatches
<1> HIDE DEF L, n
<1>4. newState \in {"burned", "forfeited"}
  BY DEF TerminalStates
<1>5. /\ TallyOf(w, "active")' = TallyOf(w, "active") \ L
      /\ TallyOf(w, newState)' = TallyOf(w, newState) \cup L
      /\ TallyOf(w, newState) \cap L = {}
  BY <1>1, <1>2, <1>4 DEF TallyOf, TypeOK
<1>6. \A v \in Wallets, st \in {"active", "burned", "forfeited"} :
        v # w \/ st \notin {"active", newState} => TallyOf(v, st)' = TallyOf(v, st)
  BY <1>1, <1>2, <1>4 DEF TallyOf, TypeOK
<1>7. /\ IsFiniteSet(TallyOf(w, "active")) /\ Cardinality(TallyOf(w, "active")) \in Nat
      /\ IsFiniteSet(TallyOf(w, newState)) /\ Cardinality(TallyOf(w, newState)) \in Nat
      /\ IsFiniteSet(L)
  <2>1. /\ TallyOf(w, "active") \in SUBSET ClaimSequences
        /\ TallyOf(w, newState) \in SUBSET ClaimSequences
        /\ L \in SUBSET ClaimSequences
    BY <1>2 DEF TallyOf
  <2> QED
    BY <2>1, ClaimsFinite
<1>8. Cardinality(TallyOf(w, "active") \ L) = Cardinality(TallyOf(w, "active")) - n
  <2>1. TallyOf(w, "active") \cap L = L
    BY <1>2
  <2>2. Cardinality(TallyOf(w, "active") \ L) =
          Cardinality(TallyOf(w, "active")) - Cardinality(TallyOf(w, "active") \cap L)
    BY <1>7, FS_Difference
  <2> QED
    BY <1>3, <2>1, <2>2
<1>9. Cardinality(TallyOf(w, newState) \cup L) = Cardinality(TallyOf(w, newState)) + n
  <2>1. Cardinality(TallyOf(w, newState) \cup L) =
          Cardinality(TallyOf(w, newState)) + Cardinality(L)
            - Cardinality(TallyOf(w, newState) \cap L)
    BY <1>7, FS_Union
  <2>2. Cardinality(TallyOf(w, newState) \cap L) = 0
    BY <1>5, FS_EmptySet, Zenon
  <2> QED
    BY <1>2, <1>3, <1>7, <2>1, <2>2
<1>10. ASSUME NEW v \in Wallets
       PROVE  /\ registry'[v].active = Cardinality(TallyOf(v, "active")')
              /\ registry'[v].burned = Cardinality(TallyOf(v, "burned")')
              /\ registry'[v].forfeited = Cardinality(TallyOf(v, "forfeited")')
  <2>1. CASE v # w
    BY <1>1, <1>6, <2>1 DEF Tallies
  <2>2. CASE v = w /\ newState = "burned"
    BY <1>1, <1>5, <1>6, <1>8, <1>9, <2>2 DEF Tallies
  <2>3. CASE v = w /\ newState = "forfeited"
    BY <1>1, <1>5, <1>6, <1>8, <1>9, <2>3 DEF Tallies
  <2> QED
    BY <1>4, <2>1, <2>2, <2>3
<1> QED
  BY <1>10 DEF Tallies

(* No other instruction touches receipts or registries. *)
LEMMA TalliesFrame ==
  ASSUME Tallies, UNCHANGED <<receipts, registry>>
  PROVE  Tallies'
<1>1. \A w \in Wallets, st \in {"active", "burned", "forfeited"} :
        TallyOf(w, st)' = TallyOf(w, st)
  BY DEF TallyOf
<1> QED
  BY <1>1 DEF Tallies

(* Every instruction keeps the counters and the accounts in step. *)
LEMMA TalliesStep == TypeOK /\ Tallies /\ [Next]_sgVars => Tallies'
<1> SUFFICES ASSUME TypeOK, Tallies, [Next]_sgVars PROVE Tallies'
  OBVIOUS
<1>1. ASSUME NEW w \in Wallets, InitializeSoul(w) PROVE Tallies'
  BY <1>1, TalliesFrame DEF InitializeSoul
<1>2. ASSUME NEW w \in Wallets, NEW r \in {"builtin", "community"},
             UploadTemplate(w, r)
      PROVE Tallies'
  BY <1>2, TalliesFrame DEF UploadTemplate
<1>3. ASSUME NEW side \in {"buy", "sell"}, NEW w \in Wallets, NEW a \in Accounts,
             NEW t \in TokenAmounts, GenerateSoul(side, w, a, t)
      PROVE Tallies'
  BY <1>3, TalliesFrame DEF GenerateSoul
<1>4. CASE PreviewSoul
  BY <1>4, TalliesFrame DEF PreviewSoul
<1>5. ASSUME NEW w \in Wallets, NEW b \in Balances, ClaimSoul(w, b)
      PROVE Tallies'
  BY <1>5, TalliesClaim
<1>6. ASSUME NEW w \in Wallets, NEW pre \in Balances, NEW amount \in Balances,
             NEW newState \in TerminalStates, NEW list \in ReceiptLists,
             SettleReceipts(w, pre, amount, newState, list)
      PROVE Tallies'
  BY <1>6, TalliesSettle
<1>7. CASE Pause \/ Unpause
  BY <1>7, TalliesFrame DEF Pause, Unpause
<1>8. CASE UNCHANGED sgVars
  BY <1>8, TalliesFrame DEF sgVars
<1> QED
  BY <1>1, <1>2, <1>3, <1>4, <1>5, <1>6, <1>7, <1>8 DEF Next

(* The registry counters the sell path and the transfer hook trust are the *)
(* numbers of receipt accounts they summarise, for every number of wallets *)
(* and claims.                                                             *)
THEOREM TalliesHold == Spec => []RegistryTallies
<1>1. Init => TypeOK /\ Tallies
  BY TypeInit, TalliesInit
<1>2. (TypeOK /\ Tallies) /\ [Next]_sgVars => (TypeOK /\ Tallies)'
  BY TypeStep, TalliesStep
<1> QED
  BY <1>1, <1>2, TalliesNamed, PTL DEF Spec

-----------------------------------------------------------------------------
(* Generation events *)

Of(set, g) == {e \in set : e.generation = g}

(* OneEventPerGeneration without counting.                                 *)
Announced ==
  \A g \in 1 .. MaxGeneration :
    /\ g <= soul.generation => \E e : Of(events, g) = {e}
    /\ g > soul.generation => Of(events, g) = {}

(* A trade announces the next generation; a preview announces none.        *)
LEMMA AnnouncedStep == TypeOK /\ Announced /\ [Next]_sgVars => Announced'
<1> SUFFICES ASSUME TypeOK, Announced, [Next]_sgVars PROVE Announced'
  OBVIOUS
<1>0. soul.generation \in Nat
  BY DEF TypeOK
<1>1. CASE \E side \in {"buy", "sell"}, w \in Wallets, a \in Accounts, t \in TokenAmounts :
             GenerateSoul(side, w, a, t)
  <2>1. PICK next : /\ next.generation = soul.generation + 1
                    /\ events' = events \cup {next}
                    /\ soul'.generation = soul.generation + 1
    BY <1>1 DEF GenerateSoul, TradeProvenance, TypeOK
  <2>2. \A g \in 1 .. MaxGeneration :
          Of(events', g) = IF g = soul.generation + 1 THEN Of(events, g) \cup {next} ELSE Of(events, g)
    BY <2>1 DEF Of
  <2>3. ASSUME NEW g \in 1 .. MaxGeneration
        PROVE  /\ g <= soul'.generation => \E e : Of(events', g) = {e}
               /\ g > soul'.generation => Of(events', g) = {}
    <3>1. CASE g = soul.generation + 1
      <4>1. Of(events, g) = {}
        BY <1>0, <3>1 DEF Announced
      <4>2. Of(events', g) = {next}
        BY <2>2, <3>1, <4>1
      <4>3. \E e : Of(events', g) = {e}
        BY <4>2, Zenon
      <4>4. ~ (g > soul'.generation)
        BY <1>0, <2>1, <3>1
      <4> QED
        BY <4>3, <4>4
    <3>2. CASE g # soul.generation + 1
      <4>1. Of(events', g) = Of(events, g)
        BY <2>2, <3>2
      <4>2. (g <= soul'.generation <=> g <= soul.generation) /\ (g > soul'.generation <=> g > soul.generation)
        BY <1>0, <2>1, <3>2, ClaimBounds
      <4> QED
        BY <4>1, <4>2, Zenon DEF Announced
    <3> QED
      BY <3>1, <3>2
  <2> QED
    BY <2>3 DEF Announced
<1>2. CASE PreviewSoul
  <2>1. soul'.generation = soul.generation /\ events' = events \cup {NoProvenance}
    BY <1>2 DEF PreviewSoul, TypeOK
  <2>2. \A g \in 1 .. MaxGeneration : Of(events', g) = Of(events, g)
    BY <2>1 DEF Of, NoProvenance
  <2> QED
    BY <2>1, <2>2 DEF Announced
<1>3. ASSUME soul'.generation = soul.generation, events' = events PROVE Announced'
  BY <1>3 DEF Announced, Of
<1>4. CASE \E w \in Wallets : InitializeSoul(w)
  BY <1>3, <1>4 DEF InitializeSoul, TypeOK
<1>5. CASE \E w \in Wallets, r \in {"builtin", "community"} : UploadTemplate(w, r)
  BY <1>3, <1>5 DEF UploadTemplate, TypeOK
<1>6. CASE \E w \in Wallets, b \in Balances : ClaimSoul(w, b)
  BY <1>3, <1>6 DEF ClaimSoul, TypeOK
<1>7. CASE \E w \in Wallets, pre \in Balances, amount \in Balances,
              newState \in TerminalStates, list \in ReceiptLists :
             SettleReceipts(w, pre, amount, newState, list)
  BY <1>3, <1>7 DEF SettleReceipts
<1>8. CASE Pause \/ Unpause \/ UNCHANGED sgVars
  BY <1>3, <1>8 DEF Pause, Unpause, sgVars
<1> QED
  BY <1>1, <1>2, <1>4, <1>5, <1>6, <1>7, <1>8 DEF Next

(* Announced, with the events counted. *)
LEMMA AnnouncedNamed == TypeOK /\ Announced => OneEventPerGeneration
<1> SUFFICES ASSUME TypeOK, Announced, NEW g \in 1 .. MaxGeneration
             PROVE  Cardinality(Of(events, g)) = IF g <= soul.generation THEN 1 ELSE 0
  BY DEF OneEventPerGeneration, Of
<1>1. CASE g <= soul.generation
  <2>1. PICK e : Of(events, g) = {e}
    BY <1>1 DEF Announced
  <2> QED
    BY <1>1, <2>1, FS_Singleton
<1>2. CASE ~ (g <= soul.generation)
  BY <1>2, FS_EmptySet, ClaimBounds DEF Announced, TypeOK
<1> QED
  BY <1>1, <1>2

(* Every generation up to the counter is announced by exactly one event,   *)
(* which is what lets the indexer key its rows by generation.              *)
THEOREM AnnouncedOnce == Spec => []OneEventPerGeneration
<1>1. Init => TypeOK /\ Announced
  BY TypeInit, ClaimBounds DEF Init, SoulInit, Announced, Of
<1>2. (TypeOK /\ Announced) /\ [Next]_sgVars => (TypeOK /\ Announced)'
  BY TypeStep, AnnouncedStep
<1> QED
  BY <1>1, <1>2, AnnouncedNamed, PTL DEF Spec

=============================================================================
