-------------------------- MODULE Provenance_proofs --------------------------
(***************************************************************************)
(* Proofs about the exact lookup of Provenance, for chains of every length *)
(* and every page size, budget and chunk size: the budgets are kept, a     *)
(* search that ends within them has seen everything, and what the node     *)
(* failed to return is marked.                                             *)
(***************************************************************************)
EXTENDS Provenance, WellFoundedInduction, FiniteSetTheorems, TLAPS

-----------------------------------------------------------------------------
(* The newest elements of a set *)

(* Every nonempty set of natural numbers has a least element. *)
LEMMA LeastNat ==
  ASSUME NEW T \in SUBSET Nat, T # {}
  PROVE  \E m \in T : \A n \in T : m <= n
<1>. DEFINE Below == {ss \in Nat \X Nat : ss[1] < ss[2]}
<1>1. IsWellFoundedOn(Below, Nat)
  BY NatLessThanWellFounded DEF OpToRel
<1>. HIDE DEF Below
<1>2. PICK m \in T : \A n \in T : ~ (<<n, m>> \in Below)
  BY <1>1, WFMin
<1>3. \A n \in T : m <= n
  <2>. TAKE n \in T
  <2>1. m \in Nat /\ n \in Nat
    OBVIOUS
  <2>2. ~ (n < m)
    BY <1>2, <2>1 DEF Below
  <2>. QED BY <2>1, <2>2
<1>. QED BY <1>3

(* So a nonempty bounded set has a greatest element. *)
LEMMA GreatestBelow ==
  ASSUME NEW n \in Nat, NEW S \in SUBSET (0 .. n), S # {}
  PROVE  \E m \in S : \A x \in S : m >= x
<1>. DEFINE Gaps == {n - x : x \in S}
<1>1. Gaps \in SUBSET Nat /\ Gaps # {}
  <2>1. \A x \in S : n - x \in Nat
    OBVIOUS
  <2>2. PICK x \in S : TRUE
    OBVIOUS
  <2>3. n - x \in Gaps
    OBVIOUS
  <2>. QED BY <2>1, <2>3
<1>2. PICK g \in Gaps : \A h \in Gaps : g <= h
  <2>. HIDE DEF Gaps
  <2>. QED BY <1>1, LeastNat
<1>3. PICK m \in S : g = n - m
  BY <1>2
<1>4. \A x \in S : m >= x
  <2>. TAKE x \in S
  <2>1. n - x \in Gaps
    OBVIOUS
  <2>2. g <= n - x
    BY <1>2, <2>1
  <2>3. m \in 0 .. n /\ x \in 0 .. n
    OBVIOUS
  <2>. QED BY <1>3, <2>2, <2>3
<1>. QED BY <1>4

(* Min picks the least element. *)
LEMMA MinIsLeast ==
  ASSUME NEW S \in SUBSET Nat, S # {}
  PROVE  Min(S) \in S /\ \A x \in S : Min(S) <= x
BY LeastNat DEF Min

(* Sets of positions on the chain are finite. *)
LEMMA PositionsFinite ==
  ASSUME NEW m \in Nat, NEW S \in SUBSET (1 .. m)
  PROVE  IsFiniteSet(S) /\ Cardinality(S) \in Nat
<1>1. IsFiniteSet(1 .. m)
  BY FS_Interval
<1>2. IsFiniteSet(S)
  BY <1>1, FS_Subset
<1>. QED BY <1>2, FS_CardinalityType

(* A page has no more elements than it was asked for. *)
LEMMA NewestBound ==
  ASSUME NEW m \in Nat, NEW S \in SUBSET (1 .. m), NEW n \in Nat
  PROVE  Cardinality(Newest(S, n)) <= n
<1>. DEFINE T == Newest(S, n)
<1>1. T \in SUBSET S /\ T \in SUBSET (1 .. m) /\ T \in SUBSET Nat
  <2>1. T \in SUBSET S
    BY DEF Newest
  <2>. HIDE DEF T
  <2>. QED BY <2>1
<1>2. CASE T = {}
  BY <1>2, FS_EmptySet
<1>3. CASE T # {}
  <2>1. PICK a \in T : \A x \in T : a <= x
    <3>. HIDE DEF T
    <3>. QED BY <1>1, <1>3, LeastNat
  <2>. DEFINE Above == {j \in S : j > a}
  <2>2. Cardinality(Above) < n
    BY <2>1 DEF Newest
  <2>3. Above \in SUBSET (1 .. m)
    OBVIOUS
  <2>4. T \ {a} \in SUBSET Above
    BY <1>1, <2>1
  <2>5. IsFiniteSet(T) /\ Cardinality(T) \in Nat
    <3>. HIDE DEF T
    <3>. QED BY <1>1, PositionsFinite
  <2>6. IsFiniteSet(Above) /\ Cardinality(Above) \in Nat
    <3>. HIDE DEF Above
    <3>. QED BY <2>3, PositionsFinite
  <2>. HIDE DEF T, Above
  <2>7. Cardinality(T \ {a}) <= Cardinality(Above)
    BY <2>4, <2>6, FS_Subset
  <2>8. Cardinality(T \ {a}) = Cardinality(T) - 1
    BY <2>1, <2>5, FS_RemoveElement
  <2>9. Cardinality(T) <= n
    BY <2>2, <2>5, <2>6, <2>7, <2>8
  <2>. QED BY <2>9 DEF T
<1>. QED BY <1>2, <1>3

(* A page that is not full holds everything that is left. *)
LEMMA NewestAll ==
  ASSUME NEW m \in Nat, NEW S \in SUBSET (1 .. m), NEW n \in Nat,
         Cardinality(Newest(S, n)) < n
  PROVE  Newest(S, n) = S
<1>. DEFINE T == Newest(S, n)
            Rest == S \ T
<1>1. T \in SUBSET S /\ T \in SUBSET (1 .. m)
  BY DEF Newest
<1>2. SUFFICES ASSUME Rest # {} PROVE FALSE
  BY <1>1
<1>3. PICK g \in Rest : \A x \in Rest : g >= x
  <2>1. \A x \in S : x \in 0 .. m
    OBVIOUS
  <2>2. Rest \in SUBSET (0 .. m)
    <3>. HIDE DEF T
    <3>. QED BY <2>1, Zenon
  <2>. HIDE DEF Rest
  <2>. QED BY <1>2, <2>2, GreatestBelow
<1>. DEFINE Above == {j \in S : j > g}
<1>4. ~ (Cardinality(Above) < n)
  BY <1>3 DEF Newest
<1>5. Above \in SUBSET T
  <2>. SUFFICES ASSUME NEW j \in S, j > g, j \notin T PROVE FALSE
    OBVIOUS
  <2>. HIDE DEF T
  <2>1. j \in Rest /\ j \in Int /\ g \in Int
    BY <1>3
  <2>. QED BY <1>3, <2>1
<1>6. IsFiniteSet(T) /\ Cardinality(T) \in Nat
  <2>. HIDE DEF T
  <2>. QED BY <1>1, PositionsFinite
<1>7. Cardinality(T) < n
  OBVIOUS
<1>. HIDE DEF T, Above
<1>8. Cardinality(Above) <= Cardinality(T) /\ IsFiniteSet(Above)
  BY <1>5, <1>6, FS_Subset
<1>9. Cardinality(Above) \in Nat
  BY <1>8, FS_CardinalityType
<1>. QED BY <1>4, <1>6, <1>7, <1>8, <1>9

(* A page skips nothing between its oldest element and the cursor. *)
LEMMA NewestUpward ==
  ASSUME NEW m \in Nat, NEW S \in SUBSET (1 .. m), NEW n \in Nat,
         NEW a \in Newest(S, n), NEW b \in S, a <= b
  PROVE  b \in Newest(S, n)
<1>. DEFINE AboveA == {j \in S : j > a}
            AboveB == {j \in S : j > b}
<1>1. Cardinality(AboveA) < n /\ a \in 1 .. m
  BY DEF Newest
<1>2. AboveB \in SUBSET AboveA
  <2>. SUFFICES ASSUME NEW j \in S, j > b PROVE j > a
    OBVIOUS
  <2>1. j \in Int /\ b \in Int /\ a \in Int
    BY <1>1
  <2>. QED BY <2>1
<1>3. AboveA \in SUBSET (1 .. m) /\ AboveB \in SUBSET (1 .. m)
  OBVIOUS
<1>4. Cardinality(AboveB) < n
  <2>. HIDE DEF AboveA, AboveB
  <2>1. IsFiniteSet(AboveA) /\ Cardinality(AboveA) \in Nat /\ Cardinality(AboveB) \in Nat
    BY <1>3, PositionsFinite
  <2>2. Cardinality(AboveB) <= Cardinality(AboveA)
    BY <1>2, <2>1, FS_Subset
  <2>. QED BY <1>1, <2>1, <2>2
<1>5. b \in S /\ Cardinality({j \in S : j > b}) < n
  BY <1>4
<1>. QED BY <1>5, Zenon DEF Newest

(* The chunk of a transaction ends after it. *)
LEMMA ChunkReaches ==
  ASSUME NEW q \in Nat
  PROVE  /\ ((q \div Concurrency) + 1) * Concurrency \in Nat
         /\ q < ((q \div Concurrency) + 1) * Concurrency
<1>. DEFINE d == q \div Concurrency
<1>1. Concurrency \in Nat /\ Concurrency > 0
  BY LimitsAssumption
<1>2. d \in Nat /\ q % Concurrency \in 0 .. Concurrency - 1
      /\ q = Concurrency * d + (q % Concurrency)
  BY <1>1
<1>. HIDE DEF d
<1>3. (d + 1) * Concurrency = Concurrency * d + Concurrency
  BY <1>1, <1>2
<1>4. Concurrency * d \in Nat
  BY <1>1, <1>2
<1>. QED BY <1>1, <1>2, <1>3, <1>4 DEF d

-----------------------------------------------------------------------------
(* The inductive invariant *)

Lookups(t) ==
  [phase : {"paging", "fetching", "ended", "failed", "refused"},
   target : {t}, program : {1, 2}, active : SUBSET Programs,
   cursors : [Programs -> 1 .. MaxLength + 1], scanned : 0 .. ScanCap,
   seen : SUBSET (1 .. Len(chain)), batch : SUBSET (1 .. Len(chain)),
   fetched : SUBSET (1 .. Len(chain)), transient : BOOLEAN, found : BOOLEAN,
   began : 0 .. Len(chain), absent : SUBSET (1 .. Len(chain))]

ChainShape == chain \in Seq(Kinds) /\ Len(chain) <= MaxLength

Shape == \E t : lookup \in Lookups(t)

Spending ==
  Cardinality(lookup.fetched) <= MaxTransactions /\ lookup.batch \cap lookup.fetched = {}

(* What has been seen waits to be fetched or has been.                     *)
Tracking ==
  lookup.phase \in {"paging", "fetching"} =>
    ~lookup.found /\ lookup.seen = lookup.batch \cup lookup.fetched

(* Behind its cursor, and everywhere once it has no more pages, all of a   *)
(* program's transactions have been seen.                                  *)
Covered ==
  \A p \in Programs, i \in 1 .. lookup.began :
    p \in ProgramsOf(chain[i]) /\ chain[i] # "failed"
      /\ (p \notin lookup.active \/ lookup.cursors[p] <= i) => i \in lookup.seen

Complete ==
  (/\ lookup.phase = "ended" /\ ~lookup.found
   /\ lookup.scanned < ScanCap /\ Cardinality(lookup.fetched) < MaxTransactions) =>
  lookup.active = {} /\ lookup.seen \subseteq lookup.fetched

Marked ==
  \A i \in lookup.fetched \ lookup.absent : IsTarget(i) => lookup.found \/ lookup.transient

LookupInv ==
  ChainShape /\ (lookup # NoLookup => Shape /\ Spending /\ Tracking /\ Covered /\ Complete /\ Marked)

-----------------------------------------------------------------------------
(* Reading a page *)

(* The transactions a lookup fetches of a batch: within its budget, and    *)
(* all of them unless the trade is among them or the budget is spent.      *)
LEMMA VisitedSound ==
  ASSUME NEW m \in Nat, lookup.batch \in SUBSET (1 .. m), Budget \in Nat, NEW hits
  PROVE  /\ Visited(hits) \in SUBSET lookup.batch
         /\ Cardinality(Visited(hits)) <= Budget
         /\ hits \cap Visited(hits) = {} /\ Cardinality(Visited(hits)) < Budget =>
              Visited(hits) = lookup.batch
<1>. DEFINE B == lookup.batch
            within == Newest(B, Budget) \cap hits
            stop == {ChunkEnd(i, B) : i \in within}
            n == Min({Budget} \cup stop)
<1>1. Visited(hits) = Newest(B, n)
  BY DEF Visited
<1>2. \A i \in B : Newer(i, B) \in Nat
  <2>. TAKE i \in B
  <2>1. {j \in B : j > i} \in SUBSET (1 .. m)
    OBVIOUS
  <2>. QED BY <2>1, PositionsFinite DEF Newer
<1>3. \A i \in B : ChunkEnd(i, B) \in Nat /\ Newer(i, B) < ChunkEnd(i, B)
  BY <1>2, ChunkReaches DEF ChunkEnd
<1>4. within \in SUBSET B
  BY DEF Newest
<1>5. n \in Nat /\ n \in {Budget} \cup stop /\ n <= Budget
  <2>1. {Budget} \cup stop \in SUBSET Nat
    BY <1>3, <1>4
  <2>. HIDE DEF stop
  <2>. QED BY <2>1, MinIsLeast
<1>. HIDE DEF n
<1>6. Newest(B, n) \in SUBSET B
  BY DEF Newest
<1>7. Cardinality(Newest(B, n)) <= n /\ Cardinality(Newest(B, n)) \in Nat
  <2>1. Newest(B, n) \in SUBSET (1 .. m)
    BY <1>6
  <2>. QED BY <2>1, <1>5, NewestBound, PositionsFinite
<1>8. ASSUME hits \cap Newest(B, n) = {}, Cardinality(Newest(B, n)) < Budget
      PROVE  Newest(B, n) = B
  <2>1. CASE n = Budget
    BY <1>8, <2>1, NewestAll
  <2>2. CASE n \in stop
    <3>1. PICK i \in within : n = ChunkEnd(i, B)
      BY <2>2
    <3>2. i \in B /\ i \in hits /\ Newer(i, B) < n
      BY <1>3, <1>4, <3>1
    <3>3. i \in Newest(B, n)
      BY <3>2 DEF Newest, Newer
    <3>. QED BY <1>8, <3>2, <3>3
  <2>. QED BY <1>5, <2>1, <2>2
<1>. QED BY <1>1, <1>5, <1>6, <1>7, <1>8

(* A page is what is left of a program's signatures, newest first.         *)
LEMMA PageSound ==
  ASSUME ChainShape, NEW p, NEW before, NEW limit \in Nat
  PROVE  LET all == Signatures(p, before)
             page == Newest(all, limit)
         IN /\ all \in SUBSET (1 .. Len(chain))
            /\ page \in SUBSET all
            /\ Cardinality(page) \in Nat /\ Cardinality(page) <= limit
            /\ Cardinality(page) < limit => page = all
            /\ \A i \in all : page # {} /\ Min(page) <= i => i \in page
            /\ page # {} => Min(page) \in page
<1>. DEFINE all == Signatures(p, before)
            page == Newest(all, limit)
<1>1. Len(chain) \in Nat /\ DOMAIN chain = 1 .. Len(chain)
  BY DEF ChainShape
<1>2. all \in SUBSET (1 .. Len(chain))
  BY <1>1 DEF Signatures
<1>. HIDE DEF all
<1>3. page \in SUBSET all
  BY DEF Newest
<1>4. page \in SUBSET (1 .. Len(chain)) /\ page \in SUBSET Nat
  <2>. HIDE DEF page
  <2>. QED BY <1>2, <1>3
<1>5. Cardinality(page) \in Nat /\ Cardinality(page) <= limit
  <2>1. Cardinality(page) \in Nat
    <3>. HIDE DEF page
    <3>. QED BY <1>1, <1>4, PositionsFinite
  <2>. QED BY <1>1, <1>2, <2>1, NewestBound
<1>6. Cardinality(page) < limit => page = all
  BY <1>1, <1>2, NewestAll
<1>7. page # {} => Min(page) \in page
  <2>. HIDE DEF page
  <2>. QED BY <1>4, MinIsLeast
<1>8. \A i \in all : page # {} /\ Min(page) <= i => i \in page
  BY <1>1, <1>2, <1>7, NewestUpward
<1>. QED BY <1>2, <1>3, <1>5, <1>6, <1>7, <1>8 DEF all

(* The record of a lookup after a page, field by field. *)
PageRead(t, p, page) ==
  /\ lookup \in Lookups(t) /\ lookup' \in Lookups(t)
  /\ page \in SUBSET Signatures(p, lookup.cursors[p])
  /\ Cardinality(page) < Min({PageLimit, ScanCap - lookup.scanned}) =>
       page = Signatures(p, lookup.cursors[p])
  /\ \A i \in Signatures(p, lookup.cursors[p]) : page # {} /\ Min(page) <= i => i \in page
  /\ lookup'.phase \in {"paging", "fetching"}
  /\ lookup'.cursors = [lookup.cursors EXCEPT ![p] = Before(p, page)]
  /\ lookup'.active = StillActive(p, page)
  /\ lookup'.seen = lookup.seen \cup Fresh(page)
  /\ lookup'.batch = lookup.batch \cup Fresh(page)
  /\ lookup'.fetched = lookup.fetched /\ lookup'.absent = lookup.absent
  /\ lookup'.transient = lookup.transient /\ lookup'.found = lookup.found
  /\ lookup'.began = lookup.began

LEMMA PageStep ==
  ASSUME LookupInv, ReadPage
  PROVE  \E t, p, page : p \in Programs /\ PageRead(t, p, page)
<1>. DEFINE p == Turn
            limit == Min({PageLimit, ScanCap - lookup.scanned})
            page == Newest(Signatures(p, lookup.cursors[p]), limit)
            l == [lookup EXCEPT
                    !.scanned = @ + Cardinality(page),
                    !.cursors[p] = Before(p, page),
                    !.active = StillActive(p, page),
                    !.seen = @ \cup Fresh(page),
                    !.batch = @ \cup Fresh(page)]
<1>1. lookup # NoLookup /\ lookup' = EndTurn(l) /\ chain' = chain
  BY DEF ReadPage, NoLookup
<1>2. PICK t : lookup \in Lookups(t)
  BY <1>1 DEF LookupInv, Shape
<1>3. p \in Programs
  BY <1>2 DEF Turn, ProgramOrder, Lookups, Programs
<1>4. limit \in Nat /\ limit <= ScanCap - lookup.scanned
  <2>1. {PageLimit, ScanCap - lookup.scanned} \in SUBSET Nat
    BY <1>2, LimitsAssumption DEF Lookups
  <2>2. limit \in {PageLimit, ScanCap - lookup.scanned} /\ limit <= ScanCap - lookup.scanned
    BY <2>1, MinIsLeast
  <2>. QED BY <2>1, <2>2
<1>. HIDE DEF limit
<1>5. /\ Signatures(p, lookup.cursors[p]) \in SUBSET (1 .. Len(chain))
      /\ page \in SUBSET Signatures(p, lookup.cursors[p])
      /\ Cardinality(page) \in Nat /\ Cardinality(page) <= limit
      /\ Cardinality(page) < limit => page = Signatures(p, lookup.cursors[p])
      /\ \A i \in Signatures(p, lookup.cursors[p]) : page # {} /\ Min(page) <= i => i \in page
      /\ page # {} => Min(page) \in page
  BY <1>4, PageSound DEF LookupInv
<1>. HIDE DEF p, page
<1>6. Before(p, page) \in 1 .. MaxLength + 1
  <2>1. CASE page = {}
    BY <1>2, <1>3, <2>1 DEF Before, Lookups
  <2>2. CASE page # {}
    <3>1. Min(page) \in 1 .. Len(chain)
      BY <1>5, <2>2
    <3>2. Len(chain) \in Nat /\ Len(chain) <= MaxLength
      BY DEF LookupInv, ChainShape
    <3>. QED BY <2>2, <3>1, <3>2, LimitsAssumption DEF Before
  <2>. QED BY <2>1, <2>2
<1>7. Fresh(page) \in SUBSET (1 .. Len(chain)) /\ StillActive(p, page) \in SUBSET Programs
  BY <1>2, <1>5 DEF Fresh, StillActive, Lookups
<1>8. lookup.scanned + Cardinality(page) \in 0 .. ScanCap
  BY <1>2, <1>4, <1>5, LimitsAssumption DEF Lookups
<1>9. /\ l \in Lookups(t) /\ l.phase = lookup.phase
      /\ l.cursors = [lookup.cursors EXCEPT ![p] = Before(p, page)]
      /\ l.active = StillActive(p, page)
      /\ l.seen = lookup.seen \cup Fresh(page)
      /\ l.batch = lookup.batch \cup Fresh(page)
      /\ l.fetched = lookup.fetched /\ l.absent = lookup.absent
      /\ l.transient = lookup.transient /\ l.found = lookup.found
      /\ l.began = lookup.began
  BY <1>2, <1>3, <1>6, <1>7, <1>8 DEF Lookups
<1>. HIDE DEF l
<1>10. Turns(l, l.program + 1) \in SUBSET {1, 2}
  BY <1>9 DEF Turns, ProgramOrder, Lookups
<1>11. /\ EndTurn(l) \in Lookups(t) /\ EndTurn(l).phase \in {"paging", "fetching"}
       /\ EndTurn(l).cursors = l.cursors /\ EndTurn(l).active = l.active
       /\ EndTurn(l).seen = l.seen /\ EndTurn(l).batch = l.batch
       /\ EndTurn(l).fetched = l.fetched /\ EndTurn(l).absent = l.absent
       /\ EndTurn(l).transient = l.transient /\ EndTurn(l).found = l.found
       /\ EndTurn(l).began = l.began
  <2>. DEFINE rest == Turns(l, l.program + 1)
  <2>0. l.phase = "paging"
    BY <1>9 DEF ReadPage
  <2>1. CASE rest # {} /\ l.scanned < ScanCap
    <3>1. Min(rest) \in {1, 2}
      <4>. HIDE DEF rest
      <4>1. rest \in SUBSET Nat
        BY <1>10 DEF rest
      <4>2. Min(rest) \in rest
        BY <2>1, <4>1, MinIsLeast
      <4>. QED BY <1>10, <4>2 DEF rest
    <3>. HIDE DEF rest
    <3>2. EndTurn(l) = [l EXCEPT !.program = Min(rest)]
      BY <2>1 DEF EndTurn, rest
    <3>. QED BY <1>9, <2>0, <3>1, <3>2 DEF Lookups
  <2>2. CASE ~(rest # {} /\ l.scanned < ScanCap)
    <3>1. EndTurn(l) = [l EXCEPT !.phase = "fetching"]
      BY <2>2 DEF EndTurn
    <3>. QED BY <1>9, <3>1 DEF Lookups
  <2>. QED BY <2>1, <2>2
<1>12. lookup' = EndTurn(l)
  BY <1>1
<1>. HIDE DEF p, page
<1>13. Cardinality(page) < Min({PageLimit, ScanCap - lookup.scanned}) =>
         page = Signatures(p, lookup.cursors[p])
  BY <1>5 DEF limit
<1>14. PageRead(t, p, page)
  BY <1>2, <1>5, <1>9, <1>11, <1>12, <1>13 DEF PageRead
<1>. QED BY <1>3, <1>14

LEMMA ReadPageKeeps == LookupInv /\ ReadPage => LookupInv'
<1>. SUFFICES ASSUME LookupInv, ReadPage PROVE LookupInv'
  OBVIOUS
<1>1. /\ lookup # NoLookup /\ lookup.phase = "paging" /\ chain' = chain
      /\ ChainShape /\ Spending /\ Tracking /\ Covered /\ Marked
  BY DEF ReadPage, NoLookup, LookupInv
<1>2. PICK t, p, page : p \in Programs /\ PageRead(t, p, page)
  BY PageStep
<1>3. ChainShape' /\ Shape'
  BY <1>1, <1>2 DEF ChainShape, Shape, PageRead, Lookups
<1>4. Fresh(page) \cap lookup.seen = {}
  BY DEF Fresh
<1>5. Spending' /\ Tracking'
  BY <1>1, <1>2, <1>4 DEF Spending, Tracking, PageRead
<1>6. Complete'
  BY <1>2 DEF Complete, PageRead
<1>7. Marked'
  BY <1>1, <1>2 DEF Marked, PageRead, IsTarget, GenerationOf, Trades, Lookups
<1>8. Covered'
  <2>. SUFFICES ASSUME NEW q \in Programs, NEW i \in 1 .. lookup.began,
                       q \in ProgramsOf(chain[i]), chain[i] # "failed",
                       q \notin lookup'.active \/ lookup'.cursors[q] <= i
                PROVE  i \in lookup'.seen
    BY <1>1, <1>2 DEF Covered, PageRead
  <2>1. lookup.seen \subseteq lookup'.seen
    BY <1>2 DEF PageRead
  <2>2. CASE q \notin lookup.active \/ lookup.cursors[q] <= i
    BY <1>1, <2>1, <2>2 DEF Covered
  <2>3. CASE q \in lookup.active /\ ~ (lookup.cursors[q] <= i)
    <3>1. lookup.cursors \in [Programs -> 1 .. MaxLength + 1] /\ lookup.began \in 0 .. Len(chain)
      BY <1>2 DEF PageRead, Lookups
    <3>2. i < lookup.cursors[q] /\ i \in 1 .. Len(chain)
      BY <2>3, <3>1, LimitsAssumption
    <3>3. q = p
      BY <1>2, <2>3, <3>1 DEF PageRead, StillActive
    <3>4. i \in Signatures(p, lookup.cursors[p])
      BY <1>1, <3>2, <3>3 DEF Signatures, ChainShape
    <3>5. i \in page
      <4>1. CASE q \notin lookup'.active
        BY <1>2, <2>3, <3>3, <3>4, <4>1 DEF PageRead, StillActive
      <4>2. CASE lookup'.cursors[q] <= i
        <5>1. lookup'.cursors[p] = Before(p, page)
          BY <1>2, <3>1 DEF PageRead
        <5>2. page # {} /\ Min(page) <= i
          BY <2>3, <3>3, <4>2, <5>1 DEF Before
        <5>. QED BY <1>2, <3>4, <5>2 DEF PageRead
      <4>. QED BY <4>1, <4>2
    <3>6. i \in lookup.seen \/ i \in Fresh(page)
      BY <3>5 DEF Fresh
    <3>. QED BY <1>2, <3>6 DEF PageRead
  <2>. QED BY <2>2, <2>3
<1>. QED BY <1>3, <1>5, <1>6, <1>7, <1>8 DEF LookupInv

-----------------------------------------------------------------------------
(* Fetching a batch *)

(* The transactions the node returns and the row is found in. *)
Hits(absent, failing) == {i \in lookup.batch \ (absent \cup failing) : IsTarget(i)}

(* The record of a lookup after a batch, field by field. *)
BatchFetched(t, absent, failing) ==
  LET hits == Hits(absent, failing)
      visited == Visited(hits)
  IN /\ lookup \in Lookups(t) /\ lookup' \in Lookups(t)
     /\ visited \in SUBSET lookup.batch
     /\ Cardinality(visited) <= Budget
     /\ hits \cap visited = {} /\ Cardinality(visited) < Budget => visited = lookup.batch
     /\ lookup'.phase \in {"paging", "ended"}
     /\ lookup'.phase = "paging" => ~lookup'.found /\ Cardinality(lookup'.fetched) < MaxTransactions
     /\ lookup'.phase = "ended" =>
          \/ lookup'.found \/ ~ (Cardinality(lookup'.fetched) < MaxTransactions)
          \/ lookup'.active = {} \/ ~ (lookup'.scanned < ScanCap)
     /\ lookup'.cursors = lookup.cursors /\ lookup'.active = lookup.active
     /\ lookup'.scanned = lookup.scanned /\ lookup'.seen = lookup.seen
     /\ lookup'.batch = {} /\ lookup'.fetched = lookup.fetched \cup visited
     /\ lookup'.found = (hits \cap visited # {})
     /\ lookup'.transient = (lookup.transient \/ visited \cap failing # {})
     /\ lookup'.absent = lookup.absent \cup (visited \cap absent)
     /\ lookup'.began = lookup.began /\ lookup'.target = lookup.target

LEMMA BatchStep ==
  ASSUME LookupInv, FetchBatch
  PROVE  \E t, absent, failing : BatchFetched(t, absent, failing)
<1>1. lookup # NoLookup /\ chain' = chain
  BY DEF FetchBatch, NoLookup
<1>2. PICK t : lookup \in Lookups(t)
  BY <1>1 DEF LookupInv, Shape
<1>3. PICK absent, failing : lookup' = Fetched(absent, failing)
  BY DEF FetchBatch
<1>4. Len(chain) \in Nat /\ lookup.batch \in SUBSET (1 .. Len(chain))
  BY <1>2 DEF LookupInv, ChainShape, Lookups
<1>5. Budget \in Nat
  <2>1. lookup.fetched \in SUBSET (1 .. Len(chain))
    BY <1>2 DEF Lookups
  <2>2. Cardinality(lookup.fetched) \in Nat
    BY <1>4, <2>1, PositionsFinite
  <2>. QED BY <1>1, <2>2, LimitsAssumption DEF Budget, LookupInv, Spending
<1>. DEFINE hits == Hits(absent, failing)
            visited == Visited(hits)
            l == [lookup EXCEPT
                    !.fetched = @ \cup visited,
                    !.found = hits \cap visited # {},
                    !.transient = @ \/ visited \cap failing # {},
                    !.absent = @ \cup (visited \cap absent),
                    !.batch = {}]
<1>6. lookup' = IF GoesOn(l) THEN [l EXCEPT !.phase = "paging", !.program = Min(Turns(l, 1))]
                ELSE [l EXCEPT !.phase = "ended"]
  BY <1>3, Zenon DEF Fetched, Hits
<1>. HIDE DEF hits
<1>7. /\ visited \in SUBSET lookup.batch
      /\ Cardinality(visited) <= Budget
      /\ hits \cap visited = {} /\ Cardinality(visited) < Budget => visited = lookup.batch
  BY <1>4, <1>5, VisitedSound
<1>. HIDE DEF visited
<1>8. /\ l \in Lookups(t)
      /\ l.cursors = lookup.cursors /\ l.active = lookup.active
      /\ l.scanned = lookup.scanned /\ l.seen = lookup.seen
      /\ l.batch = {} /\ l.fetched = lookup.fetched \cup visited
      /\ l.found = (hits \cap visited # {})
      /\ l.transient = (lookup.transient \/ visited \cap failing # {})
      /\ l.absent = lookup.absent \cup (visited \cap absent)
      /\ l.began = lookup.began /\ l.target = lookup.target
  BY <1>2, <1>7 DEF Lookups
<1>. HIDE DEF l
<1>9. /\ lookup' \in Lookups(t)
      /\ lookup'.phase = IF GoesOn(l) THEN "paging" ELSE "ended"
      /\ lookup'.cursors = l.cursors /\ lookup'.active = l.active
      /\ lookup'.scanned = l.scanned /\ lookup'.seen = l.seen
      /\ lookup'.batch = l.batch /\ lookup'.fetched = l.fetched
      /\ lookup'.found = l.found /\ lookup'.transient = l.transient
      /\ lookup'.absent = l.absent /\ lookup'.began = l.began /\ lookup'.target = l.target
  <2>1. CASE GoesOn(l)
    <3>1. Turns(l, 1) # {} /\ Turns(l, 1) \in SUBSET {1, 2}
      <4>1. l.active \in SUBSET Programs /\ l.active # {}
        BY <1>8, <2>1 DEF GoesOn, Lookups
      <4>. QED BY <4>1 DEF Turns, ProgramOrder, Programs
    <3>2. Min(Turns(l, 1)) \in {1, 2}
      <4>1. Turns(l, 1) \in SUBSET Nat
        BY <3>1
      <4>2. Min(Turns(l, 1)) \in Turns(l, 1)
        BY <3>1, <4>1, MinIsLeast
      <4>. QED BY <3>1, <4>2
    <3>3. lookup' = [l EXCEPT !.phase = "paging", !.program = Min(Turns(l, 1))]
      BY <1>6, <2>1
    <3>. QED BY <1>8, <2>1, <3>2, <3>3 DEF Lookups
  <2>2. CASE ~GoesOn(l)
    <3>1. lookup' = [l EXCEPT !.phase = "ended"]
      BY <1>6, <2>2
    <3>. QED BY <1>8, <2>2, <3>1 DEF Lookups
  <2>. QED BY <2>1, <2>2
<1>10. GoesOn(l) <=> /\ ~lookup'.found /\ Cardinality(lookup'.fetched) < MaxTransactions
                     /\ lookup'.active # {} /\ lookup'.scanned < ScanCap
  BY <1>9 DEF GoesOn
<1>11. BatchFetched(t, absent, failing)
  BY <1>2, <1>7, <1>8, <1>9, <1>10 DEF BatchFetched, visited, hits
<1>. QED BY <1>11

LEMMA FetchBatchKeeps == LookupInv /\ FetchBatch => LookupInv'
<1>. SUFFICES ASSUME LookupInv, FetchBatch PROVE LookupInv'
  OBVIOUS
<1>1. /\ lookup # NoLookup /\ lookup.phase = "fetching" /\ chain' = chain
      /\ ChainShape /\ Spending /\ Tracking /\ Covered /\ Marked
  BY DEF FetchBatch, NoLookup, LookupInv
<1>2. PICK t, absent, failing : BatchFetched(t, absent, failing)
  BY BatchStep
<1>. DEFINE hits == Hits(absent, failing)
            visited == Visited(hits)
<1>3. ChainShape' /\ Shape'
  BY <1>1, <1>2 DEF ChainShape, Shape, BatchFetched, Lookups
<1>4. /\ Cardinality(lookup'.fetched) = Cardinality(lookup.fetched) + Cardinality(visited)
      /\ Cardinality(lookup.fetched) \in Nat /\ Cardinality(visited) \in Nat
  <2>1. /\ Len(chain) \in Nat
        /\ lookup.fetched \in SUBSET (1 .. Len(chain)) /\ visited \in SUBSET (1 .. Len(chain))
    BY <1>1, <1>2 DEF ChainShape, BatchFetched, Lookups
  <2>2. lookup.fetched \cap visited = {} /\ lookup'.fetched = lookup.fetched \cup visited
    BY <1>1, <1>2 DEF Spending, BatchFetched
  <2>. HIDE DEF visited
  <2>3. /\ IsFiniteSet(lookup.fetched) /\ IsFiniteSet(visited)
        /\ Cardinality(lookup.fetched) \in Nat /\ Cardinality(visited) \in Nat
    BY <2>1, PositionsFinite
  <2>4. Cardinality(lookup.fetched \cup visited) =
          Cardinality(lookup.fetched) + Cardinality(visited) - Cardinality(lookup.fetched \cap visited)
    BY <2>3, FS_Union
  <2>5. Cardinality(lookup.fetched \cap visited) = 0
    BY <2>2, FS_EmptySet, Zenon
  <2>. QED BY <2>2, <2>3, <2>4, <2>5
<1>5. Spending'
  <2>1. Cardinality(visited) <= Budget /\ lookup'.batch = {}
    BY <1>2 DEF BatchFetched
  <2>. HIDE DEF visited
  <2>. QED BY <1>4, <2>1, LimitsAssumption DEF Spending, Budget
<1>6. ~lookup'.found /\ Cardinality(lookup'.fetched) < MaxTransactions =>
        lookup'.seen = lookup'.fetched
  <2>. SUFFICES ASSUME ~lookup'.found, Cardinality(lookup'.fetched) < MaxTransactions
                PROVE  lookup'.seen = lookup'.fetched
    OBVIOUS
  <2>1. Cardinality(visited) < Budget
    <3>. HIDE DEF visited
    <3>. QED BY <1>4, LimitsAssumption DEF Budget
  <2>2. hits \cap visited = {}
    BY <1>2 DEF BatchFetched
  <2>. QED BY <1>1, <1>2, <2>1, <2>2 DEF BatchFetched, Tracking
<1>7. Tracking'
  BY <1>2, <1>6 DEF Tracking, BatchFetched
<1>8. Complete'
  BY <1>2, <1>6 DEF Complete, BatchFetched
<1>9. Covered'
  BY <1>1, <1>2 DEF Covered, BatchFetched
<1>10. Marked'
  <2>. SUFFICES ASSUME NEW i \in lookup'.fetched, i \notin lookup'.absent, IsTarget(i),
                       ~lookup'.found
                PROVE  lookup'.transient
    BY <1>1, <1>2 DEF Marked, IsTarget, GenerationOf, Trades, BatchFetched
  <2>1. CASE i \in lookup.fetched
    BY <1>1, <1>2, <2>1 DEF Marked, Tracking, BatchFetched
  <2>2. CASE i \notin lookup.fetched
    <3>1. i \in visited /\ i \in lookup.batch /\ i \notin absent
      BY <1>2, <2>2 DEF BatchFetched
    <3>2. i \notin hits
      BY <1>2, <3>1 DEF BatchFetched
    <3>3. i \in failing
      BY <3>1, <3>2 DEF Hits
    <3>. QED BY <1>2, <3>1, <3>3 DEF BatchFetched
  <2>. QED BY <2>1, <2>2
<1>. QED BY <1>3, <1>5, <1>7, <1>8, <1>9, <1>10 DEF LookupInv

-----------------------------------------------------------------------------
(* The other steps *)

(* What is finalized during a lookup is not its concern.                   *)
LEMMA FinalizeKeeps == LookupInv /\ Finalize => LookupInv'
<1>. SUFFICES ASSUME LookupInv, Finalize PROVE LookupInv'
  OBVIOUS
<1>1. PICK kind \in Kinds : chain' = Append(chain, kind)
  BY DEF Finalize
<1>2. /\ chain \in Seq(Kinds) /\ Len(chain) \in Nat /\ Len(chain) < MaxLength
      /\ lookup' = lookup
  BY DEF Finalize, LookupInv, ChainShape
<1>3. /\ chain' \in Seq(Kinds) /\ Len(chain') = Len(chain) + 1
      /\ \A i \in 1 .. Len(chain) : chain'[i] = chain[i]
  BY <1>1, <1>2
<1>4. ChainShape'
  BY <1>2, <1>3, LimitsAssumption DEF ChainShape
<1>5. SUFFICES ASSUME lookup # NoLookup
               PROVE  Shape' /\ Spending' /\ Tracking' /\ Covered' /\ Complete' /\ Marked'
  BY <1>2, <1>4 DEF LookupInv, NoLookup
<1>6. Spending /\ Tracking /\ Covered /\ Complete /\ Marked
  BY <1>5 DEF LookupInv
<1>7. PICK t : lookup \in Lookups(t)
  BY <1>5 DEF LookupInv, Shape
<1>8. 1 .. Len(chain) \in SUBSET (1 .. Len(chain')) /\ 0 .. Len(chain) \in SUBSET (0 .. Len(chain'))
  BY <1>2, <1>3
<1>9. Shape'
  <2>1. lookup' \in Lookups(t)'
    BY <1>2, <1>7, <1>8 DEF Lookups
  <2>. QED BY <2>1 DEF Shape
<1>10. Spending' /\ Tracking' /\ Complete'
  BY <1>2, <1>6 DEF Spending, Tracking, Complete
<1>11. lookup.fetched \in SUBSET (1 .. Len(chain)) /\ lookup.began \in 0 .. Len(chain)
  BY <1>7 DEF Lookups
<1>12. Covered'
  <2>1. \A i \in 1 .. lookup.began : chain'[i] = chain[i]
    BY <1>2, <1>3, <1>11
  <2>. QED BY <1>2, <1>6, <2>1 DEF Covered
<1>13. Marked'
  <2>1. ASSUME NEW i \in 1 .. Len(chain) PROVE IsTarget(i)' <=> IsTarget(i)
    <3>1. {j \in Trades(chain') : j <= i} = {j \in Trades(chain) : j <= i}
      BY <1>2, <1>3 DEF Trades
    <3>2. GenerationOf(i)' = GenerationOf(i)
      BY <3>1 DEF GenerationOf
    <3>. QED BY <1>2, <1>3, <3>2 DEF IsTarget
  <2>. QED BY <1>2, <1>6, <1>11, <2>1 DEF Marked
<1>. QED BY <1>9, <1>10, <1>12, <1>13

(* A lookup begins with everything before its cursors.                     *)
LEMMA AskExactKeeps == LookupInv /\ AskExact => LookupInv'
<1>. SUFFICES ASSUME LookupInv, AskExact PROVE LookupInv'
  OBVIOUS
<1>1. lookup' = NewLookup(card.target) /\ chain' = chain /\ ChainShape
  BY DEF AskExact, LookupInv
<1>2. Len(chain) \in Nat /\ Len(chain) <= MaxLength
  BY <1>1 DEF ChainShape
<1>3. NewLookup(card.target) \in Lookups(card.target)
  BY <1>2, LimitsAssumption DEF NewLookup, Lookups
<1>4. ChainShape' /\ Shape'
  BY <1>1, <1>3 DEF ChainShape, Shape, Lookups
<1>5. Spending' /\ Tracking' /\ Complete' /\ Marked'
  BY <1>1, FS_EmptySet, LimitsAssumption
     DEF NewLookup, Spending, Tracking, Complete, Marked
<1>6. Covered'
  BY <1>1, <1>2, LimitsAssumption DEF NewLookup, Covered
<1>. QED BY <1>4, <1>5, <1>6 DEF LookupInv

(* A lookup that fails or is refused asks for nothing more.                *)
LEMMA StopKeeps == LookupInv /\ (Refuse \/ FailLookup) => LookupInv'
<1>. SUFFICES ASSUME LookupInv, Refuse \/ FailLookup PROVE LookupInv'
  OBVIOUS
<1>1. PICK phase \in {"refused", "failed"} : lookup' = [lookup EXCEPT !.phase = phase]
  BY DEF Refuse, FailLookup
<1>2. lookup # NoLookup /\ chain' = chain /\ ChainShape /\ Spending /\ Covered /\ Marked
  BY DEF Refuse, FailLookup, NoLookup, LookupInv
<1>3. PICK t : lookup \in Lookups(t)
  BY <1>2 DEF LookupInv, Shape
<1>4. /\ lookup' \in Lookups(t) /\ lookup'.phase = phase
      /\ lookup'.fetched = lookup.fetched /\ lookup'.batch = lookup.batch
      /\ lookup'.seen = lookup.seen /\ lookup'.cursors = lookup.cursors
      /\ lookup'.active = lookup.active /\ lookup'.began = lookup.began
      /\ lookup'.found = lookup.found /\ lookup'.transient = lookup.transient
      /\ lookup'.absent = lookup.absent /\ lookup'.target = lookup.target
  BY <1>1, <1>3 DEF Lookups
<1>5. ChainShape' /\ Shape'
  BY <1>2, <1>4 DEF ChainShape, Shape, Lookups
<1>6. Spending' /\ Tracking' /\ Covered' /\ Complete'
  BY <1>2, <1>4 DEF Spending, Tracking, Covered, Complete
<1>7. Marked'
  BY <1>2, <1>4 DEF Marked, IsTarget, GenerationOf, Trades
<1>. QED BY <1>5, <1>6, <1>7 DEF LookupInv

LEMMA SameLookupKeeps == LookupInv /\ UNCHANGED <<chain, lookup>> => LookupInv'
BY DEF LookupInv, ChainShape, Shape, Lookups, Spending, Tracking, Covered, Complete, Marked,
       IsTarget, GenerationOf, Trades

LEMMA AnswerKeeps == ASSUME NEW arrives \in BOOLEAN PROVE LookupInv /\ Answer(arrives) => LookupInv'
BY DEF LookupInv, ChainShape, Answer

LEMMA LookupInvInductive == Init => LookupInv
BY LimitsAssumption DEF Init, LookupInv, ChainShape

LEMMA LookupInvStep == LookupInv /\ [Next]_vars => LookupInv'
<1>. SUFFICES ASSUME LookupInv, [Next]_vars PROVE LookupInv'
  OBVIOUS
<1>1. CASE Finalize
  BY <1>1, FinalizeKeeps
<1>2. CASE \E target \in Targets : Visit(target)
  BY <1>2, SameLookupKeeps DEF Visit
<1>3. CASE AskStats
  BY <1>3, SameLookupKeeps DEF AskStats
<1>4. CASE AskTimeline
  BY <1>4, SameLookupKeeps DEF AskTimeline
<1>5. CASE AskInventory \/ AskLast
  BY <1>5, SameLookupKeeps DEF AskInventory, AskLast, AskList
<1>6. CASE AskExact
  BY <1>6, AskExactKeeps
<1>7. CASE ReadPage
  BY <1>7, ReadPageKeeps
<1>8. CASE FetchBatch
  BY <1>8, FetchBatchKeeps
<1>9. CASE Refuse \/ FailLookup
  BY <1>9, StopKeeps
<1>10. CASE \E arrives \in BOOLEAN : Answer(arrives)
  BY <1>10, AnswerKeeps
<1>11. CASE Forget
  BY <1>11, SameLookupKeeps DEF Forget
<1>12. CASE UNCHANGED vars
  BY <1>12, SameLookupKeeps DEF vars
<1>. QED BY <1>1, <1>2, <1>3, <1>4, <1>5, <1>6, <1>7, <1>8, <1>9, <1>10, <1>11, <1>12 DEF Next

LEMMA LookupInvAlways == Spec => []LookupInv
<1>1. Init => LookupInv
  BY LookupInvInductive
<1>2. LookupInv /\ [Next]_vars => LookupInv'
  BY LookupInvStep
<1>. QED BY <1>1, <1>2, PTL DEF Spec

-----------------------------------------------------------------------------
(* The theorems *)

(* An exact lookup that ends without the trade, without a mark and within  *)
(* its budgets has looked at every transaction that was finalized when it  *)
(* began: for every length of the chain, page size, budget and chunk size. *)
THEOREM SearchesComplete == Spec => []SearchIsComplete
<1>1. LookupInv => SearchIsComplete
  <2>. SUFFICES ASSUME LookupInv, lookup.phase = "ended", ~lookup.found,
                       lookup.scanned < ScanCap,
                       Cardinality(lookup.fetched) < MaxTransactions,
                       NEW i \in 1 .. lookup.began, chain[i] # "failed"
                PROVE  i \in lookup.fetched
    BY DEF SearchIsComplete
  <2>1. lookup # NoLookup
    BY DEF NoLookup
  <2>2. lookup.active = {} /\ lookup.seen \subseteq lookup.fetched
    BY <2>1 DEF LookupInv, Complete
  <2>3. "soulGenerator" \in Programs /\ "soulGenerator" \in ProgramsOf(chain[i])
    BY DEF Programs, ProgramsOf
  <2>4. i \in lookup.seen
    BY <2>1, <2>2, <2>3 DEF LookupInv, Covered
  <2>. QED BY <2>2, <2>4
<1>. QED BY <1>1, LookupInvAlways, PTL

(* A lookup asks for no more signatures and transactions than its budgets, *)
(* and for no transaction twice.                                           *)
THEOREM BudgetsKept == Spec => []WithinBudgets
<1>1. LookupInv => WithinBudgets
  BY LimitsAssumption DEF LookupInv, WithinBudgets, Shape, Lookups, Spending
<1>. QED BY <1>1, LookupInvAlways, PTL

(* A failure of the node never hides a trade that is there behind an       *)
(* unmarked answer.                                                        *)
THEOREM FailuresMarked == Spec => []FailuresAreMarked
<1>1. LookupInv => FailuresAreMarked
  <2>. SUFFICES ASSUME LookupInv, lookup.phase = "ended", ~Partial(lookup), ~lookup.found,
                       NEW i \in lookup.fetched \ lookup.absent, IsTarget(i)
                PROVE  FALSE
    BY DEF FailuresAreMarked
  <2>1. lookup # NoLookup
    BY DEF NoLookup
  <2>2. lookup.transient
    BY <2>1 DEF LookupInv, Marked
  <2>. QED BY <2>2 DEF Partial
<1>. QED BY <1>1, LookupInvAlways, PTL

=============================================================================
