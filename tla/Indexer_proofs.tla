---------------------------- MODULE Indexer_proofs ----------------------------
(***************************************************************************)
(* Proofs about Indexer for chains of every length: the shapes of its      *)
(* state, the agreement of the two event tables, the labels of rows,       *)
(* the writes a stale row has missed, and what a stop leaves in the file.  *)
(***************************************************************************)
EXTENDS Indexer, WellFoundedInduction, TLAPS

(* Every nonempty set of natural numbers has a least element. *)
LEMMA LeastNat ==
  ASSUME NEW T \in SUBSET Nat, T # {}
  PROVE  \E m \in T : \A n \in T : m <= n
<1>. DEFINE Below == {ss \in Nat \X Nat : ss[1] < ss[2]}
<1>1. IsWellFoundedOn(Below, Nat)
  BY NatLessThanWellFounded DEF OpToRel
<1>. HIDE DEF Below
<1>2. PICK m \in T : \A n \in T : ~ (<<n, m>> \in Below)
  BY <1>1, WFMin
<1>3. \A n \in T : m <= n
  <2>. TAKE n \in T
  <2>1. m \in Nat /\ n \in Nat
    OBVIOUS
  <2>2. ~ (n < m)
    BY <1>2, <2>1 DEF Below
  <2>. QED BY <2>1, <2>2
<1>. QED BY <1>3

(* So a nonempty bounded set has a greatest element. *)
LEMMA GreatestBelow ==
  ASSUME NEW n \in Nat, NEW S \in SUBSET (0 .. n), S # {}
  PROVE  \E m \in S : \A x \in S : m >= x
<1>. DEFINE Gaps == {n - x : x \in S}
<1>1. Gaps \in SUBSET Nat /\ Gaps # {}
  <2>1. \A x \in S : n - x \in Nat
    OBVIOUS
  <2>2. PICK x \in S : TRUE
    OBVIOUS
  <2>3. n - x \in Gaps
    OBVIOUS
  <2>. QED BY <2>1, <2>3
<1>2. PICK g \in Gaps : \A h \in Gaps : g <= h
  <2>. HIDE DEF Gaps
  <2>. QED BY <1>1, LeastNat
<1>3. PICK m \in S : g = n - m
  BY <1>2
<1>4. \A x \in S : m >= x
  <2>. TAKE x \in S
  <2>1. n - x \in Gaps
    OBVIOUS
  <2>2. g <= n - x
    BY <1>2, <2>1
  <2>3. m \in 0 .. n /\ x \in 0 .. n
    OBVIOUS
  <2>. QED BY <1>3, <2>2, <2>3
<1>. QED BY <1>4

(* The greatest element of a bounded set of slots. *)
LEMMA MaxIsGreatest ==
  ASSUME NEW n \in Nat, NEW S \in SUBSET (0 .. n), S # {}
  PROVE  Max(S) \in S /\ \A x \in S : Max(S) >= x
BY GreatestBelow DEF Max

(* The content of an account is the last slot that wrote it. *)
LEMMA ContentIsLast ==
  ASSUME NEW kind, NEW n \in Nat
  PROVE  /\ Content(kind, n) \in 0 .. n
         /\ \A s \in Writes(kind, n) : s <= Content(kind, n)
<1>. DEFINE S == Writes(kind, n) \cup {0}
<1>1. S \in SUBSET (0 .. n) /\ S # {}
  BY DEF Writes
<1>2. Content(kind, n) = Max(S)
  BY DEF Content
<1>. HIDE DEF S
<1>3. Max(S) \in S /\ \A x \in S : Max(S) >= x
  BY <1>1, MaxIsGreatest
<1>4. \A s \in Writes(kind, n) : s \in S /\ s \in Int
  BY DEF S, Writes
<1>. QED BY <1>1, <1>2, <1>3, <1>4

-----------------------------------------------------------------------------
(* Types *)

(* Inserting an event keeps the shape of the tables. *)
LEMMA InsertType ==
  ASSUME NEW tables \in Tables, NEW s \in Slots, NEW time \in BlockTimes
  PROVE  /\ Insert(tables, s, time) \in Tables
         /\ Insert(tables, s, time).rows = tables.rows
         /\ Insert(tables, s, time).events =
              [tables.events EXCEPT ![s] = InsertEvent(@, time)]
         /\ Insert(tables, s, time).generations =
              [tables.generations EXCEPT ![s] = InsertGeneration(@, time)]
<1>1. Insert(tables, s, time) =
        [rows |-> tables.rows,
         events |-> [tables.events EXCEPT ![s] = InsertEvent(@, time)],
         generations |-> [tables.generations EXCEPT ![s] = InsertGeneration(@, time)]]
  <2>. DEFINE ev == InsertEvent(tables.events[s], time)
              gen == InsertGeneration(tables.generations[s], time)
  <2>1. Insert(tables, s, time) =
          [tables EXCEPT !.events[s] = ev, !.generations[s] = gen]
    BY DEF Insert
  <2>. HIDE DEF ev, gen
  <2>2. [tables EXCEPT !.events[s] = ev, !.generations[s] = gen] =
          [rows |-> tables.rows,
           events |-> [tables.events EXCEPT ![s] = ev],
           generations |-> [tables.generations EXCEPT ![s] = gen]]
    <3>. DEFINE first == [rows |-> tables.rows,
                          events |-> [tables.events EXCEPT ![s] = ev],
                          generations |-> tables.generations]
    <3>1. [tables EXCEPT !.events[s] = ev] = first
      BY DEF Tables
    <3>2. [tables EXCEPT !.events[s] = ev, !.generations[s] = gen] =
            [[tables EXCEPT !.events[s] = ev] EXCEPT !.generations[s] = gen]
      BY DEF Tables
    <3>3. [first EXCEPT !.generations[s] = gen] =
            [rows |-> tables.rows,
             events |-> [tables.events EXCEPT ![s] = ev],
             generations |-> [tables.generations EXCEPT ![s] = gen]]
      OBVIOUS
    <3>. QED BY <3>1, <3>2, <3>3
  <2>. QED BY <2>1, <2>2 DEF ev, gen
<1>2. /\ InsertEvent(tables.events[s], time) \in {"none"} \cup BlockTimes
      /\ InsertGeneration(tables.generations[s], time) \in {"none"} \cup BlockTimes
  BY DEF InsertEvent, InsertGeneration, Tables
<1>3. /\ tables.rows \in [Kinds -> [content : 0 .. MaxSlot, slot : -1 .. MaxSlot]]
      /\ tables.events \in [Slots -> {"none"} \cup BlockTimes]
      /\ tables.generations \in [Slots -> {"none"} \cup BlockTimes]
  BY DEF Tables
<1>4. Insert(tables, s, time) \in Tables
  BY <1>1, <1>2, <1>3 DEF Tables
<1>. QED BY <1>1, <1>4

(* An upsert writes one row, or none, and no event. *)
LEMMA UpsertType ==
  ASSUME NEW tables \in Tables, NEW kind \in Kinds,
         NEW content \in 0 .. MaxSlot, NEW slot \in 0 .. MaxSlot
  PROVE  /\ Upsert(tables, kind, content, slot) \in Tables
         /\ Upsert(tables, kind, content, slot).events = tables.events
         /\ Upsert(tables, kind, content, slot).generations = tables.generations
         /\ \A k \in Kinds :
              Upsert(tables, kind, content, slot).rows[k] \in
                {tables.rows[k]} \cup
                (IF k = kind THEN {[content |-> content, slot |-> slot]} ELSE {})
<1>. DEFINE written == [rows |-> [tables.rows EXCEPT ![kind] =
                                    [content |-> content, slot |-> slot]],
                        events |-> tables.events,
                        generations |-> tables.generations]
<1>1. [tables EXCEPT !.rows[kind] = [content |-> content, slot |-> slot]] = written
  BY DEF Tables
<1>2. Upsert(tables, kind, content, slot) \in {tables, written}
  BY <1>1 DEF Upsert
<1>3. /\ tables.rows \in [Kinds -> [content : 0 .. MaxSlot, slot : -1 .. MaxSlot]]
      /\ tables.events \in [Slots -> {"none"} \cup BlockTimes]
      /\ tables.generations \in [Slots -> {"none"} \cup BlockTimes]
  BY DEF Tables
<1>4. [content |-> content, slot |-> slot] \in [content : 0 .. MaxSlot, slot : -1 .. MaxSlot]
  BY SlotBound
<1>5. written \in Tables
  BY <1>3, <1>4 DEF Tables
<1>6. \A k \in Kinds : written.rows[k] =
         IF k = kind THEN [content |-> content, slot |-> slot] ELSE tables.rows[k]
  BY <1>3
<1>7. \A k \in Kinds :
         written.rows[k] \in
           {tables.rows[k]} \cup
           (IF k = kind THEN {[content |-> content, slot |-> slot]} ELSE {})
  BY <1>6
<1>8. written.events = tables.events /\ written.generations = tables.generations
  OBVIOUS
<1>. HIDE DEF written
<1>9. CASE Upsert(tables, kind, content, slot) = tables
  BY <1>9
<1>10. CASE Upsert(tables, kind, content, slot) = written
  BY <1>5, <1>7, <1>8, <1>10
<1>. QED BY <1>2, <1>9, <1>10

(* The empty tables have their shape. *)
LEMMA EmptyType == Empty \in Tables
<1>1. NoRow \in [content : 0 .. MaxSlot, slot : -1 .. MaxSlot]
  BY SlotBound DEF NoRow
<1>. QED BY <1>1 DEF Empty, NoEvents, Tables

(* The process may not be past what its node has, and a label is a slot    *)
(* the node had; nothing is left of it while it is down.                   *)
LabelInv ==
  /\ label \in 0 .. node
  /\ phase = "down" => label = 0

Typed == TypeOK /\ Len(hist) \in 0 .. MaxSlot /\ LabelInv

(* At the start everything is empty. *)
LEMMA TypeInit == Init => Typed
<1>1. <<>> \in Seq(Kinds) /\ Len(<<>>) = 0
  OBVIOUS
<1>. QED BY <1>1, SlotBound, EmptyType DEF Init, Typed, TypeOK, LabelInv

(* A snapshot writes a row within the chain. *)
LEMMA TypeSnapshot ==
  ASSUME Typed, TakeSnapshot
  PROVE  Typed'
<1>1. SnapshotKind \in Kinds
  BY DEF SnapshotKind, Kinds
<1>2. node \in Nat /\ node <= MaxSlot /\ label \in 0 .. MaxSlot
  BY SlotBound DEF Typed, TypeOK, LabelInv
<1>3. Content(SnapshotKind, node) \in 0 .. MaxSlot
  BY <1>2, SlotBound, ContentIsLast
<1>4. mem' \in Tables
  <2>1. mem \in Tables
    BY DEF Typed, TypeOK
  <2>2. Upsert(mem, SnapshotKind, Content(SnapshotKind, node), label) \in Tables
    BY <1>1, <1>2, <1>3, <2>1, UpsertType
  <2>. QED BY <2>1, <2>2 DEF TakeSnapshot
<1>5. missed' \subseteq Slots
  <2>1. Writes(SnapshotKind, node) \subseteq Slots
    BY <1>2, SlotBound DEF Writes, Slots
  <2>2. missed \subseteq Slots
    BY DEF Typed, TypeOK
  <2>3. \/ missed' = missed \ Writes(SnapshotKind, node)
        \/ missed' = missed \cup {s \in Writes(SnapshotKind, node) :
                                    s > mem.rows[SnapshotKind].content}
    BY DEF TakeSnapshot
  <2>. QED BY <2>1, <2>2, <2>3
<1>6. /\ label' = 0 /\ phase' # "down"
      /\ UNCHANGED <<hist, node, image, disk, pending, waited, due>>
  BY DEF TakeSnapshot
<1>. QED BY <1>2, <1>4, <1>5, <1>6, SlotBound DEF Typed, TypeOK, LabelInv

(* A slot that is finalized exists, and writes within the chain. *)
LEMMA TypeAdvance ==
  ASSUME Typed, NEW heard \in BOOLEAN, NEW copies \in SUBSET (Slots \X Kinds),
         Advance(heard, copies)
  PROVE  Typed'
<1>1. /\ node \in Nat /\ node + 1 \in 1 .. Len(hist) /\ Len(hist) <= MaxSlot
      /\ hist \in Seq(Kinds) /\ node' = node + 1
  BY SlotBound DEF Typed, TypeOK, Advance
<1>2. hist[node + 1] \in Kinds /\ node + 1 \in Slots /\ node + 1 \in 0 .. MaxSlot
  BY <1>1, SlotBound DEF Slots, Typed
<1>3. mem' \in Tables
  <2>1. mem \in Tables
    BY DEF Typed, TypeOK
  <2>2. Upsert(mem, hist[node + 1], node + 1, node + 1) \in Tables
    BY <1>2, <2>1, UpsertType
  <2>. QED BY <2>1, <2>2 DEF Advance
<1>4. missed' \subseteq Slots /\ pending' \subseteq Slots \X Kinds
  BY <1>2 DEF Advance, Typed, TypeOK
<1>5. UNCHANGED <<hist, phase, label, image, disk, waited, due>>
  BY DEF Advance
<1>6. node' \in 0 .. Len(hist') /\ label' \in 0 .. node' /\ label' \in 0 .. MaxSlot
  BY <1>1, <1>5 DEF Typed, TypeOK, LabelInv
<1>. QED BY <1>3, <1>4, <1>5, <1>6 DEF Typed, TypeOK, LabelInv

(* Every step keeps the shapes. *)
LEMMA TypeStep == Typed /\ [Next]_vars => Typed'
<1>. SUFFICES ASSUME Typed, [Next]_vars PROVE Typed'
  OBVIOUS
<1>0. /\ hist \in Seq(Kinds) /\ Len(hist) \in 0 .. MaxSlot /\ node \in 0 .. Len(hist)
      /\ {mem, image, disk} \subseteq Tables /\ label \in 0 .. node
      /\ waited \cup pending \subseteq Slots \X Kinds /\ due \cup missed \subseteq Slots
      /\ MaxSlot \in Nat /\ label \in 0 .. MaxSlot
  BY SlotBound DEF Typed, TypeOK, LabelInv
<1>1. ASSUME NEW kind \in Kinds, Write(kind) PROVE Typed'
  <2>1. /\ hist' \in Seq(Kinds) /\ Len(hist') = Len(hist) + 1 /\ Len(hist) < MaxSlot
    BY <1>0, <1>1 DEF Write
  <2>2. UNCHANGED <<node, phase, label, mem, image, disk, pending, waited, due, missed>>
    BY <1>1 DEF Write
  <2>3. Len(hist') \in 0 .. MaxSlot /\ node' \in 0 .. Len(hist')
    BY <1>0, <2>1, <2>2
  <2>. QED BY <1>0, <2>1, <2>2, <2>3 DEF Typed, TypeOK, LabelInv
<1>2. ASSUME NEW reached \in 0 .. Len(hist), Open(reached) PROVE Typed'
  <2>1. label = 0 /\ label' = 0 /\ node' = reached /\ phase' # "down"
    BY <1>2 DEF Open, Typed, LabelInv
  <2>2. mem' = disk /\ image' = disk /\ disk' = Empty
    BY <1>2 DEF Open
  <2>3. UNCHANGED <<hist, pending, waited, due, missed>>
    BY <1>2 DEF Open
  <2>. QED BY <1>0, <1>2, <2>1, <2>2, <2>3, EmptyType DEF Typed, TypeOK, LabelInv
<1>3. CASE Written
  <2>1. /\ disk' = image /\ image' = Empty /\ waited' = pending /\ phase' # "down"
        /\ UNCHANGED <<hist, node, label, mem, pending, due, missed>>
    BY <1>3 DEF Written
  <2>. QED BY <1>0, <2>1, EmptyType DEF Typed, TypeOK, LabelInv
<1>4. ASSUME Gone, UNCHANGED <<hist, node>>, disk' \in {disk, image} PROVE Typed'
  BY <1>0, <1>4, EmptyType DEF Gone, Typed, TypeOK, LabelInv
<1>5. ASSUME NEW answered \in BOOLEAN, ReadSlot(answered) PROVE Typed'
  <2>1. /\ label' \in {node, 0} /\ phase' # "down"
        /\ UNCHANGED <<hist, node, mem, image, disk, pending, waited, due, missed>>
    BY <1>5 DEF ReadSlot, SlotSeen
  <2>2. label' \in 0 .. node' /\ label' \in 0 .. MaxSlot
    BY <1>0, <2>1
  <2>. QED BY <1>0, <2>1, <2>2 DEF Typed, TypeOK, LabelInv
<1>6. ASSUME phase' # "down",
             UNCHANGED <<hist, node, label, mem, image, disk, pending, waited, due, missed>>
      PROVE  Typed'
  BY <1>0, <1>6 DEF Typed, TypeOK, LabelInv
<1>7. ASSUME NEW copy \in Slots \X Kinds, NEW time \in BlockTimes, FinishLog(copy, time)
      PROVE  Typed'
  <2>1. mem' \in Tables
    BY <1>0, <1>7, InsertType DEF FinishLog
  <2>2. /\ pending' \subseteq pending
        /\ UNCHANGED <<hist, node, phase, label, image, disk, waited, due, missed>>
    BY <1>7 DEF FinishLog
  <2>. QED BY <1>0, <2>1, <2>2 DEF Typed, TypeOK, LabelInv
<1>8. CASE AskStop
  <2>1. /\ phase' # "down" /\ waited' = pending
        /\ UNCHANGED <<hist, node, label, mem, image, disk, pending, missed>>
    BY <1>8 DEF AskStop
  <2>2. due' \subseteq Slots
    BY <1>0, <1>8 DEF AskStop, Events
  <2>. QED BY <1>0, <2>1, <2>2 DEF Typed, TypeOK, LabelInv
<1>9. CASE Flush
  <2>1. /\ phase' # "down" /\ image' = mem /\ disk' = Empty
        /\ UNCHANGED <<hist, node, label, mem, pending, waited, due, missed>>
    BY <1>9 DEF Flush
  <2>. QED BY <1>0, <2>1, EmptyType DEF Typed, TypeOK, LabelInv
<1>10. CASE UNCHANGED vars
  BY <1>0, <1>10 DEF vars, Typed, TypeOK, LabelInv
<1>11. CASE SnapshotFails \/ Subscribe
  BY <1>6, <1>11 DEF SnapshotFails, Subscribe
<1>12. CASE Close \/ Crash
  BY <1>4, <1>12 DEF Close, Crash
<1>. QED
  BY <1>1, <1>2, <1>3, <1>5, <1>7, <1>8, <1>9, <1>10, <1>11, <1>12,
     TypeSnapshot, TypeAdvance DEF Next, Start, AnyAdvance, AnyLog

(* The tables, in memory, on their way to the file and in it, keep their   *)
(* shape.                                                                  *)
THEOREM TypeCorrect == Spec => []TypeOK
<1>1. Typed => TypeOK
  BY DEF Typed
<1>. QED BY <1>1, TypeInit, TypeStep, PTL DEF Spec

-----------------------------------------------------------------------------
(* The event tables *)

Match(tables) ==
  \A s \in Slots :
    /\ tables.events[s] = "none" <=> tables.generations[s] = "none"
    /\ tables.events[s] = "known" => tables.generations[s] = "known"

MatchInv == \A tables \in {mem, image, disk} : Match(tables)

(* A delivery writes both tables, the later one filling in a block time.   *)
LEMMA MatchLog ==
  ASSUME NEW tables \in Tables, Match(tables), NEW s \in Slots, NEW time \in BlockTimes
  PROVE  Match(Insert(tables, s, time))
<1>1. /\ tables.events \in [Slots -> {"none"} \cup BlockTimes]
      /\ tables.generations \in [Slots -> {"none"} \cup BlockTimes]
  BY DEF Tables
<1>2. ASSUME NEW r \in Slots
      PROVE  /\ Insert(tables, s, time).events[r] =
                  IF r = s THEN InsertEvent(tables.events[s], time) ELSE tables.events[r]
             /\ Insert(tables, s, time).generations[r] =
                  IF r = s THEN InsertGeneration(tables.generations[s], time)
                           ELSE tables.generations[r]
  <2>1. /\ Insert(tables, s, time).events =
             [tables.events EXCEPT ![s] = InsertEvent(@, time)]
        /\ Insert(tables, s, time).generations =
             [tables.generations EXCEPT ![s] = InsertGeneration(@, time)]
    BY InsertType
  <2>. QED BY <1>1, <2>1
<1>3. time \in {"known", "unknown"}
  BY DEF BlockTimes
<1>. QED BY <1>1, <1>2, <1>3 DEF Match, InsertEvent, InsertGeneration

(* Every step keeps the tables in agreement. *)
LEMMA MatchStep == Typed /\ MatchInv /\ [Next]_vars => MatchInv'
<1>. SUFFICES ASSUME Typed, MatchInv, [Next]_vars PROVE MatchInv'
  OBVIOUS
<1>0. {mem, image, disk} \subseteq Tables /\ Match(mem) /\ Match(image) /\ Match(disk)
  BY DEF Typed, TypeOK, MatchInv
<1>1. Match(Empty)
  BY DEF Match, Empty, NoEvents
<1>2. ASSUME {mem', image', disk'} \subseteq {mem, image, disk, Empty} PROVE MatchInv'
  BY <1>0, <1>1, <1>2 DEF MatchInv
<1>3. ASSUME Match(mem'), UNCHANGED <<image, disk>> PROVE MatchInv'
  BY <1>0, <1>3 DEF MatchInv
<1>4. ASSUME NEW copy \in Slots \X Kinds, NEW time \in BlockTimes, FinishLog(copy, time)
      PROVE  MatchInv'
  <2>1. Match(mem')
    BY <1>0, <1>4, MatchLog DEF FinishLog
  <2>. QED BY <1>3, <1>4, <2>1 DEF FinishLog
<1>5. ASSUME TakeSnapshot \/ (\E heard \in BOOLEAN, copies \in SUBSET (Slots \X Kinds) :
                                Advance(heard, copies))
      PROVE  MatchInv'
  <2>1. \A kind, content, slot :
           /\ Upsert(mem, kind, content, slot).events = mem.events
           /\ Upsert(mem, kind, content, slot).generations = mem.generations
    BY <1>0 DEF Upsert, Tables
  <2>2. mem'.events = mem.events /\ mem'.generations = mem.generations
    BY <1>5, <2>1 DEF TakeSnapshot, Advance
  <2>3. UNCHANGED <<image, disk>>
    BY <1>5 DEF TakeSnapshot, Advance
  <2>. QED BY <1>0, <1>3, <2>2, <2>3 DEF Match
<1>. QED
  BY <1>2, <1>4, <1>5
     DEF Next, Start, AnyAdvance, AnyLog, Write, Open, ReadSlot, Subscribe,
         SnapshotFails, AskStop, Flush, Written, Close, Crash, Gone, vars

(* The two event tables agree however deliveries and block times           *)
(* interleave, across stops, crashes and restarts.                         *)
THEOREM EventsMatch == Spec => []GenerationsMatchEvents
<1>1. Init => MatchInv
  BY DEF Init, MatchInv, Match, Empty, NoEvents
<1>2. MatchInv => GenerationsMatchEvents
  BY DEF MatchInv, Match, GenerationsMatchEvents
<1>. QED BY <1>1, <1>2, TypeInit, TypeStep, MatchStep, PTL DEF Spec

-----------------------------------------------------------------------------
(* The labels of rows *)

(* Besides what LabelsNotAhead says of the slots there are, a label is     *)
(* never past the chain: a slot still to come is later than every label.   *)
Sound(tables, chain) ==
  \A kind \in Kinds :
    /\ tables.rows[kind].slot <= Len(chain)
    /\ \A s \in 1 .. Len(chain) :
         chain[s] = kind /\ s > tables.rows[kind].content => s > tables.rows[kind].slot

SoundInv == \A tables \in {mem, image, disk} : Sound(tables, hist)

(* The next slot keeps every row sound. *)
LEMMA SoundWrite ==
  ASSUME Typed, NEW tables \in Tables, Sound(tables, hist), NEW kind \in Kinds, Write(kind)
  PROVE  Sound(tables, hist')
<1>1. /\ Len(hist') = Len(hist) + 1 /\ Len(hist) \in Nat
      /\ \A s \in 1 .. Len(hist) : hist'[s] = hist[s]
  BY DEF Write, Typed, TypeOK
<1>2. \A k \in Kinds : tables.rows[k].slot \in Int
  BY SlotBound DEF Tables
<1>. QED BY <1>1, <1>2 DEF Sound

(* A snapshot writes what its node has, under a slot the node had before.  *)
LEMMA SoundSnapshot ==
  ASSUME Typed, SoundInv, TakeSnapshot
  PROVE  Sound(mem', hist)
<1>. DEFINE kind == SnapshotKind
            content == Content(kind, node)
<1>1. kind \in Kinds
  BY DEF SnapshotKind, Kinds
<1>2. /\ node \in 0 .. Len(hist) /\ Len(hist) \in 0 .. MaxSlot /\ label \in 0 .. node
      /\ MaxSlot \in Nat /\ mem \in Tables /\ Sound(mem, hist)
  BY SlotBound DEF Typed, TypeOK, LabelInv, SoundInv
<1>3. content \in 0 .. node /\ \A s \in Writes(kind, node) : s <= content
  BY <1>2, ContentIsLast
<1>4. mem' \in {mem, Upsert(mem, kind, content, label)}
  BY DEF TakeSnapshot
<1>. HIDE DEF kind, content
<1>5. \A s \in 1 .. Len(hist) : hist[s] = kind /\ s > content => s > label
  <2>. SUFFICES ASSUME NEW s \in 1 .. Len(hist), hist[s] = kind, s > content
                PROVE  s > label
    OBVIOUS
  <2>1. s \notin Writes(kind, node)
    BY <1>2, <1>3
  <2>2. ~ (s <= node)
    BY <1>2, <2>1 DEF Writes
  <2>. QED BY <1>2, <2>2
<1>6. \A k \in Kinds :
        Upsert(mem, kind, content, label).rows[k] \in
          {mem.rows[k]} \cup
          (IF k = kind THEN {[content |-> content, slot |-> label]} ELSE {})
  <2>1. content \in 0 .. MaxSlot /\ label \in 0 .. MaxSlot
    BY <1>2, <1>3
  <2>. QED BY <1>1, <1>2, <2>1, UpsertType
<1>7. Sound(Upsert(mem, kind, content, label), hist)
  BY <1>2, <1>5, <1>6 DEF Sound
<1>. QED BY <1>2, <1>4, <1>7

(* A change that is heard carries the slot that wrote it. *)
LEMMA SoundAdvance ==
  ASSUME Typed, SoundInv, NEW heard \in BOOLEAN,
         NEW copies \in SUBSET (Slots \X Kinds), Advance(heard, copies)
  PROVE  Sound(mem', hist)
<1>. DEFINE n == node + 1
            kind == hist[n]
<1>1. /\ node \in Nat /\ n \in 1 .. Len(hist) /\ Len(hist) \in 0 .. MaxSlot
      /\ hist \in Seq(Kinds) /\ mem \in Tables /\ Sound(mem, hist) /\ MaxSlot \in Nat
  BY SlotBound DEF Typed, TypeOK, SoundInv, Advance
<1>2. kind \in Kinds /\ n \in 0 .. MaxSlot
  BY <1>1
<1>3. mem' \in {mem, Upsert(mem, kind, n, n)}
  BY DEF Advance
<1>. HIDE DEF n, kind
<1>4. \A k \in Kinds :
        Upsert(mem, kind, n, n).rows[k] \in
          {mem.rows[k]} \cup
          (IF k = kind THEN {[content |-> n, slot |-> n]} ELSE {})
  BY <1>1, <1>2, UpsertType
<1>5. Sound(Upsert(mem, kind, n, n), hist)
  BY <1>1, <1>4 DEF Sound
<1>. QED BY <1>1, <1>3, <1>5

(* Every step keeps every row sound. *)
LEMMA SoundStep == Typed /\ SoundInv /\ [Next]_vars => SoundInv'
<1>. SUFFICES ASSUME Typed, SoundInv, [Next]_vars PROVE SoundInv'
  OBVIOUS
<1>0. /\ {mem, image, disk} \subseteq Tables
      /\ Sound(mem, hist) /\ Sound(image, hist) /\ Sound(disk, hist)
  BY DEF Typed, TypeOK, SoundInv
<1>1. Sound(Empty, hist)
  <2>1. Len(hist) \in Nat
    BY DEF Typed, TypeOK
  <2>. QED BY <2>1 DEF Sound, Empty, NoRow
<1>2. ASSUME {mem', image', disk'} \subseteq {mem, image, disk, Empty}, UNCHANGED hist
      PROVE  SoundInv'
  BY <1>0, <1>1, <1>2 DEF SoundInv
<1>3. ASSUME Sound(mem', hist), UNCHANGED <<hist, image, disk>> PROVE SoundInv'
  BY <1>0, <1>3 DEF SoundInv
<1>4. ASSUME NEW kind \in Kinds, Write(kind) PROVE SoundInv'
  <2>1. Sound(mem, hist') /\ Sound(image, hist') /\ Sound(disk, hist')
    BY <1>0, <1>4, SoundWrite
  <2>2. UNCHANGED <<mem, image, disk>>
    BY <1>4 DEF Write
  <2>. QED BY <2>1, <2>2 DEF SoundInv
<1>5. ASSUME NEW copy \in Slots \X Kinds, NEW time \in BlockTimes, FinishLog(copy, time)
      PROVE  SoundInv'
  <2>1. mem'.rows = mem.rows
    BY <1>0, <1>5, InsertType DEF FinishLog
  <2>2. Sound(mem', hist)
    BY <1>0, <2>1 DEF Sound
  <2>. QED BY <1>3, <1>5, <2>2 DEF FinishLog
<1>6. CASE TakeSnapshot
  BY <1>3, <1>6, SoundSnapshot DEF TakeSnapshot
<1>7. ASSUME NEW heard \in BOOLEAN, NEW copies \in SUBSET (Slots \X Kinds),
             Advance(heard, copies)
      PROVE  SoundInv'
  BY <1>3, <1>7, SoundAdvance DEF Advance
<1>. QED
  BY <1>2, <1>4, <1>5, <1>6, <1>7
     DEF Next, Start, AnyAdvance, AnyLog, Open, ReadSlot, Subscribe,
         SnapshotFails, AskStop, Flush, Written, Close, Crash, Gone, vars

(* No row, in memory or in the file, is labelled later than its content:   *)
(* for chains of any length, nodes that lag and processes that crash.      *)
THEOREM LabelsSound == Spec => []LabelsNotAhead
<1>1. Init => SoundInv
  <2>1. Len(<<>>) = 0
    OBVIOUS
  <2>. QED BY <2>1 DEF Init, SoundInv, Sound, Empty, NoRow
<1>2. SoundInv => LabelsNotAhead
  BY DEF SoundInv, Sound, LabelsNotAhead, Writes
<1>. QED BY <1>1, <1>2, TypeInit, TypeStep, SoundStep, PTL DEF Spec

-----------------------------------------------------------------------------
(* Stale rows *)

(* The content of an account is one of the slots that wrote it, if any did. *)
LEMMA ContentIsWrite ==
  ASSUME NEW kind, NEW n \in Nat
  PROVE  Content(kind, n) \in Writes(kind, n) \cup {0}
<1>. DEFINE S == Writes(kind, n) \cup {0}
<1>1. S \in SUBSET (0 .. n) /\ S # {}
  BY DEF Writes
<1>2. Content(kind, n) = Max(S)
  BY DEF Content
<1>. HIDE DEF S
<1>3. Content(kind, n) \in S
  BY <1>1, <1>2, MaxIsGreatest
<1>. QED BY <1>3 DEF S

(* One slot more changes the content of the account it wrote, and no other. *)
LEMMA ContentStep ==
  ASSUME NEW kind, NEW n \in Nat
  PROVE  Content(kind, n + 1) = IF hist[n + 1] = kind THEN n + 1 ELSE Content(kind, n)
<1>1. CASE hist[n + 1] = kind
  <2>1. n + 1 \in Writes(kind, n + 1)
    BY <1>1 DEF Writes
  <2>2. n + 1 <= Content(kind, n + 1) /\ Content(kind, n + 1) \in 0 .. n + 1
    BY <2>1, ContentIsLast
  <2>. QED BY <1>1, <2>2
<1>2. CASE hist[n + 1] # kind
  <2>1. Writes(kind, n + 1) = Writes(kind, n)
    BY <1>2 DEF Writes
  <2>. QED BY <1>2, <2>1 DEF Content
<1>. QED BY <1>1, <1>2

(* From its snapshot on, a row behind the node is behind a missed write.   *)
(* The rows left by an earlier run are not, until the snapshot is taken.   *)
Tracked(kind) ==
  \/ kind = "receipt" /\ phase \in {"tokenSlot", "tokenSnapshot", "subscribing", "serving"}
  \/ kind = "token" /\ phase \in {"subscribing", "serving"}

Explained(kind, content, lost, n) ==
  content < Content(kind, n) => Content(kind, n) \in lost

StaleInv ==
  \A kind \in Kinds : Tracked(kind) => Explained(kind, mem.rows[kind].content, missed, node)

(* A snapshot brings its row up to date, unless its label is too old; then *)
(* the writes it failed to bring are missed.  The other row stands.        *)
LEMMA StaleSnapshot ==
  ASSUME Typed, StaleInv, TakeSnapshot
  PROVE  StaleInv'
<1>. DEFINE kind == SnapshotKind
            content == Content(kind, node)
            seen == Writes(kind, node)
<1>1. /\ node \in 0 .. Len(hist) /\ Len(hist) \in 0 .. MaxSlot /\ label \in 0 .. node
      /\ MaxSlot \in Nat /\ mem \in Tables
  BY SlotBound DEF Typed, TypeOK, LabelInv
<1>2. /\ kind \in Kinds /\ content \in 0 .. node /\ content \in seen \cup {0}
      /\ content \in 0 .. MaxSlot /\ node \in Nat
  <2>1. kind \in Kinds /\ node \in Nat
    BY <1>1 DEF SnapshotKind, Kinds
  <2>2. content \in 0 .. node /\ content \in seen \cup {0}
    BY <2>1, ContentIsLast, ContentIsWrite
  <2>. QED BY <1>1, <2>1, <2>2
<1>3. /\ mem' = IF seen = {} THEN mem ELSE Upsert(mem, kind, content, label)
      /\ missed' = IF label >= mem.rows[kind].slot THEN missed \ seen
                   ELSE missed \cup {s \in seen : s > mem.rows[kind].content}
      /\ node' = node /\ hist' = hist
  BY DEF TakeSnapshot
<1>4. \A k \in Kinds : Content(k, node)' = Content(k, node)
  BY <1>3 DEF Content, Writes
<1>. HIDE DEF kind, content
<1>5. Explained(kind, mem'.rows[kind].content, missed', node)
  <2>0. mem.rows[kind].content \in Nat
    BY <1>2 DEF Tables, Typed, TypeOK
  <2>. SUFFICES ASSUME mem'.rows[kind].content < content PROVE content \in missed'
    BY DEF Explained, content
  <2>1. CASE seen = {}
    BY <1>2, <1>3, <2>0, <2>1
  <2>2. CASE seen # {} /\ label >= mem.rows[kind].slot
    <3>1. mem' = [mem EXCEPT !.rows[kind] = [content |-> content, slot |-> label]]
      BY <1>3, <2>2 DEF Upsert, Accepts
    <3>2. mem'.rows[kind].content = content
      BY <1>1, <1>2, <3>1 DEF Tables
    <3>. QED BY <1>2, <3>2
  <2>3. CASE seen # {} /\ ~(label >= mem.rows[kind].slot)
    <3>1. mem' = mem
      BY <1>3, <2>3 DEF Upsert, Accepts
    <3>2. content \in seen /\ content > mem.rows[kind].content
      BY <1>2, <2>0, <3>1
    <3>. QED BY <1>3, <2>3, <3>2
  <2>. QED BY <2>1, <2>2, <2>3
<1>6. ASSUME NEW k \in Kinds, k # kind, Tracked(k)
      PROVE  Explained(k, mem'.rows[k].content, missed', node)
  <2>1. mem'.rows[k] = mem.rows[k]
    <3>1. /\ label \in 0 .. MaxSlot /\ content \in 0 .. MaxSlot
          /\ kind \in Kinds /\ mem \in Tables
      BY <1>1, <1>2
    <3>2. \A j \in Kinds : Upsert(mem, kind, content, label).rows[j] \in
            {mem.rows[j]} \cup (IF j = kind THEN {[content |-> content, slot |-> label]} ELSE {})
      BY <3>1, UpsertType
    <3>. QED BY <1>3, <1>6, <3>2
  <2>2. Explained(k, mem.rows[k].content, missed, node)
    BY <1>6 DEF StaleInv
  <2>3. Content(k, node) \in Writes(k, node) \cup {0}
    BY <1>2, ContentIsWrite
  <2>4. Content(k, node) \notin seen
    <3>1. 0 \notin seen /\ \A s \in Writes(k, node) : s \notin seen
      BY <1>6 DEF Writes
    <3>. QED BY <2>3, <3>1
  <2>5. Content(k, node) \in missed => Content(k, node) \in missed'
    BY <1>3, <2>4
  <2>. QED BY <2>1, <2>2, <2>5 DEF Explained
<1>7. ASSUME NEW k \in Kinds, Tracked(k)' PROVE k = kind \/ Tracked(k)
  BY <1>7 DEF TakeSnapshot, Tracked, SnapshotKind, kind
<1>8. ASSUME NEW k \in Kinds, Tracked(k)'
      PROVE  Explained(k, mem.rows[k].content, missed, node)'
  <2>1. Explained(k, mem'.rows[k].content, missed', node)
    BY <1>5, <1>6, <1>7, <1>8
  <2>. QED BY <1>3, <1>4, <2>1 DEF Explained
<1>. QED BY <1>8 DEF StaleInv

(* A finalized slot is heard, and written, or missed; the label of the row *)
(* refuses no newer content (SoundInv).                                    *)
LEMMA StaleAdvance ==
  ASSUME Typed, SoundInv, StaleInv, NEW heard \in BOOLEAN,
         NEW copies \in SUBSET (Slots \X Kinds), Advance(heard, copies)
  PROVE  StaleInv'
<1>. DEFINE n == node + 1
            kind == hist[n]
<1>1. /\ node \in Nat /\ n \in 1 .. Len(hist) /\ Len(hist) \in 0 .. MaxSlot
      /\ hist \in Seq(Kinds) /\ mem \in Tables /\ Sound(mem, hist) /\ MaxSlot \in Nat
  BY SlotBound DEF Typed, TypeOK, SoundInv, Advance
<1>2. kind \in Kinds /\ n \in 0 .. MaxSlot
  BY <1>1
<1>3. /\ mem' = (IF heard THEN Upsert(mem, kind, n, n) ELSE mem)
      /\ missed' = (IF heard THEN missed ELSE missed \cup {n})
      /\ node' = n /\ hist' = hist /\ phase' = phase
  BY DEF Advance
<1>4. \A k : Content(k, n) = IF kind = k THEN n ELSE Content(k, node)
  BY <1>1, ContentStep
<1>5. \A k : Content(k, node)' = Content(k, n)
  BY <1>3 DEF Content, Writes
<1>. HIDE DEF n, kind
<1>6. Explained(kind, mem'.rows[kind].content, missed', n)
  <2>1. CASE ~heard
    BY <1>3, <1>4, <2>1 DEF Explained
  <2>2. CASE heard
    <3>0. mem.rows[kind].content \in Nat /\ mem.rows[kind].slot \in Int
      BY <1>2, <1>1 DEF Tables
    <3>1. CASE n > mem.rows[kind].content
      <4>1. n >= mem.rows[kind].slot
        <5>1. hist[n] = kind
          BY DEF kind
        <5>. QED BY <1>1, <1>2, <3>0, <3>1, <5>1 DEF Sound
      <4>2. mem' = [mem EXCEPT !.rows[kind] = [content |-> n, slot |-> n]]
        BY <1>3, <2>2, <4>1 DEF Upsert, Accepts
      <4>3. mem'.rows[kind].content = n
        BY <1>1, <1>2, <4>2 DEF Tables
      <4>. QED BY <1>2, <1>4, <4>3 DEF Explained
    <3>2. CASE ~(n > mem.rows[kind].content)
      <4>1. mem'.rows[kind].content \in {mem.rows[kind].content, n}
        <5>1. Upsert(mem, kind, n, n).rows[kind] \in
                {mem.rows[kind], [content |-> n, slot |-> n]}
          BY <1>1, <1>2, UpsertType
        <5>. QED BY <1>3, <2>2, <5>1
      <4>. QED BY <1>2, <1>4, <3>0, <3>2, <4>1 DEF Explained
    <3>. QED BY <3>1, <3>2
  <2>. QED BY <2>1, <2>2
<1>7. ASSUME NEW k \in Kinds, k # kind, Tracked(k)
      PROVE  Explained(k, mem'.rows[k].content, missed', n)
  <2>1. mem'.rows[k] = mem.rows[k]
    <3>0. mem \in Tables /\ kind \in Kinds /\ n \in 0 .. MaxSlot
      BY <1>1, <1>2
    <3>1. \A j \in Kinds : Upsert(mem, kind, n, n).rows[j] \in
            {mem.rows[j]} \cup (IF j = kind THEN {[content |-> n, slot |-> n]} ELSE {})
      BY <3>0, UpsertType
    <3>2. Upsert(mem, kind, n, n).rows[k] \in {mem.rows[k]}
      BY <1>7, <3>1
    <3>. QED BY <1>3, <3>2
  <2>2. Explained(k, mem.rows[k].content, missed, node)
    BY <1>7 DEF StaleInv
  <2>3. Content(k, n) = Content(k, node)
    BY <1>4, <1>7
  <2>4. missed \subseteq missed'
    BY <1>3
  <2>. QED BY <2>1, <2>2, <2>3, <2>4 DEF Explained
<1>8. ASSUME NEW k \in Kinds, Tracked(k)'
      PROVE  Explained(k, mem.rows[k].content, missed, node)'
  <2>1. Tracked(k)
    BY <1>3, <1>8 DEF Tracked
  <2>2. Explained(k, mem'.rows[k].content, missed', n)
    BY <1>6, <1>7, <2>1
  <2>. QED BY <1>3, <1>5, <2>2 DEF Explained
<1>. QED BY <1>8 DEF StaleInv

(* Every step keeps stale rows explained. *)
LEMMA StaleStep == Typed /\ SoundInv /\ StaleInv /\ [Next]_vars => StaleInv'
<1>. SUFFICES ASSUME Typed, SoundInv, StaleInv, [Next]_vars PROVE StaleInv'
  OBVIOUS
<1>1. ASSUME mem'.rows = mem.rows, UNCHANGED <<node, missed>>,
             \A k \in Kinds : Tracked(k)' => Tracked(k),
             \A k \in Kinds : Content(k, node)' = Content(k, node)
      PROVE  StaleInv'
  BY <1>1 DEF StaleInv, Explained
<1>2. hist' = hist /\ node' = node => \A k \in Kinds : Content(k, node)' = Content(k, node)
  BY DEF Content, Writes
<1>3. ASSUME NEW kind \in Kinds, Write(kind) PROVE StaleInv'
  <2>1. /\ node \in 0 .. Len(hist) /\ Len(hist) \in Nat /\ hist \in Seq(Kinds)
    BY DEF Typed, TypeOK
  <2>2. hist' = Append(hist, kind)
        /\ UNCHANGED <<node, phase, mem, missed>>
    BY <1>3 DEF Write
  <2>3. \A s \in 1 .. node : hist'[s] = hist[s]
    BY <2>1, <2>2
  <2>4. \A k \in Kinds : Content(k, node)' = Content(k, node)
    BY <2>2, <2>3 DEF Content, Writes
  <2>. QED BY <1>1, <2>2, <2>4 DEF Tracked
<1>4. ASSUME NEW copy \in Slots \X Kinds, NEW time \in BlockTimes, FinishLog(copy, time)
      PROVE  StaleInv'
  <2>1. mem'.rows = mem.rows
    BY ZenonT(60), <1>4, InsertType DEF FinishLog, Typed, TypeOK
  <2>. QED BY <1>1, <1>2, <1>4, <2>1 DEF FinishLog, Tracked
<1>5. ASSUME phase' \in {"down", "opening", "receiptSlot", "settle", "failed",
                         "stopSettle", "stopFlush", "lastFlush", "receiptSnapshot"}
      PROVE  StaleInv'
  BY <1>5 DEF StaleInv, Tracked
<1>6. ASSUME NEW answered \in BOOLEAN, ReadSlot(answered) PROVE StaleInv'
  <2>1. CASE phase = "receiptSlot"
    BY <1>5, <1>6, <2>1 DEF ReadSlot
  <2>2. CASE phase = "tokenSlot"
    <3>1. /\ phase' = "tokenSnapshot" /\ UNCHANGED <<hist, node, mem, missed>>
      BY <1>6, <2>2 DEF ReadSlot
    <3>. QED BY <1>1, <1>2, <2>2, <3>1 DEF Tracked
  <2>. QED BY <1>6, <2>1, <2>2 DEF ReadSlot
<1>7. CASE Subscribe \/ UNCHANGED vars
  <2>1. UNCHANGED <<hist, node, mem, missed>>
    BY <1>7 DEF Subscribe, vars
  <2>2. \A k \in Kinds : Tracked(k)' => Tracked(k)
    BY <1>7 DEF Subscribe, vars, Tracked
  <2>. QED BY <1>1, <1>2, <2>1, <2>2
<1>8. ASSUME (\E reached \in 0 .. Len(hist) : Open(reached)) \/ SnapshotFails \/ AskStop
               \/ Flush \/ Written \/ Close \/ Crash
      PROVE  StaleInv'
  BY <1>5, <1>8
     DEF Open, SnapshotFails, AskStop, Flush, Written, Close, Crash, Gone
<1>. QED
  BY <1>3, <1>4, <1>6, <1>7, <1>8, StaleSnapshot, StaleAdvance
     DEF Next, Start, AnyAdvance, AnyLog

(* A serving process shows what its node has, but for the writes it could  *)
(* not hear of: a snapshot's label never makes it refuse a later change.   *)
THEOREM StaleIsMissed == Spec => []StaleOnlyIfMissed
<1>1. Init => SoundInv /\ StaleInv
  <2>1. Len(<<>>) = 0
    OBVIOUS
  <2>. QED BY <2>1 DEF Init, SoundInv, Sound, Empty, NoRow, StaleInv, Tracked
<1>2. StaleInv => StaleOnlyIfMissed
  BY DEF StaleInv, Tracked, Explained, StaleOnlyIfMissed, Kinds
<1>. QED BY <1>1, <1>2, TypeInit, TypeStep, SoundStep, StaleStep, PTL DEF Spec

-----------------------------------------------------------------------------
(* Stopping *)

(* What a stop owes the file: first what is in memory or waited for, then  *)
(* what is in memory, and for the last flush what that flush is writing.   *)
DueInv ==
  /\ phase \notin {"stopSettle", "stopFlush", "settle", "lastFlush"} => due = {}
  /\ phase = "stopSettle" => due \subseteq Events(mem) \cup {c[1] : c \in waited \cap pending}
  /\ phase \in {"stopFlush", "settle"} => due \subseteq Events(mem)
  /\ phase = "lastFlush" => due \subseteq Events(image)

(* An event once stored stays stored, and an inserted one is.              *)
LEMMA InsertKeepsEvents ==
  ASSUME NEW tables \in Tables, NEW s \in Slots, NEW time \in BlockTimes
  PROVE  Events(tables) \cup {s} \subseteq Events(Insert(tables, s, time))
<1>1. tables.events \in [Slots -> {"none"} \cup BlockTimes]
  BY DEF Tables
<1>2. /\ time # "none"
      /\ Insert(tables, s, time).events = [tables.events EXCEPT ![s] = InsertEvent(@, time)]
  <2>1. time # "none"
    BY DEF BlockTimes
  <2>2. /\ Insert(tables, s, time).events =
             [tables.events EXCEPT ![s] = InsertEvent(@, time)]
        /\ Insert(tables, s, time).generations =
             [tables.generations EXCEPT ![s] = InsertGeneration(@, time)]
    BY InsertType
  <2>. QED BY <2>1, <2>2
<1>3. InsertEvent(tables.events[s], time) # "none"
  BY <1>2 DEF InsertEvent
<1>. QED BY <1>1, <1>2, <1>3 DEF Events

(* Heard events stay in memory, or among those waited for. *)
LEMMA DueFinish ==
  ASSUME Typed, DueInv, NEW copy \in Slots \X Kinds, NEW time \in BlockTimes,
         FinishLog(copy, time)
  PROVE  DueInv'
<1>1. /\ mem' = Insert(mem, copy[1], time) /\ pending' = pending \ {copy}
      /\ UNCHANGED <<phase, image, waited, due>>
  BY DEF FinishLog
<1>2. copy[1] \in Slots /\ mem \in Tables
  BY DEF Typed, TypeOK
<1>3. Events(mem) \cup {copy[1]} \subseteq Events(mem')
  BY <1>1, <1>2, InsertKeepsEvents
<1>4. {c[1] : c \in waited \cap pending} \subseteq
        {c[1] : c \in waited' \cap pending'} \cup {copy[1]}
  BY <1>1
<1>. QED BY <1>1, <1>3, <1>4 DEF DueInv, Events

(* A finalized slot changes rows, and adds to what is pending. *)
LEMMA DueAdvance ==
  ASSUME Typed, DueInv, NEW heard \in BOOLEAN,
         NEW copies \in SUBSET (Slots \X Kinds), Advance(heard, copies)
  PROVE  DueInv'
<1>. DEFINE n == node + 1
            kind == hist[n]
<1>1. /\ node \in Nat /\ n \in 1 .. Len(hist) /\ Len(hist) \in 0 .. MaxSlot
      /\ hist \in Seq(Kinds) /\ mem \in Tables /\ MaxSlot \in Nat
  BY SlotBound DEF Typed, TypeOK, Advance
<1>2. kind \in Kinds /\ n \in 0 .. MaxSlot
  BY <1>1
<1>3. /\ mem' \in {mem, Upsert(mem, kind, n, n)}
      /\ pending \subseteq pending' /\ UNCHANGED <<phase, image, waited, due>>
  BY DEF Advance
<1>. HIDE DEF n, kind
<1>4. mem'.events = mem.events
  <2>1. mem \in Tables /\ kind \in Kinds /\ n \in 0 .. MaxSlot
    BY <1>1, <1>2
  <2>2. Upsert(mem, kind, n, n).events = mem.events
    BY <2>1, UpsertType
  <2>. QED BY <1>3, <2>2
<1>5. {c[1] : c \in waited \cap pending} \subseteq {c[1] : c \in waited' \cap pending'}
  BY <1>3
<1>. QED BY <1>3, <1>4, <1>5 DEF DueInv, Events

(* Every step keeps what a stop owes within reach of the file. *)
LEMMA DueStep == Typed /\ DueInv /\ [Next]_vars => DueInv'
<1>. SUFFICES ASSUME Typed, DueInv, [Next]_vars PROVE DueInv'
  OBVIOUS
<1>1. CASE AskStop
  <2>1. {c[1] : c \in pending} = {c[1] : c \in waited' \cap pending'}
    BY <1>1 DEF AskStop
  <2>. QED BY <1>1, <2>1 DEF AskStop, DueInv, Events
<1>2. CASE Flush
  <2>1. CASE phase = "stopSettle"
    <3>1. due \subseteq Events(mem)
      BY <1>2, <2>1 DEF Flush, Settled, DueInv
    <3>. QED BY <1>2, <2>1, <3>1 DEF Flush, DueInv, Events
  <2>2. CASE phase \in {"settle", "failed"}
    <3>1. due \subseteq Events(mem)
      BY <2>2 DEF DueInv
    <3>. QED BY <1>2, <2>2, <3>1 DEF Flush, DueInv, Events
  <2>. QED BY <1>2, <2>1, <2>2 DEF Flush
<1>3. CASE Written
  BY <1>3 DEF Written, DueInv, Events
<1>4. CASE Close \/ Crash
  BY <1>4 DEF Close, Crash, Gone, DueInv
<1>5. ASSUME phase' \notin {"stopSettle", "stopFlush", "settle", "lastFlush"},
             phase \notin {"stopSettle", "stopFlush", "settle", "lastFlush"}, due' = due
      PROVE  DueInv'
  BY <1>5 DEF DueInv
<1>6. CASE Start \/ SnapshotFails
  BY <1>5, <1>6 DEF Start, Open, ReadSlot, TakeSnapshot, Subscribe, SnapshotFails
<1>7. CASE (\E kind \in Kinds : Write(kind)) \/ UNCHANGED vars
  BY <1>7 DEF Write, vars, DueInv, Events
<1>. QED
  BY <1>1, <1>2, <1>3, <1>4, <1>6, <1>7, DueFinish, DueAdvance DEF Next, AnyAdvance, AnyLog

(* A stop that closes the file has put into it every event that had been   *)
(* heard when it was asked for, those still without a block time included. *)
THEOREM StopsKeepHeard == Spec => StopKeepsHeard
<1>1. Init => DueInv
  BY DEF Init, DueInv
<1>2. DueInv /\ Close => due \subseteq Events(disk')
  BY DEF DueInv, Close, Events
<1>. QED BY <1>1, <1>2, TypeInit, TypeStep, DueStep, PTL DEF Spec, StopKeepsHeard

=============================================================================
