------------------------------ MODULE Indexer ------------------------------
(***************************************************************************)
(* The indexer service (services/indexer): it opens its database, takes a  *)
(* snapshot of the receipt and token accounts, subscribes to their changes *)
(* and to the programs' logs, and writes the database file when it opens   *)
(* and when it stops.  It talks to one RPC node, which may be behind the   *)
(* cluster and, after a restart, behind the node used before.              *)
(*                                                                         *)
(* One account of each kind stands for its table, and every slot writes    *)
(* one of them: a write of the token account is a trade and also logs a    *)
(* generation event.  The content of an account is named by the slot that  *)
(* wrote it, and an event by its slot.                                     *)
(*                                                                         *)
(* A definition named X_Bug is X with a plausible mistake.                 *)
(***************************************************************************)
EXTENDS Integers, Sequences, FiniteSets, FiniteSetsExt

CONSTANT MaxSlot   \* model bound on the length of the chain

ASSUME SlotBound == MaxSlot \in Nat

VARIABLES
  hist,     \* the account each slot wrote
  node,     \* the finalized slot the RPC node has reached
  phase,    \* what the process is doing
  label,    \* the slot read before a snapshot
  mem,      \* the tables in memory
  image,    \* the tables being written to the file
  disk,     \* the file
  pending,  \* log deliveries waiting for their block time
  waited,   \* those the shutdown waits for
  due,      \* events heard before the stop was asked for (history)
  missed    \* writes the process had no way to hear of (history)

vars == <<hist, node, phase, label, mem, image, disk, pending, waited, due, missed>>

Kinds == {"receipt", "token"}
Slots == 1 .. MaxSlot
BlockTimes == {"unknown", "known"}

NoRow == [content |-> 0, slot |-> -1]
NoEvents == [s \in Slots |-> "none"]
Empty == [rows |-> [k \in Kinds |-> NoRow], events |-> NoEvents,
          generations |-> NoEvents]

Init ==
  /\ hist = <<>> /\ node = 0
  /\ phase = "down" /\ label = 0
  /\ mem = Empty /\ image = Empty /\ disk = Empty
  /\ pending = {} /\ waited = {} /\ due = {} /\ missed = {}

-----------------------------------------------------------------------------
(* The chain *)

Writes(kind, upTo) == {s \in 1 .. upTo : hist[s] = kind}

Content(kind, upTo) == Max(Writes(kind, upTo) \cup {0})

Write(kind) ==
  /\ Len(hist) < MaxSlot
  /\ hist' = Append(hist, kind)
  /\ UNCHANGED <<node, phase, label, mem, image, disk, pending, waited, due, missed>>

-----------------------------------------------------------------------------
(* The tables *)

Accepts_StrictBug(row, slot) == slot > row.slot

(* ON CONFLICT ... WHERE excluded.slot >= receipt_rows.slot *)
Accepts(row, slot) == slot >= row.slot

Upsert(tables, kind, content, slot) ==
  IF Accepts(tables.rows[kind], slot)
  THEN [tables EXCEPT !.rows[kind] = [content |-> content, slot |-> slot]]
  ELSE tables

InsertEvent(old, time) == IF old = "none" THEN time ELSE old

InsertGeneration_OverwriteBug(old, time) == time

(* A later delivery fills in a block time that an earlier one lacked.      *)
InsertGeneration(old, time) ==
  IF old = "none" \/ time = "known" THEN time ELSE old

Insert(tables, s, time) ==
  [tables EXCEPT !.events[s] = InsertEvent(@, time),
                 !.generations[s] = InsertGeneration(@, time)]

-----------------------------------------------------------------------------
(* Starting *)

(* A file that a crash left half written holds none of the earlier tables  *)
(* (or cannot be opened at all, which leaves the process down).            *)
Open(reached) ==
  /\ phase = "down"
  /\ phase' = "opening"
  /\ mem' = disk /\ image' = disk /\ disk' = Empty
  /\ node' = reached
  /\ UNCHANGED <<hist, label, pending, waited, due, missed>>

(* Nothing of the process outlives it. *)
Gone ==
  /\ phase' = "down"
  /\ mem' = Empty /\ image' = Empty /\ label' = 0
  /\ pending' = {} /\ waited' = {} /\ due' = {} /\ missed' = {}

(* writeFile has finished. *)
Written ==
  /\ phase \in {"opening", "stopFlush"}
  /\ phase' = IF phase = "opening" THEN "receiptSlot" ELSE "settle"
  /\ disk' = image /\ image' = Empty
  /\ waited' = pending
  /\ UNCHANGED <<hist, node, label, mem, pending, due, missed>>

(* After the last write the database is closed.                            *)
Close ==
  /\ phase = "lastFlush"
  /\ disk' = image
  /\ Gone
  /\ UNCHANGED <<hist, node>>

SlotSeen_ProcessedBug == Len(hist)

(* getSlot("finalized") *)
SlotSeen == node

(* A failed call counts as slot 0. *)
ReadSlot(answered) ==
  /\ phase \in {"receiptSlot", "tokenSlot"}
  /\ phase' = IF phase = "receiptSlot" THEN "receiptSnapshot" ELSE "tokenSnapshot"
  /\ label' = IF answered THEN SlotSeen ELSE 0
  /\ UNCHANGED <<hist, node, mem, image, disk, pending, waited, due, missed>>

SnapshotKind == IF phase = "receiptSnapshot" THEN "receipt" ELSE "token"

TakeSnapshot ==
  /\ phase \in {"receiptSnapshot", "tokenSnapshot"}
  /\ phase' = IF phase = "receiptSnapshot" THEN "tokenSlot" ELSE "subscribing"
  /\ LET kind == SnapshotKind
         seen == Writes(kind, node)
     IN /\ mem' = IF seen = {} THEN mem
                  ELSE Upsert(mem, kind, Content(kind, node), label)
        /\ missed' = IF label >= mem.rows[kind].slot THEN missed \ seen
                     ELSE missed \cup {s \in seen : s > mem.rows[kind].content}
  /\ label' = 0
  /\ UNCHANGED <<hist, node, image, disk, pending, waited, due>>

(* getProgramAccounts rejects: the process flushes and ends.               *)
SnapshotFails ==
  /\ phase \in {"receiptSnapshot", "tokenSnapshot"}
  /\ phase' = "failed"
  /\ UNCHANGED <<hist, node, label, mem, image, disk, pending, waited, due, missed>>

Subscribe ==
  /\ phase = "subscribing"
  /\ phase' = "serving"
  /\ UNCHANGED <<hist, node, label, mem, image, disk, pending, waited, due, missed>>

-----------------------------------------------------------------------------
(* Notifications *)

Listening == phase \in {"serving", "stopSettle", "stopFlush", "settle"}

(* Both programs' log subscriptions report a trade.                        *)
LogCopies(s) == IF hist[s] = "token" THEN {s} \X Kinds ELSE {}

(* The node finalizes a slot; heard says what reaches the process.  An     *)
(* account's change is written at once, a log waits for its block time.    *)
Advance(changeHeard, copies) ==
  LET s == node + 1
  IN /\ node < Len(hist)
     /\ node' = s
     /\ changeHeard \/ copies # {} => Listening
     /\ copies \subseteq LogCopies(s)
     /\ mem' = IF changeHeard THEN Upsert(mem, hist[s], s, s) ELSE mem
     /\ missed' = IF changeHeard THEN missed ELSE missed \cup {s}
     /\ pending' = pending \cup copies
     /\ UNCHANGED <<hist, phase, label, image, disk, waited, due>>

(* getBlockTime has answered, or failed, which leaves the time unknown.    *)
FinishLog(copy, time) ==
  /\ copy \in pending
  /\ mem' = Insert(mem, copy[1], time)
  /\ pending' = pending \ {copy}
  /\ UNCHANGED <<hist, node, phase, label, image, disk, waited, due, missed>>

-----------------------------------------------------------------------------
(* Stopping *)

Events(tables) == {s \in Slots : tables.events[s] # "none"}

AskStop ==
  /\ phase = "serving"
  /\ phase' = "stopSettle"
  /\ waited' = pending
  /\ due' = Events(mem) \cup {c[1] : c \in pending}
  /\ UNCHANGED <<hist, node, label, mem, image, disk, pending, missed>>

Settled_AtOnceBug == TRUE

Settled_NeverDeletedBug == waited = {}

(* Promise.allSettled(pendingNotifications): those pending at the call.    *)
Settled == waited \cap pending = {}

(* The file is rewritten: it holds nothing until the write has finished.   *)
(* The last flush also ends the subscriptions and the HTTP server.         *)
Flush ==
  /\ phase \in {"stopSettle", "settle", "failed"}
  /\ Settled
  /\ phase' = IF phase = "stopSettle" THEN "stopFlush" ELSE "lastFlush"
  /\ image' = mem /\ disk' = Empty
  /\ UNCHANGED <<hist, node, label, mem, pending, waited, due, missed>>

(* The process dies, wherever it is.                                       *)
Crash ==
  /\ phase # "down"
  /\ Gone
  /\ UNCHANGED <<hist, node, disk>>

-----------------------------------------------------------------------------
Start ==
  \/ \E reached \in 0 .. Len(hist) : Open(reached)
  \/ \E answered \in BOOLEAN : ReadSlot(answered)
  \/ TakeSnapshot
  \/ Subscribe

AnyAdvance ==
  \E changeHeard \in BOOLEAN, copies \in SUBSET (Slots \X Kinds) :
    Advance(changeHeard, copies)

AnyLog == \E copy \in Slots \X Kinds, time \in BlockTimes : FinishLog(copy, time)

Next ==
  \/ \E kind \in Kinds : Write(kind)
  \/ Start
  \/ SnapshotFails
  \/ AnyAdvance
  \/ AnyLog
  \/ AskStop
  \/ Flush
  \/ Written
  \/ Close
  \/ Crash

(* The process runs: a call it waits for is answered or fails, and every   *)
(* step it can take without being asked is taken.  Nothing makes it stop,  *)
(* crash, or the chain move.                                               *)
Fairness ==
  /\ WF_vars(Start) /\ WF_vars(AnyAdvance) /\ WF_vars(Flush)
  /\ WF_vars(Written) /\ WF_vars(Close)
  /\ \A copy \in Slots \X Kinds :
        WF_vars(\E time \in BlockTimes : FinishLog(copy, time))

Spec == Init /\ [][Next]_vars /\ Fairness

-----------------------------------------------------------------------------
(* Properties *)

(* The process and its tables hold values of their shape.                  *)
Tables ==
  [rows : [Kinds -> [content : 0 .. MaxSlot, slot : -1 .. MaxSlot]],
   events : [Slots -> {"none"} \cup BlockTimes],
   generations : [Slots -> {"none"} \cup BlockTimes]]

TypeOK ==
  /\ hist \in Seq(Kinds) /\ node \in 0 .. Len(hist)
  /\ {mem, image, disk} \subseteq Tables
  /\ label \in 0 .. MaxSlot
  /\ waited \cup pending \subseteq Slots \X Kinds
  /\ due \cup missed \subseteq Slots

(* A row is never labelled with a later slot than its content: whatever is *)
(* in memory or in the file, its account was not written between the two.  *)
(* A change that arrives afterwards is therefore never refused wrongly.    *)
LabelsNotAhead ==
  \A tables \in {mem, image, disk}, kind \in Kinds :
    LET row == tables.rows[kind]
    IN \A s \in Writes(kind, Len(hist)) : s > row.content => s > row.slot

(* A serving process shows what its node has, except for the writes it had *)
(* no way to hear of: those between a snapshot and the subscription, lost  *)
(* notifications, and a snapshot whose slot is below the row's.            *)
StaleOnlyIfMissed ==
  phase = "serving" =>
    \A kind \in Kinds :
      mem.rows[kind].content < Content(kind, node) => Content(kind, node) \in missed

(* The two event tables agree however the two deliveries of a trade and    *)
(* their block times interleave: the same trades, and the generation row   *)
(* knows every time the event row knows.                                   *)
GenerationsMatchEvents ==
  \A s \in Slots :
    /\ mem.events[s] = "none" <=> mem.generations[s] = "none"
    /\ mem.events[s] = "known" => mem.generations[s] = "known"

(* A regular stop leaves every event in the file that had been heard when  *)
(* the stop was asked for, those still waiting for a block time included.  *)
StopKeepsHeard ==
  [][Close => due \subseteq Events(disk')]_vars

(* A stop ends, although notifications keep arriving meanwhile: each wait  *)
(* is only for those pending when it began.                                *)
StopEnds == phase = "stopSettle" ~> phase = "down"

=============================================================================
