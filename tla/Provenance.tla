------------------------------ MODULE Provenance ------------------------------
(***************************************************************************)
(* The evidence of a Soul card: which trade made the picture.              *)
(*                                                                         *)
(* The web application has no index of its own.  A card of the gallery     *)
(* (app/src/lib/marketProvenance.ts) asks the routes of the application    *)
(* for the trade of its generation, and the exact route (generation-       *)
(* Provenance.ts, generationProvenanceRoute.ts) walks the signatures of    *)
(* the two programs backwards, page by page, while new transactions are    *)
(* finalized at the other end, until it has found the trade or a budget is *)
(* spent.  The bounded routes (statistics, timeline, list) look at the     *)
(* newest transactions only.                                               *)
(***************************************************************************)
EXTENDS Naturals, FiniteSets, Sequences, FiniteSetsExt

CONSTANTS
  Kinds,            \* kinds of transactions of the two programs
  Targets,          \* generations a card may be about
  PageLimit,        \* signatureLimit: signatures in a page of the exact route
  ScanCap,          \* EXACT_LOOKUP_SIGNATURE_SCAN_CAP
  MaxTransactions,  \* PUBLIC_MAX_TRANSACTIONS: transactions an answer may fetch
  Concurrency,      \* EXACT_LOOKUP_TRANSACTION_CONCURRENCY
  Window,           \* signatures and rows of a bounded route
  MaxLength,        \* model bound on the finalized transactions
  MaxVisits         \* model bound on the hydrations of the card

ASSUME LimitsAssumption ==
  /\ PageLimit \in Nat \ {0} /\ ScanCap \in Nat \ {0}
  /\ MaxTransactions \in Nat \ {0} /\ Concurrency \in Nat \ {0}
  /\ MaxLength \in Nat

VARIABLES
  chain,    \* the finalized transactions, oldest first
  lookup,   \* the exact lookup the route is running
  kept,     \* generationRouteCache: the generations whose trades it keeps
  stats,    \* statsActivityCache of the page
  card, visits

vars == <<chain, lookup, kept, stats, card, visits>>

-----------------------------------------------------------------------------
(* The chain *)

Programs == {"bondingCurve", "soulGenerator"}
ProgramOrder == <<"bondingCurve", "soulGenerator">>     \* defaultProgramIds

(* Trades run through both programs, claims through the soul generator     *)
(* alone; a failed transaction is listed as well.                          *)
ProgramsOf(kind) == IF kind = "claim" THEN {"soulGenerator"} ELSE Programs

Trades(s) == {i \in DOMAIN s : s[i] = "trade"}

(* Trades of the card's token count its generations.                       *)
GenerationOf(i) == Cardinality({j \in Trades(chain) : j <= i})

Newest(S, n) == {i \in S : Cardinality({j \in S : j > i}) < n}

Signatures(p, before) == {i \in DOMAIN chain : i < before /\ p \in ProgramsOf(chain[i])}

Finalize ==
  /\ Len(chain) < MaxLength
  /\ \E kind \in Kinds : chain' = Append(chain, kind)
  /\ UNCHANGED <<lookup, kept, stats, card, visits>>

-----------------------------------------------------------------------------
(* The bounded routes *)

(* loadBoundedProgramSignatureBatches when n transactions are finalized:   *)
(* one page of each program.                                               *)
Recent(n) ==
  {i \in UNION {Newest(Signatures(p, n + 1), Window) : p \in Programs} : chain[i] # "failed"}

(* A transaction that cannot be fetched is left out of the rows.           *)
RecentRows(n, lost) ==
  Newest({GenerationOf(i) : i \in (Newest(Recent(n), MaxTransactions) \cap Trades(chain)) \ lost}, Window)

(* The routes and the caches before them also give older answers, and the  *)
(* empty one when their sources fail.                                      *)
BoundedAnswers ==
  UNION {{RecentRows(n, lost) : lost \in SUBSET Recent(n)} : n \in 0 .. Len(chain)}

-----------------------------------------------------------------------------
(* The exact route: loadPaginatedProgramSignatureBatches *)

NoLookup == [phase |-> "none"]

(* began: the length of the chain when the lookup began, kept only for the *)
(* properties, as absent: the transactions the node did not return.        *)
NewLookup(target) ==
  [phase |-> "paging", target |-> target, program |-> 1,
   active |-> Programs, cursors |-> [p \in Programs |-> MaxLength + 1],
   scanned |-> 0, seen |-> {}, batch |-> {},
   fetched |-> {}, transient |-> FALSE, found |-> FALSE,
   began |-> Len(chain), absent |-> {}]

Turn == ProgramOrder[lookup.program]
Turns(l, from) == {n \in from .. Len(ProgramOrder) : ProgramOrder[n] \in l.active}

(* The next program of the round that has more pages; a round ends early   *)
(* when the signatures it may scan are spent.                              *)
EndTurn(l) ==
  LET rest == Turns(l, l.program + 1)
  IN IF rest # {} /\ l.scanned < ScanCap
     THEN [l EXCEPT !.program = Min(rest)] ELSE [l EXCEPT !.phase = "fetching"]

(* The cursor of the next page is the last signature of this one.          *)
Before(p, page) == IF page = {} THEN lookup.cursors[p] ELSE Min(page)

StillActive_FilteredBug(p, page) ==
  IF Cardinality({i \in page : chain[i] # "failed"}) < Min({PageLimit, ScanCap - lookup.scanned})
  THEN lookup.active \ {p} ELSE lookup.active

StillActive_EndlessBug(p, page) == lookup.active

(* A page that is not full is the program's last.                          *)
StillActive(p, page) ==
  IF Cardinality(page) < Min({PageLimit, ScanCap - lookup.scanned})
  THEN lookup.active \ {p} ELSE lookup.active

Fresh_PerProgramBug(page) == {i \in page : chain[i] # "failed"}

Fresh(page) == {i \in page : chain[i] # "failed"} \ lookup.seen

ReadPage ==
  /\ lookup.phase = "paging"
  /\ LET p == Turn
         page == Newest(Signatures(p, lookup.cursors[p]), Min({PageLimit, ScanCap - lookup.scanned}))
     IN lookup' = EndTurn([lookup EXCEPT
          !.scanned = @ + Cardinality(page),
          !.cursors[p] = Before(p, page),
          !.active = StillActive(p, page),
          !.seen = @ \cup Fresh(page),
          !.batch = @ \cup Fresh(page)])
  /\ UNCHANGED <<chain, kept, stats, card, visits>>

-----------------------------------------------------------------------------
(* The exact route: fetchGenerationRowsFromFinalizedRpc *)

IsTarget(i) == chain[i] = "trade" /\ GenerationOf(i) = lookup.target

Budget == MaxTransactions - Cardinality(lookup.fetched)

(* Transactions are fetched newest first, Concurrency at a time, up to the *)
(* chunk that holds the row.                                               *)
Newer(i, S) == Cardinality({j \in S : j > i})
ChunkEnd(i, S) == ((Newer(i, S) \div Concurrency) + 1) * Concurrency

Visited(hits) ==
  LET within == Newest(lookup.batch, Budget) \cap hits
      stop == {ChunkEnd(i, lookup.batch) : i \in within}
  IN Newest(lookup.batch, Min({Budget} \cup stop))

GoesOn(l) ==
  /\ ~l.found /\ Cardinality(l.fetched) < MaxTransactions
  /\ l.active # {} /\ l.scanned < ScanCap

(* Of the transactions of a batch the node returns some, does not know     *)
(* others (absent) and fails to return the rest after five attempts.       *)
Fetched(absent, failing) ==
  LET hits == {i \in lookup.batch \ (absent \cup failing) : IsTarget(i)}
      visited == Visited(hits)
      l == [lookup EXCEPT
              !.fetched = @ \cup visited,
              !.found = hits \cap visited # {},
              !.transient = @ \/ visited \cap failing # {},
              !.absent = @ \cup (visited \cap absent),
              !.batch = {}]
  IN IF GoesOn(l) THEN [l EXCEPT !.phase = "paging", !.program = Min(Turns(l, 1))]
     ELSE [l EXCEPT !.phase = "ended"]

FetchBatch ==
  /\ lookup.phase = "fetching"
  /\ \E absent \in SUBSET lookup.batch :
       \E failing \in SUBSET (lookup.batch \ absent) : lookup' = Fetched(absent, failing)
  /\ UNCHANGED <<chain, kept, stats, card, visits>>

(* Any other error of the node makes the route answer with status 400.     *)
Refuse ==
  /\ lookup.phase \in {"paging", "fetching"}
  /\ lookup' = [lookup EXCEPT !.phase = "refused"]
  /\ UNCHANGED <<chain, kept, stats, card, visits>>

(* A page that fails after its retries, or withRouteTimeout: what a lookup *)
(* that has timed out still finds is not used.                             *)
FailLookup ==
  /\ lookup.phase \in {"paging", "fetching"}
  /\ lookup' = [lookup EXCEPT !.phase = "failed"]
  /\ UNCHANGED <<chain, kept, stats, card, visits>>

Partial_ErrorsOnlyBug(l) == l.phase = "failed"

(* GenerationProvenancePartialError at the end of the lookup, and the      *)
(* transient errors that end it; a refused one answers with status 400.    *)
Partial(l) == l.phase = "failed" \/ (l.phase = "ended" /\ l.transient /\ ~l.found)

Ended == lookup.phase \in {"ended", "failed", "refused"}

(* setGenerationRouteCache keeps no empty answer; the answer kept is used  *)
(* for partial ones only.                                                  *)
KeptAfter == IF lookup.phase = "ended" /\ lookup.found THEN kept \cup {lookup.target} ELSE kept
Answered == lookup.found \/ (Partial(lookup) /\ lookup.target \in kept)

(* generationRouteCache lives a minute, and no longer than the process.    *)
Forget ==
  /\ kept # {}
  /\ kept' = {}
  /\ UNCHANGED <<chain, lookup, stats, card, visits>>

-----------------------------------------------------------------------------
(* The card: hydrateMarketProvenanceWithRpc *)

Unasked == [asked |-> FALSE, rows |-> {}]
Asked(rows) == [asked |-> TRUE, rows |-> rows]

Nothing == [generation |-> 0, signed |-> FALSE]
Metadata(target) == [generation |-> target, signed |-> FALSE]
Row(generation) == [generation |-> generation, signed |-> TRUE]

NoCard == [phase |-> "done", target |-> 0, shown |-> Nothing]

(* A claimed Soul brings the trade in its metadata, or nothing when its    *)
(* metadata cannot be read.                                                *)
Visit(target) ==
  /\ card.phase = "done" /\ visits < MaxVisits
  /\ target <= Cardinality(Trades(chain))
  /\ visits' = visits + 1
  /\ \E shown \in {Nothing, Metadata(target)} :
       card' = [phase |-> "stats", target |-> target, shown |-> shown]
  /\ UNCHANGED <<chain, lookup, kept, stats>>

Show(generation) == [card EXCEPT !.phase = "done", !.shown = Row(generation)]
KeepShown == [card EXCEPT !.phase = "done"]
Continue(phase) == [card EXCEPT !.phase = phase]

AfterStats(rows) ==
  IF card.target \in rows THEN Show(card.target)
  ELSE Continue(IF card.target <= 1 THEN "timeline" ELSE "exact")

(* fetchStatsActivity keeps the first answer, whatever its status, and     *)
(* only a rejection lets it ask again.                                     *)
AskStats ==
  /\ card.phase = "stats"
  /\ \/ /\ stats.asked
        /\ card' = AfterStats(stats.rows)
        /\ UNCHANGED stats
     \/ /\ ~stats.asked
        /\ \/ \E rows \in BoundedAnswers : stats' = Asked(rows) /\ card' = AfterStats(rows)
           \/ card' = AfterStats({}) /\ UNCHANGED stats
  /\ UNCHANGED <<chain, lookup, kept, visits>>

(* bestTimelineGenerationEvent, bestGenerationInventoryRow: the earliest   *)
(* generation that is not earlier than the card's.                         *)
Best(rows) ==
  LET candidates == {g \in rows : g >= card.target}
  IN IF candidates = {} THEN KeepShown ELSE Show(Min(candidates))

(* A first bounded answer, asked only for the first generation, is final   *)
(* unless it fails.                                                        *)
AskTimeline ==
  /\ card.phase = "timeline"
  /\ \/ \E rows \in BoundedAnswers : card' = Best(rows)
     \/ card' = Continue("list")
  /\ UNCHANGED <<chain, lookup, kept, stats, visits>>

AskList(phase, otherwise) ==
  /\ card.phase = phase
  /\ \/ \E rows \in BoundedAnswers : card' = Best(rows)
     \/ card' = otherwise
  /\ UNCHANGED <<chain, lookup, kept, stats, visits>>

AskInventory == AskList("list", Continue("exact"))
AskLast == AskList("last", KeepShown)

AskExact ==
  /\ card.phase = "exact" /\ lookup = NoLookup
  /\ lookup' = NewLookup(card.target)
  /\ UNCHANGED <<chain, kept, stats, card, visits>>

(* The answer arrives, or is lost on its way after its retries.            *)
Answer(arrives) ==
  /\ Ended
  /\ card' = IF arrives /\ Answered THEN Show(lookup.target) ELSE Continue("last")
  /\ kept' = KeptAfter
  /\ lookup' = NoLookup
  /\ UNCHANGED <<chain, stats, visits>>

-----------------------------------------------------------------------------
Init ==
  /\ chain = <<>>
  /\ lookup = NoLookup
  /\ kept = {}
  /\ stats = Unasked
  /\ card = NoCard
  /\ visits = 0

Next ==
  \/ Finalize
  \/ \E target \in Targets : Visit(target)
  \/ AskStats \/ AskTimeline \/ AskInventory \/ AskExact \/ AskLast
  \/ ReadPage \/ FetchBatch
  \/ Refuse \/ FailLookup
  \/ \E arrives \in BOOLEAN : Answer(arrives)
  \/ Forget

(* Every call of the node or of a route returns or fails after its retries *)
(* and timeouts.  The route's own timeout is not relied on.                *)
Fairness ==
  /\ WF_vars(AskStats) /\ WF_vars(AskTimeline) /\ WF_vars(AskInventory)
  /\ WF_vars(AskExact) /\ WF_vars(AskLast)
  /\ WF_vars(ReadPage) /\ WF_vars(FetchBatch)
  /\ WF_vars(\E arrives \in BOOLEAN : Answer(arrives))

Spec == Init /\ [][Next]_vars /\ Fairness

-----------------------------------------------------------------------------
(* Properties *)

(* An exact lookup that ends without the trade, without a mark and within  *)
(* its budgets has looked at every transaction that was finalized when it  *)
(* began, whatever has been finalized since and however the pages of the   *)
(* two programs overlap: the trade is not there.                           *)
SearchIsComplete ==
  (/\ lookup.phase = "ended" /\ ~lookup.found /\ ~Partial(lookup)
   /\ lookup.scanned < ScanCap /\ Cardinality(lookup.fetched) < MaxTransactions) =>
  \A i \in 1 .. lookup.began : chain[i] = "failed" \/ i \in lookup.fetched

(* A lookup asks for no more signatures and transactions than its budgets, *)
(* and for no transaction twice.                                           *)
WithinBudgets ==
  lookup # NoLookup =>
    /\ lookup.scanned <= ScanCap
    /\ Cardinality(lookup.fetched) <= MaxTransactions
    /\ lookup.batch \cap lookup.fetched = {}

(* A failure never hides a trade that is there behind an unmarked answer:  *)
(* what was not fetched because the node failed is marked.                 *)
FailuresAreMarked ==
  (lookup.phase = "ended" /\ ~Partial(lookup) /\ ~lookup.found) =>
    \A i \in lookup.fetched \ lookup.absent : ~IsTarget(i)

(* Every card comes to rest, by the lookup's own end and not only by the   *)
(* timeouts of the route.                                                  *)
HydrationEnds == card.phase # "done" ~> card.phase = "done"

(* "SolSoul is not fabricating side, amount, trader, seed hash, or tx      *)
(* fields": the trade a card shows is the one that made its Soul.          *)
ShowsOwnTrade == card.shown # Nothing => card.shown.generation = card.target

=============================================================================
