-------------------------------- MODULE Stats --------------------------------
(***************************************************************************)
(* The public statistics: /api/stats of the web application (app/src/lib/  *)
(* statsRoute.ts and stats.ts), which collects from an RPC node and keeps  *)
(* the last usable snapshot of its process, and the dashboard that fetches *)
(* it (StatsDashboard.tsx) and keeps an answer in the browser's storage    *)
(* (publicStatsCache.ts).                                                  *)
(*                                                                         *)
(* A source of a load answers or fails (a timeout is a failure) while the  *)
(* chain and the other loads go on.  Loads overlap, the process may end,   *)
(* answers arrive late or not at all.                                      *)
(***************************************************************************)
EXTENDS Integers, Sequences, FiniteSets, FiniteSetsExt, Functions

CONSTANTS
  Themes,        \* the art theme of each launch, in their order
  Deprecated,    \* launches whose curve has reached the cap
  KnownThemes,   \* themes isValidThemeSummary lists
  Scans,         \* how far the RPC node lets a token's accounts be scanned
  MaxListed,     \* MAX_STATS_TOKENS: the page of tokens a load asks for
  MaxRows,       \* MAX_PER_TOKEN_SOUL_TOTALS: the rows of a snapshot
  MaxFetches,    \* model bound on the dashboard's requests
  MaxVisits      \* model bound on visits of the dashboard

ASSUME RowLimits == MaxListed \in Nat /\ MaxRows \in 1 .. MaxListed

VARIABLES
  launched,                       \* the chain: how many tokens have been launched
  last, warm, loads,              \* the server process
  visit, page, cache, fetches     \* the browser

chain == <<launched>>
server == <<last, warm, loads>>
browser == <<visit, page, cache, fetches>>
vars == <<chain, server, browser>>

Fetches == 1 .. MaxFetches
Prewarm == 0                      \* the load nobody waits for

-----------------------------------------------------------------------------
(* Snapshots *)

(* Nothing in it, as hasCollectionData has it.                             *)
Blank(snapshot) ==
  ~snapshot.data /\ snapshot.themes = {} /\ DOMAIN snapshot.rows = {}

LeastComplete(classes) ==
  IF classes = {} \/ "unavailable" \in classes THEN "unavailable"
  ELSE IF "bounded" \in classes THEN "bounded" ELSE "indexed"

(* Curves that have reached the cap are not scanned.                       *)
Scannable(tokens) == DOMAIN tokens \ Deprecated

(* audits: one for each token scanned, or nothing after a failure.         *)
Audited(audits, t) == IF t \in DOMAIN audits THEN audits[t] ELSE "unavailable"

(* The first n of a list, whose order (by creation, by generations) is     *)
(* left out.                                                               *)
Cut(S, n) ==
  IF Cardinality(S) <= n THEN {S} ELSE {T \in SUBSET S : Cardinality(T) = n}

Rows(tokens, shown, audits) ==
  [t \in shown |-> [theme |-> tokens[t], audit |-> Audited(audits, t)]]

Capability(audits) == LeastComplete(Range(audits))

(* Of each source what it read, or the empty default.  details: receipt    *)
(* counts, Raydium vaults and slot were read; total: the tokens launched;  *)
(* data: a figure is not zero, or a launch, a claim or a generation is     *)
(* listed as recent activity; collected: tokens and claims were read.      *)
Snapshot(tokens, claims, generations, details, shown, audits) ==
  LET items == tokens.value.items
      all == tokens.ok /\ claims.ok
      figures == tokens.value.total > 0 \/ claims.value
      activity == DOMAIN items # {} \/ claims.value \/ generations.value
  IN [rows |-> Rows(items, shown, audits),
      themes |-> Range(items),
      total |-> tokens.value.total,
      data |-> figures \/ activity,
      capability |-> Capability(audits),
      collected |-> all,
      partial |-> ~all \/ ~generations.ok \/ ~details \/ Scannable(items) # DOMAIN audits,
      stale |-> FALSE]

(* isValidPublicStatsSnapshot, as far as snapshots of the route differ.    *)
ThemesKnown(snapshot) == snapshot.themes \subseteq KnownThemes

CapabilityFits(snapshot) ==
  DOMAIN snapshot.rows # {} =>
    snapshot.capability = LeastComplete({snapshot.rows[t].audit : t \in DOMAIN snapshot.rows})

IsValid(snapshot) == ThemesKnown(snapshot) /\ CapabilityFits(snapshot)

Storable_CompleteOnlyBug(snapshot) == IsValid(snapshot) /\ ~snapshot.stale /\ ~snapshot.partial

(* writePublicStatsSnapshot keeps no stale answer, and no empty one that   *)
(* failures have made empty.                                               *)
Storable(snapshot) ==
  IsValid(snapshot) /\ ~snapshot.stale /\ ~(snapshot.partial /\ Blank(snapshot))

-----------------------------------------------------------------------------
(* Loads of the server *)

Failed(empty) == [ok |-> FALSE, value |-> empty]
Answered(value) == [ok |-> TRUE, value |-> value]

(* A load under way: how many tokens had been launched when it began.      *)
NoLoad == {}
NewLoad == {launched}

(* primePublicStatsSnapshot: one load at a time, none once one succeeded.  *)
Primed(l) ==
  IF warm \/ l[Prewarm] # NoLoad THEN l ELSE [l EXCEPT ![Prewarm] = NewLoad]

Attempts(values, empty) == {Answered(value) : value \in values} \cup {Failed(empty)}

(* A page of the tokens, and their number.                                 *)
TokenPages(seen) ==
  Attempts({[items |-> Restrict(Themes, listed), total |-> seen] :
              listed \in Cut(1 .. seen, MaxListed)},
           [items |-> <<>>, total |-> 0])

(* Whether Souls have been claimed, or generated: none before a launch.    *)
Souls(seen) == Attempts({some \in BOOLEAN : some => seen > 0}, FALSE)

(* An audit of each token scanned, or of none when the scan timed out.     *)
Audits(items) == [Scannable(items) -> Scans] \cup {<<>>}

(* What a load may make of a chain it has seen.                            *)
Snapshots(seen) ==
  UNION {{Snapshot(tokens, claims, generations, details, shown, audits) :
            claims \in Souls(seen), generations \in Souls(seen), details \in BOOLEAN,
            shown \in Cut(DOMAIN tokens.value.items, MaxRows),
            audits \in Audits(tokens.value.items)} : tokens \in TokenPages(seen)}

Served_UnflaggedBug(snapshot) ==
  IF ~snapshot.collected /\ Blank(snapshot) /\ last # {} THEN last ELSE {snapshot}

(* What the load returns: the last usable snapshot, marked, when           *)
(* failures have left nothing of this one.                                 *)
Served(snapshot) ==
  IF ~snapshot.collected /\ Blank(snapshot) /\ last # {}
  THEN {[s EXCEPT !.partial = TRUE, !.stale = TRUE] : s \in last}
  ELSE {snapshot}

Kept_AlwaysBug(snapshot) == {snapshot}

Kept(snapshot) ==
  IF snapshot.collected \/ ~Blank(snapshot) THEN {snapshot} ELSE last

(* The audit of the scanned tokens comes last; no await is between its     *)
(* answer and the answer of the load.                                      *)
Finish(l, snapshot) ==
  /\ loads[l] # NoLoad
  /\ loads' = [loads EXCEPT ![l] = NoLoad]
  /\ last' = Kept(snapshot)
  /\ warm' = (warm \/ (l = Prewarm /\ \A s \in Served(snapshot) : ~Blank(s) /\ ~s.partial))
  /\ fetches' = IF l = Prewarm \/ fetches[l].phase # "sent" THEN fetches
                ELSE [fetches EXCEPT ![l].answer = Served(snapshot)]
  /\ UNCHANGED <<chain, visit, page, cache>>

(* A request reaches the process: the prewarm is tried again, and the      *)
(* request has a load of its own.                                          *)
Serve(f) ==
  /\ fetches[f].phase = "sent" /\ ~fetches[f].served
  /\ loads' = [Primed(loads) EXCEPT ![f] = NewLoad]
  /\ fetches' = [fetches EXCEPT ![f].served = TRUE, ![f].cold = last = {}]
  /\ UNCHANGED <<chain, last, warm, visit, page, cache>>

(* The process ends; the module is loaded again and primes itself.         *)
Restart ==
  /\ last' = {} /\ warm' = FALSE
  /\ loads' = [l \in Fetches \cup {Prewarm} |->
                 IF l = Prewarm THEN NewLoad ELSE NoLoad]
  /\ UNCHANGED <<chain, browser>>

-----------------------------------------------------------------------------
(* The dashboard *)

NoFetch == [phase |-> "none", served |-> FALSE, visit |-> 0, answer |-> {},
            at |-> 0, cold |-> FALSE]

(* fetch is called as soon as the state is set; at: the chain by then.     *)
Sends ==
  \E f \in Fetches :
    /\ fetches[f] = NoFetch /\ \A g \in 1 .. f - 1 : fetches[g] # NoFetch
    /\ fetches' = [fetches EXCEPT ![f] =
                     [NoFetch EXCEPT !.phase = "sent", !.visit = visit', !.at = launched]]

Shows(status, snapshots) == page' = [status |-> status, snapshot |-> snapshots]

(* The mount shows the stored answer, if any, and loads.                   *)
Visit ==
  /\ page.status = "closed" /\ visit < MaxVisits /\ visit' = visit + 1
  /\ Shows(IF cache = {} THEN "loading" ELSE "loaded", cache)
  /\ Sends
  /\ UNCHANGED <<chain, server, cache>>

(* The button is disabled only while nothing is shown.                     *)
Refresh ==
  /\ page.status \in {"loaded", "error"}
  /\ IF page.status = "loaded" THEN UNCHANGED page ELSE Shows("loading", {})
  /\ UNCHANGED visit /\ Sends
  /\ UNCHANGED <<chain, server, cache>>

(* Leaving the page does not abort its requests.                           *)
Leave ==
  /\ page.status # "closed" /\ Shows("closed", {})
  /\ UNCHANGED <<chain, server, visit, cache, fetches>>

Ends(f) == fetches' = [fetches EXCEPT ![f] = [NoFetch EXCEPT !.phase = "over"]]

(* setState of a page that is gone has no effect.                          *)
Tells(f, status, snapshots) ==
  IF fetches[f].visit = visit /\ page.status # "closed"
  THEN Shows(status, snapshots) ELSE UNCHANGED page

Deliver(f) ==
  /\ fetches[f].phase = "sent"
  /\ \E s \in fetches[f].answer :
       IF IsValid(s)
       THEN /\ cache' = IF Storable(s) THEN {s} ELSE cache
            /\ Tells(f, "loaded", {s})
       ELSE Tells(f, "error", cache) /\ UNCHANGED cache
  /\ Ends(f)
  /\ UNCHANGED <<chain, server, visit>>

Abort_SilentBug(f) ==
  /\ fetches[f].phase = "sent"
  /\ Ends(f)
  /\ UNCHANGED <<chain, server, visit, page, cache>>

(* The request is aborted after 20 seconds, or fails; its load goes on.    *)
Abort(f) ==
  /\ fetches[f].phase = "sent"
  /\ Tells(f, "error", cache)
  /\ Ends(f)
  /\ UNCHANGED <<chain, server, visit, cache>>

-----------------------------------------------------------------------------
(* The chain *)

(* A mint is new, so its place among the launches can stand for it.        *)
Launch ==
  /\ launched < Len(Themes) /\ launched' = launched + 1
  /\ UNCHANGED <<server, browser>>

-----------------------------------------------------------------------------
(* An earlier visit may have stored an answer, before the first launch.    *)
Earlier == [rows |-> <<>>, themes |-> {}, total |-> 0, data |-> FALSE,
            capability |-> "unavailable", collected |-> TRUE,
            partial |-> FALSE, stale |-> FALSE]

Init ==
  /\ launched = 0
  /\ last = {} /\ warm = FALSE
  /\ loads = [l \in Fetches \cup {Prewarm} |-> IF l = Prewarm THEN NewLoad ELSE NoLoad]
  /\ visit = 0 /\ page = [status |-> "closed", snapshot |-> {}]
  /\ cache \in {{}, {Earlier}} /\ fetches = [f \in Fetches |-> NoFetch]

(* The sources of a load are asked at the same time; the chain is read at  *)
(* one point between its start and its end, which keeps what they read of  *)
(* one time together.  Which of them fail or time out is seen at the end.  *)
Work(l) ==
  \E since \in loads[l] : \E read \in since .. launched :
    \E snapshot \in Snapshots(read) : Finish(l, snapshot)

Next ==
  \/ \E l \in Fetches \cup {Prewarm} : Work(l)
  \/ \E f \in Fetches : Serve(f) \/ Deliver(f) \/ Abort(f)
  \/ Restart
  \/ Visit
  \/ Refresh
  \/ Leave
  \/ Launch

(* The dashboard's timer fires unless an answer or an error has come       *)
(* first.  Nothing is assumed of the server.                               *)
Fairness == \A f \in Fetches : WF_vars(Abort(f))

Spec == Init /\ [][Next]_vars /\ Fairness

-----------------------------------------------------------------------------
(* Properties *)

(* Whatever loads overlap and whatever snapshot is fallen back on, an      *)
(* answer that is not marked counts every token launched before the        *)
(* request was made, and shows each of them unless its rows are full: then *)
(* it shows as many as a snapshot may have.                                *)
UnmarkedIsFresh ==
  \A f \in Fetches : \A s \in fetches[f].answer :
    ~s.partial =>
      /\ fetches[f].at <= s.total
      /\ 1 .. fetches[f].at \subseteq DOMAIN s.rows \/ Cardinality(DOMAIN s.rows) = MaxRows

(* A request that came to a process which had something to fall back on is *)
(* not answered with the nothing its own failures have left.               *)
BlankMeansCold ==
  \A f \in Fetches : \A s \in fetches[f].answer :
    Blank(s) /\ ~s.collected => fetches[f].cold

(* The stored answer is what an error falls back on: a complete or partial *)
(* answer the dashboard shows is not lost to a failed refresh.             *)
KeepsShowing ==
  [][/\ page.status = "loaded" /\ page'.status = "error"
     /\ \A s \in page.snapshot : ~s.stale /\ ~Blank(s)
     => page'.snapshot # {}]_vars

(* The dashboard does not stay on "loading".                               *)
DashboardSettles == page.status = "loading" ~> page.status # "loading"

=============================================================================
