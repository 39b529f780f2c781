----------------------------- MODULE Stats_proofs -----------------------------
(***************************************************************************)
(* Proofs about the public statistics, for any number of launches,         *)
(* requests, loads in flight, restarts and visits, for any limits on the   *)
(* tokens listed and the rows shown: an unmarked answer counts every token *)
(* it should and shows as many as it may, an answer is blank by failure    *)
(* only when there was nothing to fall back on, and an error does not lose *)
(* what the dashboard shows.                                               *)
(***************************************************************************)
EXTENDS Stats, FiniteSetTheorems, TLAPS

-----------------------------------------------------------------------------
(* The inductive invariant *)

RequestFields == {"phase", "served", "visit", "answer", "at", "cold"}
SnapshotFields == {"rows", "themes", "total", "data", "capability", "collected", "partial",
                   "stale"}

Requests ==
  /\ fetches = [f \in Fetches |-> fetches[f]]
  /\ \A f \in Fetches : DOMAIN fetches[f] = RequestFields

Loads ==
  /\ loads = [l \in Fetches \cup {Prewarm} |-> loads[l]]
  /\ \A l \in Fetches \cup {Prewarm} : loads[l] \subseteq Nat

(* What the process falls back on is worth it.                             *)
Usable == \A s \in last : DOMAIN s = SnapshotFields /\ (s.collected \/ ~Blank(s))

(* A load is of a request that has been made; it reads the chain after it, *)
(* and the process keeps what it had to fall back on until it ends.        *)
Ordered ==
  \A f \in Fetches :
    /\ fetches[f].at \in 0 .. launched
    /\ loads[f] # NoLoad => fetches[f] # NoFetch
    /\ fetches[f].phase = "sent" /\ (loads[f] # NoLoad \/ fetches[f].answer # {}) =>
         fetches[f].served
    /\ loads[f] # NoLoad /\ fetches[f].phase = "sent" /\ ~fetches[f].cold => last # {}
    /\ \A since \in loads[f] : fetches[f].at <= since

(* What the dashboard shows is stored, unless it is not worth storing.     *)
Stored ==
  page.status = "loaded" =>
    cache # {} \/ \E s \in page.snapshot : s.stale \/ Blank(s)

Numbered == launched \in Nat

StatsInv ==
  Numbered /\ Requests /\ Loads /\ Usable /\ Ordered /\ Stored /\ UnmarkedIsFresh /\ BlankMeansCold

-----------------------------------------------------------------------------
(* A load *)

(* A list that is cut is full, and is whole otherwise.                     *)
LEMMA CutFull ==
  ASSUME NEW S, IsFiniteSet(S), NEW n \in Nat, NEW T \in Cut(S, n)
  PROVE  /\ T \subseteq S
         /\ (T = S /\ Cardinality(S) <= n) \/ Cardinality(T) = n
BY FS_CardinalityType DEF Cut

(* A load that has read the tokens counts all of them, and shows all of    *)
(* them or as many rows as there may be.                                   *)
LEMMA RowsFull ==
  ASSUME NEW seen \in Nat, NEW snapshot \in Snapshots(seen)
  PROVE  /\ DOMAIN snapshot = SnapshotFields
         /\ ~snapshot.partial =>
              /\ snapshot.total = seen
              /\ DOMAIN snapshot.rows = 1 .. seen \/ Cardinality(DOMAIN snapshot.rows) = MaxRows
<1>1. PICK tokens \in TokenPages(seen) :
        \E claims \in Souls(seen), generations \in Souls(seen), details \in BOOLEAN,
           shown \in Cut(DOMAIN tokens.value.items, MaxRows), audits \in Audits(tokens.value.items) :
          snapshot = Snapshot(tokens, claims, generations, details, shown, audits)
  BY DEF Snapshots
<1>2. PICK claims \in Souls(seen), generations \in Souls(seen), details \in BOOLEAN,
           shown \in Cut(DOMAIN tokens.value.items, MaxRows), audits \in Audits(tokens.value.items) :
        snapshot = Snapshot(tokens, claims, generations, details, shown, audits)
  BY <1>1
<1>3. /\ DOMAIN snapshot = SnapshotFields
      /\ snapshot.total = tokens.value.total /\ DOMAIN snapshot.rows = shown
      /\ ~snapshot.partial => tokens.ok
  BY <1>2 DEF Snapshot, Rows, SnapshotFields
<1>4. ASSUME tokens.ok
      PROVE  /\ tokens.value.total = seen
             /\ shown = 1 .. seen \/ Cardinality(shown) = MaxRows
  <2>1. PICK listed \in Cut(1 .. seen, MaxListed) :
          tokens = Answered([items |-> Restrict(Themes, listed), total |-> seen])
    BY <1>4 DEF TokenPages, Attempts, Failed
  <2>2. /\ tokens.value.total = seen
        /\ DOMAIN tokens.value.items = listed
    BY <2>1 DEF Answered, Restrict
  <2>3. /\ IsFiniteSet(1 .. seen) /\ listed \subseteq 1 .. seen
        /\ listed = 1 .. seen \/ Cardinality(listed) = MaxListed
    <3>1. IsFiniteSet(1 .. seen)
      BY FS_Interval
    <3>. QED BY <2>1, <3>1, RowLimits, CutFull
  <2>4. IsFiniteSet(listed)
    BY <2>3, FS_Subset
  <2>5. (shown = listed /\ Cardinality(listed) <= MaxRows) \/ Cardinality(shown) = MaxRows
    BY <2>2, <2>4, RowLimits, CutFull
  <2>. QED BY <2>2, <2>3, <2>5, RowLimits
<1>. QED BY <1>3, <1>4

(* What a load returns and what the process keeps of it.                   *)
LEMMA SnapshotSound ==
  ASSUME Usable, NEW snapshot, DOMAIN snapshot = SnapshotFields
  PROVE  /\ \A s \in Served(snapshot) : ~s.partial => s = snapshot
         /\ \A s \in Served(snapshot) : Blank(s) /\ ~s.collected => last = {}
         /\ \A s \in Kept(snapshot) : DOMAIN s = SnapshotFields /\ (s.collected \/ ~Blank(s))
         /\ last # {} => Kept(snapshot) # {}
<1>1. CASE ~snapshot.collected /\ Blank(snapshot) /\ last # {}
  <2>1. Served(snapshot) = {[s EXCEPT !.partial = TRUE, !.stale = TRUE] : s \in last}
    BY <1>1 DEF Served
  <2>2. \A s \in Served(snapshot) : s.partial /\ ~ (Blank(s) /\ ~s.collected)
    <3>. TAKE s \in Served(snapshot)
    <3>1. PICK u \in last : s = [u EXCEPT !.partial = TRUE, !.stale = TRUE]
      BY <2>1
    <3>2. /\ s.partial /\ s.rows = u.rows /\ s.themes = u.themes /\ s.data = u.data
          /\ s.collected = u.collected
      BY <3>1 DEF Usable, SnapshotFields
    <3>. QED BY <3>2 DEF Usable, Blank
  <2>3. Kept(snapshot) = last
    BY <1>1 DEF Kept
  <2>. QED BY <2>2, <2>3 DEF Usable
<1>2. CASE ~ (~snapshot.collected /\ Blank(snapshot) /\ last # {})
  <2>1. Served(snapshot) = {snapshot}
    BY <1>2 DEF Served
  <2>2. Kept(snapshot) = IF snapshot.collected \/ ~Blank(snapshot) THEN {snapshot} ELSE last
    BY DEF Kept
  <2>. QED BY <1>2, <2>1, <2>2 DEF Usable
<1>. QED BY <1>1, <1>2

LEMMA FinishKeeps ==
  ASSUME NEW l \in Fetches \cup {Prewarm}, NEW since \in loads[l],
         NEW read \in since .. launched, NEW snapshot \in Snapshots(read)
  PROVE  StatsInv /\ Finish(l, snapshot) => StatsInv'
<1>. SUFFICES ASSUME StatsInv, Finish(l, snapshot) PROVE StatsInv'
  OBVIOUS
<1>. DEFINE told == l # Prewarm /\ fetches[l].phase = "sent"
<1>1. /\ loads[l] # NoLoad /\ loads' = [loads EXCEPT ![l] = NoLoad]
      /\ last' = Kept(snapshot)
      /\ fetches' = IF ~told THEN fetches ELSE [fetches EXCEPT ![l].answer = Served(snapshot)]
      /\ launched' = launched /\ page' = page /\ cache' = cache
  BY DEF Finish, chain
<1>2. since \in Nat /\ read \in Nat /\ since <= read
  <2>1. since \in Nat /\ launched \in Nat
    BY DEF StatsInv, Loads, Numbered
  <2>. QED BY <2>1
<1>3. /\ DOMAIN snapshot = SnapshotFields
      /\ ~snapshot.partial =>
           /\ snapshot.total = read
           /\ DOMAIN snapshot.rows = 1 .. read \/ Cardinality(DOMAIN snapshot.rows) = MaxRows
  BY <1>2, RowsFull
<1>4. /\ \A s \in Served(snapshot) : ~s.partial => s = snapshot
      /\ \A s \in Served(snapshot) : Blank(s) /\ ~s.collected => last = {}
      /\ \A s \in Kept(snapshot) : DOMAIN s = SnapshotFields /\ (s.collected \/ ~Blank(s))
      /\ last # {} => Kept(snapshot) # {}
  BY <1>3, SnapshotSound DEF StatsInv
<1>5. Numbered' /\ Loads' /\ Usable' /\ Stored'
  <2>1. Numbered' /\ Loads'
    BY <1>1 DEF StatsInv, Numbered, Loads, NoLoad
  <2>. QED BY <1>1, <1>4, <2>1 DEF StatsInv, Usable, Blank, Stored
<1>6. /\ Requests'
      /\ \A f \in Fetches : /\ fetches'[f].at = fetches[f].at /\ fetches'[f].cold = fetches[f].cold
                            /\ fetches'[f].phase = fetches[f].phase
                            /\ (f # l \/ ~told) => fetches'[f] = fetches[f]
                            /\ f = l /\ told => fetches'[f].answer = Served(snapshot)
  BY <1>1 DEF StatsInv, Requests, RequestFields
<1>8. Ordered'
  <2>1. \A f \in Fetches : loads'[f] = IF f = l THEN NoLoad ELSE loads[f]
    BY <1>1 DEF StatsInv, Loads
  <2>2. NoLoad = {}
    BY DEF NoLoad
  <2>. QED BY <1>1, <1>4, <1>6, <2>1, <2>2 DEF StatsInv, Ordered
<1>9. UnmarkedIsFresh'
  <2>. SUFFICES ASSUME NEW f \in Fetches, NEW s \in fetches'[f].answer, ~s.partial
                PROVE  /\ fetches'[f].at <= s.total
                       /\ 1 .. fetches'[f].at \subseteq DOMAIN s.rows \/ Cardinality(DOMAIN s.rows) = MaxRows
    BY DEF UnmarkedIsFresh
  <2>1. CASE f # l \/ ~told
    BY <1>6, <2>1 DEF StatsInv, UnmarkedIsFresh
  <2>2. CASE f = l /\ told
    <3>1. s = snapshot /\ fetches'[f].at = fetches[f].at
      BY <1>4, <1>6, <2>2
    <3>2. fetches[f].at \in Nat /\ fetches[f].at <= read
      <4>1. fetches[f].at \in 0 .. launched /\ fetches[f].at <= since
        BY <2>2 DEF StatsInv, Ordered
      <4>. QED BY <1>2, <4>1
    <3>3. 1 .. fetches[f].at \subseteq 1 .. read
      BY <1>2, <3>2
    <3>. QED BY <1>3, <3>1, <3>2, <3>3
  <2>. QED BY <2>1, <2>2
<1>10. BlankMeansCold'
  BY <1>1, <1>4, <1>6 DEF StatsInv, Ordered, BlankMeansCold, Blank, Prewarm
<1>. QED BY <1>5, <1>6, <1>8, <1>9, <1>10 DEF StatsInv

LEMMA ServeKeeps == ASSUME NEW f \in Fetches PROVE StatsInv /\ Serve(f) => StatsInv'
<1>. SUFFICES ASSUME StatsInv, Serve(f) PROVE StatsInv'
  OBVIOUS
<1>1. /\ fetches[f].phase = "sent" /\ ~fetches[f].served
      /\ loads' = [Primed(loads) EXCEPT ![f] = NewLoad]
      /\ launched' = launched /\ last' = last /\ page' = page /\ cache' = cache
  BY DEF Serve, chain
<1>2. f # Prewarm /\ Prewarm \notin Fetches
  BY DEF Fetches, Prewarm
<1>3. /\ loads' = [g \in Fetches \cup {Prewarm} |-> loads'[g]]
      /\ \A g \in Fetches : loads'[g] = IF g = f THEN NewLoad ELSE loads[g]
      /\ loads'[Prewarm] \in {NewLoad, loads[Prewarm]}
  BY <1>1, <1>2 DEF StatsInv, Loads, Primed
<1>4. Loads'
  <2>1. ASSUME NEW g \in Fetches \cup {Prewarm} PROVE loads'[g] \subseteq Nat
    <3>1. loads'[g] \in {NewLoad, loads[g]}
      BY <1>3
    <3>2. loads[g] \subseteq Nat /\ NewLoad \subseteq Nat
      BY DEF StatsInv, Loads, Numbered, NewLoad
    <3>. QED BY <3>1, <3>2
  <2>. QED BY <1>3, <2>1 DEF Loads
<1>5. /\ Requests'
      /\ \A g \in Fetches : /\ fetches'[g].at = fetches[g].at /\ fetches'[g].answer = fetches[g].answer
                            /\ fetches'[g].phase = fetches[g].phase
                            /\ g # f => fetches'[g] = fetches[g]
      /\ fetches'[f].cold = (last = {}) /\ fetches'[f].served
  BY DEF StatsInv, Serve, Requests, RequestFields
<1>6. fetches'[f] # NoFetch
  BY <1>1, <1>5 DEF NoFetch
<1>7. Ordered'
  <2>1. NewLoad = {launched} /\ fetches[f].at <= launched
    BY DEF NewLoad, StatsInv, Ordered, Numbered
  <2>2. \A g \in Fetches : g # f => loads'[g] = loads[g] /\ fetches'[g] = fetches[g]
    BY <1>3, <1>5
  <2>3. loads'[f] = NewLoad
    BY <1>3
  <2>. QED BY <1>1, <1>5, <1>6, <2>1, <2>2, <2>3, ZenonT(40) DEF StatsInv, Ordered
<1>8. Usable' /\ Stored' /\ UnmarkedIsFresh' /\ BlankMeansCold'
  BY <1>1, <1>5 DEF StatsInv, Usable, Stored, Ordered, UnmarkedIsFresh, BlankMeansCold, Blank
<1>9. Numbered'
  BY <1>1 DEF StatsInv, Numbered
<1>. QED BY <1>4, <1>5, <1>7, <1>8, <1>9 DEF StatsInv

(* The process ends with its loads and what it kept.                       *)
LEMMA RestartKeeps == StatsInv /\ Restart => StatsInv'
<1>. SUFFICES ASSUME StatsInv, Restart PROVE StatsInv'
  OBVIOUS
<1>1. /\ last' = {} /\ launched' = launched /\ page' = page /\ cache' = cache
      /\ fetches' = fetches
      /\ loads' = [l \in Fetches \cup {Prewarm} |-> IF l = Prewarm THEN NewLoad ELSE NoLoad]
  BY DEF Restart, chain, browser
<1>2. \A f \in Fetches : loads'[f] = NoLoad
  BY <1>1 DEF Fetches, Prewarm
<1>3. Numbered' /\ Loads'
  BY <1>1 DEF StatsInv, Numbered, Loads, NoLoad, NewLoad
<1>4. Ordered'
  BY <1>1, <1>2 DEF StatsInv, Ordered, NoLoad
<1>5. Requests' /\ Usable' /\ Stored' /\ UnmarkedIsFresh' /\ BlankMeansCold'
  BY <1>1 DEF StatsInv, Requests, Usable, Blank, Stored, UnmarkedIsFresh, BlankMeansCold
<1>. QED BY <1>3, <1>4, <1>5 DEF StatsInv

(* A new request knows the chain by now, and has no load yet.              *)
LEMMA SendsKeeps ==
  ASSUME StatsInv, Sends, UNCHANGED <<chain, server>>
  PROVE  Numbered' /\ Requests' /\ Loads' /\ Usable' /\ Ordered' /\ UnmarkedIsFresh'
         /\ BlankMeansCold'
<1>1. PICK f \in Fetches :
        /\ fetches[f] = NoFetch
        /\ fetches' = [fetches EXCEPT ![f] =
             [NoFetch EXCEPT !.phase = "sent", !.visit = visit', !.at = launched]]
  BY DEF Sends
<1>2. /\ launched' = launched /\ loads' = loads /\ last' = last
  BY DEF chain, server
<1>3. /\ Requests'
      /\ \A g \in Fetches : g # f => fetches'[g] = fetches[g]
      /\ fetches'[f].phase = "sent" /\ fetches'[f].at = launched
      /\ fetches'[f].answer = {}
  BY <1>1 DEF StatsInv, Requests, RequestFields, NoFetch
<1>4. Ordered'
  <2>1. loads[f] = {} /\ launched \in Nat
    BY <1>1 DEF StatsInv, Ordered, NoLoad, Numbered
  <2>. QED BY <1>2, <1>3, <2>1 DEF StatsInv, Ordered, NoLoad
<1>5. Numbered' /\ Loads' /\ Usable'
  BY <1>2 DEF StatsInv, Numbered, Loads, Usable, Blank
<1>6. UnmarkedIsFresh' /\ BlankMeansCold'
  BY <1>3 DEF StatsInv, UnmarkedIsFresh, BlankMeansCold, Blank
<1>. QED BY <1>3, <1>4, <1>5, <1>6

(* A request that has ended is of no concern to its load.                  *)
LEMMA EndsKeeps ==
  ASSUME StatsInv, NEW f \in Fetches, fetches[f].phase = "sent", Ends(f),
         UNCHANGED <<chain, server>>
  PROVE  Numbered' /\ Requests' /\ Loads' /\ Usable' /\ Ordered' /\ UnmarkedIsFresh'
         /\ BlankMeansCold'
<1>1. fetches' = [fetches EXCEPT ![f] = [NoFetch EXCEPT !.phase = "over"]]
  BY DEF Ends
<1>2. /\ launched' = launched /\ loads' = loads /\ last' = last
  BY DEF chain, server
<1>3. /\ Requests'
      /\ \A g \in Fetches : g # f => fetches'[g] = fetches[g]
      /\ fetches'[f].phase = "over" /\ fetches'[f].at = 0 /\ fetches'[f].answer = {}
  BY <1>1 DEF StatsInv, Requests, RequestFields, NoFetch
<1>4. fetches'[f] # NoFetch
  BY <1>3 DEF NoFetch
<1>5. Ordered'
  <2>1. launched \in Nat /\ loads[f] \subseteq Nat
    BY DEF StatsInv, Numbered, Loads
  <2>. QED BY <1>2, <1>3, <1>4, <2>1 DEF StatsInv, Ordered, NoLoad
<1>6. Numbered' /\ Loads' /\ Usable'
  BY <1>2 DEF StatsInv, Numbered, Loads, Usable, Blank
<1>7. UnmarkedIsFresh' /\ BlankMeansCold'
  BY <1>3 DEF StatsInv, UnmarkedIsFresh, BlankMeansCold, Blank
<1>. QED BY <1>3, <1>5, <1>6, <1>7

LEMMA VisitKeeps == StatsInv /\ (Visit \/ Refresh) => StatsInv'
<1>. SUFFICES ASSUME StatsInv, Visit \/ Refresh PROVE StatsInv'
  OBVIOUS
<1>1. Sends /\ UNCHANGED <<chain, server>> /\ cache' = cache
  BY DEF Visit, Refresh
<1>2. Stored'
  <2>1. CASE Visit
    BY <1>1, <2>1 DEF StatsInv, Stored, Visit, Shows
  <2>2. CASE Refresh
    BY <1>1, <2>2 DEF StatsInv, Stored, Refresh, Shows, Blank
  <2>. QED BY <2>1, <2>2
<1>. QED BY <1>1, <1>2, SendsKeeps DEF StatsInv

LEMMA SameRequestsKeep ==
  ASSUME StatsInv, UNCHANGED <<loads, last, fetches>>,
         launched <= launched', Numbered'
  PROVE  Numbered' /\ Requests' /\ Loads' /\ Usable' /\ Ordered' /\ UnmarkedIsFresh'
         /\ BlankMeansCold'
<1>1. loads' = loads /\ last' = last /\ fetches' = fetches
  OBVIOUS
<1>2. Requests'
  BY <1>1 DEF StatsInv, Requests
<1>3. Loads'
  BY <1>1, Zenon DEF StatsInv, Loads
<1>4. Usable'
  BY <1>1 DEF StatsInv, Usable, Blank
<1>5. Ordered'
  <2>1. \A f \in Fetches : fetches[f].at \in 0 .. launched => fetches[f].at \in 0 .. launched'
    BY DEF StatsInv, Numbered
  <2>. QED BY <1>1, <2>1 DEF StatsInv, Ordered
<1>6. UnmarkedIsFresh' /\ BlankMeansCold'
  BY <1>1 DEF StatsInv, UnmarkedIsFresh, BlankMeansCold, Blank
<1>. QED BY <1>2, <1>3, <1>4, <1>5, <1>6

LEMMA LeaveKeeps == StatsInv /\ Leave => StatsInv'
<1>. SUFFICES ASSUME StatsInv, Leave PROVE StatsInv'
  OBVIOUS
<1>1. launched' = launched /\ UNCHANGED <<loads, last, fetches>> /\ page'.status = "closed"
  BY DEF Leave, chain, server, Shows
<1>2. Stored'
  BY <1>1 DEF Stored
<1>. QED BY <1>1, <1>2, SameRequestsKeep DEF StatsInv, Numbered

(* The dashboard loses nothing it has stored.                              *)
LEMMA DeliverKeeps ==
  ASSUME NEW f \in Fetches
  PROVE  StatsInv /\ (Deliver(f) \/ Abort(f)) => StatsInv'
<1>. SUFFICES ASSUME StatsInv, Deliver(f) \/ Abort(f) PROVE StatsInv'
  OBVIOUS
<1>1. fetches[f].phase = "sent" /\ Ends(f) /\ UNCHANGED <<chain, server>>
  BY DEF Deliver, Abort
<1>2. Stored'
  <2>1. CASE Abort(f)
    BY <2>1 DEF StatsInv, Stored, Abort, Tells, Shows, Blank
  <2>2. CASE Deliver(f)
    <3>1. PICK s \in fetches[f].answer :
            IF IsValid(s)
            THEN /\ cache' = IF Storable(s) THEN {s} ELSE cache
                 /\ Tells(f, "loaded", {s})
            ELSE Tells(f, "error", cache) /\ UNCHANGED cache
      BY <2>2 DEF Deliver
    <3>2. page' = page \/ page' = [status |-> "loaded", snapshot |-> {s}]
          \/ page' = [status |-> "error", snapshot |-> cache]
      BY <3>1 DEF Tells, Shows
    <3>3. cache # {} => cache' # {}
      BY <3>1
    <3>4. CASE page' = page
      BY <3>3, <3>4 DEF StatsInv, Stored, Blank
    <3>5. CASE page' = [status |-> "error", snapshot |-> cache]
      BY <3>5 DEF Stored
    <3>6. CASE page' # page /\ page' = [status |-> "loaded", snapshot |-> {s}]
      <4>1. IsValid(s)
        BY <3>1, <3>6 DEF Tells, Shows
      <4>2. cache' # {} \/ s.stale \/ Blank(s)
        BY <3>1, <4>1 DEF Storable
      <4>. QED BY <3>6, <4>2 DEF Stored, Blank
    <3>. QED BY <3>2, <3>4, <3>5, <3>6
  <2>. QED BY <2>1, <2>2
<1>. QED BY <1>1, <1>2, EndsKeeps DEF StatsInv

LEMMA LaunchKeeps == StatsInv /\ Launch => StatsInv'
<1>. SUFFICES ASSUME StatsInv, Launch PROVE StatsInv'
  OBVIOUS
<1>1. launched <= launched' /\ Numbered'
  BY DEF StatsInv, Numbered, Launch
<1>2. UNCHANGED <<loads, last, fetches>> /\ page' = page /\ cache' = cache
  BY DEF Launch, server, browser
<1>3. Stored'
  BY <1>2 DEF StatsInv, Stored, Blank
<1>. QED BY <1>1, <1>2, <1>3, SameRequestsKeep DEF StatsInv

LEMMA StatsInvInit == Init => StatsInv
<1>. SUFFICES ASSUME Init PROVE StatsInv
  OBVIOUS
<1>1. /\ launched = 0 /\ last = {} /\ page.status = "closed"
      /\ loads = [l \in Fetches \cup {Prewarm} |-> IF l = Prewarm THEN NewLoad ELSE NoLoad]
      /\ fetches = [f \in Fetches |-> NoFetch]
  BY DEF Init
<1>2. Requests /\ Loads /\ Usable /\ Stored
  BY <1>1 DEF Requests, RequestFields, NoFetch, Loads, Usable, Stored, NoLoad, NewLoad
<1>3. \A f \in Fetches : fetches[f].at = 0 /\ fetches[f].answer = {} /\ loads[f] = NoLoad
  BY <1>1 DEF NoFetch, Fetches, Prewarm
<1>4. Ordered /\ UnmarkedIsFresh /\ BlankMeansCold
  BY <1>1, <1>3 DEF Ordered, UnmarkedIsFresh, BlankMeansCold, NoLoad
<1>5. Numbered
  BY <1>1 DEF Numbered
<1>. QED BY <1>2, <1>4, <1>5 DEF StatsInv

LEMMA StatsInvStep == StatsInv /\ [Next]_vars => StatsInv'
<1>. SUFFICES ASSUME StatsInv, [Next]_vars PROVE StatsInv'
  OBVIOUS
<1>1. CASE \E l \in Fetches \cup {Prewarm} : Work(l)
  BY <1>1, FinishKeeps DEF Work
<1>2. CASE \E f \in Fetches : Serve(f) \/ Deliver(f) \/ Abort(f)
  BY <1>2, ServeKeeps, DeliverKeeps
<1>3. CASE Restart
  BY <1>3, RestartKeeps
<1>4. CASE Visit \/ Refresh
  BY <1>4, VisitKeeps
<1>5. CASE Leave
  BY <1>5, LeaveKeeps
<1>6. CASE Launch
  BY <1>6, LaunchKeeps
<1>7. CASE UNCHANGED vars
  <2>1. /\ launched' = launched /\ UNCHANGED <<loads, last, fetches>>
        /\ page' = page /\ cache' = cache
    BY <1>7 DEF vars, chain, server, browser
  <2>2. Stored'
    BY <2>1 DEF StatsInv, Stored, Blank
  <2>. QED BY <2>1, <2>2, SameRequestsKeep DEF StatsInv, Numbered
<1>. QED BY <1>1, <1>2, <1>3, <1>4, <1>5, <1>6, <1>7 DEF Next

LEMMA StatsInvAlways == Spec => []StatsInv
<1>1. Init => StatsInv
  BY StatsInvInit
<1>2. StatsInv /\ [Next]_vars => StatsInv'
  BY StatsInvStep
<1>. QED BY <1>1, <1>2, PTL DEF Spec

-----------------------------------------------------------------------------
(* The theorems *)

(* Whatever loads overlap, fail or outlive their request, an answer of     *)
(* /api/stats that is not marked partial counts every token launched       *)
(* before its request; it shows each of them, or as many tokens as a       *)
(* snapshot may have (MAX_PER_TOKEN_SOUL_TOTALS of a page of               *)
(* MAX_STATS_TOKENS), for any two such limits.                             *)
THEOREM UnmarkedAreFresh == Spec => []UnmarkedIsFresh
<1>1. StatsInv => UnmarkedIsFresh
  BY DEF StatsInv
<1>. QED BY <1>1, StatsInvAlways, PTL

(* Failures leave an answer without a figure, a list or recent activity    *)
(* only if the process had nothing to fall back on when the request came,  *)
(* across restarts and loads that finish in any order.                     *)
THEOREM BlanksAreCold == Spec => []BlankMeansCold
<1>1. StatsInv => BlankMeansCold
  BY DEF StatsInv
<1>. QED BY <1>1, StatsInvAlways, PTL

(* A failed refresh of the dashboard leaves something on it whenever it    *)
(* showed a current answer with something in it.                           *)
THEOREM ErrorsKeepShowing == Spec => KeepsShowing
<1>. DEFINE Step == /\ page.status = "loaded" /\ page'.status = "error"
                    /\ \A s \in page.snapshot : ~s.stale /\ ~Blank(s)
                    => page'.snapshot # {}
<1>1. StatsInv /\ [Next]_vars => [Step]_vars
  <2>. SUFFICES ASSUME StatsInv, [Next]_vars, page.status = "loaded", page'.status = "error",
                       \A s \in page.snapshot : ~s.stale /\ ~Blank(s)
                PROVE  page'.snapshot # {}
    OBVIOUS
  <2>1. cache # {}
    BY DEF StatsInv, Stored
  <2>2. page' # page
    OBVIOUS
  <2>3. \E f \in Fetches : Deliver(f) \/ Abort(f)
    <3>1. ~ UNCHANGED vars /\ ~ \E l \in Fetches \cup {Prewarm} : Work(l)
      BY <2>2 DEF Work, Finish, vars, browser
    <3>2. ~Restart /\ ~ (\E f \in Fetches : Serve(f))
      BY <2>2 DEF Restart, Serve, browser
    <3>3. ~Visit /\ ~Refresh /\ ~Leave
      BY <2>2 DEF Visit, Refresh, Leave, Shows
    <3>4. ~ Launch
      BY <2>2 DEF Launch, browser
    <3>. QED BY <3>1, <3>2, <3>3, <3>4 DEF Next
  <2>. QED BY <2>1, <2>3 DEF Deliver, Abort, Tells, Shows
<1>. QED BY <1>1, StatsInvAlways, PTL DEF Spec, KeepsShowing

===============================================================================
