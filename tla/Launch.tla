------------------------------- MODULE Launch -------------------------------
(***************************************************************************)
(* The launch form of the web application (app/src/components/             *)
(* LaunchForm.tsx, app/src/lib/launchSubmit.ts, recentLaunches.ts and the  *)
(* wallet calls of the SDK) against the chain.                             *)
(*                                                                         *)
(* A launch takes two transactions of the wallet: one creates the mint,    *)
(* its Soul and its curve, the other uploads the art.  The second may fail *)
(* after the first has landed; the form then offers it again.  Between two *)
(* steps the form stays editable, the wallet may change, the page may be   *)
(* loaded again, and a transaction may land that nobody waits for any more.*)
(***************************************************************************)
EXTENDS Integers, FiniteSets

CONSTANTS
  Wallets,      \* wallets the browser may connect
  Nobody,       \* no wallet
  Arts,         \* art recipes the form may hold (template and style)
  NoArt,        \* what a launched Soul has until an upload
  MaxLaunches,  \* model bound on submissions that reach the wallet
  MaxUploads,   \* model bound on uploads the wallet signs
  MaxRecent     \* MAX_RECENT_LAUNCHES

ASSUME LaunchBounds == MaxLaunches \in Nat /\ MaxUploads \in Nat

VARIABLES
  wallet,   \* the connected wallet
  art,      \* the recipe the form shows
  page,     \* the result panel and the error line of the form
  flow,     \* the submission or retry the page waits for
  recents,  \* launches kept in the browser's storage
  minted,   \* launches, numbered in the order of their mint keys
  uploads   \* signed upload transactions

vars == <<wallet, art, page, flow, recents, minted, uploads>>

Launches == 1 .. MaxLaunches
NoMint == 0

NoUpload == [mint |-> NoMint, art |-> NoArt]

(* mint: the launch the panel is about; failed: it shows the upload error. *)
BlankPage ==
  [mint |-> NoMint, done |-> FALSE, failed |-> FALSE, pending |-> NoUpload,
   error |-> FALSE]

Idle == [kind |-> "none", step |-> "none", mint |-> NoMint, by |-> Nobody,
         art |-> NoArt, upload |-> 0]

(* wanted: the recipe submitted with the launch; art: the one on chain.    *)
NoLaunch == [fate |-> "none", by |-> Nobody, wanted |-> NoArt, art |-> NoArt]
NotSigned == [fate |-> "none", mint |-> NoMint, by |-> Nobody, art |-> NoArt]

Init ==
  /\ wallet \in Wallets
  /\ art \in Arts
  /\ page = BlankPage /\ flow = Idle
  /\ recents = {}
  /\ minted = [m \in Launches |-> NoLaunch]
  /\ uploads = [u \in 1 .. MaxUploads |-> NotSigned]

-----------------------------------------------------------------------------
(* The user *)

Edit(a) ==
  /\ art' = a
  /\ UNCHANGED <<wallet, page, flow, recents, minted, uploads>>

SwitchWallet(w) ==
  /\ wallet' = w
  /\ UNCHANGED <<art, page, flow, recents, minted, uploads>>

(* Loading the page again forgets everything but the stored launches.      *)
Reload ==
  /\ page' = BlankPage /\ flow' = Idle
  /\ UNCHANGED <<wallet, art, recents, minted, uploads>>

Free(records) == {n \in DOMAIN records : records[n].fate = "none"}
First(numbers) == CHOOSE n \in numbers : \A k \in numbers : n <= k

Uploading(mint, by, recipe) ==
  [kind |-> "upload", step |-> "fetch", mint |-> mint, by |-> by, art |-> recipe,
   upload |-> 0]

(* The panel of an earlier launch and its pending upload are cleared first,*)
(* also when no wallet is connected.                                       *)
Submit ==
  /\ flow = Idle
  /\ IF wallet = Nobody
     THEN /\ page' = [BlankPage EXCEPT !.error = TRUE]
          /\ UNCHANGED <<flow, minted>>
     ELSE /\ Free(minted) # {}
          /\ LET m == First(Free(minted))
             IN /\ minted' = [minted EXCEPT ![m] =
                     [fate |-> "unsigned", by |-> wallet, wanted |-> art, art |-> NoArt]]
                /\ flow' = [kind |-> "launch", step |-> "fetch", mint |-> m,
                            by |-> wallet, art |-> art, upload |-> 0]
          /\ page' = BlankPage
  /\ UNCHANGED <<wallet, art, recents, uploads>>

(* The button under a failed upload, which stays if there is no wallet.    *)
Retry ==
  /\ flow = Idle /\ wallet # Nobody
  /\ page.failed /\ page.pending.mint # NoMint
  /\ flow' = Uploading(page.pending.mint, wallet, page.pending.art)
  /\ page' = [page EXCEPT !.failed = FALSE]
  /\ UNCHANGED <<wallet, art, recents, minted, uploads>>

-----------------------------------------------------------------------------
(* The submission: blockhash, signature, confirmation *)

Fetched ==
  /\ flow.step = "fetch"
  /\ flow' = [flow EXCEPT !.step = "sign"]
  /\ UNCHANGED <<wallet, art, page, recents, minted, uploads>>

(* The wallet signs for the account the callback was started with.         *)
SignLaunch ==
  /\ flow.kind = "launch" /\ flow.step = "sign" /\ wallet = flow.by
  /\ minted' = [minted EXCEPT ![flow.mint].fate = "sent"]
  /\ flow' = [flow EXCEPT !.step = "confirm"]
  /\ UNCHANGED <<wallet, art, page, recents, uploads>>

SignUpload ==
  /\ flow.kind = "upload" /\ flow.step = "sign" /\ wallet = flow.by
  /\ Free(uploads) # {}
  /\ LET u == First(Free(uploads))
     IN /\ uploads' = [uploads EXCEPT ![u] =
             [fate |-> "sent", mint |-> flow.mint, by |-> flow.by, art |-> flow.art]]
        /\ flow' = [flow EXCEPT !.step = "confirm", !.upload = u]
  /\ UNCHANGED <<wallet, art, page, recents, minted>>

(* A launch goes on with its upload, for the wallet it was submitted by.   *)
LaunchConfirmed ==
  /\ flow.kind = "launch" /\ flow.step = "confirm"
  /\ minted[flow.mint].fate = "landed"
  /\ page' = [page EXCEPT !.mint = flow.mint,
                          !.pending = [mint |-> flow.mint, art |-> flow.art]]
  /\ flow' = Uploading(flow.mint, flow.by, flow.art)
  /\ UNCHANGED <<wallet, art, recents, minted, uploads>>

(* rememberRecentLaunch keeps the newest.                                  *)
Newest(mints) == {m \in mints : Cardinality({k \in mints : k > m}) < MaxRecent}

UploadConfirmed_UnseenBug ==
  /\ flow.kind = "upload" /\ flow.step = "confirm"
  /\ uploads[flow.upload].fate # "dead"
  /\ page' = [page EXCEPT !.done = TRUE, !.pending = NoUpload]
  /\ recents' = Newest(recents \cup {flow.mint})
  /\ flow' = Idle
  /\ UNCHANGED <<wallet, art, minted, uploads>>

UploadConfirmed ==
  /\ flow.kind = "upload" /\ flow.step = "confirm"
  /\ uploads[flow.upload].fate = "landed"
  /\ page' = [page EXCEPT !.done = TRUE, !.pending = NoUpload]
  /\ recents' = Newest(recents \cup {flow.mint})
  /\ flow' = Idle
  /\ UNCHANGED <<wallet, art, minted, uploads>>

(* Any of the calls may fail: the node, the wallet, a signature for        *)
(* another account, the transaction, or only the wait for it.              *)
LaunchFailed ==
  /\ flow.kind = "launch"
  /\ page' = [page EXCEPT !.error = TRUE]
  /\ flow' = Idle
  /\ UNCHANGED <<wallet, art, recents, minted, uploads>>

UploadFailed_LostBug ==
  /\ flow.kind = "upload"
  /\ page' = [page EXCEPT !.done = FALSE, !.failed = TRUE, !.pending = NoUpload]
  /\ flow' = Idle
  /\ UNCHANGED <<wallet, art, recents, minted, uploads>>

UploadFailed_StaysBusyBug ==
  /\ flow.kind = "upload"
  /\ page' = [page EXCEPT !.done = FALSE, !.failed = TRUE,
                          !.pending = [mint |-> flow.mint, art |-> flow.art]]
  /\ UNCHANGED <<wallet, art, flow, recents, minted, uploads>>

UploadFailed ==
  /\ flow.kind = "upload"
  /\ page' = [page EXCEPT !.done = FALSE, !.failed = TRUE,
                          !.pending = [mint |-> flow.mint, art |-> flow.art]]
  /\ flow' = Idle
  /\ UNCHANGED <<wallet, art, recents, minted, uploads>>

-----------------------------------------------------------------------------
(* The chain *)

LaunchLands(m) ==
  /\ minted[m].fate = "sent"
  /\ minted' = [minted EXCEPT ![m].fate = "landed"]
  /\ UNCHANGED <<wallet, art, page, flow, recents, uploads>>

LaunchDies(m) ==
  /\ minted[m].fate = "sent"
  /\ minted' = [minted EXCEPT ![m].fate = "dead"]
  /\ UNCHANGED <<wallet, art, page, flow, recents, uploads>>

(* upload_template: the authority of the Soul is the wallet that launched. *)
UploadLands(u) ==
  /\ uploads[u].fate = "sent"
  /\ minted[uploads[u].mint].fate = "landed"
  /\ minted[uploads[u].mint].by = uploads[u].by
  /\ uploads' = [uploads EXCEPT ![u].fate = "landed"]
  /\ minted' = [minted EXCEPT ![uploads[u].mint].art = uploads[u].art]
  /\ UNCHANGED <<wallet, art, page, flow, recents>>

UploadDies(u) ==
  /\ uploads[u].fate = "sent"
  /\ uploads' = [uploads EXCEPT ![u].fate = "dead"]
  /\ UNCHANGED <<wallet, art, page, flow, recents, minted>>

-----------------------------------------------------------------------------
Next ==
  \/ \E a \in Arts : Edit(a)
  \/ \E w \in Wallets \cup {Nobody} : SwitchWallet(w)
  \/ Reload
  \/ Submit
  \/ Retry
  \/ Fetched
  \/ SignLaunch
  \/ SignUpload
  \/ LaunchConfirmed
  \/ UploadConfirmed
  \/ LaunchFailed
  \/ UploadFailed
  \/ \E m \in Launches : LaunchLands(m) \/ LaunchDies(m)
  \/ \E u \in 1 .. MaxUploads : UploadLands(u) \/ UploadDies(u)

(* Each call of a submission returns or fails: the wallet's user signs or  *)
(* declines, and web3.js ends the wait for a confirmation when the         *)
(* blockhash has expired.                                                  *)
Answers ==
  \/ Fetched
  \/ SignLaunch \/ LaunchConfirmed \/ LaunchFailed
  \/ SignUpload \/ UploadConfirmed \/ UploadFailed

Spec == Init /\ [][Next]_vars /\ WF_vars(Answers)

-----------------------------------------------------------------------------
(* Properties *)

(* Whatever the form calls finished - the panel's success and the launches *)
(* kept for later visits - has landed on chain with the very recipe it was *)
(* submitted with, although the form was edited meanwhile, uploads were    *)
(* retried and other transactions of the wallet are still under way.       *)
AnnouncedWithItsArt ==
  \A m \in recents \cup (IF page.done THEN {page.mint} ELSE {}) :
    minted[m].fate = "landed" /\ minted[m].art = minted[m].wanted

(* A launch the form knows to have landed is never left without a way to   *)
(* finish it: once nothing is under way the panel offers the upload of     *)
(* that launch's own recipe again, until it has succeeded.                 *)
UploadStaysOffered ==
  page.mint # NoMint /\ ~page.done /\ flow = Idle =>
    /\ page.failed
    /\ page.pending = [mint |-> page.mint, art |-> minted[page.mint].wanted]

(* The buttons come back: a submission or retry ends, whatever fails.      *)
SubmissionsEnd == flow.kind # "none" ~> flow.kind = "none"

=============================================================================
