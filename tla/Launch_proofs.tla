---------------------------- MODULE Launch_proofs ----------------------------
(***************************************************************************)
(* Proofs about the launch form, for any wallets, recipes and numbers of   *)
(* launches and uploads: what the form calls finished carries the recipe   *)
(* submitted with it, and an unfinished launch keeps its retry.            *)
(***************************************************************************)
EXTENDS Launch, WellFoundedInduction, TLAPS

(* Every nonempty set of natural numbers has a least element. *)
LEMMA LeastNat ==
  ASSUME NEW T \in SUBSET Nat, T # {}
  PROVE  \E m \in T : \A n \in T : m <= n
<1>. DEFINE Below == {ss \in Nat \X Nat : ss[1] < ss[2]}
<1>1. IsWellFoundedOn(Below, Nat)
  BY NatLessThanWellFounded DEF OpToRel
<1>. HIDE DEF Below
<1>2. PICK m \in T : \A n \in T : ~ (<<n, m>> \in Below)
  BY <1>1, WFMin
<1>3. \A n \in T : m <= n
  <2>. TAKE n \in T
  <2>1. m \in Nat /\ n \in Nat
    OBVIOUS
  <2>2. ~ (n < m)
    BY <1>2, <2>1 DEF Below
  <2>. QED BY <2>1, <2>2
<1>. QED BY <1>3

(* A free number is one of those that are free. *)
LEMMA FirstIsFree ==
  ASSUME NEW n \in Nat, NEW free \in SUBSET (1 .. n), free # {}
  PROVE  First(free) \in free
<1>1. free \in SUBSET Nat
  OBVIOUS
<1>2. \E k \in free : \A j \in free : k <= j
  BY <1>1, LeastNat
<1>. QED BY <1>2 DEF First

-----------------------------------------------------------------------------
(* The inductive invariant *)

MintFates == {"none", "unsigned", "sent", "landed", "dead"}

(* A launched Soul has no art or the recipe submitted with it.             *)
Mints ==
  /\ minted = [m \in Launches |-> minted[m]]
  /\ \A m \in Launches :
       minted[m] = [fate |-> minted[m].fate, by |-> minted[m].by,
                    wanted |-> minted[m].wanted, art |-> minted[m].art]

(* A signed upload carries the recipe of its launch, which has landed, and *)
(* the chain has that recipe from the moment the upload lands.             *)
Uploads ==
  /\ uploads = [u \in 1 .. MaxUploads |-> uploads[u]]
  /\ \A u \in 1 .. MaxUploads :
       /\ uploads[u] = [fate |-> uploads[u].fate, mint |-> uploads[u].mint,
                        by |-> uploads[u].by, art |-> uploads[u].art]
       /\ uploads[u].fate # "none" =>
            /\ uploads[u].mint \in Launches
            /\ minted[uploads[u].mint].fate = "landed"
            /\ uploads[u].art = minted[uploads[u].mint].wanted
       /\ uploads[u].fate = "landed" =>
            minted[uploads[u].mint].art = minted[uploads[u].mint].wanted

(* The submission under way holds the recipe of its launch, and the panel  *)
(* is about that launch once it has landed.                                *)
Flow ==
  /\ flow = [kind |-> flow.kind, step |-> flow.step, mint |-> flow.mint, by |-> flow.by,
             art |-> flow.art, upload |-> flow.upload]
  /\ flow.kind \in {"none", "launch", "upload"}
  /\ flow.step \in {"none", "fetch", "sign", "confirm"}
  /\ flow.kind = "none" <=> flow.step = "none"
  /\ flow.kind = "none" => flow = Idle
  /\ flow.kind = "launch" =>
       /\ flow.mint \in Launches /\ minted[flow.mint].fate # "none"
       /\ flow.step # "confirm" => minted[flow.mint].fate = "unsigned"
       /\ flow.art = minted[flow.mint].wanted
       /\ page.mint = NoMint /\ ~page.done
  /\ flow.kind = "upload" =>
       /\ flow.mint \in Launches /\ minted[flow.mint].fate = "landed"
       /\ flow.art = minted[flow.mint].wanted
       /\ page.mint = flow.mint /\ ~page.done
       /\ flow.step = "confirm" =>
            /\ flow.upload \in 1 .. MaxUploads
            /\ uploads[flow.upload].fate # "none"
            /\ uploads[flow.upload].mint = flow.mint

(* What the panel offers is the recipe of the launch it is about.          *)
Panel ==
  /\ page = [mint |-> page.mint, done |-> page.done, failed |-> page.failed,
             pending |-> page.pending, error |-> page.error]
  /\ page.mint # NoMint => page.mint \in Launches /\ minted[page.mint].fate = "landed"
  /\ page.done => page.mint \in Launches
  /\ page.pending.mint # NoMint =>
       page.pending = [mint |-> page.mint, art |-> minted[page.mint].wanted]
  /\ page.failed /\ page.pending.mint # NoMint => ~page.done
  /\ recents \in SUBSET Launches

FormInv == Mints /\ Uploads /\ Flow /\ Panel /\ AnnouncedWithItsArt /\ UploadStaysOffered

(* A fresh page has nothing to say. *)
LEMMA FormInit == Init => FormInv
<1>. SUFFICES ASSUME Init PROVE FormInv
  OBVIOUS
<1>. USE DEF Init, NoMint
<1>1. Mints
  BY DEF Mints, NoLaunch
<1>2. Uploads
  BY DEF Uploads, NotSigned
<1>3. Flow
  BY DEF Flow, Idle
<1>4. Panel
  BY DEF Panel, BlankPage, NoUpload
<1>5. AnnouncedWithItsArt /\ UploadStaysOffered
  BY DEF AnnouncedWithItsArt, UploadStaysOffered, BlankPage
<1>. QED BY <1>1, <1>2, <1>3, <1>4, <1>5 DEF FormInv

-----------------------------------------------------------------------------
(* One step per action *)

LEMMA UserKeeps ==
  FormInv /\ ((\E a \in Arts : Edit(a)) \/ (\E w \in Wallets \cup {Nobody} : SwitchWallet(w))
               \/ Fetched) => FormInv'
<1>. SUFFICES ASSUME FormInv, \/ \E a \in Arts : Edit(a)
                              \/ \E w \in Wallets \cup {Nobody} : SwitchWallet(w)
                              \/ Fetched
              PROVE FormInv'
  OBVIOUS
<1>1. UNCHANGED <<page, recents, minted, uploads>>
  BY DEF Edit, SwitchWallet, Fetched
<1>2. flow' = flow \/ (flow.step = "fetch" /\ flow' = [flow EXCEPT !.step = "sign"])
  BY DEF Edit, SwitchWallet, Fetched
<1>3. Mints' /\ Uploads' /\ Panel' /\ AnnouncedWithItsArt'
  BY <1>1 DEF FormInv, Mints, Uploads, Panel, AnnouncedWithItsArt
<1>4. Flow' /\ UploadStaysOffered'
  BY <1>1, <1>2 DEF FormInv, Flow, UploadStaysOffered, Idle
<1>. QED BY <1>3, <1>4 DEF FormInv

LEMMA ReloadKeeps == FormInv /\ Reload => FormInv'
<1>. SUFFICES ASSUME FormInv, Reload PROVE FormInv'
  OBVIOUS
<1>. USE DEF FormInv, Reload, NoMint
<1>1. Mints' /\ Uploads'
  BY DEF Mints, Uploads
<1>2. Flow' /\ Panel'
  BY DEF Flow, Panel, Idle, BlankPage, NoUpload
<1>3. AnnouncedWithItsArt' /\ UploadStaysOffered'
  BY DEF AnnouncedWithItsArt, UploadStaysOffered, BlankPage
<1>. QED BY <1>1, <1>2, <1>3

LEMMA SubmitKeeps == FormInv /\ Submit => FormInv'
<1>. SUFFICES ASSUME FormInv, Submit PROVE FormInv'
  OBVIOUS
<1>. USE DEF FormInv
<1>1. CASE wallet = Nobody
  <2>1. /\ page' = [BlankPage EXCEPT !.error = TRUE] /\ flow' = flow /\ flow = Idle
        /\ UNCHANGED <<recents, minted, uploads>>
    BY <1>1 DEF Submit
  <2>2. Mints' /\ Uploads'
    BY <2>1 DEF Mints, Uploads
  <2>3. Flow' /\ Panel'
    BY <2>1 DEF Flow, Panel, Idle, BlankPage, NoUpload, NoMint
  <2>4. AnnouncedWithItsArt' /\ UploadStaysOffered'
    BY <2>1 DEF AnnouncedWithItsArt, UploadStaysOffered, BlankPage, NoMint
  <2>. QED BY <2>2, <2>3, <2>4
<1>2. CASE wallet # Nobody
  <2>. DEFINE m == First(Free(minted))
  <2>1. /\ minted' = [minted EXCEPT ![m] =
                 [fate |-> "unsigned", by |-> wallet, wanted |-> art, art |-> NoArt]]
        /\ flow' = [kind |-> "launch", step |-> "fetch", mint |-> m,
                    by |-> wallet, art |-> art, upload |-> 0]
        /\ page' = BlankPage /\ Free(minted) # {}
        /\ UNCHANGED <<recents, uploads>>
    BY <1>2 DEF Submit
  <2>2. m \in Launches /\ minted[m].fate = "none"
    <3>1. DOMAIN minted = 1 .. MaxLaunches
      BY DEF Mints, Launches
    <3>2. Free(minted) \in SUBSET (1 .. MaxLaunches)
      BY <3>1 DEF Free
    <3>3. m \in Free(minted)
      BY <2>1, <3>2, FirstIsFree, LaunchBounds
    <3>. QED BY <3>1, <3>3 DEF Free, Launches
  <2>. HIDE DEF m
  <2>3. \A k \in Launches \ {m} : minted'[k] = minted[k]
    BY <2>1, <2>2 DEF Mints
  <2>4. minted'[m] = [fate |-> "unsigned", by |-> wallet, wanted |-> art, art |-> NoArt]
    BY <2>1, <2>2 DEF Mints
  <2>5. Mints'
    BY <2>1, <2>3, <2>4 DEF Mints
  <2>6. Uploads'
    BY <2>1, <2>2, <2>3 DEF Uploads
  <2>7. Flow' /\ Panel'
    BY <2>1, <2>2, <2>4 DEF Flow, Panel, BlankPage, NoUpload, NoMint
  <2>8. AnnouncedWithItsArt' /\ UploadStaysOffered'
    BY <2>1, <2>2, <2>3 DEF AnnouncedWithItsArt, UploadStaysOffered, BlankPage, NoMint, Idle,
       Panel
  <2>. QED BY <2>5, <2>6, <2>7, <2>8
<1>. QED BY <1>1, <1>2

LEMMA RetryKeeps == FormInv /\ Retry => FormInv'
<1>. SUFFICES ASSUME FormInv, Retry PROVE FormInv'
  OBVIOUS
<1>. USE DEF FormInv, Retry
<1>1. Mints' /\ Uploads' /\ AnnouncedWithItsArt'
  BY DEF Mints, Uploads, AnnouncedWithItsArt, Panel
<1>2. Panel'
  BY DEF Panel
<1>3. Flow' /\ UploadStaysOffered'
  BY DEF Flow, Panel, Uploading, UploadStaysOffered, Idle, NoMint, Launches
<1>. QED BY <1>1, <1>2, <1>3

(* Signing changes the fate of a launch nothing but the flow refers to.    *)
LEMMA SignLaunchKeeps == FormInv /\ SignLaunch => FormInv'
<1>. SUFFICES ASSUME FormInv, SignLaunch PROVE FormInv'
  OBVIOUS
<1>. USE DEF FormInv
<1>. DEFINE m == flow.mint
<1>1. /\ flow.kind = "launch" /\ m \in Launches /\ flow.step = "sign"
      /\ minted[m].fate = "unsigned"
      /\ minted' = [minted EXCEPT ![m].fate = "sent"]
      /\ flow' = [flow EXCEPT !.step = "confirm"]
      /\ UNCHANGED <<page, recents, uploads>>
  BY DEF SignLaunch, Flow
<1>2. /\ \A k \in Launches \ {m} : minted'[k] = minted[k]
      /\ minted'[m] = [minted[m] EXCEPT !.fate = "sent"]
      /\ minted' = [k \in Launches |-> minted'[k]]
  BY <1>1 DEF Mints
<1>3. Mints' /\ Uploads'
  BY <1>1, <1>2 DEF Mints, Uploads
<1>4. Flow' /\ Panel'
  BY <1>1, <1>2 DEF Flow, Panel, NoMint, Launches
<1>5. AnnouncedWithItsArt' /\ UploadStaysOffered'
  BY <1>1, <1>2 DEF AnnouncedWithItsArt, UploadStaysOffered, Panel, Flow, Idle
<1>. QED BY <1>3, <1>4, <1>5

LEMMA SignUploadKeeps == FormInv /\ SignUpload => FormInv'
<1>. SUFFICES ASSUME FormInv, SignUpload PROVE FormInv'
  OBVIOUS
<1>. USE DEF FormInv
<1>. DEFINE u == First(Free(uploads))
<1>1. /\ flow.kind = "upload" /\ Free(uploads) # {}
      /\ uploads' = [uploads EXCEPT ![u] =
             [fate |-> "sent", mint |-> flow.mint, by |-> flow.by, art |-> flow.art]]
      /\ flow' = [flow EXCEPT !.step = "confirm", !.upload = u]
      /\ UNCHANGED <<page, recents, minted>>
  BY DEF SignUpload
<1>2. u \in 1 .. MaxUploads /\ uploads[u].fate = "none"
  <2>1. DOMAIN uploads = 1 .. MaxUploads
    BY DEF Uploads
  <2>2. Free(uploads) \in SUBSET (1 .. MaxUploads)
    BY <2>1 DEF Free
  <2>3. u \in Free(uploads)
    BY <1>1, <2>2, FirstIsFree, LaunchBounds
  <2>. QED BY <2>1, <2>3 DEF Free
<1>. HIDE DEF u
<1>3. /\ \A k \in (1 .. MaxUploads) \ {u} : uploads'[k] = uploads[k]
      /\ uploads'[u] = [fate |-> "sent", mint |-> flow.mint, by |-> flow.by, art |-> flow.art]
      /\ uploads' = [k \in 1 .. MaxUploads |-> uploads'[k]]
  BY <1>1, <1>2 DEF Uploads
<1>4. Mints' /\ Panel' /\ AnnouncedWithItsArt'
  BY <1>1 DEF Mints, Panel, AnnouncedWithItsArt
<1>5. Uploads'
  BY <1>1, <1>2, <1>3 DEF Uploads, Flow
<1>6. Flow' /\ UploadStaysOffered'
  BY <1>1, <1>2, <1>3 DEF Flow, UploadStaysOffered, Idle
<1>. QED BY <1>4, <1>5, <1>6

LEMMA LaunchConfirmedKeeps == FormInv /\ LaunchConfirmed => FormInv'
<1>. SUFFICES ASSUME FormInv, LaunchConfirmed PROVE FormInv'
  OBVIOUS
<1>. USE DEF FormInv, LaunchConfirmed
<1>1. Mints' /\ Uploads' /\ AnnouncedWithItsArt'
  BY DEF Mints, Uploads, AnnouncedWithItsArt, Flow, Panel
<1>2. Panel'
  BY DEF Panel, Flow, NoMint
<1>3. Flow' /\ UploadStaysOffered'
  BY DEF Flow, Panel, Uploading, UploadStaysOffered, Idle, NoMint, Launches
<1>. QED BY <1>1, <1>2, <1>3

(* The upload that is confirmed belongs to the launch the panel is about.  *)
LEMMA UploadConfirmedKeeps == FormInv /\ UploadConfirmed => FormInv'
<1>. SUFFICES ASSUME FormInv, UploadConfirmed PROVE FormInv'
  OBVIOUS
<1>. USE DEF FormInv, UploadConfirmed
<1>1. recents' \in SUBSET (recents \cup {flow.mint})
  BY DEF Newest
<1>2. flow.mint \in Launches /\ page.mint = flow.mint
      /\ minted[flow.mint].fate = "landed"
      /\ minted[flow.mint].art = minted[flow.mint].wanted
  BY DEF Flow, Uploads
<1>3. Mints' /\ Uploads'
  BY DEF Mints, Uploads
<1>4. Panel'
  BY <1>1, <1>2 DEF Panel, NoUpload, NoMint
<1>5. Flow' /\ UploadStaysOffered'
  BY DEF Flow, UploadStaysOffered, Idle, Panel
<1>6. AnnouncedWithItsArt'
  BY <1>1, <1>2 DEF AnnouncedWithItsArt, Panel
<1>. QED BY <1>3, <1>4, <1>5, <1>6

LEMMA FailedKeeps == FormInv /\ (LaunchFailed \/ UploadFailed) => FormInv'
<1>. SUFFICES ASSUME FormInv, LaunchFailed \/ UploadFailed PROVE FormInv'
  OBVIOUS
<1>. USE DEF FormInv
<1>1. flow' = Idle /\ UNCHANGED <<recents, minted, uploads>>
  BY DEF LaunchFailed, UploadFailed
<1>2. Mints' /\ Uploads'
  BY <1>1 DEF Mints, Uploads
<1>3. CASE LaunchFailed
  <2>1. page' = [page EXCEPT !.error = TRUE] /\ page.mint = NoMint /\ ~page.done
    BY <1>3 DEF LaunchFailed, Flow
  <2>2. Panel'
    BY <1>1, <2>1 DEF Panel
  <2>3. Flow' /\ UploadStaysOffered' /\ AnnouncedWithItsArt'
    BY <1>1, <2>1 DEF Flow, UploadStaysOffered, AnnouncedWithItsArt, Idle, Panel
  <2>. QED BY <1>2, <2>2, <2>3
<1>4. CASE UploadFailed
  <2>1. /\ page' = [page EXCEPT !.done = FALSE, !.failed = TRUE,
                                !.pending = [mint |-> flow.mint, art |-> flow.art]]
        /\ page.mint = flow.mint /\ flow.mint \in Launches
        /\ minted[flow.mint].fate = "landed" /\ flow.art = minted[flow.mint].wanted
    BY <1>4 DEF UploadFailed, Flow
  <2>2. /\ page'.mint = flow.mint /\ page'.done = FALSE /\ page'.failed = TRUE
        /\ page'.pending = [mint |-> flow.mint, art |-> flow.art]
        /\ page' = [mint |-> page'.mint, done |-> page'.done, failed |-> page'.failed,
                    pending |-> page'.pending, error |-> page'.error]
    BY <2>1 DEF Panel
  <2>3. Panel'
    BY <1>1, <2>1, <2>2 DEF Panel
  <2>4. Flow' /\ UploadStaysOffered' /\ AnnouncedWithItsArt'
    BY <1>1, <2>1, <2>2 DEF Flow, UploadStaysOffered, AnnouncedWithItsArt, Idle
  <2>. QED BY <1>2, <2>3, <2>4
<1>. QED BY <1>3, <1>4

(* A transaction the wallet has sent is settled: no upload, panel or stored*)
(* launch refers to a launch before it has landed.                         *)
LEMMA LaunchSettles ==
  ASSUME NEW m \in Launches
  PROVE  FormInv /\ (LaunchLands(m) \/ LaunchDies(m)) => FormInv'
<1>. SUFFICES ASSUME FormInv, LaunchLands(m) \/ LaunchDies(m) PROVE FormInv'
  OBVIOUS
<1>. USE DEF FormInv
<1>1. /\ minted[m].fate = "sent"
      /\ \/ minted' = [minted EXCEPT ![m].fate = "landed"]
         \/ minted' = [minted EXCEPT ![m].fate = "dead"]
      /\ UNCHANGED <<page, flow, recents, uploads>>
  BY DEF LaunchLands, LaunchDies
<1>2. /\ \A k \in Launches \ {m} : minted'[k] = minted[k]
      /\ \/ minted'[m] = [minted[m] EXCEPT !.fate = "landed"]
         \/ minted'[m] = [minted[m] EXCEPT !.fate = "dead"]
      /\ minted' = [k \in Launches |-> minted'[k]]
  BY <1>1 DEF Mints
<1>3. Mints' /\ Uploads'
  BY <1>1, <1>2 DEF Mints, Uploads
<1>4. /\ \A k \in Launches : minted'[k].wanted = minted[k].wanted /\ minted'[k].art = minted[k].art
      /\ \A k \in Launches : minted[k].fate # "sent" => minted'[k].fate = minted[k].fate
      /\ \A k \in Launches : minted[k].fate # "none" => minted'[k].fate # "none"
  BY <1>1, <1>2 DEF Mints
<1>5. Flow'
  BY <1>1, <1>4 DEF Flow
<1>6. Panel'
  BY <1>1, <1>4 DEF Panel
<1>7. AnnouncedWithItsArt' /\ UploadStaysOffered'
  BY <1>1, <1>4 DEF AnnouncedWithItsArt, UploadStaysOffered, Panel
<1>. QED BY <1>3, <1>5, <1>6, <1>7

LEMMA UploadSettles ==
  ASSUME NEW u \in 1 .. MaxUploads
  PROVE  FormInv /\ (UploadLands(u) \/ UploadDies(u)) => FormInv'
<1>. SUFFICES ASSUME FormInv, UploadLands(u) \/ UploadDies(u) PROVE FormInv'
  OBVIOUS
<1>. USE DEF FormInv
<1>1. /\ uploads[u].fate = "sent"
      /\ \/ uploads' = [uploads EXCEPT ![u].fate = "landed"]
         \/ uploads' = [uploads EXCEPT ![u].fate = "dead"]
      /\ UNCHANGED <<page, flow, recents>>
  BY DEF UploadLands, UploadDies
<1>2. /\ \A k \in (1 .. MaxUploads) \ {u} : uploads'[k] = uploads[k]
      /\ uploads'[u] = [uploads[u] EXCEPT !.fate = uploads'[u].fate]
      /\ uploads' = [k \in 1 .. MaxUploads |-> uploads'[k]]
      /\ uploads'[u].fate \in {"landed", "dead"}
  BY <1>1 DEF Uploads
<1>. DEFINE m == uploads[u].mint
<1>3. m \in Launches /\ uploads[u].art = minted[m].wanted
  BY <1>1 DEF Uploads
<1>4. /\ \A k \in Launches \ {m} : minted'[k] = minted[k]
      /\ \/ minted'[m] = minted[m] /\ UploadDies(u)
         \/ minted'[m] = [minted[m] EXCEPT !.art = minted[m].wanted] /\ UploadLands(u)
      /\ minted' = [k \in Launches |-> minted'[k]]
  BY <1>3 DEF Mints, UploadLands, UploadDies
<1>5. /\ \A k \in Launches : /\ minted'[k].fate = minted[k].fate
                            /\ minted'[k].wanted = minted[k].wanted
                            /\ minted'[k].art \in {minted[k].art, minted[k].wanted}
      /\ Mints'
  BY <1>4 DEF Mints
<1>6. Uploads'
  <2>1. uploads'[u].fate = "landed" => minted'[m].art = minted'[m].wanted
    BY <1>1, <1>3, <1>4 DEF Uploads, Mints, UploadDies
  <2>. QED BY <1>1, <1>2, <1>3, <1>5, <2>1 DEF Uploads
<1>7. \A k \in 1 .. MaxUploads :
        /\ uploads'[k].mint = uploads[k].mint
        /\ uploads[k].fate # "none" => uploads'[k].fate # "none"
  BY <1>1, <1>2 DEF Uploads
<1>8. Flow'
  <2>1. flow.mint \in Launches => /\ minted'[flow.mint].fate = minted[flow.mint].fate
                                 /\ minted'[flow.mint].wanted = minted[flow.mint].wanted
    BY <1>5
  <2>2. ASSUME flow.upload \in 1 .. MaxUploads
        PROVE  /\ uploads'[flow.upload].mint = uploads[flow.upload].mint
               /\ uploads[flow.upload].fate # "none" => uploads'[flow.upload].fate # "none"
    BY <1>7, <2>2
  <2>. HIDE DEF m
  <2>. QED BY <1>1, <2>1, <2>2 DEF Flow
<1>9. Panel'
  BY <1>1, <1>5 DEF Panel
<1>10. AnnouncedWithItsArt' /\ UploadStaysOffered'
  BY <1>1, <1>5 DEF AnnouncedWithItsArt, UploadStaysOffered, Panel
<1>. QED BY <1>5, <1>6, <1>8, <1>9, <1>10

-----------------------------------------------------------------------------
(* The theorems *)

LEMMA FormStep == FormInv /\ [Next]_vars => FormInv'
<1>. SUFFICES ASSUME FormInv, [Next]_vars PROVE FormInv'
  OBVIOUS
<1>1. CASE UNCHANGED vars
  BY <1>1 DEF vars, FormInv, Mints, Uploads, Flow, Panel, AnnouncedWithItsArt,
              UploadStaysOffered
<1>. QED BY <1>1, UserKeeps, ReloadKeeps, SubmitKeeps, RetryKeeps, SignLaunchKeeps,
            SignUploadKeeps, LaunchConfirmedKeeps, UploadConfirmedKeeps, FailedKeeps,
            LaunchSettles, UploadSettles DEF Next

LEMMA FormAlways == Spec => []FormInv
<1>. QED BY FormInit, FormStep, PTL DEF Spec

(* Whatever the form calls finished has landed with the recipe it was      *)
(* submitted with, for any number of launches, uploads and wallets.        *)
THEOREM FinishedHasItsArt == Spec => []AnnouncedWithItsArt
<1>1. FormInv => AnnouncedWithItsArt
  BY DEF FormInv
<1>. QED BY <1>1, FormAlways, PTL

(* A launch known to have landed keeps the retry of its own upload until   *)
(* that upload has succeeded.                                              *)
THEOREM UnfinishedIsOffered == Spec => []UploadStaysOffered
<1>1. FormInv => UploadStaysOffered
  BY DEF FormInv
<1>. QED BY <1>1, FormAlways, PTL

=============================================================================
