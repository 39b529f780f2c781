# Formal model of SolSoul

TLA+ modules, TLC runs and TLAPS proofs for SolSoul: its on-chain programs, its
indexer, and the parts of its web application that keep state. The sources are
the Rust programs under `programs/`, the service `services/indexer`, the SDK
`sdk/src/index.ts` and the application under `app/src`. `PROJECT.json` maps every
definition to the lines it stands for, lists the runs, the mutants (a definition
replaced by one with a plausible bug, which makes a property fail), the hazards
and the theorems.

## 1. The system

A launched mint has a *bonding curve* that sells and buys back its tokens and a
*Soul*: an account that gets a new picture, by a CPI from the curve, on every
trade. A buyer of at least one *whole unit* (10 000 tokens) may claim the
picture as an NFT. A claim leaves a *receipt* that binds one whole unit of the
claimant's balance: before that unit can be sold or transferred, the receipt
has to be settled (burned or forfeited) in the same transaction. The web
application has no database of its own: it works out what it shows, and what it
lets the wallet sign, from a public RPC node.

| Component | State it keeps | Operations | What makes it correct |
|---|---|---|---|
| `programs/bonding-curve` math | none | `exp_neg`, `ln_inv`, `quote_buy`, `quote_sell`, lock fee | the inverse inverts, minted tokens are covered, the cap |
| `programs/bonding-curve` | curve account, vault, treasury, GlobalConfig | launch, buy, sell, pause, unpause, renounce, withdraw treasury | reserve in the vault, deprecation is final, one trade per slot, renouncing is final |
| `programs/soul-generator` | Soul, claims and receipts, receipt registries, GlobalConfig, renderer registry | initialize, upload template, generate (trade or preview), claim, settle, pause, unpause, (un)register renderer | receipts form a ladder, come from a reported buy, end once; counters agree with receipts |
| `programs/shared` | none | whole-unit arithmetic | used by the others |
| `programs/transfer-hook` | extra-account list of the mint | Execute on every Token-2022 transfer | no transfer takes a bound unit |
| `services/indexer` | in-memory SQLite tables, the database file | snapshot, account and log notifications, flush, stop, HTTP reads | slot-ordered rows, no event lost by a regular stop, the stop ends |
| `sdk`: receipts, settlements, sends | none | registry and receipt reads, the choice of receipts, building and sending transactions | the list it builds is the one the program accepts |
| token page (`TokenSoulPanel`, `ClaimButton`, submit functions) | Soul, balances, receipts as last read; one operation per button | refresh, buy, sell, transfer, claim | signs away no other wallet's receipts, lands as previewed, reports only what landed, ends |
| launch form (`LaunchForm`, `launchSubmit`) | form, result panel, pending upload, stored launches | launch, upload of the art, retry | what it calls finished carries its art, an unfinished launch keeps its retry |
| public statistics (`statsRoute`, `stats`, `publicStatsCache`, `StatsDashboard`) | last usable snapshot of the process; the browser's stored answer | collect, fall back, prewarm, refresh, store | an unmarked answer counts every token and shows as many as it may, errors do not blank the page |
| evidence of Soul cards (`generationProvenance*`, `marketProvenance`, `soulGallery`) | route cache, cache of the page | exact lookup over paginated signatures, bounded lists, hydration | a search within its budgets has seen everything, failures are marked, a card shows its own trade |
| SVG renderers, renderer SDK, `services/svg-api`, the rest of `app`, scripts | none shared with the above | drawing, views, operations | not modelled, see section 8 |

How they interact:

- **Calls.** `buy` and `sell` call Token-2022 (mint, burn) and `generate_soul`.
  Token-2022 calls the hook on transfers, never on burns.
- **Look-ahead.** `settle_receipts` reads the instructions sysvar and demands a
  later instruction of the transaction that moves the tokens.
- **Shared accounts.** `sell` and the hook read the receipt registry that
  `claim_soul` and `settle_receipts` write; the claim reads the provenance the
  last trade left in the Soul account.
- **Messages.** The indexer hears account changes and logs of finalized slots
  from one RPC node. The page reads accounts, has the wallet sign, and waits for
  a confirmation; the routes read accounts, signatures and transactions.
- **Caches.** A route serves its process's last snapshot when a collection
  fails; the dashboard falls back on an answer in the browser's storage; the
  exact route and the page's card helper keep answers for a while.

What is hard: transactions of several instructions, in any order, by wallets
with several token accounts; the single provenance slot that every trade
overwrites; integer arithmetic with truncations and cut-offs; in the indexer, a
snapshot taken apart from the subscription, notifications that arrive twice or
never, block times awaited between, crashes, and a file that is rewritten whole;
in the browser, data read before an await and used after it, wallets that
change meanwhile, waits that fail although the transaction lands, overlapping
loads and late answers. The list with lines is `hazards` in `PROJECT.json`.

## 2. Modules

| Module | Models | State and actions |
|---|---|---|
| `Boundary` | `shared/src/boundary.rs` | operators `WholeUnits`, `Debits`, `PostUnits`, `CrossedDown`; the quantum is a constant |
| `SoulGenerator` | `soul-generator` | `soul`, `receipts`, `registry`, `config`, `events`; one action per instruction |
| `CurveMath` | `bonding-curve/src/math.rs` | operators and one recursive function (the bisection); precision and curve are constants |
| `CurveLaws` | what that arithmetic promises | `argument`, which runs through the inputs; the laws are invariants |
| `BondingCurve` | `bonding-curve` | `curve`, `vault`, `lockFees`, `treasury`, `admin`, `slot`; one action per instruction, `GiveToVault` (SOL sent by outsiders) and `Tick` |
| `BondingCurveHistory` | what the one-trade rule is about | `BondingCurve` with a history variable, `trades`: the trades that went through in the present slot |
| `SolSoul` | the three programs and Token-2022 in transactions | instances `G` of SoulGenerator and `B` of BondingCurve over shared variables, plus `tok` (balances), `burned` (burns outside the curve) and `tx` (the open transaction); refines `BoundUnits` |
| `BoundUnits` | the promise of the programs | a ledger of whole units and Souls bound to them, moved by whole transactions |
| `Indexer` | `services/indexer` | `mem`, `image`, `disk`, `pending`, `phase` and the chain and RPC node it listens to |
| `TokenPanel` | the token page and the SDK calls behind its buttons | the chain as the page sees it; `shown`, `balances`, `receiptState`, `reads` (what has been read and what is being read); `op` (one operation per button, step by step), `sent` (signed transactions) |
| `Launch` | the launch form | `page` (panel and error line), `flow` (the call awaited), `recents`; `minted` and `uploads` on the chain |
| `Stats` | `/api/stats` and the dashboard | `last`, `warm`, `loads` of the server process, `page`, `cache`, `fetches` of the browser |
| `Provenance` | the exact route, its cache, and a card | `chain` (two programs' transactions), `lookup`, `kept`, `stats`, `card` |
| `MC*` | model-checking instances | values of the constants, symmetry |
| `*_proofs` | theorems and their lemmas | see section 6 |

Choices a reader should know:

- Receipt boundaries are stored as multiples of the quantum; the model keeps the
  multiple. The picture is reduced to which trade painted it; the NFT mint, its
  metadata and the slippage bound of a trade (it only rejects) are left out.
- In `SoulGenerator` the balances an instruction reads and the movement a
  settlement demands are parameters. `SolSoul` supplies them: a settlement leaves
  a movement *owed*, and a transaction with something owed cannot commit.
- A transaction saves the accounts it may write; `Abort` restores them. Only one
  transaction is open at a time because the runtime locks the accounts.
- `BoundUnits` takes a transaction in one step: a claim, a settlement and a
  movement in between are invisible, an aborted transaction is a stutter. The
  mapping (instance `L` in `SolSoul`) reads, while a transaction is open, the saved
  accounts.
- In `Indexer` an account's content is named by the slot that wrote it. One
  account of each kind stands for its table, because rows of different accounts
  do not interact. `due` and `missed` are history variables.
- `trades` of `BondingCurveHistory` is one too: no guard reads it. The curve account
  remembers its last trade's slot in `lastSlot`, which `buy` and `sell` test; that
  the test does what it is for has to be said without that field.
- In `TokenPanel` every await is a point where the chain, the wallet and the
  other callbacks go on. Its chain is the part of `SolSoul` the page can tell
  apart: whole units, receipts, and which transactions are accepted.
- In `Stats` a source answers or fails and a time limit is a failure. What is
  shown of a token is reduced to its theme and its audit; receipt counts, Raydium
  vaults and slot are one value, `details`. A load lists a page of at most
  `MaxListed` tokens (500, `statsRoute.ts:40`) and shows at most `MaxRows` of them
  (100, `stats.ts:235`); the order of lists is left out, so any tokens may be the
  ones cut off. A mint is named by its place among the launches, whose themes are a
  constant. A load reads the chain at one point between its start and its end; as
  launches only add to the chain, it remembers how many there were at its start, and
  the point is chosen when it ends. A snapshot is
  `Blank` when it has none of what `hasCollectionData` looks for: `data` says that
  one of its figures is not zero or that a launch, a claim or a generation is listed
  as recent, which generations bring about even when tokens and claims have failed.
  Which curves have reached the cap is fixed per run, storage accepts every write,
  and the CDN and the route's outermost catch branch are left out.
- In `Provenance` retries are modelled by their last attempt, a claim's mint is
  known, bounded routes may give an older or empty answer, and the one hint built
  into the application for a known evidence record is left out.
- In `Launch` a launch starts from the recipe the editor holds: the fields, the
  editor and its starter templates are left out, so are a storage that rejects
  writes and the pause flag, which is read once and disables the button.

## 3. Runs

All bounds are constants in the `.cfg` or operators in the MC module.

| Run | Question | Bounds, and why they suffice |
|---|---|---|
| `SoulGenerator` | ladder, counters, provenance, one event per generation, finality | two wallets (symmetric), a quantum of 2 so that balances on and inside a boundary occur; three claims and generations, since a gap needs three receipts |
| `CurveMath` | the arithmetic, argument by argument | precision 1000 instead of 10^12; every argument from 0 past the cut-off at 4605; tolerance and disorder 3 units of the last digit |
| `BondingCurve` | reserve, deprecation, one trade per slot | S : K as in the program; amounts that reach the deprecation threshold and the cut-off, and every exit a rounding error can spoil, within seven slots; two administrators |
| `SolSoul` | are receipts backed, does the supply agree, do the guarantees of each program survive the others and every rollback, is the ledger of bound units kept in every committed state | one wallet with two token accounts, transactions of up to three instructions (settle, claim and a movement fit), one unit of burns; more wallets and longer transactions are the theorems of `SolSoul_proofs` |
| `Indexer` | row labels, staleness, event tables, stop | two slots, one of each kind or two of one, all losses, duplicates, failures, crashes and nodes that lag |
| `TokenPanel` | does the page sign, report and end as it should | two wallets, a holder of three units, two operations or outside transactions, one change of the wallet; amounts that cross one and two boundaries |
| `Launch` | does a finished launch carry its art, is an unfinished one still offered | two wallets, two recipes, two launches and two uploads: an earlier launch, its late upload and a retry meet; one stored launch, so that one is pushed out |
| `Stats` | freshness, blanks, errors, loading | two launches and room for one row, so that rows are cut; the first curve is at its cap, so its row may not fit the scan of the other, and the second theme is one the validator does not know, so answers are rejected; two requests that overlap with each other and with the prewarming load, a process that ends at any time |
| `Provenance` | completeness and budgets of the search, marks, cards | pages of two, chunks of two, chains of up to four that grow under the lookup, budgets that are reached (six signatures, three transactions) and not, two hydrations, so that the caches are used |
| `BondingCurveExit`, `PanelSequence`, `ProvenanceOwn` | a sentence of the repository the code does not keep (section 7) | smaller instances of the same modules |

Symmetry is used only over wallets, which the programs treat alike, and in no
run with a liveness property. `CHECK_DEADLOCK FALSE` stands where a bound (clock,
generations, arguments, clicks, visits) ends the run; the indexer never
deadlocks, since a process that is down may start, and the launch form can
always be edited.

### What the properties say

Programs:

- `ReceiptLadder`: a wallet's active receipts sit on boundaries 1 to its active
  count, one each. `RegistryTallies`: the counter the sale and the hook trust is
  the number of such receipts. `ClaimedFromBuy`, `OneEventPerGeneration`,
  `ReceiptsAreFinal`: where receipts and events come from, and that they end once.
- `ReceiptsBacked`: outside a transaction each active receipt has its whole unit
  in the owner's canonical account, unless the owner burned tokens with
  Token-2022 directly. `SettlementMovesTokens`: a transaction that ends receipts
  moved tokens of their owner. `CommittedReceiptsAreFinal`: from one committed
  state to the next no receipt is lost, moved to another wallet or boundary, or
  changed once it has ended. `SoulsStaySound` (the ladder, the counters, the origin
  of claims and the numbering of events) and `CurveStaysSound` (the vault's reserve
  and the supply's cover) are what the two programs guarantee alone, said of
  transactions that mix them, sell any amount a balance allows and may fail after
  any instruction. `ImplementsBoundUnits`: all transactions together
  are the ledger of `BoundUnits`: Souls are issued once per trade at most, never
  returned, and always covered.
- `VaultHoldsReserve`, `ReserveCoversSupply`, `SupplyAgrees`: vault, recorded
  reserve, priced supply and existing tokens agree; the rounding error of sales
  does not add up. `RoundingSlack` is the error of one bisection.
  `NoMintAfterDeprecation`: what no step may do. `OneTradePerSlot`: no two trades go
  through in one slot, counted as they happen; a trade that forgot to leave its slot
  behind would let the next one in.
- `BisectionInverts`, `NearlyDecreasing`, `MintIsCovered`: the arithmetic below
  these. The series between two entries of the table meets the next one in order.

Indexer:

- `LabelsNotAhead`: a row's slot is never later than its content, so no newer
  change is refused. `StaleOnlyIfMissed`: while serving, a row is behind the
  node only if the write was never reported to the process (it fell between
  snapshot and subscription, was lost, or the snapshot's slot call failed).
  `GenerationsMatchEvents`, `StopKeepsHeard`, `StopEnds`: the two event tables
  agree; a regular stop loses no event heard before it, and ends.

Web application:

- `SettlesOwnReceipts`: a transaction offered to a wallet ends none but its own
  receipts, even when a late refresh has put the former wallet's on the page.
  `FreshPlanAccepted`: a plan worked out from data that still hold is accepted by
  the programs. `LandsAsPreviewed`: what lands leaves the receipts the user
  saw, and where it settles some the units as well, however old the preview. `SuccessMeansLanded`, `OperationsEnd`.
- `AnnouncedWithItsArt`: what the form calls finished has landed with the recipe
  submitted with it, whatever was edited, retried or still under way.
  `UploadStaysOffered`: a landed launch without its art keeps a retry for that
  very recipe. `SubmissionsEnd`.
- `UnmarkedIsFresh`: an answer without a fallback mark counts every token launched
  before the request, though loads overlap and one may fall back on another's
  snapshot; it shows each of them, unless its rows are full. With more launches than
  rows it leaves tokens out without a mark: that is the code's limit, not a failure.
  `BlankMeansCold`: a process with something to fall back on does not answer with
  what its failures left without a figure, a list or recent activity. `KeepsShowing`: a failed refresh does not lose a complete or
  partial answer the dashboard showed. `DashboardSettles`: it leaves "loading".
- `SearchIsComplete`: a lookup that ends without the trade, without a mark and
  within its budgets has looked at everything finalized when it began.
  `FailuresAreMarked`, `WithinBudgets`, `HydrationEnds`.

## 4. Fairness

- `Indexer`: the process takes every step it can take unasked (`Start`, `Flush`,
  `Written`, `Close`), each awaited block time is answered or fails (`FinishLog`,
  per delivery), and the node keeps reporting slots that exist. This is the event
  loop of Node.js plus the assumption that an RPC call settles; web3.js sets no
  timeout of its own, so a call that never settles would hold up the stop.
  Closing the HTTP server (`main.ts:769`), which waits for open connections, is
  folded into `Flush`: a connection that stays open would hold up the stop too,
  and `StopEnds` does not see it.
  Nothing makes the process stop, crash, or the chain move.
- `TokenPanel`: the call an operation awaits returns or fails (per button), and a
  signed transaction lands, is refused or expires: the blockhash's height ends
  the wait. The wallet's user signs or declines. Reads and clicks are not fair.
- `Launch`: the call a submission awaits returns or fails, for the same reasons.
- `Stats`: a request of the dashboard is answered or aborted: the dashboard's own
  timer aborts it after 20 seconds (`Abort` is enabled as long as a request is under
  way). Nothing is assumed of the server.
- `Provenance`: each call of a card and of the lookup returns or fails (they have
  attempts and time limits of their own). The lookup's end does not rely on the
  route's time limit: pages and budgets end it.

The programs have no liveness: they run when called.

## 5. The refinement

`SolSoul` states `ImplementsBoundUnits == L!Spec`, with `L` an instance of
`BoundUnits`: `held` are the whole units of the canonical accounts, `bound` and
`retired` count receipts, `traded` and `claimed` are the Soul's counters and
`outside` are the wallets that burned tokens where no program is asked. While a
transaction is open the mapping reads the saved accounts, so its instructions, the
movement a settlement owes and a rollback are what the mapping hides. The run
`SolSoul` checks it; its mutant lets a trade be claimed twice.

## 6. What is proved

Every theorem holds for every value of the constants that satisfies the
assumptions named beside their declaration: `QuantumAssumption`, `ClaimBounds`,
`AmountBounds`, `NobodyIsNoWallet`, `CurveConstants`, `CurveBounds`,
`ThresholdIsPositive`, `SlotBound`, `LaunchBounds`, `PanelBounds`,
`LimitsAssumption`, `RowLimits`, and in `SolSoul`, which declares its constants anew,
`Quantities`, `FinitelyMany`, `Curve`, `Bounds`, `Threshold` and
`NobodyIsNoWallet`. They say that
amounts and bounds are natural numbers, that what the code divides by is positive,
that the cut-off of the series lies within its table, and that there are finitely
many wallets, so that what all of them hold has a sum. `RowLimits`: a snapshot
has at least one row and no more than the page it is made from.

- `SoulGenerator_proofs`. `TypeCorrect` (no run repeats it). `LadderHolds`:
  `ReceiptLadder` is inductive together with `TypeOK`; a claim adds boundary
  active + 1, a settlement's list is forced to be exactly the boundaries above
  what stays. `TalliesHold`: the counters are cardinalities of the sets of
  receipts; a settlement's list has as many members as positions because no
  receipt is listed twice. `ProvenanceHolds`: the strengthening adds that the
  provenance in the Soul account is itself one of the events; without it a claim
  could not be justified after the fact. It also proves `PictureOfLastTrade`, which
  no run repeats. `AnnouncedOnce`: events and the generation counter move
  together. `FinalityHolds` is an action property from the same invariant: a claim
  writes only an empty account and a settlement only active ones.
- `BondingCurve_proofs`, the arithmetic. `BisectionType`: the bisection's recursion
  defines a function (`RoundsExist`, from the least element of a set of
  counterexamples) and stays inside 0 .. MAX_EXP_X. `MintedWithinCap`: no reserve
  mints more than `CURVE_K`. `RoundsPreserve` gives what holds after all rounds from
  what each preserves; with it `BisectionBrackets` shows that `exp_neg` crosses the
  target between the ends of the last interval, which is `MAX_EXP_X` halved once a
  round, and one unit, long. `MintsAreCovered`: what a reserve mints is priced back at
  no more than the reserve and a slack, which depends on one property of `exp_neg`,
  `Decreasing(d)`: it is positive before the cut-off, and over a distance of `d` or
  more it decreases, whatever rounding does to neighbours.
- `BondingCurve_proofs`, the series. That property is proved from the code's series.
  `PowerStep` bounds how much further apart the powers of two arguments are in the
  next degree, with its truncation; degree by degree (`PowersDiffer`), and because
  (2 - s)(4 - s) is not negative for the sum s of two arguments up to one
  (`CubeHolds`), the series falls by a third of the distance of its arguments up to
  seven units (`SeriesFalls`), and by no more than the whole distance and seven units
  (`SeriesIsSmooth`). With a table that goes with the series (`JointsFall`),
  `exp_neg` is `Decreasing(22)` for every precision (`JointsDecrease`), and with
  joints no higher than `jump` (`JointsMeet`) the bisection returns an argument whose
  `exp_neg` is the target up to `jump`, the last interval and 16 units
  (`BisectionReturns`).
- `BondingCurve_proofs`, the program's constants (`ProgramArithmetic`, the values of
  `math.rs`). Its table goes with its series (`ProgramJointsFall`). So every mint is
  covered up to 1083 lamports, and `ProgramReserveCovers` states `ReserveCoversSupply`
  with no hypothesis about `exp_neg` left. The laws of `CurveLaws` follow:
  `ExpNegDecreases` (`NearlyDecreasing`), `BisectionInvertsAlways` (`BisectionInverts`)
  and `MintIsCoveredAlways` (`MintIsCovered`). The tolerance of the second is 2507577
  units of 10^-12, and nearly all of it is one joint: just below 1 the series, which
  ends with the eighth power, is 2503273 units above the entry of the table for 1. The
  theorems give wider tolerances than the run `CurveMath` finds with its
  precision of 1000 (22 and more against 3), because they add up what each
  truncation can lose. The prover folds a product of two literals in 63 bits, so the
  constants enter as numbers between two equal bounds (`Exactly`).
- `BondingCurve_proofs`, the program. `TypeCorrect` (the supply stays within the cap;
  no run repeats it), `ReserveHolds` (reserve in the vault, deprecated above the
  threshold), `DeprecationIsFinal`, `RenouncingIsFinal`. `TradesOncePerSlot` is about
  `HistorySpec`: `HistoryInv` says that one trade has been counted if the curve
  remembers the present slot, and none otherwise. `TradeMarksSlot` shows that every
  trade leaves its slot there, `OthersKeepSlot` that nothing else touches it. For the
  other theorems the strengthening `Blank` says that an account not launched yet is all zero: without
  it a launch could reset a reserve or revive a deprecated curve. `ReserveCovers`
  (`ReserveCoversSupply`) holds under the hypotheses of `MintsAreCovered`, which the
  program's constants satisfy (`ProgramReserveCovers`): a buy leaves
  exactly the supply its reserve mints, and a sale pays no more than the price of the
  supply falls by, which telescopes (`SellTelescopes`). So there is one slack for
  any number of trades, not one for each.
- `SolSoul_proofs`. `UnitsBack` is the main theorem about the programs together:
  `ReceiptsBacked` for any wallets, quantum and curve, and for transactions of any
  length. In the middle of a transaction a receipt may be ended whose unit is
  still there, or none at all; never may a unit be gone whose receipt is active.
  The invariant `SolInv` therefore says two things at once: every wallet's active
  receipts are covered (`Backed`), and this holds of the accounts as saved at the
  start of the transaction too, since an `Abort` puts them back. `Owing` says that
  whoever has settled receipts still owes the movement or has made it, which is
  `EndsMove` (`SettlementMovesTokens`) once nothing is owed at the commit. The
  curve's quotes enter through the theorems about the arithmetic.
- `SolSoul_proofs`, sums and refinement. `SupplyHolds` (`SupplyAgrees`): lemmas on
  finite sums say what one credit and one debit change, and `SupplyInv` holds of the
  present accounts and of the saved ones, for the same reason as above.
  `ProgramsImplementLedger` proves `ImplementsBoundUnits` for every constant: an
  instruction inside a transaction and an abort are stutters, and a commit is one
  step of the ledger. For the latter `LedgerInv` says how far the present state may
  have moved from the saved one, however many instructions there were (`Advances`):
  each Soul issued took a trade of its own, and settled receipts and burns only grow.
- `SolSoul_proofs`, the programs' own guarantees. `SoulsStay` (`SoulsStaySound`),
  `CommitsAreFinal` (`CommittedReceiptsAreFinal`) and `CurveStays` (`CurveStaysSound`,
  with the program's constants). What an instruction keeps is taken from the
  theorems about the program alone, through instances of their modules: `C` of
  `BondingCurve_proofs`, and two of `SoulGenerator_proofs`, `P` over the present
  accounts and `S` over the saved ones. `SoulsInv` and `CurveInv` hold of both
  states, as an abort goes back from one to the other; `SoulsInv` also says that
  since the transaction began receipts only moved forward (`FinalFrom`), which a
  commit turns into the action property.
- `Indexer_proofs`. `TypeCorrect` (which no run repeats), with a label never past
  the node and 0 while the process is down. `EventsMatch`: the agreement of the
  event tables is inductive only when it also holds of the file and of the image
  on its way to it. `LabelsSound`: the strengthening adds that no row's slot is past the end
  of the chain, so that a slot still to come is later than every label; without
  it the next write could fall between a row's content and its label.
  `StaleIsMissed` (`StaleOnlyIfMissed`): while a process starts, `StaleInv` speaks
  only of the kinds whose snapshot has been taken, as rows of an earlier run may be
  behind until then; that a heard change is not refused needs `LabelsSound`'s
  invariant. `StopsKeepHeard` (`StopKeepsHeard`, an action property): `DueInv` says
  where the events heard before the stop are in each of its phases: in memory or
  among those waited for, in memory, in the image being written.
- `TokenPanel_proofs`. `ReportedIsLanded`, `SettlementIsOwn`, `FreshIsAccepted` and
  `LandsAsItWasPreviewed` (an action property), for any wallets, amounts and
  interleavings of reads, operations, wallet changes and the chain. `PanelInv` joins
  the chain (`ChainInv`: receipts are among those claimed and covered), what has been
  read (`PageInv`: a receipt once seen keeps its claimant and boundary, only its
  `active` may be out of date), each operation (`OpInv`: its list was worked out from one
  registry and one set of receipts it read itself), the numbering of clicks
  (`ClickInv`, so that no operation takes another's transaction for its own) and
  what has been signed (`SentInv`: the list descends to the units the preview left).
  A settlement that lands is then exactly the preview's, because the programs accept
  no other list.
- `Launch_proofs`. `FinishedHasItsArt`, `UnfinishedIsOffered`. `FormInv` ties the panel to
  the chain: the mint shown has landed, the pending upload is of that mint and
  carries the recipe it was launched with, and a submission under way knows the same.
- `Provenance_proofs`. `SearchesComplete`, `BudgetsKept`, `FailuresMarked`, for any
  page size, chunk size, budgets and length of the chain. `LookupInv` says what has
  been seen so far: a program still being read has been read down to its cursor
  (`Tracking`, `Covered`), a program that is done has been read to its beginning, and
  what was seen was fetched unless the trade was found or a budget is spent
  (`Complete`, `Spending`). Transactions finalized meanwhile are newer than every
  cursor, so they can only repeat or add in front.
- `Stats_proofs`. `UnmarkedAreFresh`, `BlanksAreCold`, `ErrorsKeepShowing`, for any
  launches, requests, visits, restarts and any two limits on tokens and rows: the run
  never meets the first one, since the rows are full long before. What a load makes
  of a chain it has seen (`RowsFull`) rests on what a list has after a cut
  (`CutFull`), once for the page and once for its rows. `StatsInv` follows a token from the request
  to the load that serves it, which begins after it, and from there to the answer; that the kept snapshot
  is never blank (`Usable`), and what the browser has stored (`Stored`), give the
  other two.

Only model-checked: liveness (`StopEnds`, `OperationsEnd`, `SubmissionsEnd`,
`DashboardSettles`, `HydrationEnds`), which is out of the prover's reach. Every
invariant and action property of the runs that must pass is stated by a theorem.
What a recursive definition computes for every input cannot be proved by induction
over data here: of the bisection, what each round preserves is. That the small
precision of `CurveMath` is accurate to 3 units is checked there and not proved.

One proof changed the model. `FreshIsAccepted` could not be proved while the chain of
`TokenPanel` judged a claim after a buy by all the tokens of the buyer; the program
looks at the associated account (`claim_soul.rs:244`), and so does `Received` now.

## 7. Where the code and what is said of it disagree

With a run that shows it:

- `BondingCurveExit`: a quoted exit of the whole supply can fail by one rounding
  unit (`math.rs:189`, `docs/bonding-curve.md:134`); a little less can be sold.
- `PanelSequence`: the page's buy names its receipt by `claimCount`
  (`sdk/src/index.ts:3327`), the program by the trade (`claim_soul.rs:761`), so
  after an unclaimed trade the page's buys are refused until a claim catches up
  (`buySubmit.ts:125`).
- `ProvenanceOwn`: without the exact trade a card shows a later one as its own
  (`marketProvenance.ts:461`, `app/messages/en.json:1240`).

Read while modelling, without a run of its own:

- The cap is reached: past the cut-off of `exp_neg` (`math.rs:51`) a buy mints all
  that is left; `docs/bonding-curve.md:16` says it never is.
- A trade cannot use a community renderer (`generate_soul.rs:283`): its CPI carries
  neither the program nor a render buffer (`WHITEPAPER.md:118`).
- The hook refuses a whole-unit transfer of an owner who never claimed, as there is
  no registry account (`transfer-hook/src/lib.rs:346` against its line 38).
- The indexer replays nothing after it was down (`main.ts:204`,
  `docs/mainnet-dry-run.md:230`), serves no WebSocket (`docs/api.md:154`), and its
  calls have no backoff on HTTP 429 (`docs/mainnet-deploy.md:706`).
- "Nothing changed" after a failed wait (`app/messages/en.json:796` for a buy, 345
  and 346 for a launch): the transaction may land all the same. A launch retried
  then creates a second token and pays the launch fee again
  (`LaunchForm.tsx:431`).
- `app/messages/en.json:239` offers to recover recent launches, but a launch is
  stored only once its art is uploaded (`LaunchForm.tsx:344`); a new submission,
  even without a wallet, drops the pending upload of the one before, and nothing
  else in the application uploads the art of a mint that exists.
- The dashboard's validator knows no built-in theme (`publicStatsCache.ts:597`
  against `sdk/src/index.ts:4653`): one token of a built-in theme makes it reject
  the whole answer. So does a curve at its cap, which is not scanned, shown beside
  scanned ones: its row says `unavailable` (`publicStatsCache.ts:124`) and the
  summary, made of the scans alone (`statsRoute.ts:488`), does not. `KeepsShowing` and `DashboardSettles` hold either way.
- `docs/fee-model.md:21` on the treasury against `withdraw_treasury.rs:10`;
  `docs/architecture.md:65` says every trade generates, but a sell may leave the
  Soul accounts out (`sell.rs:73`).

Seen in the web application, by design or open to judgement: a claim and a
generation never look at `confirmation.value.err`, which is why
`SuccessMeansLanded` leaves claims out; after a buy or a claim the page's receipts
are stale, so a crossing sale may be signed without a settlement and refused; a
refresh that comes late can show another wallet's data until the next; a sale out
of another account than the canonical one that crosses a unit is signed and
refused; the exact route announces 2500 signatures but its 100 transactions end it
after the first page, with an empty answer that bears no mark (`SearchIsComplete`
excludes a spent budget).

## 8. Not modelled

- Drawing (built-in renderers, the renderer SDK, template checks, metadata text),
  PDA derivation and account layouts: they keep no state the properties speak
  about.
- The renderer registry's instructions, the hook's extra-account list, the SDK's
  instruction encodings, its launch address search and its AMM helpers.
- Integer widths: amounts stay far below u64/u128; checked subtractions, where
  they decide, are guards.
- The indexer's HTTP queries and decoders; the SVG API, which reads one account
  and draws.
- Of the token page the generate button and the pause banner; of the gallery page
  its own cache, where a late answer of a former visit can overwrite a newer one;
  feeds, timelines, previews and layout.
- The operational scripts: straight-line drivers of a deployment, whose state is
  the chain's.
- A crash of the indexer leaves the file empty when it comes between the
  truncation and the end of a write: a file cut in the middle, which SQLite
  cannot open, is counted as empty or as a process that stays down.

By lines, most of the repository is of this kind: React markup and texts, SVG
drawing, instruction and account encodings, end-to-end scripts and browser bundles
kept as evidence. The map covers the programs, the indexer's state, and the web
application's operations that hold state across an await; it stays below a third
of all lines.

## 9. Plan

1. The timeline of the token page (`tokenTimelineFetch`, `tokenTimelineCache`) and
   the gallery's cache: overlapping loads and late answers, as in `Stats`.
2. `RendererRegistry`: register, unregister and use of community renderers, with
   the render buffer; against `docs/soul-engine.md:155`.
3. What a holder can still do after burning tokens outside the curve
   (`settle_receipts.rs:141`).
4. Proofs: the tolerances of the arithmetic as sharp as TLC finds them for small
   precisions, which needs the truncations of the terms related to each other.

## 10. Running

    tlc -config BondingCurve.cfg MCBondingCurve.tla
    tlapm BondingCurve_proofs.tla

Each run is named after its `.cfg`; `PROJECT.json` gives its module.
