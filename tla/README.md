# A TLA+ model of the RAJ terminal

The repository is a Streamlit terminal for one investor: a ledger of the net worth
that is kept encrypted in a private GitHub repository and filled from Plaid, live
orders at E*TRADE, option scanners, gamma snapshots, an archive of trades, and many
pages of tables and charts. This directory models the parts of it whose steps can
interleave, fail half way or be repeated, checks them with TLC, and proves the most
important results with TLAPS.

Paths below are those of the repository; `src/networth.py` is its module of that name.

## 1. The system

One Python process serves every browser session. A *session* is one browser tab with
its `st.session_state`; the page is a script that runs from the top for every click,
and a *fragment* (`@st.fragment(run_every=...)`) runs again by itself. The runs of one
session do not overlap, but a click during a run makes Streamlit end that run where it
next touches the session (`RerunException` is a `BaseException`: no `except Exception`
of the code sees it). Sessions run in parallel threads. The scheduled worker
(`scripts/sync_networth.py`, GitHub Actions) is a second process. GitHub, Plaid,
E*TRADE and the browser's storage are the outside.

| Component | State it keeps | Operations | Talks to | What must hold |
|---|---|---|---|---|
| Net worth store (`networth_store.py`) | two kinds of encrypted documents on a branch: `state.enc`, `days/<day>.enc` | `read_state`, `update_state`, `read_day`, `save_capture` | GitHub contents API | an edit is atomic and is not lost; a capture is never rewritten; "saved" means saved |
| Net worth sync (`networth.py`, `scripts/sync_networth.py`) | in the ledger: items, accounts, `sync_lease`, `completed_slots`, last capture | `sync_networth` (claim, recover, fetch, apply, archive, release) | store, Plaid | paid reads are exclusive, archive before checkpoint, no balance goes back, no edit of the user is undone |
| Net worth page (`networth_ui.py`) | `pending_links`, classifications, nicknames in the ledger; exchanged tokens in the session | start, poll, complete, dismiss a link; reconnect; disconnect; classify; sync now | store, sync, Plaid | a single-use token is never lost; a link completes; what is disconnected stays so |
| Risk orders (`risk_sizing_ui_v10.py`) | reviewed, placed and uncertain orders, watch log | review, send, watch, protect, reset, clear; list and cancel | E*TRADE, browser storage | no blind retry; a stop covers shares that are there; a position is not forgotten |
| Spread orders (`vertical_options_ui.py`, `verti_phone_ui.py`) | review bundle, results | review, place in every account | E*TRADE | all accounts have passed the preview; no order is placed twice from one review |
| Hedge orders (`protective_puts_portfolio_ui.py`, `protective_puts_orders.py`) | preview, results | review, submit a basket | E*TRADE | no order is placed twice; stop at the first uncertain order |
| E*TRADE data cache (`etrade_data_cache.py`) | entries per connection, offline vault, counters | cached read, invalidate, clear, prune | E*TRADE client | the vaults stay bounded; a current answer is not older than its TTL and one answer's way; an old one is marked as offline |
| E*TRADE session (`session_persistence.py`, `etrade_connection_ui_v2.py`, `etrade_client.py`) | OAuth token, activity, expiry | save, restore, clear; requests | E*TRADE | a session is restored only in time, and not extended by it; a disconnected one never comes back |
| Acquisition history (`acquisition_ui.py`) | snapshot per account, dirty and retry marks | 15-minute discovery, 12-hour sync, merge, FIFO, reconcile | E*TRADE, archives | a gap of coverage is never claimed as covered; no transaction is lost or doubled |
| Acquisition archives (`acquisition_history_github.py`, `acquisition_private_blotter.py`) | an encrypted document and readable files per account | restore, save with compare-and-swap | GitHub | competing writers merge |
| Vertical scan store (`vertical_options_store.py`) | SQLite rows; completed expirations, annual markers, choices | add, prune, query | the scanner | metadata and rows agree; nothing expired comes back |
| GEX snapshots (`gex_snapshot_cache.py`, `gex_github_bridge.py`) | results in memory, server file with one backup, browser copy, settings (DTE), background job, bridge files | hydrate, refresh, edit a DTE, save, publish | browser, market data, GitHub | what was saved is readable after any crash; the browser loses only what is deleted; a finished job is saved without a tab |
| GEX engines (`gex_*.py`) | caches per ticker | scan, combine | CBOE, E*TRADE | numeric |
| Lock and passkeys (`lock_screen_v2.py`, `passkey_auth.py`) | unlocked flag, challenge, record | enter a PIN, register, authenticate | browser | a challenge is used once |
| StockAnalysis cache (`stockanalysis_cache.py`) | file of classifications | cached read, stale on error | web | a good entry is not replaced by a bad one |
| Shell (`streamlit_app.py`, `terminal_core.py`, `tab_bar_v4.py`, `reboot_guard.py`) | tabs, connection, background hooks | route, poll | all pages | |
| Sizing and pricing (`risk_sizing.py`, `trade_math.py`, `vertical_options.py`, ...) | none | pure functions | | numeric identities |
| Pages and data feeds (heat maps, performance, rebalance, option book, muni, treasury, ...) | caches of a page | read, draw | web | presentation |

### What is hard here

* Two tabs, or a tab and the worker, edit one document. The only lock is the sha of a
  GitHub blob, and a lease written in the document itself.
* A PUT that timed out may be served later, after the caller has reported a failure.
* A run of sync reads the ledger, spends minutes with the banks, and writes; in between
  the user links, disconnects, reconnects and classifies, and the lease runs out.
* A worker dies between the archive of a capture and the checkpoint that refers to it.
* A Plaid public token can be exchanged once, and the access token exists only in the
  memory of a session until a write has verified.
* An order request that is not answered may be at the broker. A run that is interrupted
  after the answer has half recorded it.
* A fill arrives in parts, and an order ends with some of its shares bought.
* Caches are read outside their lock and written when a slow answer arrives.
* A review is made by one run and placed by another, and every click in between may edit
  the ticket or end a run half way.
* A process restarts without its memory, and one of the stores it would be restored from
  cannot be read.
* One result lives in memory, in a file with a backup, in the browser and in a thread that is
  still calculating, and a crash or a redeployment may fall between any two of its copies.
* A scan lasts for many runs, its list of expirations shrinks at midnight, and exports
  read its store in threads of their own.

## 2. The modules

| Module | Stands for | Uses |
|---|---|---|
| `NetworthLedger` | the abstract promise of one document of the store | |
| `NetworthStore` | `GitHubNetworthStore`, one document | implements `NetworthLedger` |
| `NetworthSync` | `sync_networth`, the worker, and the edits that race with it | atomic writes of `NetworthLedger` |
| `NetworthSync_proof` | its theorems | `NetworthSync`, `TLAPS` |
| `NetworthLink` | pending links in several tabs | atomic writes of `NetworthLedger` |
| `Networth_proof` | the theorems of the store and of the links | `NetworthStore`, `NetworthLink`, `TLAPS` |
| `RiskOrders` | the live stock orders of Risk Sizing, the watch over a fill, the broker | |
| `RiskOrders_proof` | its theorems | `RiskOrders`, `TLAPS` |
| `OrderReview` | the review and placement of spreads and of put baskets | |
| `OrderReview_proof` | its theorems | `OrderReview`, `TLAPS` |
| `ETradeCache` | `CachedETradeClient._cached` and the two vaults | |
| `ETradeSession` | the OAuth session of several tabs and its vault | |
| `ETrade_proof` | the theorems of the cache and of the session | `ETradeCache`, `ETradeSession`, `TLAPS` |
| `AcquisitionSync` | `_sync_history`, the encrypted archive and the private ledger | |
| `AcquisitionSync_proof` | its theorems | `AcquisitionSync`, `TLAPS` |
| `VerticalScan` | the scan of Vertical Options and its store | |
| `VerticalScan_proof` | its theorems | `VerticalScan`, `TLAPS` |
| `GexSnapshots` | the results of the GEX pages and their copies | |
| `GexSnapshots_proof` | its theorems | `GexSnapshots`, `TLAPS` |
| `MC...` | constants and symmetry sets for TLC | the module of that name |

`Networth_proof` and `ETrade_proof` each hold the proofs of two components that are specified
separately. So that both can be extended, the second one has names of its own: `LinkInit`, `LinkNext`,
`linkVars`, `overdue`, `stage` in `NetworthLink`, and `SessionInit`, `SessionNext`, `sessionVars`, `clock`,
`stage` in `ETradeSession`. No theorem is about both components.

### NetworthLedger and NetworthStore

`doc` is the decrypted document at the head of the branch, a function from keys to
values. The keys in `Captures` are capture ids, which only `save_capture` writes. A call
goes through the steps of the code, `pc[c]`: `prepare` (private repository, branch),
`create`, `read`, `put`, `verify`. `update_state(c, r)` starts a call of either kind;
`ReadUpdated`, `ReadUnchanged` and `ReadRefused` are the three ways the callback ends;
`PutAccepted`, `PutConflict` and `PutLost` those of the PUT. Each write has a new sha
(Fernet draws a new IV), so "the sha I read is the head's" is a flag, `fresh[c]`, which
every commit clears for everybody. `late[c]` is a PUT that its client gave up: it can
land as long as its sha is the head's.

Inside `PutConflict` the 409 may be spurious: GitHub answers it while another file of the
branch is being committed. A read of the head is taken to be consistent.

`NetworthLedger` says what callers may rely on: a call takes effect at most once, in one
step, on the document as it is then; each answer is permitted only in certain states; a
failed call promises nothing. The mapping is `effect[c] = (pc[c] = "verify")` and
`late[c]` = the request of the late PUT.

### NetworthSync

One action per point at which a run reads or writes something shared. `ReadClaim`,
`ReadRecover`, `ReadApply` and `ReadRelease` are rounds of `update_state` with the four
callbacks of the code (operators `claim`, `recover`, `apply`, `WithoutLease`), followed by
`PutAccepted`, `PutConflict`, `PutLost` or `PutUnverified`. The rounds are not collapsed,
because the callback `apply` archives (`Archive`) and checks the lease twice, and because
the claimed ledger (`initial`) is what later checks compare with. Other writers
(`SaveLink`, `Reconnect`, `Disconnect`, `Classify`) are one atomic step each, which
`NetworthStore`'s refinement of `NetworthLedger` justifies; a conflict they cause is the
loss of `fresh`.

`fetched[w][i]` is "whole", "missing" (an account without an amount) or "error". A balance
is represented by the time at which it was read. `Raise` is an exception anywhere in the
run and goes through the `finally` clause, which releases the lease, in an `update_state`
that can fail too. `Crash` is the death of the process.

### NetworthLink

A step for each call that `_complete_link` makes: poll, claim, exchange, save, finish.
`recovery[s]` is `_networth_link_exchange`, the memory of the session; `Close` loses it.
`Recall` exists because `setdefault` on the session is a point where the run can be
interrupted (`Interrupt`). A write is a commit or `WriteFails`: done, done later or not
done. `Expire` is the end of the five-minute lease of an entry.

### RiskOrders

`orders` is the broker: an order id is an index of it. `entryOrder`, `entryUncertain`,
`review`, `stopOrder`, `stopUncertain`, `stopReview` are the six keys of the session,
`watch` the protection log and `storage` its copy in the browser. What the page does above
the clicked button (restore an entry from the log, drop an old review, arm the watch) is
the action `Render`; a click is an action whose guard is `Shows(screen)`: the page is
rendered and shows that part of the workflow. Placing an order is several steps: the
uncertain mark, the request (`place_order` or `PlaceFails`), recording the order id,
updating the log. `Interrupt` ends the run at a touch of the session. `Poll` is one round
of the five-second watcher for one row; its guards are those of the code.

The browser component `risk_book_state_v1` answers only in mode "read", and writes only
when it has been told `hydrated`. Both calls of the watch log pass neither, so the
definitions `mode` and `hydrated` are constants and `storage` never changes (section 4).

Fills are whole shares of one size. An order is full when all its shares are bought, unless
the broker lists it as `INDIVIDUAL_FILLS`: the code then calls it partial
(`PartialFill`, line 951), so an order that keeps that status stays `PARTIAL_FILL` though complete, and
`FillIsNoticed` is about full fills in the code's sense. `OPEN` stands for
`CANCEL_REQUESTED` too, which the code takes alike. The broker's list always contains the order; a list
that cannot be read is a poll that does not happen. The answer to a placement while the
page is reloaded is not modelled (`NewSession` waits for it).

### OrderReview

`selection[p]` is the ticket of page `p`: lines (accounts of a spread, contracts of a
basket) and terms (the rest of the fingerprint). `bundle[p]` is the stored review. A click
on REVIEW or on the SEND button starts a run, which previews or places the lines one by
one (`PreviewAccepted`, `PreviewRejected`, `Place`, `PlaceUncertain`); `Cut` is the click
that ends it, at `touch_session` between two lines. `Edit` is a run that sees another
ticket and drops the review, `EditUnseen` one that is ended before it does. The two pages
differ where the code does: a spread asks for its quote again before the previews and
tries every account, a basket gives up at the first failure; a spread drops its review
after the loop (`Consume`), a basket before it (`HeldWhileSending`). `made`, `accepted`,
`sent`, `doubt`, `cuts` and `outdated` are history. Verti Phone has the code of Vertical
Options once more, so its ticket is another page of the model. Left out: the checkbox that
confirms the basket (a click like any other), and `_vo_last_send_results`, which is shown
and never read.

### ETradeCache

A value is the moment E*TRADE read it, so freshness is a difference of times. `_cached` is
`Hit` or `Ask` (prune, look, both under the lock), then `Respond` (E*TRADE reads), then
`Arrive` (the write under the lock), `Store` (the offline vault, under the other lock) or
`Fail`. `Keeps` is pruning: by age, then by number, the oldest first; which of two of one
moment goes is open. `Cut` is the end of a run at `_etrade_cache_last_event`, which touches
the session while the lock is held and the entry is already written. Left out: the branch
without a namespace, statistics, the client for offline reading, seeding from the session,
and `invalidate`, which nothing calls.

### ETradeSession

One vault with one key (the hash of the one access code), and tabs. A run is `Begin`
(look for a saved session), `Restore` or `DropExpired`, then the connection row (`Verify`,
`Touch` for RENEW, `Disconnect`, `Lock`), then `Persist`, then the page with its `Touch`.
Both buttons end in `Forget`, where the tab drops its token, and `Clear`, where it drops the
rest. DISCONNECT is three steps: `Disconnect` takes the session from the vault and then touches the session
of the tab, where a click may end the run (`End`) with the token still there; then `Forget`
and `Clear`. Nothing locks the vault: `hand[t]` is what a run is about to restore or to save. Both
expiries are computed from the code's times: `Midnight` from the issue of the token,
the inactivity from the saved activity. `touched` (the last real use in any tab) and
`forgotten` are history: a token is forgotten from the step that takes it from the vault for the last tab that has
it, and is not any more if that run is ended before it has dropped the token (section 4). `Redeploy`
ends the process.

### AcquisitionSync

One account. A process runs one sync at a time under the lock of its vault; processes share
only the files. A history is its set of transactions and the days it covers. `Begin` or
`RestorePrivate`, `RestoreArchive`, `Fetch`, `ReadArchive`, `PutArchive` (or
`PutArchiveUnconfirmed`, `ArchiveConflict`), `ReadLedger`, `PutLedger` (or
`LedgerConflict`), `WriteText` and `End` are the points at which a sync reads or writes
something shared; each of them may be missing, because it is too early for it or because
it failed and was reported. The 12 hours between queries and the 5 minutes between retries
are such choices. The day up to which the broker is asked may be the day before, since it
is looked up before the lock is waited for. `Restart` empties the memory of a process.
Assumed of the surroundings (`Post`, `Tick`): E*TRADE lists a transaction at most
`Lateness` days late, that is not more than the overlap of seven days; and no history is
left alone for the two years the broker lists. Corrections of a transaction under the same
id are not modelled: `_merged` lets the local row win, so a process with an old copy takes
a correction back until its next query. Neither are the legacy path of the ledger, the
named copies, and FIFO lots.

### VerticalScan

One snapshot of one ticker. Expirations are numbered by date; a chain has at most one
qualifying pair. `raw[t]` is `_vo_chain_cache`, `result[t]` is `vo_scan_result`, and
`memory` what other tabs get. A pass is `Continue`, `Load` for each chain, `Loaded`,
`PruneFirst`, `Group`, `Add` and `Added` for each ranked chain, `Finish`. The store has a
lock for its writers and downloads; a write is a commit (`PruneRows`, `Add`) and then the
metadata (`PruneMetadata`, `Added`). The cutoff of a pruning is an argument, `asked[p]`: it is of
the moment of the call, and the lock is waited for after it. `Add` leaves out what is pruned or done
(`Refuses`), and ends the pass with an error if a chain that is done may have another number of
contracts (`Changed`), which takes two tabs that have loaded it (`twice`). `Look` and `Cache` are
the two halves of `column_filter_choices`, without the lock. A download is `StartExport` (lock,
prune), `ReadMarks` and `ReadRows`, which looks at the date again and leaves out rows below it.
`Midnight` moves the earliest eligible expiration, at any moment. Not modelled: the five minutes after
which a snapshot cannot be continued, other pricing policies (each has a store of its own),
filters, pages and indexes, and the in-place filtering of a list two tabs share. Grouping the rows is one step,
though each row is compared with the date of its moment. A store is out of
`result_stores` while it is pruned (`src/vertical_options_ui.py:1314`), so that a tab which ranks
just then gets one of its own: that it is another scan from there on is not followed. After `Changed`
the timer stops in the model; in the code its next run meets the same error.

### GexSnapshots

One vault. `memory` is what all tabs of the process share, `settings` the DTEs last saved and
`dte[t]` those of the session of a tab, `job` the entry of `_BACKGROUND_JOBS` with the results its
thread has so far, `latest` and `previous` the server file and its backup, `digest` what this
process believes to be in the file, `loaded` the flag of the path, `lock` the lock of the file,
`browser` the copy in the browser and `sent[t]` what the page of a tab has been sent and has not written there. A run of
a tab is `Hydrate`, the restoring steps, then (once the browser has answered, `ReadBrowser`) `Page`,
one of `Refresh`, `StartEdit`/`EndEdit`, `Delete` and `Leave`, the saving steps and `Send`; the page in
the browser then writes it (`WriteBrowser`), in an order of its own. A job is `StartJob`, `Fetch`
for each ticker, `Finish`, `Collect` and the saving steps. Restoring is `ReadLatest`, `ReadPrevious`,
and for each ticker `Compare` and `Copy`, which are two steps because nothing holds the vault in
between. Saving is `Save` (the lock; a process that has not read the file reads it first), again
`Compare` and `Copy` for each result of a job, `Merged` and `Snapshot` (the deepcopy of the memory, which may
see what others do meanwhile, or raise `RuntimeError` if a ticker comes or goes, `SnapshotFails`), `Rotate` and
`Replace`: two renames, of which each can fail (`SaveFails`). Only the file has a lock; the memory has
none. `Delete` stands for all that takes results out of memory: a ticker that is deleted, settings that are
saved without a calculation, a CBOE refresh with a shorter list. A browser that cannot read its
copy answers as if it had none (the failing branch of `ReadBrowser`, a fault). `Crash` keeps the files,
`Redeploy` does not, `Damage` leaves a file that cannot be parsed. A result is the moment at which
it was calculated and the DTE it was calculated with. `saved`, `earlier`, `damaged`, `setBack`, `excused`
and `blank` are history. Left out: the other results that are kept in the same way (baskets of CBOE and
Morningstar), the limits on sizes, the revision that breaks ties of stamps, the `localStorage` a
page writes to if it cannot write to its database, and publishing to the bridge. The copy that `Send` makes is one step; a
`Snapshot` has of each ticker what was in memory at its start or at its end; and of two copies sent to
one page only the last is kept, as the component does the same with its queue but for the time between.

## 3. Runs

| Run | Question | Bounds | Result |
|---|---|---|---|
| `networth_store` | Is the compare-and-swap an atomic update, and does each call end? | 2 clients, one capture id and one ordinary key, 2 values, the code's own 4 rounds | 168,792 states |
| `networth_sync` | Do overlapping runs and edits keep the ledger right? | 2 workers with a run each, 1 bank, clock to 3 with a lease of 1, one edit, one fault | 2.3 million states |
| `networth_link` | Is a token lost, saved twice or resurrected? | 2 tabs, a link of 2 banks and a reconnection, 2 faults | 1.0 million states |
| `risk_orders` | Is a buy sent blindly, a stop sent uncovered, a position forgotten, a fill unnoticed? | 2 plans, 2 orders of 2 shares, one reload, two faults | 189,948 states |
| `risk_orders_second_stop` | Does an entry get two stops? | one session, one fault | violated, finding 1 |
| `order_review` | Is something placed that is not what the ticket says and the broker accepted; is a basket placed twice, or after a doubt? | a spread and a basket, 2 lines, 2 reviews, clock to 2 with a window of 1, one cut per review | 1.1 million states |
| `order_review_once` | Is a reviewed spread placed once in each account? | one spread, 2 accounts, one cut | violated, finding 2 |
| `etrade_cache` | Can overlapping loads overfill the vaults, or pass old values for current ones? | 2 tabs, 2 resources, room for one, clock to 2 with all times 1 | 1.2 million states |
| `etrade_session` | Can a session come back late, or after DISCONNECT? | 2 tabs, 2 tokens, clock to 4, a midnight at 3, inactivity of 2 | 1.1 million states |
| `acquisition_sync` | Can a sync lose what is saved, or claim days it has not seen? | 2 processes, 3 syncs, 1 transaction, days to 2 of which a query covers 2 | 1.7 million states |
| `vertical_scan` | Do rows, metadata, results and downloads agree, and does a scan finish? | 2 tabs, a download, 2 expirations of one year, batches of one, two midnights, one cut | 462,619 states |
| `gex_snapshots` | Does a crash lose what was saved, a tab overwrite the copy of the browser with less, or a job end unsaved? | 1 tab, 1 job, 1 ticker that may be deleted, clock to 2, one edit, one fault | 638,339 states |

Why the bounds are enough. Every hazard these runs are about needs two actors, or one
actor and one failure: two clients give each order of read, PUT, late PUT and crash; with
two values and two keys an update can be lost and a capture id reused. In the sync runs
a lease of one tick and a clock of three let both leases run out in the middle of a run,
and two rounds of `update_state` instead of four let the loop end in each way. Two runs
are needed for overtaking; recovery needs a third, in `NetworthSyncRecovery.cfg` (section 4). The proofs (section 5) have none of
these bounds. In the link run two institutions in one link give a partially saved link, and
the second link a reconnection. For orders, two are an entry and its stop, or two entries, and two faults an answer that is
lost and a run that is ended after it; `RiskOrdersThree.cfg` has one order more of either kind; two shares give partial fills; two plans give a review that no longer is what
the page says. Two lines are a first order and one that must not follow it; two reviews a
review and one that replaces it. Two resources in a cache for one make every load prune
what another tab relies on. Two tabs and two authorizations give a stale save after a new
token; the clock passes the midnight and the limit in both orders. Two processes with
three syncs give a slow writer, a winner and a restart in between. Two expirations in
batches of one make two passes, and both can drop out at midnight, before, during or after a
download; `VerticalScanThree.cfg` has a batch that is partly gone. The job against the tab is the race for the lock and
for the memory; one fault is a crash between the renames, a damaged file or a browser that cannot be read; the
theorems on the snapshots hold for any number of them.

The runs of the sync, the link, the reviews, the cache, the session, the histories,
the scan and the snapshots have `CHECK_DEADLOCK FALSE`: when the bounds on runs, edits, faults and time are used
up the modelled system really stops. The store and the order workflow never stop, and
their runs look for deadlock.

The type invariants of all modules are theorems (section 5), so no run spends time on them
(some further configurations list one).

### Fairness

* `NetworthStore!FairSpec`: weak fairness of each client's steps. Every step is one HTTP
  request with a timeout, and the loops are finite.
* `VerticalScan!FairSpec`: a run that has begun goes on (`Step`), the timer of an unfinished
  scan fires every second (`run_every=1`, `Timer`), and a download ends. Nothing is assumed
  of clicks, of E*TRADE or of other tabs.
* `GexSnapshots!FairSpec`: a run or a thread goes on (weak fairness of `Step(p)`), and the lock of
  the file, which is held for one write, is granted to who waits for it (strong fairness of
  `Save(p)`). Nothing is assumed of tabs, of the calculations or of faults.
* `NetworthLink!FairLinkSpec` (used by hand, section 4) is for the claim that a completed link is detected. The user
  leaves the tabs alone, each open tab polls every five seconds (`run_every="5s"`), a
  call ends before its lease, and a lease runs out unless the link is claimed infinitely
  often: renewal is exactly what the finding is about.
* `RiskOrders!FairSpec`: a run ends, since the client's requests have timeouts, and the
  watcher polls every active row (`run_every=_RISK_STOP_WATCH_POLL_SECONDS`). Nothing is
  assumed of the user or the broker.
* Safety runs state no fairness.

### Properties

* Store: `WritesEditTheHead` (what can still be committed is the edit of the head),
  `OneEditPerCommit`, `CapturesImmutable`, `ImplementsLedger`, `CallsEnd`.
* Sync: `ArchivedBeforeCheckpoint`, `NoResurrection` (of a disconnected bank's
  accounts), `PaidReadsExclusive`, `OnlyTheOwnerSaves`, `UserEditsSurvive`,
  `BalancesNeverGoBack`.
* Link: `NoTokenLost`, `ProcessedIsSaved`, `FinishedIsSaved`, `RemovedStaysRemoved`.
* Orders: `StopsAreCovered`, `NoBlindRetry`, `NeverForgotten`, `FillIsNoticed`.
* Reviews: `BasketOnce`, `BasketStopsAtDoubt`, `OnlyWholeReviews`, `OnlyTheCurrentTicket`,
  `AgainOnlyIfCut`.
* Cache: `Bounded`, `FreshOrOffline`, `NeverFarBack`. Session: `RestoredInTime`,
  `DisconnectIsFinal`.
* Histories: `NothingForgotten`, `CoverageIsHonest`, `CleanIsSaved`, `TextIsWhole`.
* Scan: `MetadataMatch`, `CompleteIsWhole`, `OneRevision`, `AutoFinishes`.
* Snapshots: `SavedIsReadable`, `BrowserKeepsAll`, `JobIsSaved`.

`NeverForgotten` says nothing of a page that shows a stop order: clearing it after a run
was interrupted (finding 1), or when a cleared workflow left its stop behind, is the user's
decision on a page that says "complete".

`DisconnectIsFinal` is about the last tab that has the session: another tab that still has
it saves it again with its next run, which is what one access code for all tabs means. The run of DISCONNECT
itself may be ended before the tab has dropped the token, and then the next run saves it again; this is the
exception of the property, and section 4 has it. A
tab that was idle for long may also save its older activity over a newer one, or drop the
saved session as expired: that ends a session early, and never extends it.

`OneRevision` says that a download has the rows, and the markers, of one set of pairs: what the store had when the
download held its lock. Its rows are the eligible ones at the moment they are written, so a midnight
in between leaves out rows and with them their markers; `EveryYearMarked`, that each year still has a
marker then, does not hold (section 4).

`JobIsSaved` has two exceptions, of the one moment at which a save does not hold what it saves, between the
merge of the results of a job into memory and its copy: another thread puts an older result there or
deletes it (`Undone`), or adds or removes a ticker, at which the copy fails (`Disturbed`). Without them the
property is `JobIsSavedAnyway`, which does not hold (section 4). `BrowserKeepsAll` lets the browser lose a ticker
whose result was deleted, or if it answered the page that it has nothing, or if the page of another tab
wrote in between; the last is `BrowserLosesOnlyDeleted` (section 4), and what is left is what "hydrate before
writing" is for: no restart, and no tab that has not read yet, takes anything from it.

## 4. Findings

1. **A second stop for one entry** (`OneStop`, `src/risk_sizing_ui_v10.py:1845`). A run
   is interrupted after it has recorded the stop order and before the log says `STOP_SENT`.
   The page shows "WORKFLOW COMPLETE"; after CLEAR the entry is restored from the log, still
   `READY_TO_SEND`, and a second stop can be sent without the order book having been checked.
   `SecondStopNeedsInterrupt` proves that a run that is cut short is the only way.
2. **A spread placed twice from one review** (`OncePerAccount`,
   `src/vertical_options_ui.py:3041`). The help of the account chooser says that the reviewed
   spread "is placed once in EACH selected account". The review is dropped after the loop
   over the accounts; a click during it ends the run at `touch_session`, and the review is
   still there, fresh, without a word of what was sent. The next PLACE LIVE ORDER starts
   with the first account again. `AgainOnlyIfCut` proves that this is the only way. The
   basket of puts drops its review first, and `BasketOnce` holds.

### Disagreements reproduced by hand

These too are between the code and a doc or comment; their configurations are kept here, and
`tlc -config <cfg> <module>` shows each.

* `NetworthSyncComplete.cfg`, `NetworthSync` (`CompleteIsCurrent`, `src/networth.py:453`):
  **a complete capture with a bank that was never read.** Run A starts, and is overtaken by
  run B, whose read of the bank fails. The user reconnects the bank, which clears the error. A
  then claims the lease, its own read fails, and because B's attempt was newer A records no
  error. The capture is called complete and the slot done, though no run has read the bank.
  `NETWORTH_SETUP.md:44` says the worker "reports an incomplete run".
* `NetworthLinkLockout.cfg`, `MCNetworthLink` (`CompletionDetected`, `src/networth_ui.py:375`):
  **two tabs lock a link out.** Tab 1 exchanges the token and its save fails; the access token
  is in its memory. Its lease runs out and tab 2 claims the entry. Plaid refuses to exchange
  the token again, every five seconds, and each time tab 2 has renewed its lease first. Tab 1
  never gets the entry back while tab 2 is open. `NETWORTH_SETUP.md:51` says to keep the page
  open until completion is detected.
* `RiskOrdersRefresh.cfg`, `RiskOrders` (`LogIsPersistent`, `src/risk_sizing_ui_v10.py:1069`):
  **the watch log does not persist.** The component is called without `mode="read"` and
  without `hydrated`, so it neither returns nor stores anything, and a reload loses the rows.
  `TERMINAL_CHANGELOG.md:1627` says they can be restored.
* `RiskOrdersEnded.cfg`, `RiskOrders` (`EndIsNoticed`, `src/risk_sizing_ui_v10.py:1227`):
  **a partly filled entry that has ended.** Shares first: an entry with some shares filled is
  `PARTIAL_FILL` even after the rest was cancelled or has expired. The row is watched forever
  and the page offers no way out and no stop for the shares.
* `ETradeCacheForced.cfg`, `ETradeCache` (`ForcedIsFresh`, `src/etrade_data_cache.py:409`):
  **a forced read answered from the cache.** If the request of a call with `force_refresh`
  fails, the entry it was to replace is returned, and the requote before a preview
  ("an uncached chain quote is obtained before broker preview",
  `src/vertical_options_ui.py:2890`) is then made with it; only the session is marked offline.
* `VerticalScanChoices.cfg`, `MCVerticalScan` (`ChoicesAreCurrent`,
  `src/vertical_options_store.py:412`): **choices of rows that are gone.** They are read and
  cached without the lock; a prune in between clears the cache before it is filled, and the
  pruned expirations stay in the menus. ("Return distinct choices from every stored spread".)
* `VerticalScanMidnight.cfg`, `MCVerticalScan` (`EveryYearMarked`, `src/vertical_options_ui.py:1635`):
  **a year without its marker.** A download prunes and reads the annual markers with one cutoff, and takes
  another for the rows. At midnight in between the best pair of a year drops out with its marker, and
  the next best of that year is written without one. ("Keep a deferred CSV's rows and annual markers in the
  same revision", `src/vertical_options_store.py:193`.)
* `ETradeSessionCut.cfg`, `MCETradeSession` (`DisconnectIsHeld`, `src/session_persistence.py:251`):
  **a disconnected session that is saved again.** DISCONNECT takes the session from the vault, and then
  touches the session of the tab; a click ends the run there. The token is still in the tab
  (`src/terminal_core.py:1640` would drop it), and the next run saves it again (`streamlit_app.py:735`).
  "Forget the cached OAuth session after an explicit disconnect." (`src/session_persistence.py:250`.)
* `GexSnapshotsCleared.cfg`, `GexSnapshots` (`NeverCleared`, `src/gex_snapshot_cache.py:119`):
  **a job forgets the file.** A tab marks the path as loaded before it reads it. A job that
  saves in between believes the file to be in memory already ("READ BEFORE WRITE") and replaces it
  with its own results, without the tickers that failed in it.
* `GexSnapshotsBackup.cfg`, `GexSnapshots` (`BackupIsNewer`, `src/gex_snapshot_cache.py:76`):
  **a backup over a fresher result.** The stamps are compared, then the backup is copied; a result
  that another thread puts into memory in between is replaced. A test has it that "A browser backup
  must never replace fresher server calculations."
* `GexSnapshotsDte.cfg`, `GexSnapshots` (`DteStands`, `src/gex_ui_v3.py:95`): **a result of the old
  DTE.** An edit is refused while a job runs, so that it "cannot later overwrite the newly
  calculated DTE" (`src/gex_ui_v3.py:97`). But the edit waits for E*TRADE after that test; a job that
  another tab starts meanwhile has the old DTE, and its result replaces the new one.
* `GexSnapshotsDisturbed.cfg`, `GexSnapshots` (`JobIsSavedAnyway`, `src/gex_snapshot_cache.py:138`):
  **a job whose results are not saved.** A tab calculates a ticker while the save of a job copies the
  memory: the copy raises `RuntimeError`, which `except (OSError, ValueError, TypeError)` (line 178) does not
  take, and the thread ends. "Save completed background calculations even when the browser switched
  tabs." (`src/gex_ui_v3.py:264`.) The results are in memory still, and saved with the next run of some page.
* `GexSnapshotsBrowser.cfg`, `GexSnapshots` (`BrowserLosesOnlyDeleted`,
  `src/components/gex_snapshot_memory_v1/index.html:49`): **an older copy over a newer one.** Two tabs of a browser are
  sent the memory; the page of the first writes later, with less, and compares no revision. A restart
  without files then has the older copy only. `TERMINAL_CHANGELOG.md:3004`: "hydrate before writing, and
  merge without replacing fresher server data".

### Further configurations

These pass and are larger, or of another shape, than the runs of section 3.

* `NetworthSyncRecovery.cfg` (`NetworthSync`): three runs, one fault, no edit. A capture that was
  archived and not checkpointed is recovered, and its recovery never overwrites newer balances
  (0.9 million states).
* `RiskOrdersThree.cfg` (`RiskOrders`): three orders and one fault (1.2 million states).
* `VerticalScanThree.cfg` (`MCVerticalScan`): three expirations in batches of two, one midnight (1.5 million
  states).
* `GexSnapshotsTickers.cfg` (`GexSnapshots`): two tickers (0.3 million states); `GexSnapshotsTabs.cfg`: two tabs of one browser (1.8
  million states); and `GexSnapshotsJobs.cfg`: two jobs, one after the other (6.4 million states).
* `MCNetworthSync.cfg` (`MCNetworthSync`): `BalancesNeverGoBack` with two banks, where a run can be outdone
  for one and not for the other (1.1 million states); the theorem `BalancesAdvance` has it for any
  number of banks.

## 5. Theorems

All are for every value of the constants that satisfies the `ASSUME`s of the modules
(`StoreAssumption`, `MaxTriesAssumption`, `SyncAssumption`, `ReviewAssumption`, `CacheAssumption`,
`SessionAssumption`, `ScanAssumption`, `RiskAssumption`, `LinkAssumption`, `EntryAssumption`,
`GexAssumption`, `NoneAssumption`, `NoSessionAssumption`), which TLC evaluates in the runs. They say of the
constants that bounds are numbers, some of them positive, that sets are what they should be of each other,
and that the values that stand for "nothing" are none of the others; `CacheAssumption` and `ReviewAssumption` that
the sets that are counted are finite; `ScanAssumption` that no two spreads have the same rank. Only the `SyncAssumption` of
`AcquisitionSync` says something of the surroundings: E*TRADE lists a transaction no later than the
overlap of two queries reaches back.

**Store.** `TypeCorrect`; `CompareAndSwap`: `[](TypeOK /\ WritesEditTheHead)`.
`WritesEditTheHead` is inductive together with the types: only reading makes a sha fresh,
and it computes the edit from the head at that very step; every change of the head makes all
shas stale and drops the late PUTs. `NoLostUpdate` (`OneEditPerCommit`) and
`ArchiveImmutable` (`CapturesImmutable`) follow step by step: a commit is the edit of one key
by a callback that did not refuse. `StoreImplementsLedger` is the refinement: a PUT that is
accepted maps to `TakeEffect`, a late one to `LateEffect`, the end of a call to `Return`, and
everything else changes nothing the ledger sees.

**Sync.** `TypeCorrect` needs `RunHolds`, what each step of a run has at hand. The safety
theorems `ArchiveFirst`, `DisconnectedStaysGone`, `EditsSurvive`, `BalancesAdvance` come from
one inductive invariant. It says of the ledger that it is sound (rows only of linked
banks, checkpoints only of archived captures); that each archived capture is sound; and of
each document about to be written, or under way late, while its sha is still that of the
head, that writing it keeps all this. Without the last part no invariant of the ledger is
inductive: what is written was computed some steps ago, and only the freshness of the sha
says that the ledger is still the one it was computed from.

`OnePaidReader` (`PaidReadsExclusive`) and `SavedByOwner` (`OnlyTheOwnerSaves`) have an invariant of their
own, `LeaseSafe`. A run is live from the step that saves its claim until its lease is over. The
ledger's lease is that of the live run; run ids are never shared; and a document that can still
replace the head was computed when its run held the lease or found it free, so that only that
run can be live, or nobody if the PUT is late. Time only ends leases, so a claim that found the lease over
cannot take it from a live run later.

**Links.** `TokensAreKept` (`NoTokenLost`), `ProcessedTokensAreSaved` (`ProcessedIsSaved`),
`FinishedLinksAreSaved` (`FinishedIsSaved`) and `RemovedTokensStayOut` (`RemovedStaysRemoved`) have one
inductive invariant, `LinkInv`. None of them is inductive, since a document that a session gave up
writing may land much later, when the entry has been claimed by another session. The invariant is
therefore about every document that is the ledger or may become it. Such a document is sound (`Sound`): what
an entry calls processed is saved in it or disconnected; a token that is in it and still in the memory of
some session is called processed, so that nobody forgets it; and a session that works on an entry of its
own has seen all that the entry calls processed. And it follows the ledger it would replace
(`Follows`): it has every institution of the ledger that was not disconnected, none that was and is
gone, and an entry the ledger lacks only if that link was never completed. `Working` says what a call knows
between its steps: what it has seen is saved, and the token it saves is in memory and not yet seen.
`StaysSound` and `Written` are the two lemmas on which every step rests: a document that was sound stays
so, and a sound document that follows the ledger may be written now, later or never. The claim is where
this is decided: it drops every document under way, for its commit makes their sha stale.

**Reviews.** The properties are of the requests sent (`NoSecondBasket`, `AcceptedWhole`,
`AgainAfterCut`, `StopsAtDoubt`), and what can be sent is decided much earlier. The invariant
says: a stored review is one that was made, with all its lines accepted, and if it is a
basket's nothing of it was sent (`Stored`); a run that places has only lines it has not
sent yet, of a review with these properties, and none after a doubt in a basket
(`Sending`); a line was sent at most once for each run that was ended, and once more if the
run under way has sent it or none is (`Numbered`). `TicketAsReviewed` (`OnlyTheCurrentTicket`)
needs `Current`: a stored review, or one a run works on, is not outdated, since a run that draws
another ticket drops the review and edits are made between runs only; and a run that sends
has the ticket it compared with the review.

**Cache.** `VaultsBounded` needs that a load still under way has its room: entries plus loads
is the invariant, not entries alone, and it is an argument about cardinalities of sets of
tabs and keys. `Fresh` and `NotFarBack` need that every entry was written within the
latency of its reading (`Recent`), which holds of the stored entry although older answers
overwrite newer ones: both are recent when they are written.

**Session.** `NeverBack` and `RestoredValid` rest on `Traced`: every copy of a session, in the
vault, in a tab or in the hand of a run, is of an issued token, says no later use than the last
real one, and is not of a forgotten token; but for the token of the tab that is about to drop it, which is
in that tab only, and in no run's hand.

**Histories.** `NoGaps` (`CoverageIsHonest`) needs more than the property: a history has no gap
from its first day to `Lateness` days before its last, its first day is at least
`HistoryDays` back, and its last is not so far back that the next query misses a day. This is
what makes the overlap sufficient, and it is kept by merges of any two such histories.
`StoresGrow`, `CleanSaved` and `CopyIsWhole` rest on `Kept`: what a sync read of a file it is
about to replace is contained in that file still, since files only grow.

**Scan.** `StoreAgrees` (`MetadataMatch`) and `DownloadIsOneRevision` are about moments at which the
lock is free, or a download ends; the invariant (`Rows`) says what the holder of the lock makes of
the rows in between: it is pruning (the rows are those of the ranked that the cutoff it was called with leaves,
the metadata the old ones) or adding (one row more, the best of its year moved), or the download has the
markers of the rows that are there. What the download then leaves out is decided by the date of the moment, for rows
and markers alike.
That an added row replaces the marker of its year, and a pruned one leaves the next best, are
lemmas on `BestOf`, which need that a set of numbers has a least element (by well-foundedness).
`ShownIsWhole` (`CompleteIsWhole`) is about two counts that are compared: `Windows` says that what a
tab has loaded is the chains from an earlier cutoff up to the index, but for those that failed,
and that the store was pruned to that cutoff or beyond before it is ranked. A pruning that was called before
midnight and waited for the lock is no exception: its cutoff is one the chains were filtered with, or later
(`AskedHeld`), and the store never goes back to it (`StoreOnward`). So the ranked chains
are among the loaded ones, and as many are all. A filtered snapshot is such a window again
(`FilteredWindow`), and a later pruning keeps a whole result whole (`StoreOnward`).

**Orders.** `StopsCovered` (`StopsAreCovered`) is about a stop sent long after its entry was bought:
`Book` says that a stop at the broker is of an entry with all its shares bought, of the same plan,
and `Hands` says it of the review of a stop, from the moment it is made; fills never go back, so it
holds until the stop is sent and after. `NeverBlind` (`NoBlindRetry`) needs `Unsure`: there can be an
order nobody on this side knows of only while the run that sent it has not recorded it, or while
the page calls the entry, or the stop, uncertain; and no row of the watch log can then be restored,
which would hide an uncertain entry behind an older one. `PositionsKept` (`NeverForgotten`) needs
`Log`: a row that ended is of an entry that bought nothing, so nothing is lost with it.
`SecondStopNeedsInterrupt` is about the steps of `Spec` without `Interrupt` (`Uncut`), and complements finding 1:
there an entry with a stop that was never checked is `Settled`. Its stop is being recorded; or the page calls
it uncertain, and the reset of that page is the check; or it is recorded, and its row in the log is not one that
`RestoredEntry` brings back. A run that is cut short between the last two leaves neither.

**Snapshots.** `FilesRecover` (`SavedIsReadable`) and `BrowserIsKept` (`BrowserKeepsAll`) rest on
`GexInv`. `Files` says what the two files hold between the two replacements of a save, after a crash
there, and after a damage; it is kept because only one worker at a time is between them: `LockedAt`, the
lock of the file is held exactly from the read before a write to its end, and only a tab that has not
read the file yet reads it without. `RestoringAt` is why a browser keeps what it has: while a tab restores,
each ticker that the browser has is in memory, or deleted since (`Known`), or still to be copied; a result leaves the
memory of a running process by deletion only; so a tab that has read the browser, and only a tab
that is ready sends anything, has them all or knows them deleted (`InMemory`). What a page is sent stays good until it is written,
or another page writes, which is what `excused` records. What a restart takes from memory it takes with `ready`. TLC
confirmed `GexInv` on small instances before it was proved.

Every invariant and every action property of the passing runs is a theorem. Only model-checked are the four
properties with liveness (`CallsEnd`, `FillIsNoticed`, `AutoFinishes`, and `JobIsSaved`, of which one part is about
steps): they need fairness and `ENABLED`, which are out of the prover's reach. What the code does not satisfy (section 4) has
counterexamples and no theorem.

## 6. Assumptions and omissions

* Clocks of the worker and the app are one clock. A bank has one account, and its sign,
  currency and name are left out. There is one Plaid environment (the checks of
  `PLAID_LEDGER_ENVIRONMENT_MISMATCH` always pass).
* `sync_networth` after a finished link is a run like any other, in `NetworthSync`.
* A late PUT may carry a lease that is already over, or not: the model allows both.
* Nicknames and display preferences are edits like classifications.
* The list and cancel panel of Risk Sizing, and interruptions between the single keys that
  `_clear_risk_order_workflow` drops (two halves are modelled), are not modelled.

### Not modelled

Publishing GEX results to the bridge repository (`gex_github_bridge.py`) is a file per ticker
with a retry. The wrappers that pages put around functions of Streamlit while they render
(`gex_workspace_v2.py:1016` and others) are shared by all sessions and go wrong whenever two renders
overlap; what follows is drawn in the wrong place, and not state. The list and cancel panel of Risk
Sizing acts on a cached list, each click on one order at the broker; in `RiskOrders` a cancelled
entry may be cancelled by it. The lock
screen and its passkeys keep one challenge per session, and the rest is cryptography of a
library. The cache of StockAnalysis pages has the shape of `ETradeCache` with a file for the
offline vault. Presentation, data feeds, numeric engines (GEX, sizing, pricing) and
superseded versions of pages hold no state that two actors share, and what they could get
wrong is arithmetic or wording; they are most of the repository's lines.

## 7. Plan

Done: the store with its refinement, the sync, the links, the
order workflow of Risk Sizing, the reviews of spreads and baskets, the E*TRADE cache and
session, the histories, the vertical scan and the GEX snapshots, each with its proofs.

| Next | Module | Properties | Proof |
|---|---|---|---|
| 1 | `RiskOrders`: the pending-order panel with its stale list and two-step cancel | a cancel is of the order that was confirmed | as it comes |
| 2 | `FifoLots`: `_fifo_equity` and `_reconcile` on small histories, against a definition | shares are conserved | no (induction over data) |
