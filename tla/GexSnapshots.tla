---------------------------- MODULE GexSnapshots ----------------------------
(***************************************************************************)
(* The results of the GEX pages and their copies                           *)
(* (src/gex_snapshot_cache.py, src/gex_ui_v3.py, src/gex_ui_v3_proven.py). *)
(* One process keeps the results of one vault in memory, for all tabs.  A  *)
(* background job refreshes all tickers; a tab can refresh one, and edit   *)
(* the DTE it is calculated with, and results are deleted.  Every run of a *)
(* page saves the memory to a file of the server, with one backup, and     *)
(* sends it to the browser.  After a restart the memory is restored from   *)
(* these.  Only the file has a lock; the memory has none.                  *)
(*                                                                         *)
(* The tabs are of one browser.  A result is the moment at which it was    *)
(* calculated and the DTE it was calculated with.                          *)
(***************************************************************************)
EXTENDS Naturals

CONSTANTS
  Tabs,
  Jobs,       \* threads of background refreshes (bound: at a time)
  Tickers,
  Deletable,  \* bound: tickers whose results are deleted
  None,
  Broken,     \* a file that is not readable
  MaxClock,   \* bound: results
  MaxEdits,   \* bound: edits of a DTE
  MaxFaults   \* bound: crashes, redeployments, damaged files, failed writes and reads

VARIABLES
  clock,
  memory,     \* _results(vault_key) and cboe_snapshot(vault_key): the results
  settings,   \* _gex_state_vault, with its copy in the browser: the DTEs last saved
  dte,        \* dte[t]: the DTEs in _gex_state of tab t, dte_overrides
  job,        \* _BACKGROUND_JOBS[vault_key]
  latest,     \* the file of the server
  previous,   \* its backup, .previous.json
  digest,     \* _SERVER_DIGESTS: what this process wrote last, unless the file has changed
  loaded,     \* _SERVER_LOADED
  lock,       \* who holds _SERVER_CACHE_LOCK, or None
  browser,    \* the copy of the browser
  sent,       \* sent[t]: what tab t has sent the browser and is not written, or None
  seen,       \* tabs with _gex_server_snapshot_loaded_
  ready,      \* tabs with _gex_snapshot_ready_
  blank,      \* history: tabs whose browser could not read its copy
  pc,         \* pc[p]: the step of the run of a tab, or of the job
  held,       \* held[p]: the snapshot p has read, or is about to write
  todo,       \* todo[p]: tickers p has not restored, or not merged, yet
  copying,    \* copying[p]: the ticker whose result p is about to copy, or None
  results,    \* results[j]: what thread j has to save, or is saving, or None
  target,     \* target[t]: the ticker whose DTE is edited, or None
  faults,
  setBack,    \* history: tickers whose result was last replaced by an older one, or deleted
  excused,    \* history: excused[p]: tickers that what p is about to write, or has sent,
              \* may lack
  saved,      \* history: what the file was last replaced with
  earlier,    \* history: what was saved before that and not damaged
  damaged     \* history: the file was damaged since

files == <<latest, previous, digest, saved, earlier, damaged>>
pages == <<seen, ready, blank, target>>
memories == <<memory, setBack>>
copies == <<browser, sent, excused>>
reading == <<held, todo, copying, results>>
dtes == <<settings, dte>>
vars == <<clock, memories, dtes, job, files, loaded, lock, copies, pages, pc, reading, faults>>

Workers == Tabs \cup Jobs
Result == [at : 1 .. MaxClock, dte : 0 .. MaxEdits]
Snapshots == [Tickers -> Result \cup {None}]
Empty == [k \in Tickers |-> None]
NoJob == [status |-> "none", dte |-> [k \in Tickers |-> 0], left |-> {}, results |-> Empty,
          synced |-> {}]

ASSUME GexAssumption ==
  /\ Jobs \cap Tabs = {} /\ None \notin Workers \cup Tickers \cup Snapshots \cup Result
  /\ Broken \notin Snapshots \cup {None} /\ Deletable \subseteq Tickers
  /\ {MaxClock, MaxEdits, MaxFaults} \subseteq Nat

TypeOK ==
  /\ clock \in 1 .. MaxClock + 1
  /\ memory \in Snapshots
  /\ settings \in [Tickers -> 0 .. MaxEdits]
  /\ dte \in [Tabs -> [Tickers -> 0 .. MaxEdits]]
  /\ job \in [status : {"none", "running", "done"}, dte : [Tickers -> 0 .. MaxEdits],
              left : SUBSET Tickers, results : Snapshots, synced : SUBSET Tickers]
  /\ latest \in Snapshots \cup {None, Broken}
  /\ {previous, digest, saved, earlier} \subseteq Snapshots \cup {None}
  /\ {loaded, damaged} \subseteq BOOLEAN
  /\ lock \in Workers \cup {None}
  /\ browser \in Snapshots
  /\ sent \in [Tabs -> Snapshots \cup {None}]
  /\ excused \in [Workers -> SUBSET Tickers]
  /\ setBack \subseteq Tickers
  /\ {seen, ready, blank} \subseteq SUBSET Tabs
  /\ pc \in [Workers -> {"idle", "latest", "previous", "restore", "page", "edit",
                         "fetch", "finish", "save", "merge", "snapshot", "rotate", "replace",
                         "saved"}]
  /\ held \in [Workers -> Snapshots \cup {None}]
  /\ todo \in [Workers -> SUBSET Tickers]
  /\ copying \in [Workers -> Tickers \cup {None}]
  /\ results \in [Jobs -> Snapshots \cup {None}]
  /\ target \in [Tabs -> Tickers \cup {None}]
  /\ faults \in 0 .. MaxFaults

Init ==
  /\ clock = 1 /\ faults = 0
  /\ settings = [k \in Tickers |-> 0] /\ dte = [t \in Tabs |-> settings]
  /\ memory = Empty /\ setBack = {} /\ job = NoJob
  /\ latest = None /\ previous = None /\ digest = None /\ browser = Empty
  /\ loaded = FALSE /\ lock = None
  /\ sent = [t \in Tabs |-> None] /\ excused = [p \in Workers |-> {}]
  /\ seen = {} /\ ready = {} /\ blank = {} /\ target = [t \in Tabs |-> None]
  /\ pc = [p \in Workers |-> "idle"]
  /\ held = [p \in Workers |-> None]
  /\ todo = [p \in Workers |-> {}]
  /\ copying = [p \in Workers |-> None]
  /\ results = [j \in Jobs |-> None]
  /\ saved = None /\ earlier = None /\ damaged = FALSE

-----------------------------------------------------------------------------
(* Helpers                                                                 *)

\* _stamp: 0 without a result.
Stamp(r) == IF r = None THEN 0 ELSE r.at

Goto(p, step) == pc' = [pc EXCEPT ![p] = step]
Fault == faults < MaxFaults /\ faults' = faults + 1
Tick == clock <= MaxClock /\ clock' = clock + 1
Calculated(days) == [at |-> clock, dte |-> days]

\* The results in memory become those of m.
Remember(m) ==
  /\ memory' = m
  /\ setBack' = {k \in Tickers : IF m[k] = memory[k] THEN k \in setBack
                                                    ELSE Stamp(m[k]) < Stamp(memory[k])}

Readable(file) == file \notin {None, Broken}
Running == job.status = "running"
MayUse(p) == lock \in {None, p}

-----------------------------------------------------------------------------
(* Restoring (hydrate_gex_snapshots, _read_server_snapshot, _restore)      *)

\* A run that has not read the file yet.  The path counts as loaded from here on.
Hydrate(t) ==
  /\ pc[t] = "idle" /\ t \notin seen
  /\ loaded' = TRUE
  /\ Goto(t, "latest")
  /\ UNCHANGED <<clock, memories, dtes, job, files, lock, copies, pages, reading, faults>>

\* The file is read, or else its backup, each under the lock.
Restore(p, snapshot) ==
  /\ held' = [held EXCEPT ![p] = snapshot]
  /\ todo' = [todo EXCEPT ![p] = {k \in Tickers : snapshot[k] # None}]
  /\ Goto(p, "restore")

ReadLatest(p) ==
  /\ pc[p] = "latest" /\ MayUse(p)
  /\ IF Readable(latest) THEN Restore(p, latest)
                         ELSE Goto(p, "previous") /\ UNCHANGED <<held, todo>>
  /\ UNCHANGED <<clock, memories, dtes, job, files, loaded, lock, copies, pages, copying, results,
                 faults>>

ReadPrevious(p) ==
  /\ pc[p] = "previous" /\ MayUse(p)
  /\ Restore(p, IF Readable(previous) THEN previous ELSE Empty)
  /\ UNCHANGED <<clock, memories, dtes, job, files, loaded, lock, copies, pages, copying, results,
                 faults>>

\* A backup is copied when it is newer than what is in memory, and a result of a job
\* when it is not older ...
Source(p) == IF pc[p] = "merge" THEN results[p] ELSE held[p]
Newer(p, k) ==
  \/ Stamp(Source(p)[k]) > Stamp(memory[k])
  \/ pc[p] = "merge" /\ Stamp(Source(p)[k]) = Stamp(memory[k])

Compare(p) ==
  /\ pc[p] \in {"restore", "merge"} /\ copying[p] = None
  /\ \E k \in todo[p] :
       /\ todo' = [todo EXCEPT ![p] = @ \ {k}]
       /\ copying' = [copying EXCEPT ![p] = IF Newer(p, k) THEN k ELSE None]
  /\ UNCHANGED <<clock, memories, dtes, job, files, loaded, lock, copies, pages, pc, held, results,
                 faults>>

\* ... and then takes its place.
Copy(p) ==
  /\ copying[p] # None
  /\ Remember([memory EXCEPT ![copying[p]] = Source(p)[copying[p]]])
  /\ copying' = [copying EXCEPT ![p] = None]
  /\ UNCHANGED <<clock, dtes, job, files, loaded, lock, copies, pages, pc, held, todo, results,
                 faults>>

\* What a save merges into memory first: the results of the job.
NothingMerged(p) == {}    \* mutant: the results of the job are left to the tabs
ToMerge(p) == IF p \in Jobs THEN {k \in Tickers : results[p][k] # None} ELSE {}

GotoMerge(p) == Goto(p, "merge") /\ todo' = [todo EXCEPT ![p] = ToMerge(p)]

RestoredAtOnce(p) ==    \* mutant: the browser is not waited for
  /\ pc[p] = "restore" /\ todo[p] = {} /\ copying[p] = None
  /\ held' = [held EXCEPT ![p] = None]
  /\ IF lock = p THEN GotoMerge(p) /\ UNCHANGED <<seen, ready>>
     ELSE Goto(p, "idle") /\ seen' = seen \cup {p} /\ ready' = ready \cup {p} /\ UNCHANGED todo
  /\ UNCHANGED <<clock, memories, dtes, job, files, loaded, lock, copies, blank, target, copying,
                 results, faults>>
\* The end of what was restored from: from the file in a run of a page or in a
\* save, or from the browser.
Restored(p) ==
  /\ pc[p] = "restore" /\ todo[p] = {} /\ copying[p] = None
  /\ held' = [held EXCEPT ![p] = None]
  /\ IF lock = p THEN GotoMerge(p) /\ UNCHANGED <<seen, ready>>
     ELSE /\ Goto(p, "idle")
          /\ seen' = seen \cup {p}
          /\ ready' = IF p \in seen THEN ready \cup {p} ELSE ready
          /\ UNCHANGED todo
  /\ UNCHANGED <<clock, memories, dtes, job, files, loaded, lock, copies, blank, target, copying,
                 results, faults>>

\* The browser answers, in a run of its own; if it cannot read, it answers "empty".
ReadBrowser(t) ==
  /\ pc[t] = "idle" /\ t \in seen \ ready
  /\ \/ Restore(t, browser) /\ UNCHANGED <<blank, faults>>
     \/ Restore(t, Empty) /\ Fault /\ blank' = blank \cup {t}
  /\ UNCHANGED <<clock, memories, dtes, job, files, loaded, lock, copies, seen, ready, target,
                 copying, results>>

-----------------------------------------------------------------------------
(* The page and the job                                                    *)

\* _sync_background_results: results of the job that were not yet synced replace
\* what there is.
Pending == {k \in Tickers : job.results[k] # None} \ job.synced
Sync ==
  /\ Remember([k \in Tickers |-> IF k \in Pending THEN job.results[k] ELSE memory[k]])
  /\ job' = [job EXCEPT !.synced = @ \cup Pending]

\* A run of the page; what another tab has set, the browser may have reported.
Page(t) ==
  /\ pc[t] = "idle" /\ t \in ready
  /\ dte' \in {dte, [dte EXCEPT ![t] = settings]}
  /\ Sync
  /\ Goto(t, "page")
  /\ UNCHANGED <<clock, settings, files, loaded, lock, copies, pages, reading, faults>>

\* A refresh of one ticker.
Refresh(t) ==
  /\ pc[t] = "page" /\ Tick
  /\ \E k \in Tickers : Remember([memory EXCEPT ![k] = Calculated(dte[t][k])])
  /\ Goto(t, "save")
  /\ UNCHANGED <<dtes, job, files, loaded, lock, copies, pages, reading, faults>>

\* _save_ticker_dte: the job is not running and what it has left is synced; then
\* E*TRADE is asked ...
StartEdit(t) ==
  /\ pc[t] = "page" /\ ~ Running
  /\ \E k \in Tickers : dte[t][k] < MaxEdits /\ target' = [target EXCEPT ![t] = k]
  /\ Sync
  /\ Goto(t, "edit")
  /\ UNCHANGED <<clock, dtes, files, loaded, lock, copies, seen, ready, blank, reading, faults>>

\* ... and the DTE and the result are kept.
EndEdit(t) ==
  LET k == target[t]
  IN  /\ pc[t] = "edit" /\ Tick
      /\ dte' = [dte EXCEPT ![t][k] = @ + 1]
      /\ settings' = dte'[t]
      /\ Remember([memory EXCEPT ![k] = Calculated(dte'[t][k])])
      /\ target' = [target EXCEPT ![t] = None]
      /\ Goto(t, "save")
      /\ UNCHANGED <<job, files, loaded, lock, copies, seen, ready, blank, reading, faults>>

\* The edit fails, or there is nothing to do on the page: the run goes on to its end.
Leave(t) ==
  /\ pc[t] \in {"page", "edit"}
  /\ target' = [target EXCEPT ![t] = None]
  /\ Goto(t, IF pc[t] = "page" THEN "save" ELSE "idle")
  /\ UNCHANGED <<clock, memories, dtes, job, files, loaded, lock, copies, seen, ready, blank, reading,
                 faults>>

\* Tickers are deleted, a setting of the whole page or the DTE of a ticker is saved
\* without a calculation, or the list of a CBOE refresh has fewer: their results are
\* taken out, and the run ends.  A deleted ticker, or USE GLOBAL DTE, has the first DTE.
Delete(t) ==
  /\ pc[t] \in {"idle", "page"} /\ t \in ready
  /\ \E K \in SUBSET Deletable \ {{}} :
       /\ Remember([k \in Tickers |-> IF k \in K THEN None ELSE memory[k]])
       /\ \/ UNCHANGED dtes
          \/ /\ dte' = [dte EXCEPT ![t] = [k \in Tickers |->
                               IF k \in K THEN 0 ELSE @[k]]]
             /\ settings' = dte'[t]
  /\ Goto(t, "save")
  /\ UNCHANGED <<clock, job, files, loaded, lock, copies, pages, reading, faults>>

\* REFRESH ALL, or the login hook of a tab that shows another page.
StartJob(t, j) ==
  /\ pc[t] \in {"idle", "page"} /\ ~ Running /\ pc[j] = "idle" /\ clock <= MaxClock
  /\ job' = [status |-> "running", dte |-> dte[t], left |-> Tickers, results |-> Empty,
             synced |-> {}]
  /\ Goto(j, "fetch")
  /\ UNCHANGED <<clock, memories, dtes, files, loaded, lock, copies, pages, reading, faults>>

\* One ticker is calculated, or fails.
Fetch(j) ==
  /\ pc[j] = "fetch"
  /\ \E k \in job.left :
       \/ /\ Tick
          /\ job' = [job EXCEPT !.left = @ \ {k}, !.results[k] = Calculated(job.dte[k])]
       \/ job' = [job EXCEPT !.left = @ \ {k}] /\ UNCHANGED clock
  /\ UNCHANGED <<memories, dtes, files, loaded, lock, copies, pages, pc, reading, faults>>

Finish(j) ==
  /\ pc[j] = "fetch" /\ job.left = {}
  /\ job' = [job EXCEPT !.status = "done"]
  /\ Goto(j, "finish")
  /\ UNCHANGED <<clock, memories, dtes, files, loaded, lock, copies, pages, reading, faults>>

\* The thread looks at the job again before it saves the results.
Collect(j) ==
  /\ pc[j] = "finish"
  /\ IF Running THEN Goto(j, "idle") /\ UNCHANGED results
     ELSE Goto(j, "save") /\ results' = [results EXCEPT ![j] = job.results]
  /\ UNCHANGED <<clock, memories, dtes, job, files, loaded, lock, copies, pages, held, todo, copying,
                 faults>>

-----------------------------------------------------------------------------
(* Saving (_save_server_snapshot, persist_gex_snapshots)                   *)

\* Read before write: a process that has not read the file does so now.
Save(p) ==
  /\ pc[p] = "save" /\ lock = None
  /\ lock' = p
  /\ loaded' = TRUE
  /\ IF loaded THEN GotoMerge(p) ELSE Goto(p, "latest") /\ UNCHANGED todo
  /\ UNCHANGED <<clock, memories, dtes, job, files, copies, pages, held, copying, results, faults>>

Excuse(p) == excused' = [q \in Workers |-> IF q = p /\ q \in Jobs THEN excused[q] \cup setBack
                                                                 ELSE excused[q]]

\* The results of the job are merged (Compare, Copy), and the copy of the memory begins ...
Merged(p) ==
  /\ pc[p] = "merge" /\ todo[p] = {} /\ copying[p] = None
  /\ held' = [held EXCEPT ![p] = memory]
  /\ Excuse(p)
  /\ Goto(p, "snapshot")
  /\ UNCHANGED <<clock, memories, dtes, job, files, loaded, lock, browser, sent, pages, todo,
                 copying, results, faults>>

Release(p) ==
  /\ lock' = None
  /\ held' = [held EXCEPT ![p] = None]
  /\ results' = [j \in Jobs |-> IF j = p THEN None ELSE results[j]]
  /\ excused' = [q \in Workers |-> IF q = p /\ q \in Jobs THEN {} ELSE excused[q]]
Done(p) == Goto(p, IF p \in Tabs THEN "saved" ELSE "idle") /\ Release(p)

\* ... and ends, while others go on; it is what will be written, unless it is already.
Snapshot(p) ==
  /\ pc[p] = "snapshot"
  /\ \E late \in SUBSET Tickers :
       LET s == [k \in Tickers |-> IF k \in late THEN memory[k] ELSE held[p][k]]
       IN  IF Readable(latest) /\ digest = s
           THEN Done(p)
           ELSE /\ Goto(p, "rotate")
                /\ held' = [held EXCEPT ![p] = s]
                /\ Excuse(p)
                /\ UNCHANGED <<lock, results>>
  /\ UNCHANGED <<clock, memories, dtes, job, files, loaded, browser, sent, pages, todo, copying,
                 faults>>

\* A ticker came or went meanwhile: the copy may raise a RuntimeError, and nobody handles it.
Keys(snapshot) == {k \in Tickers : snapshot[k] # None}
SnapshotFails(p) ==
  /\ pc[p] = "snapshot" /\ Keys(memory) # Keys(held[p])
  /\ Goto(p, "idle") /\ Release(p)
  /\ UNCHANGED <<clock, memories, dtes, job, files, loaded, browser, sent, pages, todo, copying,
                 faults>>

RotateAnything(p) ==    \* mutant: a damaged file becomes the backup too
  /\ pc[p] = "rotate"
  /\ IF latest # None THEN previous' = latest /\ latest' = None
                      ELSE UNCHANGED <<latest, previous>>
  /\ Goto(p, "replace")
  /\ UNCHANGED <<clock, memories, dtes, job, digest, saved, earlier, damaged, loaded, lock, copies,
                 pages, reading, faults>>
\* A readable file becomes the backup ...
Rotate(p) ==
  /\ pc[p] = "rotate"
  /\ IF Readable(latest) THEN previous' = latest /\ latest' = None
                         ELSE UNCHANGED <<latest, previous>>
  /\ Goto(p, "replace")
  /\ UNCHANGED <<clock, memories, dtes, job, digest, saved, earlier, damaged, loaded, lock, copies,
                 pages, reading, faults>>

\* ... and the temporary file takes its name.
Replace(p) ==
  /\ pc[p] = "replace"
  /\ latest' = held[p] /\ digest' = held[p]
  /\ saved' = held[p] /\ earlier' = (IF damaged THEN earlier ELSE saved) /\ damaged' = FALSE
  /\ Done(p)
  /\ UNCHANGED <<clock, memories, dtes, job, previous, loaded, browser, sent, pages, todo, copying,
                 faults>>

SaveFails(p) ==
  /\ pc[p] \in {"rotate", "replace"} /\ Fault
  /\ Done(p)
  /\ UNCHANGED <<clock, memories, dtes, job, files, loaded, browser, sent, pages, todo, copying>>

\* The browser is sent the memory, but not before it was asked for its copy.  A click
\* may end the run before.
Send(t) ==
  /\ pc[t] = "saved"
  /\ \/ UNCHANGED copies
     \/ /\ t \in ready
        /\ sent' = [sent EXCEPT ![t] = memory]
        /\ excused' = [excused EXCEPT ![t] = IF t \in blank THEN Tickers ELSE setBack]
        /\ UNCHANGED browser
  /\ Goto(t, "idle")
  /\ UNCHANGED <<clock, memories, dtes, job, files, loaded, lock, pages, reading, faults>>

\* The page in the browser writes it, also if that of another tab has written since.
WriteBrowser(t) ==
  /\ sent[t] # None
  /\ browser' = sent[t]
  /\ sent' = [sent EXCEPT ![t] = None]
  /\ excused' = [p \in Workers |-> IF p \in Jobs THEN excused[p]
                                  ELSE IF p # t /\ sent[p] # None THEN Tickers ELSE {}]
  /\ UNCHANGED <<clock, memories, dtes, job, files, loaded, lock, pages, pc, reading, faults>>

-----------------------------------------------------------------------------
(* The surroundings                                                        *)

\* A tab is loaded again: a new session.
Reload(t) ==
  /\ pc[t] = "idle" /\ t \in seen
  /\ seen' = seen \ {t} /\ ready' = ready \ {t} /\ blank' = blank \ {t}
  /\ sent' = [sent EXCEPT ![t] = None] /\ excused' = [excused EXCEPT ![t] = {}]
  /\ dte' = [dte EXCEPT ![t] = settings]
  /\ UNCHANGED <<clock, memories, settings, job, files, loaded, lock, browser, target, pc, reading,
                 faults>>

\* The process ends, at any step, and another starts.
Restart ==
  /\ memory' = Empty /\ setBack' = {} /\ job' = NoJob
  /\ digest' = None /\ loaded' = FALSE /\ lock' = None
  /\ sent' = [t \in Tabs |-> None] /\ excused' = [p \in Workers |-> {}]
  /\ seen' = {} /\ ready' = {} /\ blank' = {} /\ target' = [t \in Tabs |-> None]
  /\ pc' = [p \in Workers |-> "idle"]
  /\ held' = [p \in Workers |-> None]
  /\ todo' = [p \in Workers |-> {}]
  /\ copying' = [p \in Workers |-> None]
  /\ results' = [j \in Jobs |-> None]
  /\ dte' = [t \in Tabs |-> settings]
  /\ UNCHANGED <<clock, settings, browser>>

Crash ==
  /\ Fault /\ Restart
  /\ UNCHANGED <<latest, previous, saved, earlier, damaged>>

\* A new container has no files.
Redeploy ==
  /\ Fault /\ Restart
  /\ latest' = None /\ previous' = None
  /\ saved' = None /\ earlier' = None /\ damaged' = FALSE

\* The file is damaged, and has another time of modification.
Damage ==
  /\ Fault /\ Readable(latest)
  /\ latest' = Broken /\ digest' = None /\ damaged' = TRUE
  /\ UNCHANGED <<clock, memories, dtes, job, previous, saved, earlier, loaded, lock, copies, pages,
                 pc, reading>>

Step(p) ==
  \/ ReadLatest(p) \/ ReadPrevious(p) \/ Compare(p) \/ Copy(p) \/ Restored(p)
  \/ Save(p) \/ Merged(p) \/ Snapshot(p) \/ Rotate(p) \/ Replace(p)

Next ==
  \/ \E p \in Workers : Step(p) \/ SnapshotFails(p) \/ SaveFails(p)
  \/ \E t \in Tabs : \/ Hydrate(t) \/ ReadBrowser(t) \/ Page(t) \/ Refresh(t) \/ StartEdit(t)
                     \/ EndEdit(t) \/ Leave(t) \/ Delete(t) \/ Send(t) \/ WriteBrowser(t)
                     \/ Reload(t)
  \/ \E j \in Jobs : Fetch(j) \/ Finish(j) \/ Collect(j) \/ \E t \in Tabs : StartJob(t, j)
  \/ Crash \/ Redeploy \/ Damage

Spec == Init /\ [][Next]_vars
FairSpec == Spec /\ \A p \in Workers : WF_vars(Step(p)) /\ SF_vars(Save(p))

-----------------------------------------------------------------------------
(* Properties                                                              *)

\* "Recovers corrupt latest": wherever the process died or a write failed, the files
\* give what was saved last, and if the file was damaged since, what was saved before
\* ("corrupt bytes never replace the backup").
Recoverable == IF Readable(latest) THEN latest ELSE previous
SavedIsReadable == Recoverable = IF damaged THEN earlier ELSE saved

\* "Save completed background calculations even when the browser switched tabs": a thread
\* that has results to save ends its save, no tab is needed, and then each is in the file,
\* or something newer is; unless there is a fault, or another thread disturbs the save in
\* the one place left open: after the result is merged and before the memory is copied, it
\* is deleted or gives way to an older one, or a ticker comes or goes.
InFile(k) == IF Readable(latest) THEN Stamp(latest[k]) ELSE 0
Undone(j, k) == k \in excused[j] \/ (pc[j] = "snapshot" /\ k \in setBack)
Disturbed(j) == pc[j] = "snapshot" /\ Keys(memory) # Keys(held[j])
JobIsSaved ==
  /\ \A j \in Jobs : results[j] # None ~> results[j] = None
  /\ [][\A j \in Jobs : results[j] # None /\ results'[j] = None /\ faults' = faults =>
          \/ Disturbed(j)
          \/ \A k \in Keys(results[j]) : InFile(k)' >= results[j][k].at \/ Undone(j, k)]_vars

\* The same, whatever the other threads do, but for deleted results.
JobIsSavedAnyway ==
  [][\A j \in Jobs : results[j] # None /\ results'[j] = None /\ faults' = faults =>
       \A k \in Keys(results[j]) : InFile(k)' >= results[j][k].at \/ memory[k] = None]_vars

\* "Hydrate before writing": the browser loses its result of a ticker only to a page that
\* had no way to know it or knew it to be gone: the result was deleted when the page sent
\* its copy, the browser had answered the page that it has nothing, or the page of another
\* tab wrote in between.  No restart, and no tab that has not read yet, does it.
BrowserKeepsAll ==
  [][\A k \in Tickers : browser[k] # None /\ browser'[k] = None =>
       \E t \in Tabs : sent[t] # None /\ sent'[t] = None /\ k \in excused[t]]_vars

\* The same, but for deleted results only.
BrowserLosesOnlyDeleted ==
  [][\A k \in Tickers : browser[k] # None /\ browser'[k] = None => k \in Deletable]_vars

\* "READ BEFORE WRITE", and "Last-successful results are never cleared when a refresh
\* fails": nor does the file forget a ticker that nobody deletes, but for damage and new containers.
NeverCleared ==
  [][saved # None /\ saved' # None /\ ~ damaged =>
       \A k \in Tickers : saved[k] # None => saved'[k] # None \/ k \in Deletable]_vars

\* "So it cannot later overwrite the newly calculated DTE with the previous refresh
\* snapshot": what a job or a backup puts into memory is of no older DTE.
DteStands ==
  [][clock' = clock =>
       \A k \in Tickers : memory[k] # None /\ memory'[k] # None => memory'[k].dte >= memory[k].dte]_vars

\* "A browser backup must never replace fresher server calculations": what is restored
\* is newer than what it replaces.
BackupIsNewer ==
  [][\A p \in Workers : pc[p] = "restore" /\ pc'[p] = pc[p] /\ copying[p] # None /\ copying'[p] = None =>
       \A k \in Tickers : Stamp(memory'[k]) >= Stamp(memory[k])]_vars
=============================================================================
