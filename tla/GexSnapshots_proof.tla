------------------------- MODULE GexSnapshots_proof -------------------------
(***************************************************************************)
(* Proofs about GexSnapshots for any number of tabs, jobs and tickers, and *)
(* any bounds.                                                             *)
(***************************************************************************)
EXTENDS GexSnapshots, TLAPS

Reading == {"latest", "previous", "restore"}
Saving == {"merge", "snapshot", "rotate", "replace"}

\* _SERVER_CACHE_LOCK is held exactly while a snapshot is saved, from the read before
\* the write on; who reads the file without it is a tab that has not read it before.
LockedAt(p) ==
  /\ lock = p => pc[p] \in Reading \cup Saving
  /\ pc[p] \in Saving => lock = p
  /\ p \in Jobs /\ pc[p] \in Reading => lock = p
  /\ pc[p] \in {"latest", "previous"} /\ lock # p => p \notin seen

\* What p is about to write, and that no readable file is there when it does.
WritingAt(p) ==
  /\ pc[p] \in {"snapshot", "rotate", "replace"} => held[p] # None
  /\ pc[p] = "replace" => ~ Readable(latest)

\* The copies still to be made are of results of the snapshot that p has read, or of
\* its job.
CopyingAt(p) ==
  /\ todo[p] # {} \/ copying[p] # None => pc[p] = "restore" \/ (pc[p] = "merge" /\ p \in Jobs)
  /\ pc[p] = "restore" => held[p] # None
  /\ \A k \in todo[p] \cup {copying[p]} : k # None => Source(p)[k] # None

\* The memory has a result of k, or had one that was taken out.
Known(k) == memory[k] # None \/ k \in setBack

\* While a tab restores from the browser, what the browser has is in memory already,
\* or is still to be copied.
RestoringAt(p) ==
  pc[p] = "restore" /\ lock # p /\ p \in seen /\ p \notin blank =>
    \A k \in Tickers : browser[k] # None => Known(k) \/ k \in todo[p] \cup {copying[p]}

\* What a tab has sent the browser is of the memory, and lacks only what it is excused for.
SendingAt(p) ==
  p \in Tabs /\ sent[p] # None =>
    \A k \in Tickers : /\ sent[p][k] # None => Known(k)
                       /\ browser[k] # None => sent[p][k] # None \/ k \in excused[p]

\* A DTE that is being edited may still grow; a job that saves has results.
WorkingAt(p) ==
  /\ p \in Tabs /\ pc[p] = "edit" => target[p] # None /\ dte[p][target[p]] < MaxEdits
  /\ p \in Jobs /\ pc[p] \in Reading \cup {"save", "merge"} => results[p] # None

At(p) ==
  LockedAt(p) /\ WritingAt(p) /\ CopyingAt(p) /\ RestoringAt(p) /\ SendingAt(p) /\ WorkingAt(p)

\* The files between the two replacements of a save, and after a damage.
Files ==
  /\ Readable(latest) => ~ damaged /\ latest = saved /\ previous = earlier
  /\ latest = None => ~ damaged /\ previous = saved
  /\ latest = Broken => damaged /\ previous = earlier

\* Once a tab is ready that has read the copy of the browser, the memory has all that the
\* browser has.
InMemory ==
  /\ ready \subseteq seen
  /\ ready \ blank # {} => \A k \in Tickers : browser[k] # None => Known(k)

GexInv == TypeOK /\ Files /\ InMemory /\ \A p \in Workers : At(p)

-----------------------------------------------------------------------------
(* Types                                                                   *)

Places == {"idle", "latest", "previous", "restore", "page", "edit",
           "fetch", "finish", "save", "merge", "snapshot", "rotate", "replace", "saved"}

\* The steps of the runs of a tab, but for those of saving and restoring, and of a job.
TabStep(t) ==
  \/ Hydrate(t) \/ ReadBrowser(t) \/ Page(t) \/ Refresh(t) \/ StartEdit(t) \/ EndEdit(t)
  \/ Leave(t) \/ Delete(t) \/ Send(t) \/ WriteBrowser(t) \/ Reload(t)
JobStep(j) == Fetch(j) \/ Finish(j) \/ Collect(j) \/ \E t \in Tabs : StartJob(t, j)

LEMMA Parties ==
  /\ \A p \in Workers : p # None /\ (p \in Tabs \/ p \in Jobs) /\ ~ (p \in Tabs /\ p \in Jobs)
  /\ Tabs \subseteq Workers /\ Jobs \subseteq Workers
  /\ \A k \in Tickers : k # None
  /\ \A s \in Snapshots : s # None /\ s # Broken
  /\ \A r \in Result : r # None
BY GexAssumption DEF Workers

LEMMA GotoType ==
  ASSUME TypeOK, NEW p \in Workers, NEW step \in Places, Goto(p, step)
  PROVE  /\ pc' \in [Workers -> Places] /\ pc'[p] = step
         /\ \A q \in Workers : q # p => pc'[q] = pc[q]
BY DEF TypeOK, Goto, Places

LEMMA EmptyType == Empty \in Snapshots /\ NoJob.results \in Snapshots
BY DEF Empty, Snapshots, NoJob

LEMMA CalculatedType ==
  ASSUME TypeOK, Tick, NEW d \in 0 .. MaxEdits
  PROVE  Calculated(d) \in Result
BY DEF TypeOK, Tick, Calculated, Result

LEMMA TickType ==
  ASSUME TypeOK, Tick \/ UNCHANGED clock
  PROVE  clock' \in 1 .. MaxClock + 1
BY GexAssumption DEF TypeOK, Tick

LEMMA FaultType ==
  ASSUME TypeOK, Fault \/ UNCHANGED faults
  PROVE  faults' \in 0 .. MaxFaults
BY GexAssumption DEF TypeOK, Fault

LEMMA RememberType ==
  ASSUME TypeOK, NEW m \in Snapshots, Remember(m)
  PROVE  /\ memory' \in Snapshots /\ setBack' \subseteq Tickers
         /\ \A k \in Tickers : Known(k) => Known(k)'
<1>1. ASSUME NEW k \in Tickers, Known(k)
      PROVE  Known(k)'
  <2>1. memory[k] \in Result \cup {None} /\ m[k] \in Result \cup {None}
    BY DEF TypeOK, Snapshots
  <2>2. m[k] = None /\ memory[k] # None => Stamp(m[k]) < Stamp(memory[k])
    BY <2>1, GexAssumption DEF Stamp, Result
  <2> QED BY <1>1, <2>1, <2>2 DEF Remember, Known
<1> QED BY <1>1 DEF Remember

LEMMA SyncType ==
  ASSUME TypeOK, Sync
  PROVE  /\ memory' \in Snapshots /\ setBack' \subseteq Tickers
         /\ job' \in [status : {"none", "running", "done"}, dte : [Tickers -> 0 .. MaxEdits],
                      left : SUBSET Tickers, results : Snapshots, synced : SUBSET Tickers]
         /\ \A k \in Tickers : Known(k) => Known(k)'
<1>1. job.results \in Snapshots /\ Pending \subseteq Tickers
  BY DEF TypeOK, Pending
<1>2. [k \in Tickers |-> IF k \in Pending THEN job.results[k] ELSE memory[k]] \in Snapshots
  BY <1>1 DEF TypeOK, Snapshots
<1>3. /\ memory' \in Snapshots /\ setBack' \subseteq Tickers
      /\ \A k \in Tickers : Known(k) => Known(k)'
  BY <1>2, RememberType DEF Sync
<1> QED BY <1>1, <1>3 DEF Sync, TypeOK

LEMMA InitGex == Init => GexInv
<1> SUFFICES ASSUME Init PROVE GexInv
  OBVIOUS
<1>1. TypeOK
  <2>1. settings \in [Tickers -> 0 .. MaxEdits] /\ dte \in [Tabs -> [Tickers -> 0 .. MaxEdits]]
    BY GexAssumption DEF Init
  <2>2. job \in [status : {"none", "running", "done"}, dte : [Tickers -> 0 .. MaxEdits],
                 left : SUBSET Tickers, results : Snapshots, synced : SUBSET Tickers]
    BY GexAssumption, EmptyType DEF Init, NoJob
  <2>3. clock \in 1 .. MaxClock + 1 /\ faults \in 0 .. MaxFaults
    BY GexAssumption DEF Init
  <2>4. /\ pc \in [Workers -> Places]
        /\ held \in [Workers -> Snapshots \cup {None}] /\ todo \in [Workers -> SUBSET Tickers]
        /\ copying \in [Workers -> Tickers \cup {None}] /\ target \in [Tabs -> Tickers \cup {None}]
        /\ results \in [Jobs -> Snapshots \cup {None}]
    BY DEF Init, Places
  <2>5. /\ memory \in Snapshots /\ browser \in Snapshots
        /\ latest \in Snapshots \cup {None, Broken}
        /\ {previous, digest, saved, earlier} \subseteq Snapshots \cup {None}
        /\ {loaded, damaged} \subseteq BOOLEAN /\ lock \in Workers \cup {None}
        /\ {seen, ready, blank} \subseteq SUBSET Tabs
        /\ sent \in [Tabs -> Snapshots \cup {None}] /\ excused \in [Workers -> SUBSET Tickers]
        /\ setBack \subseteq Tickers
    BY EmptyType DEF Init
  <2> QED BY <2>1, <2>2, <2>3, <2>4, <2>5 DEF TypeOK, Places
<1>2. Files /\ InMemory
  BY Parties, GexAssumption DEF Init, Files, InMemory, Readable
<1>3. ASSUME NEW p \in Workers
      PROVE  At(p)
  BY Parties DEF Init, At, LockedAt, WritingAt, CopyingAt, RestoringAt, SendingAt, WorkingAt, Reading, Saving
<1> QED BY <1>1, <1>2, <1>3 DEF GexInv

LEMMA SourceType ==
  ASSUME GexInv, NEW p \in Workers, NEW k \in todo[p] \cup {copying[p]}, k # None
  PROVE  k \in Tickers /\ Source(p)[k] \in Result
<1>1. TypeOK /\ CopyingAt(p) /\ WorkingAt(p)
  BY DEF GexInv, At
<1>2. k \in Tickers /\ Source(p)[k] # None
  BY <1>1 DEF TypeOK, CopyingAt
<1>3. CASE pc[p] = "restore"
  <2>1. held[p] \in Snapshots /\ Source(p) = held[p]
    BY <1>1, <1>3 DEF TypeOK, CopyingAt, Source
  <2> QED BY <1>2, <2>1 DEF Snapshots
<1>4. CASE pc[p] = "merge" /\ p \in Jobs
  <2>1. results[p] \in Snapshots /\ Source(p) = results[p]
    BY <1>1, <1>4 DEF TypeOK, WorkingAt, Source
  <2> QED BY <1>2, <2>1 DEF Snapshots
<1> QED BY <1>1, <1>3, <1>4 DEF CopyingAt

LEMMA CopyType ==
  ASSUME GexInv, NEW p \in Workers, Copy(p)
  PROVE  /\ copying[p] \in Tickers /\ memory'[copying[p]] # None
         /\ memory' \in Snapshots /\ setBack' \subseteq Tickers
         /\ \A k \in Tickers : Known(k) => Known(k)'
<1> DEFINE r == Source(p)[copying[p]]
<1>1. copying[p] \in Tickers /\ r \in Result
  BY SourceType DEF Copy
<1> HIDE DEF r
<1>2. TypeOK /\ memory \in Snapshots
  BY DEF GexInv, TypeOK
<1>3. [memory EXCEPT ![copying[p]] = r] \in Snapshots
  BY <1>1, <1>2 DEF Snapshots
<1>4. Remember([memory EXCEPT ![copying[p]] = r])
  BY DEF Copy, r
<1>5. memory' = [memory EXCEPT ![copying[p]] = r]
  BY <1>4 DEF Remember
<1>6. memory'[copying[p]] # None
  BY <1>1, <1>2, <1>5, Parties DEF Snapshots
<1> QED BY <1>1, <1>2, <1>3, <1>4, <1>6, RememberType

LEMMA ExcuseType ==
  ASSUME TypeOK, NEW p \in Workers, Excuse(p)
  PROVE  excused' \in [Workers -> SUBSET Tickers] /\ \A q \in Workers \ {p} : excused'[q] = excused[q]
BY DEF TypeOK, Excuse

LEMMA ReleaseType ==
  ASSUME TypeOK, NEW p \in Workers, Release(p)
  PROVE  /\ lock' = None
         /\ held' \in [Workers -> Snapshots \cup {None}]
         /\ results' \in [Jobs -> Snapshots \cup {None}]
         /\ excused' \in [Workers -> SUBSET Tickers]
         /\ \A q \in Workers \ {p} : held'[q] = held[q] /\ excused'[q] = excused[q]
         /\ \A q \in Jobs \ {p} : results'[q] = results[q]
         /\ p \in Tabs => excused'[p] = excused[p]
BY Parties DEF TypeOK, Release

LEMMA DoneType ==
  ASSUME TypeOK, NEW p \in Workers, Done(p)
  PROVE  /\ pc' \in [Workers -> Places] /\ lock' \in Workers \cup {None}
         /\ held' \in [Workers -> Snapshots \cup {None}]
         /\ results' \in [Jobs -> Snapshots \cup {None}]
         /\ excused' \in [Workers -> SUBSET Tickers]
BY GotoType, ReleaseType DEF Done, Places

\* What p does when the copy of the memory has given s.
Copied(p, s) ==
  IF Readable(latest) /\ digest = s
  THEN Done(p)
  ELSE Goto(p, "rotate") /\ held' = [held EXCEPT ![p] = s] /\ Excuse(p) /\ UNCHANGED <<lock, results>>

LEMMA StepType ==
  ASSUME GexInv, NEW p \in Workers, Step(p) \/ SnapshotFails(p) \/ SaveFails(p)
  PROVE  TypeOK'
<1> USE DEF GexInv
<1>1. ASSUME NEW s \in Snapshots, Restore(p, s)
      PROVE  /\ held' \in [Workers -> Snapshots \cup {None}]
             /\ todo' \in [Workers -> SUBSET Tickers]
             /\ pc' \in [Workers -> Places]
  BY <1>1, GotoType DEF Restore, TypeOK, Places
<1>2. CASE ReadLatest(p)
  <2>1. CASE Readable(latest)
    <3>1. latest \in Snapshots /\ Restore(p, latest)
      BY <1>2, <2>1 DEF ReadLatest, TypeOK, Readable
    <3> QED BY <1>1, <1>2, <3>1 DEF ReadLatest, TypeOK, Places, dtes, files, pages, memories, copies
  <2>2. CASE ~ Readable(latest)
    BY <1>2, <2>2, GotoType DEF ReadLatest, TypeOK, Places, dtes, files, pages, memories, copies
  <2> QED BY <2>1, <2>2
<1>3. CASE ReadPrevious(p)
  <2>1. PICK s \in Snapshots : Restore(p, s)
    <3>1. (IF Readable(previous) THEN previous ELSE Empty) \in Snapshots
      BY EmptyType DEF TypeOK, Readable
    <3> QED BY <1>3, <3>1 DEF ReadPrevious
  <2> QED BY <1>1, <1>3, <2>1 DEF ReadPrevious, TypeOK, Places, dtes, files, pages, memories, copies
<1>4. CASE Compare(p)
  BY <1>4 DEF Compare, TypeOK, dtes, files, pages, memories, copies
<1>5. CASE Copy(p)
  BY <1>5, CopyType DEF Copy, TypeOK, dtes, files, pages, memories, copies
<1>6. ASSUME GotoMerge(p)
      PROVE  pc' \in [Workers -> Places] /\ todo' \in [Workers -> SUBSET Tickers]
  BY <1>6, GotoType DEF GotoMerge, ToMerge, TypeOK, Places
<1>7. CASE Restored(p)
  <2>1. lock # p => p \in Tabs
    BY <1>7, Parties DEF Restored, At, LockedAt, Reading
  <2>2. pc' \in [Workers -> Places] /\ todo' \in [Workers -> SUBSET Tickers]
    BY <1>6, <1>7, GotoType DEF Restored, TypeOK, Places
  <2>3. seen' \subseteq Tabs /\ ready' \subseteq Tabs
    BY <1>7, <2>1 DEF Restored, TypeOK
  <2>4. held' \in [Workers -> Snapshots \cup {None}]
    BY <1>7 DEF Restored, TypeOK
  <2>5. UNCHANGED <<clock, memories, dtes, job, files, loaded, lock, copies, blank, target, copying,
                    results, faults>>
    BY <1>7 DEF Restored
  <2> QED BY <2>2, <2>3, <2>4, <2>5 DEF TypeOK, Places, dtes, files, memories, copies
<1>8. CASE Save(p)
  <2>1. pc' \in [Workers -> Places] /\ todo' \in [Workers -> SUBSET Tickers]
    BY <1>6, <1>8, GotoType DEF Save, TypeOK, Places
  <2> QED BY <1>8, <2>1 DEF Save, TypeOK, Places, dtes, files, pages, memories, copies
<1>9. CASE Merged(p)
  <2>1. pc' \in [Workers -> Places]
    BY <1>9, GotoType DEF Merged, Places
  <2> QED BY <1>9, <2>1, ExcuseType DEF Merged, TypeOK, Places, dtes, files, pages, memories, copies
<1>10. CASE Snapshot(p)
  <2>1. PICK late \in SUBSET Tickers :
          Copied(p, [k \in Tickers |-> IF k \in late THEN memory[k] ELSE held[p][k]])
    BY <1>10 DEF Snapshot, Copied
  <2> DEFINE s == [k \in Tickers |-> IF k \in late THEN memory[k] ELSE held[p][k]]
  <2>2. s \in Snapshots
    BY <1>10 DEF Snapshot, At, WritingAt, TypeOK, Snapshots
  <2> HIDE DEF s
  <2>3. CASE Done(p)
    BY <1>10, <2>3, DoneType DEF Snapshot, TypeOK, Places, dtes, files, pages, memories, copies
  <2>4. CASE ~ Done(p)
    <3>1. Goto(p, "rotate") /\ held' = [held EXCEPT ![p] = s] /\ Excuse(p) /\ UNCHANGED <<lock, results>>
      BY <2>1, <2>4 DEF Copied, s
    <3>2. pc' \in [Workers -> Places] /\ held' \in [Workers -> Snapshots \cup {None}]
      BY <2>2, <3>1, GotoType DEF TypeOK, Places
    <3> QED BY <1>10, <3>1, <3>2, ExcuseType DEF Snapshot, TypeOK, Places, dtes, files, pages, memories, copies
  <2> QED BY <2>3, <2>4
<1>11. CASE SnapshotFails(p)
  <2>1. pc' \in [Workers -> Places]
    BY <1>11, GotoType DEF SnapshotFails, Places
  <2> QED BY <1>11, <2>1, ReleaseType DEF SnapshotFails, TypeOK, Places, dtes, files, pages, memories, copies
<1>12. CASE Rotate(p)
  <2>1. pc' \in [Workers -> Places]
    BY <1>12, GotoType DEF Rotate, Places
  <2>2. latest' \in Snapshots \cup {None, Broken} /\ previous' \in Snapshots \cup {None}
    BY <1>12 DEF Rotate, TypeOK, Readable
  <2> QED BY <1>12, <2>1, <2>2 DEF Rotate, TypeOK, Places, dtes, pages, reading, memories, copies
<1>13. CASE Replace(p)
  <2>1. held[p] \in Snapshots
    <3>1. pc[p] = "replace"
      BY <1>13 DEF Replace
    <3>2. held[p] # None
      BY <3>1 DEF At, WritingAt
    <3>3. held[p] \in Snapshots \cup {None}
      BY DEF TypeOK
    <3> QED BY <3>2, <3>3
  <2>2. /\ pc' \in [Workers -> Places] /\ lock' \in Workers \cup {None}
        /\ held' \in [Workers -> Snapshots \cup {None}]
        /\ results' \in [Jobs -> Snapshots \cup {None}] /\ excused' \in [Workers -> SUBSET Tickers]
    BY <1>13, DoneType DEF Replace
  <2>3. /\ latest' \in Snapshots \cup {None, Broken}
        /\ {previous', digest', saved', earlier'} \subseteq Snapshots \cup {None}
        /\ {loaded', damaged'} \subseteq BOOLEAN
    <3>1. /\ latest' = held[p] /\ digest' = held[p] /\ saved' = held[p]
          /\ (earlier' = earlier \/ earlier' = saved) /\ previous' = previous
          /\ loaded' = loaded /\ damaged' = FALSE
      BY <1>13 DEF Replace
    <3>2. {previous, saved, earlier} \subseteq Snapshots \cup {None} /\ loaded \in BOOLEAN
      BY DEF TypeOK
    <3> QED BY <2>1, <3>1, <3>2
  <2>4. UNCHANGED <<clock, memories, dtes, job, browser, sent, pages, todo, copying, faults>>
    BY <1>13 DEF Replace
  <2>5. /\ clock' \in 1 .. MaxClock + 1 /\ faults' \in 0 .. MaxFaults
        /\ memory' \in Snapshots /\ setBack' \subseteq Tickers
        /\ settings' \in [Tickers -> 0 .. MaxEdits] /\ dte' \in [Tabs -> [Tickers -> 0 .. MaxEdits]]
        /\ job' \in [status : {"none", "running", "done"}, dte : [Tickers -> 0 .. MaxEdits],
                      left : SUBSET Tickers, results : Snapshots, synced : SUBSET Tickers]
    BY <2>4 DEF TypeOK, dtes, memories
  <2>6. /\ browser' \in Snapshots /\ sent' \in [Tabs -> Snapshots \cup {None}]
        /\ {seen', ready', blank'} \subseteq SUBSET Tabs /\ target' \in [Tabs -> Tickers \cup {None}]
        /\ todo' \in [Workers -> SUBSET Tickers] /\ copying' \in [Workers -> Tickers \cup {None}]
    BY <2>4 DEF TypeOK, pages
  <2> QED BY <2>2, <2>3, <2>5, <2>6 DEF TypeOK, Places
<1>14. CASE SaveFails(p)
  BY <1>14, DoneType, FaultType DEF SaveFails, TypeOK, Places, dtes, files, pages, memories, copies
<1> QED
  BY <1>2, <1>3, <1>4, <1>5, <1>7, <1>8, <1>9, <1>10, <1>11, <1>12, <1>13, <1>14 DEF Step

LEMMA RefreshKnows ==
  ASSUME TypeOK, NEW t \in Tabs, Refresh(t)
  PROVE  /\ memory' \in Snapshots /\ setBack' \subseteq Tickers
         /\ \A k \in Tickers : Known(k) => Known(k)'
<1>1. PICK k \in Tickers : Remember([memory EXCEPT ![k] = Calculated(dte[t][k])])
  BY DEF Refresh
<1>2. Calculated(dte[t][k]) \in Result
  BY CalculatedType DEF Refresh, TypeOK
<1>3. [memory EXCEPT ![k] = Calculated(dte[t][k])] \in Snapshots
  BY <1>2 DEF TypeOK, Snapshots
<1> QED BY <1>1, <1>3, RememberType

LEMMA EndEditKnows ==
  ASSUME GexInv, NEW t \in Tabs, EndEdit(t)
  PROVE  /\ memory' \in Snapshots /\ setBack' \subseteq Tickers
         /\ \A k \in Tickers : Known(k) => Known(k)'
         /\ dte' \in [Tabs -> [Tickers -> 0 .. MaxEdits]] /\ dte'[t] \in [Tickers -> 0 .. MaxEdits]
<1>0. TypeOK
  BY DEF GexInv
<1>1. PICK k \in Tickers : k = target[t] /\ dte[t][k] < MaxEdits
  BY Parties DEF EndEdit, GexInv, At, WorkingAt, TypeOK
<1>2. dte[t][k] + 1 \in 0 .. MaxEdits
  BY <1>0, <1>1, GexAssumption DEF TypeOK
<1>3. dte' = [dte EXCEPT ![t] = [dte[t] EXCEPT ![k] = dte[t][k] + 1]]
  BY <1>0, <1>1 DEF EndEdit, TypeOK
<1>4. /\ dte' \in [Tabs -> [Tickers -> 0 .. MaxEdits]]
      /\ dte'[t] \in [Tickers -> 0 .. MaxEdits]
      /\ dte'[t][k] \in 0 .. MaxEdits
  BY <1>0, <1>2, <1>3 DEF TypeOK
<1>5. Calculated(dte'[t][k]) \in Result
  BY <1>0, <1>4, CalculatedType DEF EndEdit
<1>6. [memory EXCEPT ![k] = Calculated(dte'[t][k])] \in Snapshots
  BY <1>0, <1>5 DEF TypeOK, Snapshots
<1>7. Remember([memory EXCEPT ![k] = Calculated(dte'[t][k])])
  BY <1>1 DEF EndEdit
<1> QED BY <1>0, <1>4, <1>6, <1>7, RememberType

LEMMA DeleteKnows ==
  ASSUME TypeOK, NEW t \in Tabs, Delete(t)
  PROVE  /\ memory' \in Snapshots /\ setBack' \subseteq Tickers
         /\ \A k \in Tickers : Known(k) => Known(k)'
<1>1. PICK K \in SUBSET Deletable : Remember([k \in Tickers |-> IF k \in K THEN None ELSE memory[k]])
  BY DEF Delete
<1>2. [k \in Tickers |-> IF k \in K THEN None ELSE memory[k]] \in Snapshots
  BY DEF TypeOK, Snapshots
<1> QED BY <1>1, <1>2, RememberType

LEMMA TabType ==
  ASSUME GexInv, NEW t \in Tabs,
         TabStep(t)
  PROVE  TypeOK'
<1> USE DEF GexInv
<1>0. t \in Workers
  BY Parties
<1>1. CASE Hydrate(t)
  <2>1. pc' \in [Workers -> Places]
    BY <1>0, <1>1, GotoType DEF Hydrate, Places
  <2> QED BY <1>1, <2>1 DEF Hydrate, TypeOK, Places, dtes, files, pages, reading, memories, copies
<1>2. CASE ReadBrowser(t)
  <2>1. PICK read \in {browser, Empty} : Restore(t, read)
    BY <1>2 DEF ReadBrowser
  <2>2. read \in Snapshots
    BY EmptyType DEF TypeOK
  <2>3. /\ held' \in [Workers -> Snapshots \cup {None}] /\ todo' \in [Workers -> SUBSET Tickers]
        /\ pc' \in [Workers -> Places]
    BY <1>0, <2>1, <2>2, GotoType DEF Restore, TypeOK, Places
  <2>4. faults' \in 0 .. MaxFaults /\ blank' \subseteq Tabs
    BY <1>2, FaultType DEF ReadBrowser, TypeOK
  <2> QED BY <1>2, <2>3, <2>4 DEF ReadBrowser, TypeOK, Places, dtes, files, pages, memories, copies
<1>3. CASE Page(t)
  <2>1. pc' \in [Workers -> Places]
    BY <1>0, <1>3, GotoType DEF Page, Places
  <2>2. dte' \in [Tabs -> [Tickers -> 0 .. MaxEdits]]
    BY <1>3 DEF Page, TypeOK
  <2> QED BY <1>3, <2>1, <2>2, SyncType DEF Page, TypeOK, Places, files, pages, reading, memories, copies
<1>4. CASE Refresh(t)
  <2>1. pc' \in [Workers -> Places]
    BY <1>0, <1>4, GotoType DEF Refresh, Places
  <2>2. memory' \in Snapshots /\ setBack' \subseteq Tickers
    BY <1>4, RefreshKnows
  <2>3. clock' \in 1 .. MaxClock + 1
    BY <1>4, TickType DEF Refresh
  <2> QED BY <1>4, <2>1, <2>2, <2>3 DEF Refresh, TypeOK, Places, dtes, files, pages, reading, memories, copies
<1>5. CASE StartEdit(t)
  <2>1. pc' \in [Workers -> Places]
    BY <1>0, <1>5, GotoType DEF StartEdit, Places
  <2>2. target' \in [Tabs -> Tickers \cup {None}]
    BY <1>5 DEF StartEdit, TypeOK
  <2> QED BY <1>5, <2>1, <2>2, SyncType DEF StartEdit, TypeOK, Places, dtes, files, reading, memories, copies
<1>6. CASE EndEdit(t)
  <2>1. pc' \in [Workers -> Places]
    BY <1>0, <1>6, GotoType DEF EndEdit, Places
  <2>2. /\ memory' \in Snapshots /\ setBack' \subseteq Tickers
        /\ dte' \in [Tabs -> [Tickers -> 0 .. MaxEdits]] /\ dte'[t] \in [Tickers -> 0 .. MaxEdits]
    BY <1>6, EndEditKnows
  <2>3. clock' \in 1 .. MaxClock + 1
    BY <1>6, TickType DEF EndEdit
  <2>4. target' \in [Tabs -> Tickers \cup {None}]
    BY <1>6 DEF EndEdit, TypeOK
  <2> QED
    BY <1>6, <2>1, <2>2, <2>3, <2>4 DEF EndEdit, TypeOK, Places, files, reading, memories, copies
<1>7. CASE Leave(t)
  <2>1. pc' \in [Workers -> Places]
    BY <1>0, <1>7, GotoType DEF Leave, Places
  <2> QED BY <1>7, <2>1 DEF Leave, TypeOK, Places, dtes, files, reading, memories, copies
<1>8. CASE Delete(t)
  <2>1. pc' \in [Workers -> Places]
    BY <1>0, <1>8, GotoType DEF Delete, Places
  <2>2. memory' \in Snapshots /\ setBack' \subseteq Tickers
    BY <1>8, DeleteKnows
  <2>3. dte' \in [Tabs -> [Tickers -> 0 .. MaxEdits]] /\ settings' \in [Tickers -> 0 .. MaxEdits]
    <3>1. CASE UNCHANGED dtes
      BY <3>1 DEF TypeOK, dtes
    <3>2. CASE ~ UNCHANGED dtes
      <4>1. PICK K \in SUBSET Deletable :
              /\ dte' = [dte EXCEPT ![t] = [k \in Tickers |-> IF k \in K THEN 0 ELSE dte[t][k]]]
              /\ settings' = dte'[t]
        BY <1>8, <3>2 DEF Delete, TypeOK
      <4>2. [k \in Tickers |-> IF k \in K THEN 0 ELSE dte[t][k]] \in [Tickers -> 0 .. MaxEdits]
        BY GexAssumption DEF TypeOK
      <4> QED BY <4>1, <4>2 DEF TypeOK
    <3> QED BY <3>1, <3>2
  <2> QED BY <1>8, <2>1, <2>2, <2>3 DEF Delete, TypeOK, Places, files, pages, reading, memories, copies
<1>9. CASE Send(t)
  <2>1. pc' \in [Workers -> Places]
    BY <1>0, <1>9, GotoType DEF Send, Places
  <2>2. sent' \in [Tabs -> Snapshots \cup {None}] /\ excused' \in [Workers -> SUBSET Tickers]
        /\ browser' = browser
    <3>1. CASE UNCHANGED copies
      BY <3>1 DEF TypeOK, copies
    <3>2. CASE ~ UNCHANGED copies
      <4>1. PICK K \in SUBSET Tickers :
              /\ sent' = [sent EXCEPT ![t] = memory] /\ excused' = [excused EXCEPT ![t] = K]
              /\ browser' = browser
        BY <1>9, <3>2 DEF Send, TypeOK
      <4> QED BY <1>0, <4>1 DEF TypeOK
    <3> QED BY <3>1, <3>2
  <2> QED BY <1>9, <2>1, <2>2 DEF Send, TypeOK, Places, dtes, files, pages, reading, memories
<1>10. CASE WriteBrowser(t)
  <2>1. browser' \in Snapshots /\ sent' \in [Tabs -> Snapshots \cup {None}]
    BY <1>10 DEF WriteBrowser, TypeOK
  <2>2. excused' \in [Workers -> SUBSET Tickers]
    BY <1>10 DEF WriteBrowser, TypeOK
  <2> QED
    BY <1>10, <2>1, <2>2 DEF WriteBrowser, TypeOK, Places, dtes, files, pages, reading, memories
<1>11. CASE Reload(t)
  <2>1. sent' \in [Tabs -> Snapshots \cup {None}] /\ excused' \in [Workers -> SUBSET Tickers]
        /\ {seen', ready', blank'} \subseteq SUBSET Tabs
    BY <1>11 DEF Reload, TypeOK
  <2> QED BY <1>11, <2>1 DEF Reload, TypeOK, Places, files, reading, memories
<1> QED
  BY <1>1, <1>2, <1>3, <1>4, <1>5, <1>6, <1>7, <1>8, <1>9, <1>10, <1>11 DEF TabStep

LEMMA JobType ==
  ASSUME GexInv, NEW j \in Jobs, JobStep(j)
  PROVE  TypeOK'
<1> USE DEF GexInv
<1>0. j \in Workers
  BY Parties
<1>1. CASE Fetch(j)
  <2>1. clock' \in 1 .. MaxClock + 1
    BY <1>1, TickType DEF Fetch
  <2>2. /\ job.results \in Snapshots /\ job.dte \in [Tickers -> 0 .. MaxEdits] /\ job.left \subseteq Tickers
        /\ job \in [status : {"none", "running", "done"}, dte : [Tickers -> 0 .. MaxEdits],
                    left : SUBSET Tickers, results : Snapshots, synced : SUBSET Tickers]
    BY DEF TypeOK
  <2>3. PICK k \in job.left :
          \/ Tick /\ job' = [job EXCEPT !.left = @ \ {k}, !.results[k] = Calculated(job.dte[k])]
          \/ job' = [job EXCEPT !.left = @ \ {k}]
    BY <1>1 DEF Fetch
  <2>4. CASE Tick /\ job' = [job EXCEPT !.left = @ \ {k}, !.results[k] = Calculated(job.dte[k])]
    <3>1. Calculated(job.dte[k]) \in Result
      BY <2>2, <2>4, CalculatedType
    <3>2. [job.results EXCEPT ![k] = Calculated(job.dte[k])] \in Snapshots
      BY <2>2, <3>1 DEF Snapshots
    <3>3. job' = [job EXCEPT !.left = @ \ {k},
                             !.results = [job.results EXCEPT ![k] = Calculated(job.dte[k])]]
      BY <2>2, <2>4
    <3>4. job' \in [status : {"none", "running", "done"}, dte : [Tickers -> 0 .. MaxEdits],
                    left : SUBSET Tickers, results : Snapshots, synced : SUBSET Tickers]
      BY <2>2, <3>2, <3>3
    <3> QED BY <1>1, <2>1, <3>4 DEF Fetch, TypeOK, dtes, files, pages, reading, memories, copies
  <2>5. CASE job' = [job EXCEPT !.left = @ \ {k}]
    <3>1. job' \in [status : {"none", "running", "done"}, dte : [Tickers -> 0 .. MaxEdits],
                    left : SUBSET Tickers, results : Snapshots, synced : SUBSET Tickers]
      BY <2>2, <2>5
    <3> QED BY <1>1, <2>1, <3>1 DEF Fetch, TypeOK, dtes, files, pages, reading, memories, copies
  <2> QED BY <2>3, <2>4, <2>5
<1>2. CASE Finish(j)
  <2>1. pc' \in [Workers -> Places]
    BY <1>0, <1>2, GotoType DEF Finish, Places
  <2> QED BY <1>2, <2>1 DEF Finish, TypeOK, Places, dtes, files, pages, reading, memories, copies
<1>3. CASE Collect(j)
  <2>1. pc' \in [Workers -> Places]
    BY <1>0, <1>3, GotoType DEF Collect, Places
  <2>2. results' \in [Jobs -> Snapshots \cup {None}]
    BY <1>3 DEF Collect, TypeOK
  <2> QED BY <1>3, <2>1, <2>2 DEF Collect, TypeOK, Places, dtes, files, pages, memories, copies
<1>4. ASSUME NEW t \in Tabs, StartJob(t, j) PROVE TypeOK'
  <2>1. pc' \in [Workers -> Places]
    BY <1>0, <1>4, GotoType DEF StartJob, Places
  <2>2. dte[t] \in [Tickers -> 0 .. MaxEdits]
    BY DEF TypeOK
  <2> QED BY <1>4, <2>1, <2>2, EmptyType DEF StartJob, TypeOK, Places, dtes, files, pages, reading, memories, copies
<1> QED BY <1>1, <1>2, <1>3, <1>4 DEF JobStep

LEMMA RestartType ==
  ASSUME GexInv, Crash \/ Redeploy \/ Damage
  PROVE  TypeOK'
<1> USE DEF GexInv
<1>1. CASE Damage
  BY <1>1, FaultType DEF Damage, TypeOK, Places, dtes, pages, reading, memories, copies
<1>2. CASE Crash \/ Redeploy
  <2>1. NoJob \in [status : {"none", "running", "done"}, dte : [Tickers -> 0 .. MaxEdits],
                   left : SUBSET Tickers, results : Snapshots, synced : SUBSET Tickers]
    BY GexAssumption, EmptyType DEF NoJob
  <2>2. Restart /\ faults' \in 0 .. MaxFaults
    BY <1>2, FaultType DEF Crash, Redeploy
  <2>3. /\ memory' \in Snapshots /\ digest' = None /\ loaded' = FALSE /\ lock' = None
        /\ seen' = {} /\ ready' = {} /\ blank' = {} /\ target' \in [Tabs -> Tickers \cup {None}]
        /\ pc' \in [Workers -> Places] /\ setBack' = {}
        /\ sent' \in [Tabs -> Snapshots \cup {None}] /\ excused' \in [Workers -> SUBSET Tickers]
    BY <2>2, EmptyType DEF Restart, Places
  <2>4. /\ held' \in [Workers -> Snapshots \cup {None}] /\ todo' \in [Workers -> SUBSET Tickers]
        /\ copying' \in [Workers -> Tickers \cup {None}]
        /\ results' \in [Jobs -> Snapshots \cup {None}]
        /\ dte' \in [Tabs -> [Tickers -> 0 .. MaxEdits]]
    BY <2>2 DEF Restart, TypeOK
  <2>5. /\ latest' \in Snapshots \cup {None, Broken}
        /\ {previous', saved', earlier'} \subseteq Snapshots \cup {None} /\ damaged' \in BOOLEAN
    <3>1. /\ latest \in Snapshots \cup {None, Broken} /\ damaged \in BOOLEAN
          /\ {previous, saved, earlier} \subseteq Snapshots \cup {None}
      BY DEF TypeOK
    <3> HIDE DEF GexInv
    <3>2. CASE Crash
      BY <3>1, <3>2 DEF Crash
    <3>3. CASE Redeploy
      BY <3>3 DEF Redeploy
    <3> QED BY <1>2, <3>2, <3>3
  <2>6. /\ clock' \in 1 .. MaxClock + 1 /\ settings' \in [Tickers -> 0 .. MaxEdits]
        /\ browser' \in Snapshots /\ job' = NoJob
    BY <2>2 DEF Restart, TypeOK
  <2>7. /\ {digest', previous', saved', earlier'} \subseteq Snapshots \cup {None}
        /\ {loaded', damaged'} \subseteq BOOLEAN /\ {seen', ready', blank'} \subseteq SUBSET Tabs
    BY <2>3, <2>5
  <2> HIDE DEF GexInv
  <2> QED BY <2>1, <2>2, <2>3, <2>4, <2>5, <2>6, <2>7 DEF TypeOK, Places
<1> QED BY <1>1, <1>2

-----------------------------------------------------------------------------
(* The others, while p takes a step                                        *)

OthersStay(p) ==
  /\ \A q \in Workers \ {p} :
       /\ pc'[q] = pc[q] /\ held'[q] = held[q] /\ todo'[q] = todo[q] /\ copying'[q] = copying[q]
       /\ lock' = q <=> lock = q
       /\ q \in seen' => q \in seen
       /\ q \in blank => q \in blank'
  /\ \A q \in Tabs \ {p} :
       /\ target'[q] = target[q] /\ dte'[q] = dte[q] /\ sent'[q] = sent[q]
       /\ \/ excused'[q] = excused[q] /\ browser' = browser
          \/ sent[q] # None => excused'[q] = Tickers
  /\ \A q \in Jobs \ {p} : results'[q] = results[q]

\* What was known stays known, and the browser gets only what is.
MemoryGrows ==
  /\ \A k \in Tickers : Known(k) => Known(k)'
  /\ \A k \in Tickers : browser'[k] # None => browser[k] # None \/ Known(k)

LEMMA OthersFit ==
  ASSUME GexInv, NEW p \in Workers, OthersStay(p), MemoryGrows, latest' = latest \/ lock = p,
         NEW q \in Workers \ {p}
  PROVE  At(q)'
<1>1. At(q)
  BY DEF GexInv
<1>2. LockedAt(q)'
  BY <1>1 DEF At, LockedAt, OthersStay
<1>3. WritingAt(q)'
  BY <1>1 DEF At, LockedAt, WritingAt, OthersStay, Saving, Readable
<1>4. CopyingAt(q)'
  <2>1. pc'[q] = "restore" \/ (pc'[q] = "merge" /\ q \in Jobs) => Source(q)' = Source(q)
    BY DEF OthersStay, Source
  <2> QED BY <1>1, <2>1 DEF At, CopyingAt, OthersStay
<1>5. RestoringAt(q)'
  BY <1>1 DEF At, RestoringAt, OthersStay, MemoryGrows
<1>6. SendingAt(q)'
  <2> SUFFICES ASSUME q \in Tabs, sent'[q] # None, NEW k \in Tickers
               PROVE  /\ sent'[q][k] # None => Known(k)'
                      /\ browser'[k] # None => sent'[q][k] # None \/ k \in excused'[q]
    BY DEF SendingAt
  <2>1. sent'[q] = sent[q]
    BY DEF OthersStay
  <2>2. sent[q][k] # None => Known(k)'
    BY <1>1, <2>1 DEF At, SendingAt, MemoryGrows
  <2>3. browser'[k] # None => sent[q][k] # None \/ k \in excused'[q]
    BY <1>1, <2>1 DEF At, SendingAt, OthersStay
  <2> QED BY <2>1, <2>2, <2>3
<1>7. WorkingAt(q)'
  BY <1>1, Parties DEF At, WorkingAt, OthersStay
<1> QED BY <1>2, <1>3, <1>4, <1>5, <1>6, <1>7 DEF At

LEMMA StepOthers ==
  ASSUME GexInv, NEW p \in Workers, Step(p) \/ SnapshotFails(p) \/ SaveFails(p)
  PROVE  OthersStay(p) /\ MemoryGrows
<1>0. TypeOK /\ At(p)
  BY DEF GexInv
<1>1. CASE ReadLatest(p) \/ ReadPrevious(p)
  BY <1>0, <1>1 DEF ReadLatest, ReadPrevious, Restore, Goto, TypeOK, OthersStay, MemoryGrows, Known,
                    pages, dtes, memories, copies
<1>2. CASE Compare(p)
  BY <1>0, <1>2 DEF Compare, TypeOK, OthersStay, MemoryGrows, Known, pages, dtes, memories, copies
<1>3. CASE Copy(p)
  <2>1. MemoryGrows
    BY <1>3, CopyType DEF Copy, MemoryGrows, copies
  <2> QED BY <1>0, <1>3, <2>1 DEF Copy, TypeOK, OthersStay, pages, dtes, copies
<1>4. CASE Restored(p)
  BY <1>0, <1>4 DEF Restored, Goto, GotoMerge, TypeOK, OthersStay, MemoryGrows, Known, dtes, memories,
                    copies
<1>5. CASE Save(p)
  BY <1>0, <1>5, Parties DEF Save, Goto, GotoMerge, TypeOK, OthersStay, MemoryGrows, Known, pages, dtes,
                             memories, copies
<1>6. CASE Merged(p)
  BY <1>0, <1>6, ExcuseType, Parties DEF Merged, Goto, TypeOK, OthersStay, MemoryGrows, Known, pages, dtes,
                                     memories
<1>7. ASSUME Release(p), pc[p] \in Saving, \A q \in Workers \ {p} : pc'[q] = pc[q],
             UNCHANGED <<memories, dtes, browser, sent, pages, todo, copying>>
      PROVE  OthersStay(p) /\ MemoryGrows
  <2>1. lock = p
    BY <1>0, <1>7 DEF At, LockedAt
  <2> QED
    BY <1>0, <1>7, <2>1, ReleaseType, Parties
       DEF OthersStay, MemoryGrows, Known, pages, dtes, memories
<1>8. CASE Snapshot(p)
  <2>1. CASE Done(p)
    BY <1>0, <1>7, <1>8, <2>1 DEF Snapshot, Done, Goto, TypeOK, Saving
  <2>2. CASE ~ Done(p)
    <3>1. PICK s : Goto(p, "rotate") /\ held' = [held EXCEPT ![p] = s] /\ Excuse(p) /\ UNCHANGED <<lock, results>>
      BY <1>8, <2>2 DEF Snapshot
    <3> QED
      BY <1>0, <1>8, <3>1, ExcuseType, Parties
         DEF Snapshot, Goto, TypeOK, OthersStay, MemoryGrows, Known, pages, dtes, memories
  <2> QED BY <2>1, <2>2
<1>9. CASE SnapshotFails(p)
  BY <1>0, <1>7, <1>9 DEF SnapshotFails, Goto, TypeOK, Saving
<1>10. CASE Rotate(p)
  BY <1>0, <1>10 DEF Rotate, Goto, TypeOK, OthersStay, MemoryGrows, Known, pages, dtes, reading, memories,
                     copies
<1>11. CASE Replace(p)
  BY <1>0, <1>7, <1>11 DEF Replace, Done, Goto, TypeOK, Saving
<1>12. CASE SaveFails(p)
  BY <1>0, <1>7, <1>12 DEF SaveFails, Done, Goto, TypeOK, Saving
<1> QED
  BY <1>1, <1>2, <1>3, <1>4, <1>5, <1>6, <1>8, <1>9, <1>10, <1>11, <1>12 DEF Step

LEMMA TabOthers ==
  ASSUME GexInv, NEW t \in Tabs, TabStep(t)
  PROVE  OthersStay(t) /\ MemoryGrows
<1>0. TypeOK /\ At(t)
  BY Parties DEF GexInv
<1>1. CASE Hydrate(t)
  BY <1>0, <1>1 DEF Hydrate, Goto, TypeOK, OthersStay, MemoryGrows, Known, pages, dtes, reading, memories,
                    copies
<1>2. CASE ReadBrowser(t)
  <2>1. PICK read : Restore(t, read)
    BY <1>2 DEF ReadBrowser
  <2> QED
    BY <1>0, <1>2, <2>1
       DEF ReadBrowser, Restore, Goto, TypeOK, OthersStay, MemoryGrows, Known, dtes, memories, copies
<1>3. CASE Page(t)
  <2>1. MemoryGrows
    BY <1>0, <1>3, SyncType DEF Page, MemoryGrows, copies
  <2> QED BY <1>0, <1>3, <2>1 DEF Page, Goto, TypeOK, OthersStay, pages, reading, copies
<1>4. CASE StartEdit(t)
  <2>1. MemoryGrows
    BY <1>0, <1>4, SyncType DEF StartEdit, MemoryGrows, copies
  <2> QED BY <1>0, <1>4, <2>1 DEF StartEdit, Goto, TypeOK, OthersStay, dtes, reading, copies
<1>5. CASE Refresh(t)
  <2>1. MemoryGrows
    BY <1>0, <1>5, RefreshKnows DEF Refresh, MemoryGrows, copies
  <2> QED BY <1>0, <1>5, <2>1 DEF Refresh, Goto, TypeOK, OthersStay, dtes, pages, reading, copies
<1>6. CASE EndEdit(t)
  <2>1. MemoryGrows
    BY <1>6, EndEditKnows DEF EndEdit, MemoryGrows, copies
  <2>2. \A q \in Tabs \ {t} : dte'[q] = dte[q] /\ target'[q] = target[q]
    BY <1>0, <1>6 DEF EndEdit, TypeOK
  <2> QED BY <1>0, <1>6, <2>1, <2>2 DEF EndEdit, Goto, TypeOK, OthersStay, reading, copies
<1>7. CASE Leave(t)
  BY <1>0, <1>7 DEF Leave, Goto, TypeOK, OthersStay, MemoryGrows, Known, dtes, reading, memories, copies
<1>8. CASE Delete(t)
  <2>1. MemoryGrows
    BY <1>0, <1>8, DeleteKnows DEF Delete, MemoryGrows, copies
  <2>2. \A q \in Tabs \ {t} : dte'[q] = dte[q]
    BY <1>0, <1>8 DEF Delete, TypeOK, dtes
  <2> QED BY <1>0, <1>8, <2>1, <2>2 DEF Delete, Goto, TypeOK, OthersStay, pages, reading, copies
<1>9. CASE Send(t)
  <2>1. \A q \in Tabs \ {t} : sent'[q] = sent[q] /\ excused'[q] = excused[q] /\ browser' = browser
    BY <1>0, <1>9, Parties DEF Send, TypeOK, copies
  <2>2. browser' = browser
    BY <1>9 DEF Send, copies
  <2> QED
    BY <1>0, <1>9, <2>1, <2>2
       DEF Send, Goto, TypeOK, OthersStay, MemoryGrows, Known, dtes, reading, pages, memories
<1>10. CASE WriteBrowser(t)
  <2>1. \A k \in Tickers : browser'[k] # None => Known(k)
    BY <1>0, <1>10 DEF WriteBrowser, At, SendingAt
  <2>2. MemoryGrows
    BY <1>10, <2>1 DEF WriteBrowser, MemoryGrows, Known, memories
  <2>3. \A q \in Tabs \ {t} : sent'[q] = sent[q] /\ (sent[q] # None => excused'[q] = Tickers)
    BY <1>0, <1>10, Parties DEF WriteBrowser, TypeOK
  <2> QED BY <1>0, <1>10, <2>2, <2>3 DEF WriteBrowser, OthersStay, dtes, reading, pages
<1>11. CASE Reload(t)
  BY <1>0, <1>11, Parties DEF Reload, TypeOK, OthersStay, MemoryGrows, Known, reading, memories
<1> QED
  BY <1>1, <1>2, <1>3, <1>4, <1>5, <1>6, <1>7, <1>8, <1>9, <1>10, <1>11 DEF TabStep

LEMMA JobOthers ==
  ASSUME GexInv, NEW j \in Jobs, JobStep(j)
  PROVE  OthersStay(j) /\ MemoryGrows
<1>0. TypeOK
  BY DEF GexInv
<1>1. CASE Fetch(j)
  BY <1>0, <1>1 DEF Fetch, TypeOK, OthersStay, MemoryGrows, Known, dtes, reading, pages, memories, copies
<1>2. CASE Finish(j)
  BY <1>0, <1>2 DEF Finish, Goto, TypeOK, OthersStay, MemoryGrows, Known, dtes, reading, pages, memories,
                    copies
<1>3. CASE Collect(j)
  BY <1>0, <1>3 DEF Collect, Goto, TypeOK, OthersStay, MemoryGrows, Known, dtes, pages, memories, copies
<1>4. CASE \E t \in Tabs : StartJob(t, j)
  BY <1>0, <1>4 DEF StartJob, Goto, TypeOK, OthersStay, MemoryGrows, Known, dtes, reading, pages, memories,
                    copies
<1> QED BY <1>1, <1>2, <1>3, <1>4 DEF JobStep

-----------------------------------------------------------------------------
(* The invariant, action by action                                         *)

\* What a step of p has to keep besides the types.
Kept(p) == At(p)' /\ Files' /\ InMemory' /\ (latest' = latest \/ lock = p)

LEMMA FilesStay ==
  ASSUME GexInv, UNCHANGED files
  PROVE  Files' /\ latest' = latest
BY DEF GexInv, Files, files, Readable, memories, copies

LEMMA InMemoryStays ==
  ASSUME GexInv, MemoryGrows, UNCHANGED <<seen, ready>>, blank \subseteq blank'
  PROVE  InMemory'
BY DEF GexInv, InMemory, MemoryGrows

LEMMA StepKept ==
  ASSUME GexInv, NEW p \in Workers, Step(p) \/ SnapshotFails(p) \/ SaveFails(p)
  PROVE  Kept(p)
<1>0. TypeOK /\ At(p) /\ MemoryGrows
  BY StepOthers DEF GexInv
\* No step of these sends anything to the browser, or forgets it.
<1>1. SendingAt(p)'
  <2>1. UNCHANGED <<browser, sent>> /\ (p \in Tabs => excused'[p] = excused[p])
    BY <1>0, ReleaseType, Parties
       DEF Step, ReadLatest, ReadPrevious, Compare, Copy, Restored, Save, Merged, Snapshot, Rotate,
           Replace, SnapshotFails, SaveFails, Done, Release, Excuse, TypeOK, copies
  <2> QED BY <1>0, <2>1 DEF At, SendingAt, MemoryGrows
<1>2. ASSUME NEW s \in Snapshots, Restore(p, s), pc[p] \in {"latest", "previous"},
             UNCHANGED <<files, copying, lock, pages, results>>
      PROVE  Kept(p)
  <2>1. /\ pc'[p] = "restore" /\ held'[p] = s /\ s # None /\ copying'[p] = None
        /\ todo'[p] = {k \in Tickers : s[k] # None}
    BY <1>0, <1>2, Parties DEF Restore, Goto, TypeOK, At, CopyingAt
  <2>2. LockedAt(p)' /\ WritingAt(p)' /\ CopyingAt(p)' /\ RestoringAt(p)' /\ WorkingAt(p)'
    BY <1>0, <1>2, <2>1
       DEF At, LockedAt, WritingAt, CopyingAt, RestoringAt, WorkingAt, Source, Reading, Saving, pages
  <2> QED BY <1>0, <1>1, <1>2, <2>2, FilesStay, InMemoryStays DEF Kept, At, pages
<1>3. CASE ReadLatest(p)
  <2>1. CASE Readable(latest)
    <3>1. latest \in Snapshots /\ Restore(p, latest)
      BY <1>0, <1>3, <2>1 DEF ReadLatest, TypeOK, Readable
    <3> QED BY <1>2, <1>3, <3>1 DEF ReadLatest
  <2>2. CASE ~ Readable(latest)
    <3>1. pc'[p] = "previous" /\ UNCHANGED <<held, todo, copying, lock, pages, results, files>>
      BY <1>0, <1>3, <2>2 DEF ReadLatest, Goto, TypeOK
    <3>2. LockedAt(p)' /\ WritingAt(p)' /\ CopyingAt(p)' /\ RestoringAt(p)' /\ WorkingAt(p)'
      BY <1>0, <1>3, <3>1
         DEF ReadLatest, At, LockedAt, WritingAt, CopyingAt, RestoringAt, WorkingAt, Reading, Saving, pages
    <3> QED BY <1>0, <1>1, <3>1, <3>2, FilesStay, InMemoryStays DEF Kept, At, pages
  <2> QED BY <2>1, <2>2
<1>4. CASE ReadPrevious(p)
  <2>1. (IF Readable(previous) THEN previous ELSE Empty) \in Snapshots
    BY <1>0, EmptyType DEF TypeOK, Readable
  <2> QED BY <1>2, <1>4, <2>1 DEF ReadPrevious
<1>5. CASE Compare(p)
  <2>1. PICK k \in todo[p] :
          /\ todo' = [todo EXCEPT ![p] = @ \ {k}]
          /\ copying' = [copying EXCEPT ![p] = IF Newer(p, k) THEN k ELSE None]
    BY <1>5 DEF Compare
  <2>2. k # None
    BY <1>0, <2>1, Parties DEF TypeOK
  <2>3. k \in Tickers /\ Source(p)[k] \in Result
    BY <2>2, SourceType
  <2>4. ~ Newer(p, k) => memory[k] # None
    BY <1>0, <2>3, GexAssumption DEF Newer, Stamp, TypeOK, Snapshots, Result
  <2>5. /\ todo'[p] = todo[p] \ {k} /\ copying'[p] = IF Newer(p, k) THEN k ELSE None
        /\ UNCHANGED <<pc, held, lock, memories, browser, pages, files, results, dte>>
    BY <1>0, <1>5, <2>1 DEF Compare, TypeOK, copies, dtes
  <2>6. LockedAt(p)' /\ WritingAt(p)' /\ WorkingAt(p)'
    BY <1>0, <2>5 DEF At, LockedAt, WritingAt, WorkingAt, pages, files, Readable
  <2>7. CopyingAt(p)'
    <3>1. Source(p)' = Source(p)
      BY <2>5 DEF Source
    <3> QED BY <1>0, <2>1, <2>3, <2>5, <3>1 DEF At, CopyingAt
  <2>8. copying[p] = None
    BY <1>5 DEF Compare
  <2>9. RestoringAt(p)'
    BY <1>0, <2>3, <2>4, <2>5, <2>8, Parties DEF At, RestoringAt, Known, memories, pages
  <2> QED BY <1>0, <1>1, <2>5, <2>6, <2>7, <2>9, FilesStay, InMemoryStays DEF Kept, At, pages
<1>6. CASE Copy(p)
  <2>1. copying[p] \in Tickers /\ memory'[copying[p]] # None
    BY <1>6, CopyType
  <2>2. /\ copying'[p] = None
        /\ UNCHANGED <<pc, held, todo, lock, browser, pages, files, results, dte>>
    BY <1>0, <1>6 DEF Copy, TypeOK, copies, dtes
  <2>3. LockedAt(p)' /\ WritingAt(p)' /\ WorkingAt(p)'
    BY <1>0, <2>2 DEF At, LockedAt, WritingAt, WorkingAt, pages, files, Readable
  <2>4. CopyingAt(p)'
    <3>1. Source(p)' = Source(p)
      BY <2>2 DEF Source
    <3> QED BY <1>0, <2>2, <3>1 DEF At, CopyingAt
  <2>5. RestoringAt(p)'
    BY <1>0, <2>1, <2>2 DEF At, RestoringAt, MemoryGrows, Known, pages
  <2> QED BY <1>0, <1>1, <2>2, <2>3, <2>4, <2>5, FilesStay, InMemoryStays DEF Kept, At, pages
\* The save begins to merge.
<1>7. ASSUME GotoMerge(p), lock' = p, copying[p] = None,
             p \in Jobs => results[p] # None,
             UNCHANGED <<copying, results, files, pages>>
      PROVE  Kept(p)
  <2>1. /\ pc'[p] = "merge" /\ todo'[p] = ToMerge(p) /\ copying'[p] = None
    BY <1>0, <1>7 DEF GotoMerge, Goto, TypeOK
  <2>2. CopyingAt(p)'
    BY <1>7, <2>1 DEF CopyingAt, ToMerge, Source
  <2>3. LockedAt(p)' /\ WritingAt(p)' /\ RestoringAt(p)' /\ WorkingAt(p)'
    BY <1>7, <2>1, Parties DEF LockedAt, WritingAt, RestoringAt, WorkingAt, Reading, Saving
  <2> QED BY <1>0, <1>1, <1>7, <2>2, <2>3, FilesStay, InMemoryStays DEF Kept, At, pages
<1>8. CASE Restored(p)
  <2>1. /\ pc[p] = "restore" /\ todo[p] = {} /\ copying[p] = None
        /\ UNCHANGED <<memories, copying, lock, browser, blank, target, dte, files, results>>
    BY <1>8 DEF Restored, copies, dtes
  <2>2. CASE lock = p
    <3>1. GotoMerge(p) /\ UNCHANGED pages
      BY <1>8, <2>1, <2>2 DEF Restored, pages
    <3>2. p \in Jobs => results[p] # None
      BY <1>0, <2>1 DEF At, WorkingAt, Reading
    <3> QED BY <1>7, <2>1, <2>2, <3>1, <3>2
  <2>3. CASE lock # p
    <3>1. /\ pc'[p] = "idle" /\ seen' = seen \cup {p} /\ todo' = todo
          /\ ready' = IF p \in seen THEN ready \cup {p} ELSE ready
      BY <1>0, <1>8, <2>3 DEF Restored, Goto, TypeOK
    <3>2. LockedAt(p)' /\ WritingAt(p)' /\ CopyingAt(p)' /\ RestoringAt(p)' /\ WorkingAt(p)'
      BY <1>0, <2>1, <2>3, <3>1
         DEF At, LockedAt, WritingAt, CopyingAt, RestoringAt, WorkingAt, Source, Reading, Saving
    <3>3. p \in seen /\ p \notin blank => \A k \in Tickers : browser[k] # None => Known(k)
      BY <1>0, <2>1, <2>3, Parties DEF At, RestoringAt
    <3>4. InMemory'
      BY <2>1, <3>1, <3>3 DEF GexInv, InMemory, Known, memories
    <3> QED BY <1>1, <2>1, <3>2, <3>4, FilesStay DEF Kept, At
  <2> QED BY <2>2, <2>3
<1>9. CASE Save(p)
  <2>1. pc[p] = "save" /\ lock' = p /\ copying[p] = None /\ todo[p] = {}
    BY <1>0, <1>9, Parties DEF Save, At, CopyingAt, TypeOK
  <2>2. p \in Jobs => results[p] # None
    BY <1>0, <2>1 DEF At, WorkingAt
  <2>3. CASE GotoMerge(p)
    BY <1>7, <1>9, <2>1, <2>2, <2>3 DEF Save
  <2>4. CASE ~ GotoMerge(p)
    <3>1. pc'[p] = "latest" /\ UNCHANGED <<todo, copying, held, files, results, pages>>
      BY <1>0, <1>9, <2>4 DEF Save, Goto, TypeOK
    <3>2. LockedAt(p)' /\ WritingAt(p)' /\ CopyingAt(p)' /\ RestoringAt(p)' /\ WorkingAt(p)'
      BY <1>0, <2>1, <2>2, <3>1
         DEF At, LockedAt, WritingAt, CopyingAt, RestoringAt, WorkingAt, Source, Reading, Saving
    <3> QED BY <1>0, <1>1, <3>1, <3>2, FilesStay, InMemoryStays DEF Kept, At, pages
  <2> QED BY <2>3, <2>4
\* A step of the save that merges nothing any more.
<1>10. ASSUME pc[p] \in Saving, todo[p] = {}, copying[p] = None, UNCHANGED <<todo, copying, pages>>,
              \/ pc'[p] \in {"snapshot", "rotate"} /\ held'[p] # None /\ lock' = lock
              \/ pc'[p] \in {"saved", "idle"} /\ lock' = None
       PROVE  At(p)'
  <2>1. lock = p
    BY <1>0, <1>10 DEF At, LockedAt
  <2>2. LockedAt(p)' /\ WritingAt(p)' /\ CopyingAt(p)' /\ RestoringAt(p)' /\ WorkingAt(p)'
    BY <1>10, <2>1, Parties
       DEF LockedAt, WritingAt, CopyingAt, RestoringAt, WorkingAt, Source, Reading, Saving
  <2> QED BY <1>1, <2>2 DEF At
<1>11. pc[p] \in {"snapshot", "rotate", "replace"} => todo[p] = {} /\ copying[p] = None
  BY <1>0 DEF At, CopyingAt
<1>12. Done(p) => pc'[p] \in {"saved", "idle"} /\ lock' = None
  BY <1>0 DEF Done, Goto, Release, TypeOK
<1>13. CASE Merged(p)
  <2>1. /\ pc'[p] = "snapshot" /\ held'[p] = memory /\ memory # None
        /\ UNCHANGED <<lock, files, todo, copying, pages>>
    BY <1>0, <1>13, Parties DEF Merged, Goto, TypeOK
  <2>2. At(p)'
    BY <1>10, <1>13, <2>1 DEF Merged, Saving
  <2> QED BY <1>0, <2>1, <2>2, FilesStay, InMemoryStays DEF Kept, pages
<1>14. CASE Snapshot(p)
  <2>1. pc[p] = "snapshot" /\ UNCHANGED <<files, todo, copying, pages>>
    BY <1>14 DEF Snapshot
  <2>2. CASE Done(p)
    <3>1. At(p)'
      BY <1>10, <1>11, <1>12, <2>1, <2>2 DEF Saving
    <3> QED BY <1>0, <2>1, <3>1, FilesStay, InMemoryStays DEF Kept, pages
  <2>3. CASE ~ Done(p)
    <3>1. PICK late \in SUBSET Tickers :
            /\ Goto(p, "rotate") /\ UNCHANGED lock
            /\ held' = [held EXCEPT ![p] = [k \in Tickers |-> IF k \in late THEN memory[k] ELSE held[p][k]]]
      BY <1>14, <2>3 DEF Snapshot
    <3>2. [k \in Tickers |-> IF k \in late THEN memory[k] ELSE held[p][k]] \in Snapshots
      BY <1>0, <2>1 DEF At, WritingAt, TypeOK, Snapshots
    <3>3. pc'[p] = "rotate" /\ held'[p] # None /\ lock' = lock
      BY <1>0, <3>1, <3>2, Parties DEF Goto, TypeOK
    <3>4. At(p)'
      BY <1>10, <1>11, <2>1, <3>3 DEF Saving
    <3> QED BY <1>0, <2>1, <3>4, FilesStay, InMemoryStays DEF Kept, pages
  <2> QED BY <2>2, <2>3
<1>15. CASE SnapshotFails(p)
  <2>1. /\ pc[p] = "snapshot" /\ pc'[p] = "idle" /\ lock' = None
        /\ UNCHANGED <<files, todo, copying, pages>>
    BY <1>0, <1>15 DEF SnapshotFails, Goto, Release, TypeOK
  <2>2. At(p)'
    BY <1>10, <1>11, <2>1 DEF Saving
  <2> QED BY <1>0, <2>1, <2>2, FilesStay, InMemoryStays DEF Kept, pages
<1>16. CASE Rotate(p)
  <2>1. /\ pc[p] = "rotate" /\ pc'[p] = "replace" /\ lock = p /\ lock' = lock
        /\ UNCHANGED <<todo, copying, held, saved, earlier, damaged, pages>>
    BY <1>0, <1>16 DEF Rotate, Goto, TypeOK, reading, At, LockedAt, Saving
  <2>2. /\ Readable(latest) => previous' = latest /\ latest' = None
        /\ ~ Readable(latest) => latest' = latest /\ previous' = previous
    BY <1>16 DEF Rotate
  <2>3. ~ Readable(latest')
    BY <2>2 DEF Readable
  <2>4. LockedAt(p)' /\ WritingAt(p)' /\ CopyingAt(p)' /\ RestoringAt(p)' /\ WorkingAt(p)'
    BY <1>0, <1>11, <2>1, <2>3
       DEF At, LockedAt, WritingAt, CopyingAt, RestoringAt, WorkingAt, Source, Reading, Saving, Readable
  <2>5. Files'
    BY <2>1, <2>2, GexAssumption DEF GexInv, Files, Readable
  <2> QED BY <1>0, <1>1, <2>1, <2>4, <2>5, InMemoryStays DEF Kept, At, pages
<1>17. CASE Replace(p)
  <2>1. /\ pc[p] = "replace" /\ lock = p /\ held[p] \in Snapshots
        /\ UNCHANGED <<todo, copying, pages>> /\ Done(p)
    BY <1>0, <1>17 DEF Replace, At, LockedAt, WritingAt, Saving, TypeOK
  <2>2. At(p)'
    BY <1>10, <1>11, <1>12, <2>1 DEF Saving
  <2>3. ~ Readable(latest)
    BY <1>0, <2>1 DEF At, WritingAt
  <2>4. Files'
    BY <1>17, <2>1, <2>3, Parties DEF Replace, GexInv, Files, Readable
  <2> QED BY <1>0, <2>1, <2>2, <2>4, InMemoryStays DEF Kept, pages
<1>18. CASE SaveFails(p)
  <2>1. /\ pc[p] \in {"rotate", "replace"} /\ Done(p) /\ UNCHANGED <<files, todo, copying, pages>>
    BY <1>18 DEF SaveFails
  <2>2. At(p)'
    BY <1>10, <1>11, <1>12, <2>1 DEF Saving
  <2> QED BY <1>0, <2>1, <2>2, FilesStay, InMemoryStays DEF Kept, pages
<1> QED
  BY <1>3, <1>4, <1>5, <1>6, <1>8, <1>9, <1>13, <1>14, <1>15, <1>16, <1>17, <1>18 DEF Step

LEMMA TabKept ==
  ASSUME GexInv, NEW t \in Tabs, TabStep(t)
  PROVE  Kept(t)
<1>0. t \in Workers /\ t \notin Jobs /\ TypeOK /\ At(t) /\ MemoryGrows
  BY TabOthers, Parties DEF GexInv
<1>1. UNCHANGED <<files, lock>>
  BY DEF TabStep, Hydrate, ReadBrowser, Page, Refresh, StartEdit, EndEdit, Leave, Delete, Send,
         WriteBrowser, Reload
\* A step that sends nothing to the browser.
<1>2. ASSUME UNCHANGED copies PROVE SendingAt(t)'
  BY <1>0, <1>2 DEF At, SendingAt, MemoryGrows, copies
<1>3. CASE Hydrate(t)
  <2>1. /\ pc[t] = "idle" /\ pc'[t] = "latest" /\ t \notin seen
        /\ UNCHANGED <<todo, copying, held, pages, copies>>
    BY <1>0, <1>3 DEF Hydrate, Goto, TypeOK, reading
  <2>2. LockedAt(t)' /\ WritingAt(t)' /\ CopyingAt(t)' /\ RestoringAt(t)' /\ WorkingAt(t)'
    BY <1>0, <1>1, <2>1
       DEF At, LockedAt, WritingAt, CopyingAt, RestoringAt, WorkingAt, Source, Reading, Saving, pages
  <2> QED BY <1>0, <1>1, <1>2, <2>1, <2>2, FilesStay, InMemoryStays DEF Kept, At, pages
<1>4. CASE ReadBrowser(t)
  <2>1. PICK read \in {browser, Empty} : Restore(t, read) /\ (t \notin blank' => read = browser)
    BY <1>4 DEF ReadBrowser
  <2>2. read \in Snapshots
    BY <1>0, EmptyType DEF TypeOK
  <2>3. /\ pc[t] = "idle" /\ pc'[t] = "restore" /\ held'[t] = read /\ copying'[t] = None
        /\ todo'[t] = {k \in Tickers : read[k] # None} /\ read # None
        /\ UNCHANGED <<seen, ready, copies, memories>> /\ blank \subseteq blank'
    BY <1>0, <1>4, <2>1, <2>2, Parties DEF ReadBrowser, Restore, Goto, TypeOK, At, CopyingAt
  <2>4. LockedAt(t)' /\ WritingAt(t)' /\ CopyingAt(t)' /\ WorkingAt(t)'
    BY <1>0, <1>1, <2>3 DEF At, LockedAt, WritingAt, CopyingAt, WorkingAt, Source, Reading, Saving
  <2>5. RestoringAt(t)'
    BY <2>1, <2>3 DEF RestoringAt, copies
  <2> QED BY <1>0, <1>1, <1>2, <2>3, <2>4, <2>5, FilesStay, InMemoryStays DEF Kept, At
<1>5. ASSUME pc[t] \in {"idle", "page", "edit", "saved"}, pc'[t] \in {"idle", "page", "edit", "save"},
             pc'[t] = "edit" => target'[t] # None /\ dte'[t][target'[t]] < MaxEdits,
             UNCHANGED <<todo, copying, held, seen, ready, blank>>, SendingAt(t)'
      PROVE  Kept(t)
  <2>1. LockedAt(t)' /\ WritingAt(t)' /\ CopyingAt(t)' /\ RestoringAt(t)' /\ WorkingAt(t)'
    BY <1>0, <1>1, <1>5
       DEF At, LockedAt, WritingAt, CopyingAt, RestoringAt, WorkingAt, Source, Reading, Saving
  <2> QED BY <1>0, <1>1, <1>5, <2>1, FilesStay, InMemoryStays DEF Kept, At
<1>6. CASE Page(t)
  BY <1>0, <1>2, <1>5, <1>6 DEF Page, Goto, TypeOK, pages, reading
<1>7. CASE Refresh(t)
  BY <1>0, <1>2, <1>5, <1>7 DEF Refresh, Goto, TypeOK, pages, reading
<1>8. CASE StartEdit(t)
  <2>1. PICK k \in Tickers : dte[t][k] < MaxEdits /\ target' = [target EXCEPT ![t] = k]
    BY <1>8 DEF StartEdit
  <2>2. target'[t] # None /\ dte'[t][target'[t]] < MaxEdits
    BY <1>0, <1>8, <2>1, Parties DEF StartEdit, TypeOK, dtes
  <2> QED BY <1>0, <1>2, <1>5, <1>8, <2>2 DEF StartEdit, Goto, TypeOK, reading
<1>9. CASE EndEdit(t)
  BY <1>0, <1>2, <1>5, <1>9 DEF EndEdit, Goto, TypeOK, reading
<1>10. CASE Leave(t)
  BY <1>0, <1>2, <1>5, <1>10 DEF Leave, Goto, TypeOK, reading
<1>11. CASE Delete(t)
  BY <1>0, <1>2, <1>5, <1>11 DEF Delete, Goto, TypeOK, pages, reading
<1>12. CASE Send(t)
  <2>1. CASE UNCHANGED copies
    BY <1>0, <1>2, <1>5, <1>12, <2>1 DEF Send, Goto, TypeOK, reading, pages
  <2>2. CASE ~ UNCHANGED copies
    <3>1. /\ t \in ready /\ browser' = browser /\ UNCHANGED memories
          /\ sent'[t] = memory
          /\ excused'[t] = IF t \in blank THEN Tickers ELSE setBack
      BY <1>0, <1>12, <2>2 DEF Send, TypeOK
    <3>2. t \notin blank => \A k \in Tickers : browser[k] # None => Known(k)
      BY <3>1 DEF GexInv, InMemory
    <3>3. SendingAt(t)'
      BY <3>1, <3>2 DEF SendingAt, Known, memories
    <3> QED BY <1>0, <1>5, <1>12, <3>3 DEF Send, Goto, TypeOK, reading, pages
  <2> QED BY <2>1, <2>2
<1>13. CASE WriteBrowser(t)
  <2>1. /\ sent'[t] = None
        /\ UNCHANGED <<memories, pages, pc, held, todo, copying, results, dte>>
    BY <1>0, <1>13 DEF WriteBrowser, TypeOK, reading, dtes
  <2>2. LockedAt(t)' /\ WritingAt(t)' /\ CopyingAt(t)' /\ WorkingAt(t)' /\ SendingAt(t)'
    BY <1>0, <1>1, <2>1
       DEF At, LockedAt, WritingAt, CopyingAt, WorkingAt, SendingAt, Source, files, pages, Readable
  <2>3. RestoringAt(t)'
    BY <1>0, <1>1, <2>1 DEF At, RestoringAt, MemoryGrows, Known, pages, memories
  <2> QED BY <1>0, <1>1, <2>1, <2>2, <2>3, FilesStay, InMemoryStays DEF Kept, At, pages
<1>14. CASE Reload(t)
  <2>1. /\ pc[t] = "idle" /\ sent'[t] = None
        /\ UNCHANGED <<pc, todo, copying, held, memories, browser>>
    BY <1>0, <1>14 DEF Reload, TypeOK, reading
  <2>2. At(t)'
    BY <1>0, <1>1, <2>1
       DEF At, LockedAt, WritingAt, CopyingAt, RestoringAt, SendingAt, WorkingAt, Source, Reading, Saving
  <2>3. InMemory'
    BY <1>14, <2>1 DEF Reload, GexInv, InMemory, Known, memories
  <2> QED BY <1>1, <2>2, <2>3, FilesStay DEF Kept
<1> QED
  BY <1>3, <1>4, <1>6, <1>7, <1>8, <1>9, <1>10, <1>11, <1>12, <1>13, <1>14 DEF TabStep

LEMMA JobKept ==
  ASSUME GexInv, NEW j \in Jobs, JobStep(j)
  PROVE  Kept(j)
<1>0. j \in Workers /\ j \notin Tabs /\ TypeOK /\ At(j) /\ MemoryGrows
  BY JobOthers, Parties DEF GexInv
<1>1. UNCHANGED <<files, lock, todo, copying, held, seen, ready, blank>>
  BY DEF JobStep, Fetch, Finish, Collect, StartJob, reading, pages
<1>2. /\ pc[j] \in {"idle", "fetch", "finish"} /\ pc'[j] \in {"idle", "fetch", "finish", "save"}
      /\ pc'[j] = "save" => results'[j] = job.results
  BY <1>0 DEF JobStep, Fetch, Finish, Collect, StartJob, Goto, TypeOK
<1>3. job.results # None
  BY <1>0, Parties DEF TypeOK
<1>4. At(j)'
  BY <1>0, <1>1, <1>2, <1>3
     DEF At, LockedAt, WritingAt, CopyingAt, RestoringAt, SendingAt, WorkingAt, Source, Reading, Saving
<1> QED BY <1>0, <1>1, <1>4, FilesStay, InMemoryStays DEF Kept

LEMMA RestartKept ==
  ASSUME GexInv, Crash \/ Redeploy \/ Damage
  PROVE  Files' /\ InMemory' /\ \A p \in Workers : At(p)'
<1>1. CASE Crash \/ Redeploy
  <2>1. Restart
    BY <1>1 DEF Crash, Redeploy
  <2>2. Files'
    BY <1>1, GexAssumption DEF Crash, Redeploy, GexInv, Files, Readable
  <2>3. InMemory'
    BY <2>1 DEF Restart, InMemory
  <2>4. ASSUME NEW p \in Workers PROVE At(p)'
    <3>1. /\ pc'[p] = "idle" /\ todo'[p] = {} /\ copying'[p] = None /\ lock' = None
          /\ p \in Tabs => sent'[p] = None
      BY <2>1 DEF Restart
    <3> QED BY <3>1, Parties DEF At, LockedAt, WritingAt, CopyingAt, RestoringAt, SendingAt, WorkingAt, Source, Reading, Saving
  <2> QED BY <2>2, <2>3, <2>4
<1>2. CASE Damage
  <2>1. /\ Readable(latest) /\ latest' = Broken /\ damaged' = TRUE
        /\ UNCHANGED <<memory, setBack, previous, saved, earlier, lock, browser, sent, excused, seen,
                       ready, blank, target, dte, pc, held, todo, copying, results>>
    BY <1>2 DEF Damage, dtes, pages, reading, memories, copies
  <2>2. Files'
    BY <2>1, GexAssumption DEF GexInv, Files, Readable
  <2>3. InMemory'
    BY <2>1 DEF GexInv, InMemory, Known
  <2>4. ASSUME NEW p \in Workers PROVE At(p)'
    <3>1. At(p)
      BY DEF GexInv
    <3>2. LockedAt(p)' /\ CopyingAt(p)' /\ RestoringAt(p)' /\ SendingAt(p)' /\ WorkingAt(p)'
      BY <2>1, <3>1 DEF At, LockedAt, CopyingAt, RestoringAt, SendingAt, WorkingAt, Source, Known
    <3>3. WritingAt(p)'
      BY <2>1, <3>1 DEF At, WritingAt, Readable
    <3> QED BY <3>2, <3>3 DEF At
  <2> QED BY <2>2, <2>3, <2>4
<1> QED BY <1>1, <1>2

LEMMA GexStepInv ==
  ASSUME GexInv, [Next]_vars
  PROVE  GexInv'
<1>1. ASSUME NEW p \in Workers, Step(p) \/ SnapshotFails(p) \/ SaveFails(p) PROVE GexInv'
  BY <1>1, StepType, StepKept, StepOthers, OthersFit DEF Kept, GexInv
<1>2. ASSUME NEW t \in Tabs, TabStep(t)
      PROVE  GexInv'
  <2>1. TypeOK' /\ Kept(t) /\ OthersStay(t) /\ MemoryGrows /\ t \in Workers
    BY <1>2, TabType, TabKept, TabOthers, Parties
  <2> QED BY <2>1, OthersFit DEF Kept, GexInv
<1>3. ASSUME NEW j \in Jobs, JobStep(j)
      PROVE  GexInv'
  <2>1. TypeOK' /\ Kept(j) /\ OthersStay(j) /\ MemoryGrows /\ j \in Workers
    BY <1>3, JobType, JobKept, JobOthers, Parties
  <2> QED BY <2>1, OthersFit DEF Kept, GexInv
<1>4. CASE Crash \/ Redeploy \/ Damage
  BY <1>4, RestartType, RestartKept DEF GexInv
<1>5. CASE UNCHANGED vars
  <2>1. UNCHANGED <<clock, memory, setBack, settings, dte, job, latest, previous, digest, saved, earlier,
                    damaged, loaded, lock, browser, sent, excused, seen, ready, blank, target, pc, held,
                    todo, copying, results, faults>>
    BY <1>5 DEF vars, files, pages, reading, dtes, memories, copies
  <2>2. TypeOK'
    BY <2>1 DEF GexInv, TypeOK
  <2>3. Files' /\ InMemory'
    BY <2>1 DEF GexInv, Files, InMemory, Readable, Known
  <2>4. ASSUME NEW p \in Workers PROVE At(p)'
    <3>1. At(p)
      BY DEF GexInv
    <3> QED BY <2>1, <3>1 DEF At, LockedAt, WritingAt, CopyingAt, RestoringAt, SendingAt, WorkingAt, Source,
                              Readable, Known
  <2> QED BY <2>2, <2>3, <2>4 DEF GexInv
<1> QED BY <1>1, <1>2, <1>3, <1>4, <1>5 DEF Next, TabStep, JobStep

LEMMA GexInvariant == Spec => []GexInv
<1>1. Init => GexInv
  BY InitGex
<1>2. GexInv /\ [Next]_vars => GexInv'
  BY GexStepInv
<1> QED BY <1>1, <1>2, PTL DEF Spec

-----------------------------------------------------------------------------

\* Every variable keeps its type.
THEOREM TypeCorrect == Spec => []TypeOK
<1>1. GexInv => TypeOK
  BY DEF GexInv
<1> QED BY <1>1, GexInvariant, PTL

\* The file and its backup give what was saved last, or before a damage.
THEOREM FilesRecover == Spec => []SavedIsReadable
<1>1. GexInv => SavedIsReadable
  BY DEF GexInv, TypeOK, Files, SavedIsReadable, Recoverable, Readable
<1> QED BY <1>1, GexInvariant, PTL

\* The browser loses a ticker only to a tab that is excused: it was deleted, the browser had
\* nothing to tell the tab, or another tab wrote in between.
THEOREM BrowserIsKept == Spec => BrowserKeepsAll
<1>1. GexInv /\ [Next]_vars =>
        \A k \in Tickers : browser[k] # None /\ browser'[k] = None =>
          \E t \in Tabs : sent[t] # None /\ sent'[t] = None /\ k \in excused[t]
  <2> SUFFICES ASSUME GexInv, [Next]_vars, NEW k \in Tickers, browser[k] # None, browser'[k] = None
               PROVE  \E t \in Tabs : sent[t] # None /\ sent'[t] = None /\ k \in excused[t]
    OBVIOUS
  <2>1. browser' = browser \/ \E t \in Tabs : WriteBrowser(t)
    BY DEF Next, vars, Step, SaveFails, SnapshotFails, ReadLatest, ReadPrevious, Compare, Copy, Restored,
           Save, Merged, Snapshot, Rotate, Replace, Hydrate, ReadBrowser, Page, Refresh, StartEdit,
           EndEdit, Leave, Delete, Send, Reload, Fetch, Finish, Collect, StartJob, Crash, Redeploy,
           Restart, Damage, copies
  <2>2. PICK t \in Tabs : WriteBrowser(t)
    BY <2>1
  <2>3. sent[t] # None /\ sent'[t] = None /\ browser' = sent[t]
    BY <2>2 DEF WriteBrowser, GexInv, TypeOK
  <2>4. k \in excused[t]
    BY <2>3, Parties DEF GexInv, At, SendingAt
  <2> QED BY <2>3, <2>4
<1> QED BY <1>1, GexInvariant, PTL DEF Spec, BrowserKeepsAll
=============================================================================
