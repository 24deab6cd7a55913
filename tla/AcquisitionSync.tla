---------------------------- MODULE AcquisitionSync ----------------------------
(***************************************************************************)
(* The trade history of one E*TRADE account (src/acquisition_ui.py,        *)
(* _sync_history): kept in the memory of each process that runs the        *)
(* program, in an encrypted archive and in a private ledger on GitHub      *)
(* (acquisition_history_github.py, acquisition_private_blotter.py).  A     *)
(* process runs one sync at a time, under the lock of its vault; the       *)
(* processes share nothing but the files, which GitHub replaces only for   *)
(* a writer that names the version it read.  A process may be restarted at *)
(* any step.                                                               *)
(*                                                                         *)
(* A history is the set of its transactions (rows) and the days it covers. *)
(* The 12 hours between queries and the 5 minutes between retries are      *)
(* choices here: any run may be too early for a query or for a retry.      *)
(***************************************************************************)
EXTENDS Integers

CONSTANTS
  Workers,      \* processes of the program
  Txs,          \* the transactions of the account
  HistoryDays,  \* _HISTORY_DAYS
  OverlapDays,  \* _OVERLAP_DAYS
  Lateness,     \* assumed: E*TRADE lists a transaction this many days after it, or sooner
  None,         \* no history, or a day that has not come
  MaxSyncs,     \* bound: syncs, of all processes
  MaxDay        \* bound: the last day

Days == 0 .. MaxDay

ASSUME SyncAssumption ==
  /\ {HistoryDays, OverlapDays, Lateness, MaxSyncs, MaxDay} \subseteq Nat
  /\ Lateness <= OverlapDays /\ Lateness < HistoryDays

VARIABLES
  day,
  date,      \* date[x]: the day of transaction x, or None until E*TRADE lists it
  archive,   \* the encrypted archive, or None
  ledger,    \* the private ledger, or None
  text,      \* the transactions in the readable copy of the ledger
  saved,     \* saved[w]: the history in the memory of process w, or None
  private_loaded, archive_loaded, archive_dirty,
  digest,    \* digest[w]: the rows process w saved last in the ledger, or None
  pc,        \* pc[w]: the step of the sync of process w
  syncs,     \* syncs begun so far
  uses,      \* uses[w]: the stores this sync has a configuration and access for
  base       \* base[w]: what the sync read of the file it is about to replace

memory == <<saved, private_loaded, archive_loaded, archive_dirty, digest>>
files == <<archive, ledger, text>>
run == <<pc, uses, syncs>>
vars == <<day, date, files, memory, run, base>>

History == [rows : SUBSET Txs, from : Int, through : Int]

ASSUME NoneAssumption == None \notin History /\ None \notin Int /\ (\A X \in SUBSET Txs : X # None)

TypeOK ==
  /\ day \in Days
  /\ date \in [Txs -> Days \cup {None}]
  /\ archive \in History \cup {None}
  /\ ledger \in History \cup {None}
  /\ text \in SUBSET Txs
  /\ saved \in [Workers -> History \cup {None}]
  /\ {private_loaded, archive_loaded, archive_dirty} \subseteq [Workers -> BOOLEAN]
  /\ digest \in [Workers -> {None} \cup SUBSET Txs]
  /\ pc \in [Workers -> {"idle", "begun", "fetched", "put", "saved", "ledger", "text"}]
  /\ syncs \in 0 .. MaxSyncs
  /\ uses \in [Workers -> SUBSET {"archive", "ledger"}]
  /\ base \in [Workers -> History \cup {None}]
  /\ \A w \in Workers : pc[w] \in {"put", "ledger", "text"} => saved[w] # None

Init ==
  /\ day = 0
  /\ date = [x \in Txs |-> None]
  /\ archive = None /\ ledger = None /\ text = {}
  /\ saved = [w \in Workers |-> None]
  /\ private_loaded = [w \in Workers |-> FALSE]
  /\ archive_loaded = [w \in Workers |-> FALSE]
  /\ archive_dirty = [w \in Workers |-> FALSE]
  /\ digest = [w \in Workers |-> None]
  /\ pc = [w \in Workers |-> "idle"]
  /\ syncs = 0
  /\ uses = [w \in Workers |-> {}]
  /\ base = [w \in Workers |-> None]

-----------------------------------------------------------------------------
(* Histories                                                               *)

Least(a, b) == IF a <= b THEN a ELSE b
Greatest(a, b) == IF a >= b THEN a ELSE b

\* _merged: both histories, either of which may be missing.
_merged(a, b) ==
  IF a = None THEN b ELSE IF b = None THEN a
  ELSE [rows |-> a.rows \cup b.rows, from |-> Least(a.from, b.from),
        through |-> Greatest(a.through, b.through)]

\* The first day the broker is asked for.
StartWithoutOverlap(s, t) ==    \* mutant
  IF s = None THEN t - HistoryDays
  ELSE Greatest(t - HistoryDays, Least(t, s.through) + 1)
Start(s, t) ==
  IF s = None THEN t - HistoryDays
  ELSE Greatest(t - HistoryDays, Least(t, s.through) - OverlapDays)

Listed(from, through) == {x \in Txs : date[x] # None /\ from <= date[x] /\ date[x] <= through}

\* The history after a complete answer of the broker.
Fetched(s, t) ==
  [rows |-> (IF s = None THEN {} ELSE s.rows) \cup Listed(Start(s, t), t),
   from |-> IF s = None THEN Start(s, t) ELSE s.from,
   through |-> t]

Goto(w, p) == pc' = [pc EXCEPT ![w] = p]

\* The sync of process w is over.
Over(w) ==
  /\ Goto(w, "idle")
  /\ uses' = [uses EXCEPT ![w] = {}]
  /\ base' = [base EXCEPT ![w] = None]

-----------------------------------------------------------------------------
(* The steps of a sync.  A step that is not taken, as it is too early for  *)
(* it or as it fails and is reported, leaves the sync where it is, and the *)
(* later ones follow.                                                      *)

\* Secrets that are missing rule out both stores, a failed preflight the ledger.
\* The private history is read once; if it cannot be read, the sync goes on with
\* the archive alone.
BeginWith(w, u) ==
  /\ pc[w] = "idle"
  /\ syncs < MaxSyncs /\ syncs' = syncs + 1
  /\ uses' = [uses EXCEPT ![w] = u]
  /\ Goto(w, "begun")

Begin(w) ==
  /\ \E u \in {{}, {"archive"}, {"archive", "ledger"}} : BeginWith(w, u)
  /\ UNCHANGED <<day, date, files, memory, base>>

RestorePrivate(w) ==
  /\ ~ private_loaded[w]
  /\ BeginWith(w, {"archive", "ledger"})
  /\ saved' = [saved EXCEPT ![w] = _merged(ledger, @)]
  /\ archive_dirty' = [archive_dirty EXCEPT ![w] = @ \/ ledger # None]
  /\ private_loaded' = [private_loaded EXCEPT ![w] = TRUE]
  /\ UNCHANGED <<day, date, files, archive_loaded, digest, base>>

\* private_ready and eligible, once the stores have been read, or not.
PrivateReady(w) == "ledger" \in uses[w] => private_loaded[w]
Eligible(w) == "archive" \in uses[w] /\ archive_loaded[w]

RestoreArchiveClean(w) ==    \* mutant: what was read counts as all there is to save
  /\ pc[w] = "begun" /\ "archive" \in uses[w] /\ ~ archive_loaded[w]
  /\ saved' = [saved EXCEPT ![w] = _merged(archive, @)]
  /\ archive_dirty' = [archive_dirty EXCEPT ![w] = FALSE]
  /\ archive_loaded' = [archive_loaded EXCEPT ![w] = TRUE]
  /\ UNCHANGED <<day, date, files, private_loaded, digest, run, base>>
\* So is the archive.  If there is none, what is in memory has to be saved.
RestoreArchive(w) ==
  /\ pc[w] = "begun" /\ "archive" \in uses[w] /\ ~ archive_loaded[w]
  /\ saved' = [saved EXCEPT ![w] = _merged(archive, @)]
  /\ archive_dirty' = [archive_dirty EXCEPT ![w] = @ \/ (archive = None /\ saved[w] # None)]
  /\ archive_loaded' = [archive_loaded EXCEPT ![w] = TRUE]
  /\ UNCHANGED <<day, date, files, private_loaded, digest, run, base>>

\* Nothing is fetched while the private history is unread, or while the archive
\* is and nothing is in memory.
MayFetch(w) ==
  /\ PrivateReady(w)
  /\ "archive" \in uses[w] => Eligible(w) \/ saved[w] # None

\* get_transactions, with all its pages, up to the day of the moment the sync
\* went for the lock: that may be over.
Fetch(w) ==
  /\ pc[w] = "begun" /\ MayFetch(w)
  /\ \E t \in {day, day - 1} \cap Days : saved' = [saved EXCEPT ![w] = Fetched(@, t)]
  /\ archive_dirty' = [archive_dirty EXCEPT ![w] = TRUE]
  /\ Goto(w, "fetched")
  /\ UNCHANGED <<day, date, files, private_loaded, archive_loaded, digest, uses, syncs, base>>

\* GitHubAcquisitionArchive.save: the archive is read ...
ReadArchive(w) ==
  /\ pc[w] \in {"begun", "fetched"}
  /\ Eligible(w) /\ saved[w] # None /\ archive_dirty[w]
  /\ base' = [base EXCEPT ![w] = archive]
  /\ Goto(w, "put")
  /\ UNCHANGED <<day, date, files, memory, uses, syncs>>

PutArchiveBlindly(w) ==    \* mutant: without the sha
  /\ pc[w] = "put"
  /\ archive' = _merged(base[w], saved[w])
  /\ saved' = [saved EXCEPT ![w] = _merged(base[w], @)]
  /\ archive_dirty' = [archive_dirty EXCEPT ![w] = FALSE]
  /\ Goto(w, "saved")
  /\ UNCHANGED <<day, date, ledger, text, private_loaded, archive_loaded, digest, uses, syncs,
                 base>>
\* ... and replaced by the merge with what is in memory, unless it changed
\* meanwhile or the merge is what it has.
PutArchive(w) ==
  /\ pc[w] = "put"
  /\ LET merged == _merged(base[w], saved[w])
     IN  /\ archive = base[w] \/ merged = base[w]
         /\ archive' = IF merged = base[w] THEN archive ELSE merged
         /\ saved' = [saved EXCEPT ![w] = merged]
  /\ archive_dirty' = [archive_dirty EXCEPT ![w] = FALSE]
  /\ Goto(w, "saved")
  /\ UNCHANGED <<day, date, ledger, text, private_loaded, archive_loaded, digest, uses, syncs,
                 base>>

\* The file is replaced but the answer, or reading it back, fails.
PutArchiveUnconfirmed(w) ==
  /\ pc[w] = "put" /\ archive = base[w]
  /\ archive' = _merged(base[w], saved[w])
  /\ Goto(w, "saved")
  /\ UNCHANGED <<day, date, ledger, text, memory, uses, syncs, base>>

\* The file changed: it is read again (in four attempts).
ArchiveConflict(w) ==
  /\ pc[w] = "put" /\ archive # base[w]
  /\ base' = [base EXCEPT ![w] = archive]
  /\ UNCHANGED <<day, date, files, memory, run>>

\* PrivateTradeBlotter.save, for a history the process did not save last.
ReadLedger(w) ==
  /\ pc[w] \in {"begun", "fetched", "put", "saved"}
  /\ "ledger" \in uses[w] /\ PrivateReady(w)
  /\ saved[w] # None /\ digest[w] # saved[w].rows
  /\ base' = [base EXCEPT ![w] = ledger]
  /\ Goto(w, "ledger")
  /\ UNCHANGED <<day, date, files, memory, uses, syncs>>

PutLedgerDigested(w) ==    \* mutant: the digest is taken before the copy is written
  /\ pc[w] = "ledger"
  /\ LET joined == _merged(base[w], saved[w])
     IN  /\ ledger = base[w] \/ joined = base[w]
         /\ ledger' = IF joined = base[w] THEN ledger ELSE joined
  /\ digest' = [digest EXCEPT ![w] = saved[w].rows]
  /\ Goto(w, "text")
  /\ UNCHANGED <<day, date, archive, text, saved, private_loaded, archive_loaded,
                 archive_dirty, uses, syncs, base>>
PutLedger(w) ==
  /\ pc[w] = "ledger"
  /\ LET joined == _merged(base[w], saved[w])
     IN  /\ ledger = base[w] \/ joined = base[w]
         /\ ledger' = IF joined = base[w] THEN ledger ELSE joined
  /\ Goto(w, "text")
  /\ UNCHANGED <<day, date, archive, text, memory, uses, syncs, base>>

LedgerConflict(w) ==
  /\ pc[w] = "ledger" /\ ledger # base[w]
  /\ base' = [base EXCEPT ![w] = ledger]
  /\ UNCHANGED <<day, date, files, memory, run>>

\* The readable copy is written, over whatever it is.
WriteText(w) ==
  /\ pc[w] = "text"
  /\ text' = _merged(base[w], saved[w]).rows
  /\ digest' = [digest EXCEPT ![w] = saved[w].rows]
  /\ Over(w)
  /\ UNCHANGED <<day, date, archive, ledger, saved, private_loaded, archive_loaded,
                 archive_dirty, syncs>>

\* The sync is over, at any step; the ledger may have been replaced without an
\* answer.
End(w) ==
  /\ pc[w] # "idle"
  /\ \/ UNCHANGED ledger
     \/ /\ pc[w] = "ledger" /\ ledger = base[w]
        /\ ledger' = _merged(base[w], saved[w])
  /\ Over(w)
  /\ UNCHANGED <<day, date, archive, text, memory, syncs>>

-----------------------------------------------------------------------------
(* The surroundings                                                        *)

\* A process ends: what it had in memory is gone.
Restart(w) ==
  /\ saved' = [saved EXCEPT ![w] = None]
  /\ private_loaded' = [private_loaded EXCEPT ![w] = FALSE]
  /\ archive_loaded' = [archive_loaded EXCEPT ![w] = FALSE]
  /\ archive_dirty' = [archive_dirty EXCEPT ![w] = FALSE]
  /\ digest' = [digest EXCEPT ![w] = None]
  /\ Over(w)
  /\ UNCHANGED <<syncs, day, date, files>>

\* E*TRADE lists a transaction, of this day or a late one.
Post(x) ==
  /\ date[x] = None
  /\ \E d \in day - Lateness .. day : d \in Days /\ date' = [date EXCEPT ![x] = d]
  /\ UNCHANGED <<day, files, memory, run, base>>

Histories == {h \in {archive, ledger} \cup {saved[w] : w \in Workers} : h # None}

\* A day passes.  No history is left alone for the (almost) two years that E*TRADE
\* lists.
Tick ==
  /\ day < MaxDay
  /\ \A h \in Histories : day + 1 - h.through <= HistoryDays - Lateness
  /\ day' = day + 1
  /\ UNCHANGED <<date, files, memory, run, base>>

Next ==
  \/ \E w \in Workers :
       \/ Begin(w) \/ RestorePrivate(w) \/ RestoreArchive(w) \/ Fetch(w) \/ ReadArchive(w)
       \/ PutArchive(w) \/ PutArchiveUnconfirmed(w) \/ ArchiveConflict(w) \/ ReadLedger(w)
       \/ PutLedger(w) \/ LedgerConflict(w) \/ WriteText(w) \/ End(w) \/ Restart(w)
  \/ \E x \in Txs : Post(x)
  \/ Tick

Spec == Init /\ [][Next]_vars

-----------------------------------------------------------------------------
(* Properties                                                              *)

\* A history in memory, in the archive or in the ledger has every transaction of
\* the days it says it covers, however syncs of processes overlap, stores fail
\* and transactions are listed late (those E*TRADE may still list late aside).
Covers(h) ==
  \A x \in Txs : date[x] # None /\ h.from <= date[x] /\ date[x] + Lateness < h.through
                   => x \in h.rows
CoverageIsHonest == \A h \in Histories : Covers(h)

\* What is saved stays saved: no sync, of whatever process and with whatever in
\* its memory, takes a transaction or a covered day from the archive or the
\* ledger ("cannot erase an existing snapshot", "Never discard old trades").
Extends(new, old) ==
  old # None => /\ new # None
                /\ old.rows \subseteq new.rows
                /\ new.from <= old.from /\ old.through <= new.through
NothingForgotten == [][Extends(archive', archive) /\ Extends(ledger', ledger)]_vars

\* A process that has nothing to save, because its archive is not dirty or its
\* digest is that of the last save, has nothing that the file lacks: a restart
\* at this moment loses no transaction.
CleanIsSaved ==
  \A w \in Workers : saved[w] # None =>
    /\ archive_loaded[w] /\ ~ archive_dirty[w] =>
         archive # None /\ saved[w].rows \subseteq archive.rows
    /\ digest[w] = saved[w].rows =>
         ledger # None /\ saved[w].rows \subseteq ledger.rows

\* The readable copy is written over whatever it is, so a slow process may take
\* back what a newer one wrote.  Once every process has saved last what the
\* ledger has, the copy has it too ("Save a canonical plaintext full ledger, then
\* a human-readable blotter").
TextIsWhole ==
  ledger # None /\ (\A w \in Workers : digest[w] = ledger.rows) => text = ledger.rows
=============================================================================
