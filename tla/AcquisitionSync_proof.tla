------------------------ MODULE AcquisitionSync_proof ------------------------
(***************************************************************************)
(* Proofs about AcquisitionSync for any number of processes, transactions, *)
(* syncs and days, and for any horizon, overlap and lateness that meet     *)
(* SyncAssumption.                                                         *)
(***************************************************************************)
EXTENDS AcquisitionSync, TLAPS

MaybeHistory == History \cup {None}

-----------------------------------------------------------------------------
(* Histories                                                               *)

LEMMA HistoryType ==
  \A h \in History : /\ h # None /\ h.rows \subseteq Txs
                     /\ h.from \in Int /\ h.through \in Int
BY NoneAssumption DEF History

LEMMA MergedType ==
  ASSUME NEW a \in MaybeHistory, NEW b \in MaybeHistory
  PROVE  /\ _merged(a, b) \in MaybeHistory
         /\ a # None \/ b # None => _merged(a, b) \in History /\ _merged(a, b) # None
         /\ a = None /\ b = None => _merged(a, b) = None
<1>1. CASE a = None \/ b = None
  BY <1>1, HistoryType DEF _merged, MaybeHistory
<1>2. CASE a # None /\ b # None
  <2>1. a \in History /\ b \in History
    BY <1>2 DEF MaybeHistory
  <2>2. Least(a.from, b.from) \in Int /\ Greatest(a.through, b.through) \in Int
    BY <2>1, HistoryType DEF Least, Greatest
  <2>3. _merged(a, b) \in History
    BY <1>2, <2>1, <2>2, HistoryType DEF _merged, History
  <2> QED BY <1>2, <2>3, HistoryType DEF MaybeHistory
<1> QED BY <1>1, <1>2

\* A merge has what either has.
LEMMA MergedExtends ==
  ASSUME NEW a \in MaybeHistory, NEW b \in MaybeHistory
  PROVE  Extends(_merged(a, b), a) /\ Extends(_merged(a, b), b)
<1>1. CASE a = None \/ b = None
  BY <1>1, HistoryType DEF _merged, MaybeHistory, Extends
<1>2. CASE a # None /\ b # None
  <2>1. a \in History /\ b \in History
    BY <1>2 DEF MaybeHistory
  <2>2. _merged(a, b) = [rows |-> a.rows \cup b.rows, from |-> Least(a.from, b.from),
                         through |-> Greatest(a.through, b.through)]
    BY <1>2 DEF _merged
  <2>3. /\ Least(a.from, b.from) <= a.from /\ Least(a.from, b.from) <= b.from
        /\ a.through <= Greatest(a.through, b.through)
        /\ b.through <= Greatest(a.through, b.through)
    BY <2>1, HistoryType DEF Least, Greatest
  <2>4. _merged(a, b) # None
    BY <1>2, MergedType
  <2> QED BY <2>2, <2>3, <2>4 DEF Extends
<1> QED BY <1>1, <1>2

LEMMA FetchedType ==
  ASSUME NEW s \in MaybeHistory, NEW t \in Int
  PROVE  Fetched(s, t) \in History /\ Fetched(s, t) # None
<1>1. s # None => s.rows \subseteq Txs /\ s.from \in Int /\ s.through \in Int
  BY HistoryType DEF MaybeHistory
<1>2. Start(s, t) \in Int
  BY <1>1, SyncAssumption DEF Start, Least, Greatest
<1>3. Fetched(s, t) \in History
  BY <1>1, <1>2 DEF Fetched, Listed, History
<1> QED BY <1>3, HistoryType

-----------------------------------------------------------------------------
(* Types                                                                   *)

LEMMA InitType == Init => TypeOK
BY SyncAssumption DEF Init, TypeOK, Days

LEMMA StateType ==
  ASSUME TypeOK
  PROVE  /\ archive \in MaybeHistory /\ ledger \in MaybeHistory
         /\ \A w \in Workers : saved[w] \in MaybeHistory /\ base[w] \in MaybeHistory
         /\ day \in Int
BY DEF TypeOK, MaybeHistory, Days

LEMMA OverType ==
  ASSUME TypeOK, NEW w \in Workers, Over(w)
  PROVE  /\ pc' \in [Workers -> {"idle", "begun", "fetched", "put", "saved", "ledger", "text"}]
         /\ uses' \in [Workers -> SUBSET {"archive", "ledger"}]
         /\ base' \in [Workers -> History \cup {None}]
         /\ \A v \in Workers : pc'[v] \in {"put", "ledger", "text"} => v # w /\ pc'[v] = pc[v]
BY DEF Over, Goto, TypeOK

LEMMA BeginType ==
  ASSUME TypeOK, NEW w \in Workers, NEW u \in SUBSET {"archive", "ledger"}, BeginWith(w, u)
  PROVE  /\ pc' \in [Workers -> {"idle", "begun", "fetched", "put", "saved", "ledger", "text"}]
         /\ uses' \in [Workers -> SUBSET {"archive", "ledger"}]
         /\ syncs' \in 0 .. MaxSyncs
         /\ \A v \in Workers : pc'[v] \in {"put", "ledger", "text"} => v # w /\ pc'[v] = pc[v]
BY SyncAssumption DEF BeginWith, Goto, TypeOK

LEMMA StepType ==
  ASSUME TypeOK, [Next]_vars
  PROVE  TypeOK'
<1> USE DEF MaybeHistory
<1>1. ASSUME NEW w \in Workers, Begin(w) PROVE TypeOK'
  <2>1. PICK u \in {{}, {"archive"}, {"archive", "ledger"}} : BeginWith(w, u)
    BY <1>1 DEF Begin
  <2> QED BY <1>1, <2>1, BeginType DEF Begin, files, memory, TypeOK
<1>2. ASSUME NEW w \in Workers, RestorePrivate(w) PROVE TypeOK'
  <2>1. _merged(ledger, saved[w]) \in MaybeHistory
    BY MergedType, StateType
  <2>2. BeginWith(w, {"archive", "ledger"})
        /\ saved' = [saved EXCEPT ![w] = _merged(ledger, saved[w])]
    BY <1>2 DEF RestorePrivate
  <2>3. saved' \in [Workers -> MaybeHistory] /\ \A v \in Workers : v # w => saved'[v] = saved[v]
    BY <2>1, <2>2 DEF TypeOK
  <2> QED BY <1>2, <2>2, <2>3, BeginType DEF RestorePrivate, files, TypeOK
<1>3. ASSUME NEW w \in Workers, RestoreArchive(w) PROVE TypeOK'
  <2>1. _merged(archive, saved[w]) \in MaybeHistory
    BY MergedType, StateType
  <2>2. pc[w] = "begun" /\ saved' = [saved EXCEPT ![w] = _merged(archive, saved[w])]
    BY <1>3 DEF RestoreArchive
  <2>3. saved' \in [Workers -> MaybeHistory] /\ \A v \in Workers : v # w => saved'[v] = saved[v]
    BY <2>1, <2>2 DEF TypeOK
  <2> QED BY <1>3, <2>2, <2>3 DEF RestoreArchive, files, run, TypeOK
<1>4. ASSUME NEW w \in Workers, Fetch(w) PROVE TypeOK'
  <2>1. PICK t \in {day, day - 1} \cap Days : saved' = [saved EXCEPT ![w] = Fetched(saved[w], t)]
    BY <1>4 DEF Fetch
  <2>2. Fetched(saved[w], t) \in History
    BY FetchedType, StateType DEF Days
  <2>3. saved' \in [Workers -> MaybeHistory] /\ \A v \in Workers : v # w => saved'[v] = saved[v]
    BY <2>1, <2>2 DEF TypeOK
  <2>4. pc' = [pc EXCEPT ![w] = "fetched"]
    BY <1>4 DEF Fetch, Goto
  <2> QED BY <1>4, <2>3, <2>4 DEF Fetch, files, TypeOK
<1>5. ASSUME NEW w \in Workers, ReadArchive(w) \/ ReadLedger(w) PROVE TypeOK'
  <2>1. /\ base' \in [Workers -> MaybeHistory]
        /\ saved[w] # None
        /\ \/ pc' = [pc EXCEPT ![w] = "put"]
           \/ pc' = [pc EXCEPT ![w] = "ledger"]
    BY <1>5 DEF ReadArchive, ReadLedger, Goto, TypeOK
  <2> QED BY <1>5, <2>1 DEF ReadArchive, ReadLedger, files, memory, TypeOK
<1>6. ASSUME NEW w \in Workers, PutArchive(w) PROVE TypeOK'
  <2>1. _merged(base[w], saved[w]) \in MaybeHistory
    BY MergedType, StateType
  <2>2. /\ saved' = [saved EXCEPT ![w] = _merged(base[w], saved[w])]
        /\ archive' \in {archive, _merged(base[w], saved[w])}
    BY <1>6 DEF PutArchive
  <2>3. saved' \in [Workers -> MaybeHistory] /\ \A v \in Workers : v # w => saved'[v] = saved[v]
    BY <2>1, <2>2 DEF TypeOK
  <2>4. pc' = [pc EXCEPT ![w] = "saved"]
    BY <1>6 DEF PutArchive, Goto
  <2> QED BY <1>6, <2>1, <2>2, <2>3, <2>4 DEF PutArchive, TypeOK
<1>7. ASSUME NEW w \in Workers, PutArchiveUnconfirmed(w) PROVE TypeOK'
  <2>1. _merged(base[w], saved[w]) \in MaybeHistory
    BY MergedType, StateType
  <2> QED BY <1>7, <2>1 DEF PutArchiveUnconfirmed, Goto, memory, TypeOK
<1>8. ASSUME NEW w \in Workers, ArchiveConflict(w) \/ LedgerConflict(w) PROVE TypeOK'
  BY <1>8 DEF ArchiveConflict, LedgerConflict, files, memory, run, TypeOK
<1>9. ASSUME NEW w \in Workers, PutLedger(w) PROVE TypeOK'
  <2>1. _merged(base[w], saved[w]) \in MaybeHistory
    BY MergedType, StateType
  <2>2. ledger' \in {ledger, _merged(base[w], saved[w])} /\ pc[w] = "ledger"
        /\ pc' = [pc EXCEPT ![w] = "text"]
    BY <1>9 DEF PutLedger, Goto
  <2> QED BY <1>9, <2>1, <2>2 DEF PutLedger, memory, TypeOK
<1>10. ASSUME NEW w \in Workers, WriteText(w) PROVE TypeOK'
  <2>1. saved[w] \in History /\ base[w] \in MaybeHistory
    BY <1>10 DEF WriteText, TypeOK
  <2>2. _merged(base[w], saved[w]) \in History
    BY <2>1, MergedType, HistoryType
  <2>3. text' \in SUBSET Txs /\ digest' \in [Workers -> {None} \cup SUBSET Txs]
    BY <1>10, <2>1, <2>2, HistoryType DEF WriteText, TypeOK
  <2>4. Over(w) /\ UNCHANGED <<day, date, archive, ledger, saved, private_loaded,
                               archive_loaded, archive_dirty, syncs>>
    BY <1>10 DEF WriteText
  <2> QED BY <2>3, <2>4, OverType DEF TypeOK
<1>11. ASSUME NEW w \in Workers, End(w) PROVE TypeOK'
  <2>1. ledger' \in {ledger, _merged(base[w], saved[w])}
    BY <1>11 DEF End
  <2>2. ledger' \in MaybeHistory
    BY <2>1, MergedType, StateType
  <2> QED BY <1>11, <2>2, OverType DEF End, memory, TypeOK
<1>12. ASSUME NEW w \in Workers, Restart(w) PROVE TypeOK'
  <2>1. /\ saved' = [saved EXCEPT ![w] = None]
        /\ \A v \in Workers : v # w => saved'[v] = saved[v]
    BY <1>12 DEF Restart, TypeOK
  <2> QED BY <1>12, <2>1, OverType DEF Restart, files, TypeOK
<1>13. ASSUME NEW x \in Txs, Post(x) PROVE TypeOK'
  BY <1>13 DEF Post, files, memory, run, TypeOK
<1>14. CASE Tick
  BY <1>14, SyncAssumption DEF Tick, files, memory, run, TypeOK, Days
<1>15. CASE UNCHANGED vars
  BY <1>15 DEF vars, files, memory, run, TypeOK
<1> QED
  BY <1>1, <1>2, <1>3, <1>4, <1>5, <1>6, <1>7, <1>8, <1>9, <1>10, <1>11, <1>12, <1>13,
     <1>14, <1>15 DEF Next

-----------------------------------------------------------------------------
(* What the files keep                                                     *)

LEMMA Reflexive == \A h \in MaybeHistory : Extends(h, h)
BY HistoryType DEF Extends, MaybeHistory

\* The files as a step of process w leaves them.
LEMMA FilesStep ==
  ASSUME TypeOK, [Next]_vars
  PROVE  /\ \/ archive' = archive
            \/ \E w \in Workers : archive = base[w] /\ archive' = _merged(base[w], saved[w])
         /\ \/ ledger' = ledger
            \/ \E w \in Workers : ledger = base[w] /\ ledger' = _merged(base[w], saved[w])
BY DEF Next, vars, files, Begin, RestorePrivate, RestoreArchive, Fetch, ReadArchive, PutArchive,
       PutArchiveUnconfirmed, ArchiveConflict, ReadLedger, PutLedger, LedgerConflict, WriteText,
       End, Restart, Post, Tick

LEMMA FilesGrow ==
  ASSUME TypeOK, [Next]_vars
  PROVE  Extends(archive', archive) /\ Extends(ledger', ledger)
BY FilesStep, StateType, MergedExtends, Reflexive

-----------------------------------------------------------------------------
(* What histories cover                                                    *)

\* A history has what it covers and goes back as far as E*TRADE did when it was
\* begun ...
Good(h) == Covers(h) /\ h.from <= day - HistoryDays /\ h.through <= day

\* ... and there is no gap between it and any other that is good.
Recent(h) == day - h.through <= HistoryDays - Lateness

Goods == {h \in History : Good(h)} \cup {None}
Sounds == {h \in History : Good(h) /\ Recent(h)} \cup {None}

Honest ==
  /\ archive \in Sounds /\ ledger \in Sounds
  /\ \A w \in Workers : saved[w] \in Sounds /\ base[w] \in Goods

LEMMA DateType ==
  ASSUME TypeOK
  PROVE  /\ \A x \in Txs : date[x] # None => date[x] \in Int
         /\ day \in Int /\ HistoryDays \in Int /\ OverlapDays \in Int /\ Lateness \in Int
         /\ 0 <= Lateness /\ 0 <= HistoryDays
BY SyncAssumption DEF TypeOK, Days

LEMMA SoundIsGood == Sounds \subseteq Goods /\ Sounds \subseteq MaybeHistory /\ None \in Sounds
BY DEF Sounds, Goods, MaybeHistory

\* The merge of two such histories has no gap.
LEMMA MergedSound ==
  ASSUME TypeOK, NEW a \in Sounds, NEW b \in Sounds
  PROVE  _merged(a, b) \in Sounds
<1>1. CASE a = None \/ b = None
  BY <1>1 DEF _merged
<1>2. CASE a # None /\ b # None
  <2> DEFINE m == _merged(a, b)
  <2>1. /\ a \in History /\ Good(a) /\ Recent(a)
        /\ b \in History /\ Good(b) /\ Recent(b)
    BY <1>2 DEF Sounds
  <2>2. /\ m \in History
        /\ m.rows = a.rows \cup b.rows /\ m.from = Least(a.from, b.from)
        /\ m.through = Greatest(a.through, b.through)
    BY <1>2, <2>1, MergedType DEF _merged, MaybeHistory
  <2>3. /\ a.from \in Int /\ a.through \in Int /\ b.from \in Int /\ b.through \in Int
    BY <2>1, HistoryType
  <2>4. Good(m)
    <3>1. m.from <= day - HistoryDays /\ m.through <= day
      BY <2>1, <2>2, <2>3, DateType DEF Good, Least, Greatest
    <3>2. ASSUME NEW x \in Txs, date[x] # None, m.from <= date[x], date[x] + Lateness < m.through
          PROVE  x \in m.rows
      <4>1. date[x] \in Int
        BY <3>2, DateType
      <4>2. \/ a.from <= date[x] /\ date[x] + Lateness < a.through
            \/ b.from <= date[x] /\ date[x] + Lateness < b.through
        BY <2>1, <2>2, <2>3, <3>2, <4>1, DateType DEF Good, Recent, Least, Greatest
      <4> QED BY <2>1, <2>2, <3>2, <4>2 DEF Good, Covers
    <3> QED BY <3>1, <3>2 DEF Good, Covers
  <2>5. Recent(m)
    BY <2>1, <2>2, <2>3, DateType DEF Recent, Greatest
  <2> QED BY <2>2, <2>4, <2>5 DEF Sounds
<1> QED BY <1>1, <1>2

\* A good history that has all of one that is recent is recent.
LEMMA AbsorbingSound ==
  ASSUME TypeOK, NEW a \in Goods, NEW b \in Sounds, b # None, _merged(a, b) = a
  PROVE  a \in Sounds
<1>1. CASE a = None
  BY <1>1 DEF Sounds
<1>2. CASE a # None
  <2>1. b.through <= a.through
    BY MergedExtends, SoundIsGood DEF Extends, Goods, MaybeHistory
  <2>2. Recent(b) /\ a \in History /\ Good(a) /\ a.through \in Int /\ b.through \in Int
    BY <1>2, HistoryType DEF Goods, Sounds
  <2>3. Recent(a)
    BY <2>1, <2>2, DateType DEF Recent
  <2> QED BY <2>2, <2>3 DEF Sounds
<1> QED BY <1>1, <1>2

\* No gap has a history that was fetched up to this day or the one before.
LEMMA FetchedSound ==
  ASSUME TypeOK, NEW s \in Sounds, NEW t \in {day, day - 1}
  PROVE  Fetched(s, t) \in Sounds
<1> DEFINE f == Fetched(s, t)
<1>1. t \in Int /\ t <= day /\ day - 1 <= t
  BY DateType
<1>2. f \in History
  BY <1>1, FetchedType, SoundIsGood
<1>3. CASE s = None
  <2>1. /\ f.from = t - HistoryDays /\ f.through = t
        /\ f.rows = {x \in Txs : date[x] # None /\ t - HistoryDays <= date[x] /\ date[x] <= t}
    BY <1>3 DEF Fetched, Start, Listed
  <2>2. Covers(f)
    BY <1>1, <2>1, DateType DEF Covers
  <2> QED BY <1>1, <1>2, <2>1, <2>2, DateType, SyncAssumption DEF Sounds, Good, Recent
<1>4. CASE s # None
  <2>1. s \in History /\ Good(s) /\ Recent(s) /\ s.from \in Int /\ s.through \in Int
    BY <1>4, HistoryType DEF Sounds
  <2>2. /\ f.from = s.from /\ f.through = t
        /\ f.rows = s.rows \cup Listed(Start(s, t), t)
    BY <1>4 DEF Fetched
  <2>3. Start(s, t) \in Int /\ Start(s, t) <= s.through - Lateness
    BY <1>1, <1>4, <2>1, DateType, SyncAssumption DEF Start, Least, Greatest, Good, Recent
  <2>4. ASSUME NEW x \in Txs, date[x] # None, f.from <= date[x], date[x] + Lateness < f.through
        PROVE  x \in f.rows
    <3>1. date[x] \in Int
      BY <2>4, DateType
    <3>2. CASE date[x] + Lateness < s.through
      BY <2>1, <2>2, <2>4, <3>2 DEF Good, Covers
    <3>3. CASE ~ (date[x] + Lateness < s.through)
      <4>1. Start(s, t) <= date[x] /\ date[x] <= t
        BY <1>1, <2>1, <2>2, <2>3, <2>4, <3>1, <3>3, DateType
      <4> QED BY <2>2, <2>4, <4>1 DEF Listed
    <3> QED BY <3>2, <3>3
  <2>5. Covers(f)
    BY <2>4 DEF Covers
  <2> QED BY <1>1, <1>2, <2>1, <2>2, <2>5, DateType, SyncAssumption DEF Sounds, Good, Recent
<1> QED BY <1>3, <1>4

LEMMA InitHonest == Init => Honest
BY DEF Init, Honest, Sounds, Goods

\* Steps on one day, at which E*TRADE lists nothing new.
LEMMA HonestAgain ==
  ASSUME UNCHANGED <<day, date>>,
         archive' \in Sounds, ledger' \in Sounds,
         \A w \in Workers : saved'[w] \in Sounds /\ base'[w] \in Goods
  PROVE  Honest'
<1>1. \A h : (Good(h) <=> Good(h)') /\ (Recent(h) <=> Recent(h)')
  BY DEF Good, Covers, Recent
<1>2. Sounds' = Sounds /\ Goods' = Goods
  BY <1>1 DEF Sounds, Goods
<1> QED BY <1>2 DEF Honest

LEMMA StepHonest ==
  ASSUME TypeOK, Honest, [Next]_vars
  PROVE  Honest'
<1> USE SoundIsGood DEF Honest
<1>1. ASSUME NEW w \in Workers, Begin(w) PROVE Honest'
  BY <1>1, HonestAgain DEF Begin, BeginWith, files, memory
<1>2. ASSUME NEW w \in Workers, RestorePrivate(w) PROVE Honest'
  <2>1. _merged(ledger, saved[w]) \in Sounds
    BY MergedSound
  <2>2. /\ saved' = [saved EXCEPT ![w] = _merged(ledger, saved[w])]
        /\ UNCHANGED <<day, date, files, base>>
    BY <1>2 DEF RestorePrivate
  <2> QED BY <2>1, <2>2, HonestAgain DEF files, TypeOK
<1>3. ASSUME NEW w \in Workers, RestoreArchive(w) PROVE Honest'
  <2>1. _merged(archive, saved[w]) \in Sounds
    BY MergedSound
  <2>2. /\ saved' = [saved EXCEPT ![w] = _merged(archive, saved[w])]
        /\ UNCHANGED <<day, date, files, base>>
    BY <1>3 DEF RestoreArchive
  <2> QED BY <2>1, <2>2, HonestAgain DEF files, TypeOK
<1>4. ASSUME NEW w \in Workers, Fetch(w) PROVE Honest'
  <2>1. PICK t \in {day, day - 1} : saved' = [saved EXCEPT ![w] = Fetched(saved[w], t)]
    BY <1>4 DEF Fetch
  <2>2. Fetched(saved[w], t) \in Sounds
    BY FetchedSound
  <2>3. UNCHANGED <<day, date, files, base>>
    BY <1>4 DEF Fetch
  <2> QED BY <2>1, <2>2, <2>3, HonestAgain DEF files, TypeOK
<1>5. ASSUME NEW w \in Workers,
             ReadArchive(w) \/ ReadLedger(w) \/ ArchiveConflict(w) \/ LedgerConflict(w)
      PROVE  Honest'
  <2>1. \/ base' = [base EXCEPT ![w] = archive]
        \/ base' = [base EXCEPT ![w] = ledger]
    BY <1>5 DEF ReadArchive, ReadLedger, ArchiveConflict, LedgerConflict
  <2>2. UNCHANGED <<day, date, files, saved>>
    BY <1>5 DEF ReadArchive, ReadLedger, ArchiveConflict, LedgerConflict, memory
  <2> QED BY <2>1, <2>2, HonestAgain DEF files, TypeOK
<1>6. ASSUME NEW w \in Workers, PutArchive(w) PROVE Honest'
  <2> DEFINE m == _merged(base[w], saved[w])
  <2>1. /\ archive = base[w] \/ m = base[w]
        /\ archive' \in {archive, m} /\ saved' = [saved EXCEPT ![w] = m]
        /\ UNCHANGED <<day, date, ledger, base>>
        /\ saved[w] # None
    BY <1>6 DEF PutArchive, TypeOK
  <2>2. m \in Sounds
    BY <2>1, MergedSound, AbsorbingSound
  <2> QED BY <2>1, <2>2, HonestAgain DEF TypeOK
<1>7. ASSUME NEW w \in Workers, PutArchiveUnconfirmed(w) PROVE Honest'
  <2>1. _merged(base[w], saved[w]) \in Sounds
    BY <1>7, MergedSound DEF PutArchiveUnconfirmed
  <2> QED BY <1>7, <2>1, HonestAgain DEF PutArchiveUnconfirmed, memory
<1>8. ASSUME NEW w \in Workers, PutLedger(w) PROVE Honest'
  <2> DEFINE m == _merged(base[w], saved[w])
  <2>1. /\ ledger = base[w] \/ m = base[w]
        /\ ledger' \in {ledger, m}
        /\ UNCHANGED <<day, date, archive, saved, base>>
        /\ saved[w] # None
    BY <1>8 DEF PutLedger, memory, TypeOK
  <2>2. m \in Sounds
    BY <2>1, MergedSound, AbsorbingSound
  <2> QED BY <2>1, <2>2, HonestAgain
<1>9. ASSUME NEW w \in Workers, WriteText(w) PROVE Honest'
  BY <1>9, HonestAgain DEF WriteText, Over, TypeOK
<1>10. ASSUME NEW w \in Workers, End(w) PROVE Honest'
  <2>1. ledger = base[w] => _merged(base[w], saved[w]) \in Sounds
    BY MergedSound
  <2> QED BY <1>10, <2>1, HonestAgain DEF End, Over, memory, TypeOK
<1>11. ASSUME NEW w \in Workers, Restart(w) PROVE Honest'
  BY <1>11, HonestAgain DEF Restart, Over, files, TypeOK
<1>12. ASSUME NEW x \in Txs, Post(x) PROVE Honest'
  <2>1. PICK d \in day - Lateness .. day : d \in Days /\ date' = [date EXCEPT ![x] = d]
    BY <1>12 DEF Post
  <2>2. UNCHANGED <<day, files, memory, base>>
    BY <1>12 DEF Post
  <2>3. ASSUME NEW h \in History, Good(h) PROVE Good(h)'
    <3>1. h.through \in Int /\ h.through <= day
      BY <2>3, HistoryType DEF Good
    <3>2. ASSUME NEW y \in Txs, date'[y] # None, h.from <= date'[y], date'[y] + Lateness < h.through
          PROVE  y \in h.rows
      <4>1. y # x
        BY <2>1, <3>1, <3>2, DateType DEF TypeOK
      <4> QED BY <2>1, <2>3, <3>2, <4>1 DEF Good, Covers, TypeOK
    <3> QED BY <2>2, <2>3, <3>2 DEF Good, Covers
  <2>4. Sounds \subseteq Sounds' /\ Goods \subseteq Goods'
    BY <2>2, <2>3 DEF Sounds, Goods, Recent
  <2> QED BY <2>2, <2>4 DEF files, memory
<1>13. CASE Tick
  <2>1. day' = day + 1 /\ UNCHANGED <<date, files, memory, base>>
    BY <1>13 DEF Tick
  <2>2. ASSUME NEW h \in History, Good(h) PROVE Good(h)'
    <3>1. Covers(h)'
      BY <2>1, <2>2 DEF Good, Covers
    <3> QED BY <2>1, <2>2, <3>1, HistoryType, DateType DEF Good
  <2>3. Goods \subseteq Goods'
    BY <2>2 DEF Goods
  <2>4. ASSUME NEW h \in Sounds, h = None \/ day + 1 - h.through <= HistoryDays - Lateness
        PROVE  h \in Sounds'
    <3>1. CASE h = None
      BY <3>1 DEF Sounds
    <3>2. CASE h # None
      <4>1. h \in History /\ Good(h) /\ day + 1 - h.through <= HistoryDays - Lateness
        BY <2>4, <3>2 DEF Sounds
      <4>2. Recent(h)'
        BY <2>1, <4>1, DateType, HistoryType DEF Recent
      <4> QED BY <2>2, <4>1, <4>2 DEF Sounds
    <3> QED BY <3>1, <3>2
  <2>5. \A h \in Histories : day + 1 - h.through <= HistoryDays - Lateness
    BY <1>13 DEF Tick
  <2>6. archive \in Sounds' /\ ledger \in Sounds' /\ \A w \in Workers : saved[w] \in Sounds'
    BY <2>4, <2>5 DEF Histories
  <2> QED BY <2>1, <2>3, <2>6 DEF files, memory
<1>14. CASE UNCHANGED vars
  BY <1>14, HonestAgain DEF vars, files, memory
<1> QED
  BY <1>1, <1>2, <1>3, <1>4, <1>5, <1>6, <1>7, <1>8, <1>9, <1>10, <1>11, <1>12, <1>13, <1>14
  DEF Next

-----------------------------------------------------------------------------
(* What the memory of a process has in the files                           *)

\* Rows that the file has.
In(rows, file) == file # None /\ rows \subseteq file.rows

Kept ==
  /\ \A w \in Workers :
       /\ saved[w] # None /\ ~ archive_loaded[w] => archive_dirty[w]
       /\ pc[w] = "put" => archive_loaded[w] /\ (base[w] # None => In(base[w].rows, archive))
       /\ saved[w] # None /\ archive_loaded[w] /\ ~ archive_dirty[w] => In(saved[w].rows, archive)
       /\ pc[w] = "ledger" /\ base[w] # None => In(base[w].rows, ledger)
       /\ pc[w] = "text" => In(_merged(base[w], saved[w]).rows, ledger)
       /\ digest[w] # None => In(digest[w], ledger)
  /\ text # {} => In(text, ledger)
  /\ ledger # None => \E w \in Workers : digest[w] = None \/ digest[w] \subseteq text

LEMMA InitKept == Init => Kept
BY DEF Init, Kept

LEMMA InGrows ==
  ASSUME TypeOK, [Next]_vars
  PROVE  /\ \A X : In(X, archive) => In(X, archive')
         /\ \A X : In(X, ledger) => In(X, ledger')
BY FilesGrow DEF In, Extends

LEMMA MergedRows ==
  ASSUME TypeOK, NEW w \in Workers, saved[w] # None
  PROVE  LET m == _merged(base[w], saved[w])
         IN  /\ m # None /\ saved[w].rows \subseteq m.rows
             /\ base[w] # None => base[w].rows \subseteq m.rows
<1>1. base[w] \in MaybeHistory /\ saved[w] \in MaybeHistory
  BY StateType
<1>2. /\ Extends(_merged(base[w], saved[w]), base[w])
      /\ Extends(_merged(base[w], saved[w]), saved[w])
  BY <1>1, MergedExtends
<1> QED BY <1>2 DEF Extends

\* Of each conjunct: the steps that could break it, and the others.
LEMMA StepKept ==
  ASSUME TypeOK, Kept, [Next]_vars
  PROVE  Kept'
<1> USE InGrows DEF Kept
<1>1. ASSUME NEW w \in Workers, Begin(w) PROVE Kept'
  <2>1. \A v \in Workers : pc'[v] \in {"put", "ledger", "text"} => pc'[v] = pc[v]
    BY <1>1 DEF Begin, BeginWith, Goto, TypeOK
  <2> QED BY <1>1, <2>1 DEF Begin, files, memory
<1>2. ASSUME NEW w \in Workers, RestorePrivate(w) PROVE Kept'
  <2>1. /\ pc[w] = "idle" /\ pc' = [pc EXCEPT ![w] = "begun"]
        /\ saved' = [saved EXCEPT ![w] = _merged(ledger, saved[w])]
        /\ archive_dirty' = [archive_dirty EXCEPT ![w] = archive_dirty[w] \/ ledger # None]
        /\ UNCHANGED <<files, archive_loaded, digest, base>>
    BY <1>2 DEF RestorePrivate, BeginWith, Goto
  <2>2. ledger = None => _merged(ledger, saved[w]) = saved[w]
    BY DEF _merged
  <2>3. \A v \in Workers : v # w => /\ saved'[v] = saved[v] /\ pc'[v] = pc[v]
                                    /\ archive_dirty'[v] = archive_dirty[v]
    BY <2>1 DEF TypeOK
  <2>4. /\ pc'[w] = "begun" /\ saved'[w] = _merged(ledger, saved[w])
        /\ archive_dirty'[w] = (archive_dirty[w] \/ ledger # None)
    BY <2>1 DEF TypeOK
  <2> QED BY <2>1, <2>2, <2>3, <2>4 DEF files
<1>3. ASSUME NEW w \in Workers, RestoreArchive(w) PROVE Kept'
  <2> DEFINE m == _merged(archive, saved[w])
  <2>1. /\ pc[w] = "begun" /\ ~ archive_loaded[w]
        /\ saved' = [saved EXCEPT ![w] = m]
        /\ archive_dirty' = [archive_dirty EXCEPT ![w] =
                               archive_dirty[w] \/ (archive = None /\ saved[w] # None)]
        /\ archive_loaded' = [archive_loaded EXCEPT ![w] = TRUE]
        /\ UNCHANGED <<files, digest, pc, base>>
    BY <1>3 DEF RestoreArchive, run
  <2>2. \A v \in Workers : v # w => /\ saved'[v] = saved[v]
                                    /\ archive_dirty'[v] = archive_dirty[v]
                                    /\ archive_loaded'[v] = archive_loaded[v]
    BY <2>1 DEF TypeOK
  <2>3. /\ saved'[w] = m /\ archive_loaded'[w]
        /\ archive_dirty'[w] = (archive_dirty[w] \/ (archive = None /\ saved[w] # None))
    BY <2>1 DEF TypeOK
  <2>4. ASSUME m # None, ~ archive_dirty'[w] PROVE In(m.rows, archive)
    <3>1. saved[w] = None
      BY <2>1, <2>3, <2>4
    <3>2. m = archive
      BY <3>1 DEF _merged
    <3> QED BY <2>4, <3>2 DEF In
  <2> QED BY <2>1, <2>2, <2>3, <2>4 DEF files
<1>4. ASSUME NEW w \in Workers, Fetch(w) PROVE Kept'
  <2>1. /\ pc' = [pc EXCEPT ![w] = "fetched"]
        /\ \E s : saved' = [saved EXCEPT ![w] = s]
        /\ archive_dirty' = [archive_dirty EXCEPT ![w] = TRUE]
        /\ UNCHANGED <<files, archive_loaded, digest, base>>
    BY <1>4 DEF Fetch, Goto
  <2>2. \A v \in Workers : v # w => /\ saved'[v] = saved[v] /\ pc'[v] = pc[v]
                                    /\ archive_dirty'[v] = archive_dirty[v]
    BY <2>1 DEF TypeOK
  <2>3. pc'[w] = "fetched" /\ archive_dirty'[w]
    BY <2>1 DEF TypeOK
  <2> QED BY <2>1, <2>2, <2>3 DEF files
<1>5. ASSUME NEW w \in Workers, ReadArchive(w) PROVE Kept'
  <2>1. /\ archive_loaded[w]
        /\ pc' = [pc EXCEPT ![w] = "put"] /\ base' = [base EXCEPT ![w] = archive]
        /\ UNCHANGED <<files, memory>>
    BY <1>5 DEF ReadArchive, Eligible, Goto
  <2>2. \A v \in Workers : v # w => pc'[v] = pc[v] /\ base'[v] = base[v]
    BY <2>1 DEF TypeOK
  <2>3. pc'[w] = "put" /\ base'[w] = archive
    BY <2>1 DEF TypeOK
  <2> QED BY <2>1, <2>2, <2>3 DEF files, memory, In
<1>6. ASSUME NEW w \in Workers, PutArchive(w) PROVE Kept'
  <2> DEFINE m == _merged(base[w], saved[w])
  <2>1. /\ pc[w] = "put" /\ saved[w] # None
        /\ archive = base[w] \/ m = base[w]
        /\ archive' = IF m = base[w] THEN archive ELSE m
        /\ saved' = [saved EXCEPT ![w] = m]
        /\ archive_dirty' = [archive_dirty EXCEPT ![w] = FALSE]
        /\ pc' = [pc EXCEPT ![w] = "saved"]
        /\ UNCHANGED <<ledger, text, archive_loaded, digest, base>>
    BY <1>6 DEF PutArchive, Goto, TypeOK
  <2>2. \A v \in Workers : v # w => /\ saved'[v] = saved[v] /\ pc'[v] = pc[v]
                                    /\ archive_dirty'[v] = archive_dirty[v]
    BY <2>1 DEF TypeOK
  <2>3. pc'[w] = "saved" /\ saved'[w] = m /\ ~ archive_dirty'[w]
    BY <2>1 DEF TypeOK
  <2>4. In(m.rows, archive')
    BY <2>1, MergedRows DEF In
  <2>5. archive_loaded[w]
    BY <2>1
  <2> QED BY <2>1, <2>2, <2>3, <2>4, <2>5
<1>7. ASSUME NEW w \in Workers, PutArchiveUnconfirmed(w) PROVE Kept'
  <2>1. \A v \in Workers : pc'[v] \in {"put", "ledger", "text"} => pc'[v] = pc[v]
    BY <1>7 DEF PutArchiveUnconfirmed, Goto, TypeOK
  <2> QED BY <1>7, <2>1 DEF PutArchiveUnconfirmed, memory
<1>8. ASSUME NEW w \in Workers, ArchiveConflict(w) PROVE Kept'
  <2>1. /\ pc[w] = "put" /\ base' = [base EXCEPT ![w] = archive]
        /\ UNCHANGED <<files, memory, pc>>
    BY <1>8 DEF ArchiveConflict, run
  <2>2. base'[w] = archive /\ \A v \in Workers : v # w => base'[v] = base[v]
    BY <2>1 DEF TypeOK
  <2> QED BY <2>1, <2>2 DEF files, memory, In
<1>9. ASSUME NEW w \in Workers, ReadLedger(w) PROVE Kept'
  <2>1. /\ pc' = [pc EXCEPT ![w] = "ledger"] /\ base' = [base EXCEPT ![w] = ledger]
        /\ UNCHANGED <<files, memory>>
    BY <1>9 DEF ReadLedger, Goto
  <2>2. \A v \in Workers : v # w => pc'[v] = pc[v] /\ base'[v] = base[v]
    BY <2>1 DEF TypeOK
  <2>3. pc'[w] = "ledger" /\ base'[w] = ledger
    BY <2>1 DEF TypeOK
  <2> QED BY <2>1, <2>2, <2>3 DEF files, memory, In
<1>10. ASSUME NEW w \in Workers, PutLedger(w) PROVE Kept'
  <2> DEFINE m == _merged(base[w], saved[w])
  <2>1. /\ pc[w] = "ledger" /\ saved[w] # None
        /\ ledger = base[w] \/ m = base[w]
        /\ ledger' = IF m = base[w] THEN ledger ELSE m
        /\ pc' = [pc EXCEPT ![w] = "text"]
        /\ UNCHANGED <<archive, text, memory, base>>
    BY <1>10 DEF PutLedger, Goto, TypeOK
  <2>2. pc'[w] = "text" /\ \A v \in Workers : v # w => pc'[v] = pc[v]
    BY <2>1 DEF TypeOK
  <2>3. In(m.rows, ledger')
    BY <2>1, MergedRows DEF In
  <2>4. \E v \in Workers : digest[v] = None \/ digest[v] \subseteq text
    BY DEF In
  <2> QED BY <2>1, <2>2, <2>3, <2>4 DEF memory
<1>11. ASSUME NEW w \in Workers, LedgerConflict(w) PROVE Kept'
  <2>1. /\ pc[w] = "ledger" /\ base' = [base EXCEPT ![w] = ledger]
        /\ UNCHANGED <<files, memory, pc>>
    BY <1>11 DEF LedgerConflict, run
  <2>2. base'[w] = ledger /\ \A v \in Workers : v # w => base'[v] = base[v]
    BY <2>1 DEF TypeOK
  <2> QED BY <2>1, <2>2 DEF files, memory, In
<1>12. ASSUME NEW w \in Workers, WriteText(w) PROVE Kept'
  <2> DEFINE m == _merged(base[w], saved[w])
  <2>1. /\ pc[w] = "text" /\ saved[w] # None
        /\ text' = m.rows /\ digest' = [digest EXCEPT ![w] = saved[w].rows]
        /\ Over(w)
        /\ UNCHANGED <<archive, ledger, saved, archive_loaded, archive_dirty>>
    BY <1>12 DEF WriteText, TypeOK
  <2>2. /\ \A v \in Workers : v # w =>
             /\ digest'[v] = digest[v] /\ pc'[v] = pc[v] /\ base'[v] = base[v]
        /\ digest'[w] = saved[w].rows /\ pc'[w] = "idle"
    BY <2>1 DEF Over, Goto, TypeOK
  <2>3. In(m.rows, ledger) /\ saved[w].rows \subseteq m.rows
    BY <2>1, MergedRows
  <2>4. In(saved[w].rows, ledger)
    BY <2>3 DEF In
  <2> QED BY <2>1, <2>2, <2>3, <2>4
<1>13. ASSUME NEW w \in Workers, End(w) PROVE Kept'
  <2>1. \A v \in Workers : pc'[v] \in {"put", "ledger", "text"} =>
          pc'[v] = pc[v] /\ base'[v] = base[v]
    BY <1>13 DEF End, Over, Goto, TypeOK
  <2>2. UNCHANGED <<archive, text, memory>>
    BY <1>13 DEF End
  <2>3. \E v \in Workers : digest[v] = None \/ digest[v] \subseteq text
    BY DEF In
  <2> QED BY <2>1, <2>2, <2>3 DEF memory
<1>14. ASSUME NEW w \in Workers, Restart(w) PROVE Kept'
  <2>1. /\ \A v \in Workers : v # w =>
             /\ saved'[v] = saved[v] /\ digest'[v] = digest[v] /\ pc'[v] = pc[v]
             /\ base'[v] = base[v] /\ archive_loaded'[v] = archive_loaded[v]
             /\ archive_dirty'[v] = archive_dirty[v]
        /\ saved'[w] = None /\ digest'[w] = None /\ pc'[w] = "idle"
        /\ UNCHANGED files
    BY <1>14 DEF Restart, Over, Goto, TypeOK
  <2> QED BY <2>1 DEF files
<1>15. CASE (\E x \in Txs : Post(x)) \/ Tick \/ UNCHANGED vars
  BY <1>15 DEF Post, Tick, vars, files, memory, run
<1> QED
  BY <1>1, <1>2, <1>3, <1>4, <1>5, <1>6, <1>7, <1>8, <1>9, <1>10, <1>11, <1>12, <1>13,
     <1>14, <1>15 DEF Next

-----------------------------------------------------------------------------
(* The theorems                                                            *)

Inv == TypeOK /\ Honest /\ Kept

LEMMA Invariant == Spec => []Inv
<1>1. Init => Inv
  BY InitType, InitHonest, InitKept DEF Inv
<1>2. Inv /\ [Next]_vars => Inv'
  BY StepType, StepHonest, StepKept DEF Inv
<1> QED BY <1>1, <1>2, PTL DEF Spec

\* A sync that has got to a store has something to save there.
THEOREM TypeCorrect == Spec => []TypeOK
<1>1. Inv => TypeOK
  BY DEF Inv
<1> QED BY Invariant, <1>1, PTL

\* As the two stores are only replaced by a writer that has read them, and with
\* the merge of both, no sync takes anything from them.
THEOREM StoresGrow == Spec => NothingForgotten
<1>1. Inv /\ [Next]_vars => [Extends(archive', archive) /\ Extends(ledger', ledger)]_vars
  BY FilesGrow DEF Inv
<1> QED BY Invariant, <1>1, PTL DEF Spec, NothingForgotten

\* The overlap of _sync_history and the merges leave no gap in what a history
\* says it covers.
THEOREM NoGaps == Spec => []CoverageIsHonest
<1>1. Inv => CoverageIsHonest
  BY DEF Inv, Honest, Sounds, Good, Histories, CoverageIsHonest
<1> QED BY Invariant, <1>1, PTL

\* A process that has nothing to save has nothing to lose: archive_dirty and the
\* digest of the blotter are only reset by a save.
THEOREM CleanSaved == Spec => []CleanIsSaved
<1>1. Inv => CleanIsSaved
  <2> SUFFICES ASSUME Inv, NEW w \in Workers, saved[w] # None
               PROVE  /\ archive_loaded[w] /\ ~ archive_dirty[w] =>
                           archive # None /\ saved[w].rows \subseteq archive.rows
                      /\ digest[w] = saved[w].rows =>
                           ledger # None /\ saved[w].rows \subseteq ledger.rows
    BY DEF CleanIsSaved
  <2>1. saved[w].rows # None
    BY NoneAssumption, HistoryType DEF Inv, TypeOK
  <2> QED BY <2>1 DEF Inv, Kept, In
<1> QED BY Invariant, <1>1, PTL

\* Because the digest is taken after the readable copy is written, a copy that
\* lacks something is written again.
THEOREM CopyIsWhole == Spec => []TextIsWhole
<1>1. Inv => TextIsWhole
  <2> SUFFICES ASSUME Inv, ledger # None, \A w \in Workers : digest[w] = ledger.rows
               PROVE  text = ledger.rows
    BY DEF TextIsWhole
  <2>1. ledger.rows # None
    BY NoneAssumption, HistoryType DEF Inv, TypeOK
  <2>2. ledger.rows \subseteq text
    BY <2>1 DEF Inv, Kept
  <2>3. text \subseteq ledger.rows
    BY DEF Inv, Kept, In
  <2> QED BY <2>2, <2>3
<1> QED BY Invariant, <1>1, PTL
=============================================================================
