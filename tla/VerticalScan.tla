----------------------------- MODULE VerticalScan -----------------------------
(***************************************************************************)
(* The scan of Vertical Options (src/vertical_options_ui.py) and the store *)
(* of its results (src/vertical_options_store.py).  A scan lists the       *)
(* expirations of one ticker, loads their chains in batches and ranks the  *)
(* chains that were loaded in passes of a few seconds; every pass is a run *)
(* that a click may end.  Tabs of one account share what the last pass     *)
(* left and the store, and exports read the store in threads of their own. *)
(* A store has one lock for its writers and exports; other readers do      *)
(* without.  A write is committed to the database first, and then the      *)
(* metadata in memory follows.                                             *)
(*                                                                         *)
(* One snapshot of one ticker is modelled, in the five minutes it can be   *)
(* continued in: another scan has its own store.  Each chain has at most   *)
(* one qualifying pair.                                                    *)
(***************************************************************************)
EXTENDS Naturals, FiniteSets

CONSTANTS
  Tabs,
  Export,     \* the thread of a download
  Last,       \* expirations are numbered 1 .. Last, by date
  Quoted,     \* expirations whose chain has contracts
  Qualified,  \* expirations whose chain has a pair that qualifies
  Year,       \* Year[e]: the year of expiration e
  Rank,       \* Rank[e]: the place of its pair among all pairs
  Batch,      \* _SCAN_BATCH_EXPIRATIONS
  None,
  MaxCuts,    \* bound: runs ended by a click
  MaxCutoff   \* bound: the last cutoff

Expirations == 1 .. Last
Years == {Year[e] : e \in Expirations}
Raw == [listed : SUBSET Expirations, next : 0 .. Last, rows : SUBSET Quoted,
        failed : SUBSET Expirations, bad : 0 .. 2]
Result == [complete : BOOLEAN, failed : SUBSET Expirations, stopped : BOOLEAN]

ASSUME ScanAssumption ==
  /\ Last \in Nat /\ Batch \in Nat \ {0} /\ {MaxCuts, MaxCutoff} \subseteq Nat
  /\ Qualified \subseteq Quoted /\ Quoted \subseteq Expirations
  /\ Year \in [Expirations -> Nat] /\ Rank \in [Expirations -> Nat]
  /\ \A e, f \in Expirations : Rank[e] = Rank[f] => e = f
  /\ Export \notin Tabs /\ None \notin Tabs \cup {Export} \cup Nat \cup Raw

VARIABLES
  cutoff,     \* _minimum_expiry_date(): the first expiration that is eligible
  spreads,    \* the table of the store: expirations whose pair is in it
  count, completed, annual, minimum, choices,   \* _count, _completed, ...
  lock,       \* who holds the lock of the store, or None
  asked,      \* asked[p]: the cutoff that p has called prune_before with, or 0
  pc,         \* pc[p]: the step of the run of a tab, or of the export
  raw,        \* raw[t]: what the passes of tab t have loaded (_vo_chain_cache), or None
  batch,      \* batch[t]: what the pass under way has loaded, or None
  todo,       \* todo[t]: chains the pass has not ranked yet
  twice,      \* history: expirations whose chain two tabs have loaded
  result,     \* result[t]: vo_scan_result, or None
  halted,     \* tabs with an error that stops the timer (_vo_auto_scan_error)
  memory,     \* _scan_memory: the raw and the result that were remembered last, or None
  found,      \* found[t]: the choices tab t has read and not cached yet
  marks,      \* the annual markers the export has read
  exported,   \* rows and markers of the last download, or None
  cuts

metadata == <<count, completed, annual, minimum, choices>>
store == <<spreads, metadata, lock, asked>>
scan == <<raw, batch, todo, twice, result, halted, memory>>
download == <<marks, exported>>
vars == <<cutoff, store, pc, scan, found, download, cuts>>

TypeOK ==
  /\ cutoff \in 1 .. MaxCutoff + 1
  /\ spreads \subseteq Qualified
  /\ count \in 0 .. Last
  /\ completed \subseteq Quoted
  /\ annual \in [Years -> Expirations \cup {None}]
  /\ minimum \in 0 .. MaxCutoff + 1
  /\ choices \in {None} \cup SUBSET Expirations
  /\ lock \in Tabs \cup {Export, None}
  /\ asked \in [Tabs \cup {Export} -> 0 .. MaxCutoff + 1]
  /\ pc \in [Tabs \cup {Export} ->
               {"idle", "load", "rank", "pruned", "add", "added", "show", "shown", "look",
                "cache", "marks"}]
  /\ raw \in [Tabs -> Raw \cup {None}]
  /\ batch \in [Tabs -> Raw \cup {None}]
  /\ todo \in [Tabs -> SUBSET Quoted]
  /\ twice \subseteq Quoted
  /\ result \in [Tabs -> Result \cup {None}]
  /\ halted \subseteq Tabs
  /\ memory \in [raw : Raw, result : Result] \cup {None}
  /\ found \in [Tabs -> SUBSET Expirations]
  /\ marks \subseteq Expirations
  /\ exported \in [rows : SUBSET Expirations, marks : SUBSET Expirations,
                   since : 0 .. MaxCutoff + 1, until : 1 .. MaxCutoff + 1] \cup {None}
  /\ cuts \in 0 .. MaxCuts
  /\ \A t \in Tabs : pc[t] = "load" => batch[t] # None
  /\ \A t \in Tabs : pc[t] \in {"rank", "pruned", "add", "added"} => raw[t] # None

Init ==
  /\ cutoff = 1
  /\ spreads = {} /\ count = 0 /\ completed = {}
  /\ annual = [y \in Years |-> None]
  /\ minimum = 0 /\ choices = None /\ lock = None
  /\ asked = [p \in Tabs \cup {Export} |-> 0]
  /\ pc = [p \in Tabs \cup {Export} |-> "idle"]
  /\ raw = [t \in Tabs |-> None] /\ batch = [t \in Tabs |-> None]
  /\ todo = [t \in Tabs |-> {}] /\ result = [t \in Tabs |-> None]
  /\ halted = {} /\ twice = {}
  /\ memory = None
  /\ found = [t \in Tabs |-> {}]
  /\ marks = {} /\ exported = None
  /\ cuts = 0

-----------------------------------------------------------------------------
(* Helpers                                                                 *)

Eligible(X) == {e \in X : e >= cutoff}
Place(e, X) == Cardinality({f \in X : f <= e})
Least(X) == CHOOSE e \in X : \A f \in X : e <= f

\* The best pair of a year among those of the expirations X.
BestOf(X, y) ==
  LET pairs == {e \in X : Year[e] = y}
  IN  IF pairs = {} THEN None ELSE CHOOSE e \in pairs : \A f \in pairs : Rank[e] <= Rank[f]

Goto(p, at) == pc' = [pc EXCEPT ![p] = at]

\* A retained snapshot, without the expirations that are not eligible any more.
FilteredListOnly(r) ==    \* mutant: the index stays that of the longer list
  [r EXCEPT !.listed = Eligible(@), !.rows = Eligible(@), !.failed = Eligible(@)]
Filtered(r) ==
  [listed |-> Eligible(r.listed),
   next |-> Cardinality({e \in Eligible(r.listed) : Place(e, r.listed) <= r.next}),
   rows |-> Eligible(r.rows),
   failed |-> Eligible(r.failed),
   bad |-> r.bad]
ChainsComplete(r) == r.next >= Cardinality(r.listed)

-----------------------------------------------------------------------------
(* Loading (_scan_all_years)                                               *)

\* SCAN ALL YEARS.
Scan(t) ==
  /\ memory = None /\ \A u \in Tabs : raw[u] = None /\ pc[u] = "idle"
  /\ Eligible(Expirations) # {}
  /\ batch' = [batch EXCEPT ![t] = [listed |-> Eligible(Expirations), next |-> 0, rows |-> {},
                                    failed |-> {}, bad |-> 0]]
  /\ Goto(t, "load")
  /\ UNCHANGED <<cutoff, store, raw, todo, twice, result, halted, memory, found, download, cuts>>

\* The next pass, of the timer or of CONTINUE ALL YEARS: what is left to load, or
\* else to rank.
Continue(t) ==
  /\ pc[t] = "idle" /\ raw[t] # None
  /\ result[t] # None => ~ result[t].complete
  /\ LET r == Filtered(raw[t])
     IN  /\ r.listed # {}
         /\ raw' = [raw EXCEPT ![t] = r]
         /\ halted' = halted \ {t}
         /\ IF ChainsComplete(r)
            THEN Goto(t, "rank") /\ UNCHANGED batch
            ELSE Goto(t, "load") /\ batch' = [batch EXCEPT ![t] = [r EXCEPT !.bad = 0]]
  /\ UNCHANGED <<cutoff, store, todo, twice, result, memory, found, download, cuts>>

\* A pass stops after two failures in a row, a number of expirations, or a time.
Start(t) == IF raw[t] = None THEN 0 ELSE raw[t].next
MayLoad(t) ==
  /\ ~ ChainsComplete(batch[t]) /\ batch[t].bad < 2
  /\ batch[t].next - Start(t) < Batch

\* Two tabs that continue the same snapshot load a chain twice; it may have changed.
Has(snapshot, e) == snapshot # None /\ e \in snapshot.rows
Again(e) == {f \in {e} \cap Quoted : \E t \in Tabs : Has(raw[t], f) \/ Has(batch[t], f)}

Load(t) ==
  /\ pc[t] = "load" /\ MayLoad(t)
  /\ \E e \in batch[t].listed :
       /\ Place(e, batch[t].listed) = batch[t].next + 1
       /\ \/ /\ batch' = [batch EXCEPT ![t].next = @ + 1, ![t].bad = 0,
                                       ![t].rows = @ \cup ({e} \cap Quoted)]
             /\ twice' = twice \cup Again(e)
          \/ /\ batch' = [batch EXCEPT ![t].next = @ + 1, ![t].bad = @ + 1,
                                       ![t].failed = @ \cup {e}]
             /\ UNCHANGED twice
  /\ UNCHANGED <<cutoff, store, pc, raw, todo, result, halted, memory, found, download, cuts>>

\* The pass is over, and is kept.  Without any contract there is nothing to rank.
LoadedFromStart(t) ==    \* mutant: the next pass begins again
  /\ pc[t] = "load" /\ batch[t].next > Start(t)
  /\ raw' = [raw EXCEPT ![t] = [batch[t] EXCEPT !.next = Start(t)]]
  /\ batch' = [batch EXCEPT ![t] = None]
  /\ IF batch[t].rows = {} /\ (ChainsComplete(batch[t]) \/ batch[t].bad = 2)
     THEN Goto(t, "idle") /\ halted' = halted \cup {t}
     ELSE Goto(t, "rank") /\ UNCHANGED halted
  /\ UNCHANGED <<cutoff, store, todo, twice, result, memory, found, download, cuts>>
Loaded(t) ==
  /\ pc[t] = "load" /\ batch[t].next > Start(t)
  /\ raw' = [raw EXCEPT ![t] = batch[t]]
  /\ batch' = [batch EXCEPT ![t] = None]
  /\ IF batch[t].rows = {} /\ (ChainsComplete(batch[t]) \/ batch[t].bad = 2)
     THEN Goto(t, "idle") /\ halted' = halted \cup {t}
     ELSE Goto(t, "rank") /\ UNCHANGED halted
  /\ UNCHANGED <<cutoff, store, todo, twice, result, memory, found, download, cuts>>

-----------------------------------------------------------------------------
(* The store.  An operation of its writers is a commit, under the lock,    *)
(* and the metadata that follow before the lock is released.               *)

\* prune_before(c) has nothing to do.
Current(c) == minimum # 0 /\ c <= minimum

\* It commits the rows that stay ...
PruneRows(c) == spreads' = {e \in spreads : e >= c}

\* ... and then what is known of them.
PruneMetadata(c) ==
  /\ count' = Cardinality(spreads)
  /\ completed' = {e \in completed : e >= c}
  /\ annual' = [y \in Years |-> BestOf(spreads, y)]
  /\ minimum' = c
  /\ choices' = None

Ask(p, c) == asked' = [asked EXCEPT ![p] = c]

\* prune_before in the run of tab t, from one of its steps to the next.  The cutoff is
\* an argument: it is of the moment of the call, and the lock is waited for after it.
Prunes(t, from, to) ==
  /\ pc[t] = from
  /\ \/ /\ asked[t] = 0
        /\ Ask(t, cutoff)
        /\ UNCHANGED <<spreads, metadata, lock, pc>>
     \/ /\ asked[t] # 0 /\ lock = None
        /\ IF Current(asked[t])
           THEN Goto(t, to) /\ Ask(t, 0) /\ UNCHANGED <<spreads, lock>>
           ELSE PruneRows(asked[t]) /\ lock' = t /\ UNCHANGED <<pc, asked>>
        /\ UNCHANGED metadata
     \/ /\ lock = t
        /\ PruneMetadata(asked[t])
        /\ lock' = None
        /\ Goto(t, to) /\ Ask(t, 0)
        /\ UNCHANGED spreads

\* add_expiration leaves out what is pruned or done.
RefusesDoneOnly(e) == e \in completed    \* mutant: a pruned expiration comes back
Refuses(e) == e < minimum \/ e \in completed

\* It refuses, with an error, a chain that is done but had another number of contracts.
Changed(e) == e >= minimum /\ e \in completed \cap twice

-----------------------------------------------------------------------------
(* Ranking (_rank_cached_vertical_chains)                                  *)

PruneFirst(t) ==
  /\ Prunes(t, "rank", "pruned")
  /\ UNCHANGED <<cutoff, scan, found, download, cuts>>

Group(t) ==
  /\ pc[t] = "pruned"
  /\ todo' = [todo EXCEPT ![t] = Eligible(raw[t].rows)]
  /\ Goto(t, "add")
  /\ UNCHANGED <<cutoff, store, raw, batch, twice, result, halted, memory, found, download, cuts>>

\* The pairs of the next chain are committed.  An error ends the pass.
Add(t) ==
  /\ pc[t] = "add" /\ todo[t] # {} /\ lock = None
  /\ LET e == Least(todo[t])
     IN  \/ /\ Refuses(e)
           /\ todo' = [todo EXCEPT ![t] = @ \ {e}]
           /\ UNCHANGED <<spreads, lock, pc, halted>>
        \/ /\ Changed(e)
           /\ todo' = [todo EXCEPT ![t] = {}] /\ halted' = halted \cup {t}
           /\ Goto(t, "idle")
           /\ UNCHANGED <<spreads, lock>>
        \/ /\ ~ Refuses(e)
           /\ spreads' = spreads \cup ({e} \cap Qualified)
           /\ lock' = t
           /\ Goto(t, "added")
           /\ UNCHANGED <<todo, halted>>
  /\ UNCHANGED <<cutoff, metadata, asked, raw, batch, twice, result, memory, found, download, cuts>>

\* The metadata follow; after some seconds the rest is left to the next pass.
Added(t) ==
  /\ pc[t] = "added"
  /\ LET e == Least(todo[t])
         y == Year[e]
     IN  /\ count' = count + Cardinality({e} \cap Qualified)
         /\ completed' = completed \cup {e}
         /\ annual' = IF e \in Qualified /\ (annual[y] = None \/ Rank[e] < Rank[annual[y]])
                      THEN [annual EXCEPT ![y] = e] ELSE annual
         /\ \/ todo' = [todo EXCEPT ![t] = @ \ {e}]
            \/ todo' = [todo EXCEPT ![t] = {}]
  /\ choices' = None
  /\ lock' = None
  /\ Goto(t, "add")
  /\ UNCHANGED <<cutoff, spreads, minimum, asked, raw, batch, twice, result, halted, memory,
                 found, download, cuts>>

\* scan_complete counts the chains that are ranked and those that were loaded.
AllRanked(t) == ChainsComplete(raw[t]) /\ Cardinality(completed) = Cardinality(raw[t].rows)

\* The result of the pass, which is remembered for other tabs.
Finish(t) ==
  /\ pc[t] = "add" /\ todo[t] = {}
  /\ result' = [result EXCEPT ![t] = [complete |-> AllRanked(t), failed |-> raw[t].failed,
                                      stopped |-> raw[t].bad = 2]]
  /\ memory' = [raw |-> raw[t], result |-> result'[t]]
  /\ Goto(t, "idle")
  /\ UNCHANGED <<cutoff, store, raw, batch, todo, twice, halted, found, download, cuts>>

-----------------------------------------------------------------------------
(* Showing and exporting the results                                       *)

Shown(t) == result[t] # None /\ result[t].complete /\ result[t].failed = {}

Show(t) ==
  /\ pc[t] = "idle" /\ Shown(t)
  /\ Goto(t, "show")
  /\ UNCHANGED <<cutoff, store, scan, found, download, cuts>>

PruneShown(t) ==
  /\ Prunes(t, "show", "look")
  /\ UNCHANGED <<cutoff, scan, found, download, cuts>>

\* column_filter_choices, without the lock: what is not cached is read ...
Look(t) ==
  /\ pc[t] = "look"
  /\ IF choices = None
     THEN found' = [found EXCEPT ![t] = spreads] /\ Goto(t, "cache")
     ELSE Goto(t, "idle") /\ UNCHANGED found
  /\ UNCHANGED <<cutoff, store, scan, download, cuts>>

\* ... and cached.
Cache(t) ==
  /\ pc[t] = "cache"
  /\ choices' = found[t]
  /\ found' = [found EXCEPT ![t] = {}]
  /\ Goto(t, "idle")
  /\ UNCHANGED <<cutoff, spreads, count, completed, annual, minimum, lock, asked, scan,
                 download, cuts>>

\* A download of some tab's result (_qualified_store_csv): under the lock, prune,
\* the annual markers and then the rows.
StartExport ==
  /\ pc[Export] = "idle" /\ exported = None /\ lock = None
  /\ \E t \in Tabs : Shown(t)
  /\ Ask(Export, cutoff)
  /\ IF Current(cutoff) THEN UNCHANGED spreads ELSE PruneRows(cutoff)
  /\ lock' = Export
  /\ Goto(Export, "shown")
  /\ UNCHANGED <<cutoff, metadata, scan, found, download, cuts>>

ReadMarksFirst ==    \* mutant: the markers are read before the prune
  /\ pc[Export] = "shown"
  /\ marks' = {annual[y] : y \in Years} \ {None}
  /\ IF Current(asked[Export]) THEN UNCHANGED metadata ELSE PruneMetadata(asked[Export])
  /\ Goto(Export, "marks")
  /\ UNCHANGED <<cutoff, spreads, lock, asked, scan, found, exported, cuts>>
ReadMarks ==
  /\ pc[Export] = "shown"
  /\ IF Current(asked[Export]) THEN UNCHANGED metadata ELSE PruneMetadata(asked[Export])
  /\ Goto(Export, "marks")
  /\ marks' = {annual'[y] : y \in Years} \ {None}
  /\ UNCHANGED <<cutoff, spreads, lock, asked, scan, found, exported, cuts>>

\* The rows that are written are those of a cutoff of this moment; a marker is written
\* with its row.  since, until: what the store was pruned to, and the rows are of.
ReadRows ==
  /\ pc[Export] = "marks"
  /\ exported' = [rows |-> Eligible(spreads), marks |-> Eligible(marks),
                  since |-> minimum, until |-> cutoff]
  /\ marks' = {}
  /\ lock' = None
  /\ Ask(Export, 0)
  /\ Goto(Export, "idle")
  /\ UNCHANGED <<cutoff, spreads, metadata, scan, found, cuts>>

-----------------------------------------------------------------------------
(* The surroundings                                                        *)

\* A click ends the run, at one of its progress bars: what the pass has loaded is
\* lost, and a chain that is being ranked is rolled back.
Cut(t) ==
  /\ cuts < MaxCuts
  /\ pc[t] \in {"load", "add"}
  /\ cuts' = cuts + 1
  /\ batch' = [batch EXCEPT ![t] = None]
  /\ todo' = [todo EXCEPT ![t] = {}]
  /\ Goto(t, "idle")
  /\ UNCHANGED <<cutoff, store, raw, twice, result, halted, memory, found, download>>

\* A new tab has what is remembered.
Open(t) ==
  /\ pc[t] = "idle" /\ raw[t] = None /\ memory # None
  /\ raw' = [raw EXCEPT ![t] = memory.raw]
  /\ result' = [result EXCEPT ![t] = memory.result]
  /\ UNCHANGED <<cutoff, store, pc, batch, todo, twice, halted, memory, found, download, cuts>>

\* Midnight, at any moment.
Midnight ==
  /\ cutoff <= MaxCutoff
  /\ cutoff' = cutoff + 1
  /\ UNCHANGED <<store, pc, scan, found, download, cuts>>

Step(t) ==
  \/ Load(t) \/ Loaded(t) \/ PruneFirst(t) \/ Group(t) \/ Add(t) \/ Added(t) \/ Finish(t)
  \/ PruneShown(t) \/ Look(t) \/ Cache(t)

Next ==
  \/ \E t \in Tabs : Scan(t) \/ Continue(t) \/ Step(t) \/ Show(t) \/ Cut(t) \/ Open(t)
  \/ StartExport \/ ReadMarks \/ ReadRows
  \/ Midnight

\* The timer of an unfinished scan (AUTO FINISH SCAN).
Timer(t) == result[t] # None /\ ~ result[t].stopped /\ t \notin halted /\ Continue(t)

Spec == Init /\ [][Next]_vars
FairSpec ==
  Spec /\ \A t \in Tabs : WF_vars(Step(t)) /\ WF_vars(Timer(t))
       /\ WF_vars(ReadMarks) /\ WF_vars(ReadRows)

-----------------------------------------------------------------------------
(* Properties                                                              *)

\* Whatever passes, prunings and exports did, and wherever clicks ended them: with
\* the lock free, the count, the annual bests and the ranked expirations are those
\* of the rows in the database, and none of them is below the cutoff that was
\* pruned to last.
MetadataMatch ==
  lock = None =>
    /\ count = Cardinality(spreads)
    /\ spreads = completed \cap Qualified
    /\ annual = [y \in Years |-> BestOf(spreads, y)]
    /\ \A e \in completed : e >= minimum

\* Results are shown when all chains that are still eligible have been loaded and
\* ranked ("Results will appear after every expiration and spread calculation
\* finishes"), although only numbers of chains are compared.
CompleteIsWhole ==
  \A t \in Tabs : Shown(t) => {e \in Quoted : e >= minimum /\ e >= cutoff} \subseteq completed

\* A download has the eligible rows of one set, none of it below what the store was
\* pruned to, and the markers are the bests of that set.
OfOneSet(d) ==
  \E whole \in SUBSET {e \in Qualified : e >= d.since} :
    /\ d.rows = {e \in whole : e >= d.until}
    /\ d.marks = {BestOf(whole, y) : y \in Years} \cap d.rows

\* "Keep a deferred CSV's rows and annual markers in the same revision": whatever passes
\* and prunings of other tabs come between, every download is of one set of pairs.  A
\* midnight between prune and rows leaves out rows, and markers with them; without it
\* no row is left out, and every year with rows has its best marked.
OneRevision == exported # None => OfOneSet(exported)

\* The same, whatever midnight does: the best of every year of a download is marked.
EveryYearMarked ==
  exported # None => exported.marks = {BestOf(exported.rows, y) : y \in Years} \ {None}

\* A scan that is not stopped by failures is finished by its timer, unless none
\* of its expirations is left: every pass makes some progress.
Settled(t) ==
  \/ result[t] # None /\ (result[t].complete \/ result[t].stopped \/ result[t].failed # {})
  \/ t \in halted \/ Eligible(Expirations) = {}
AutoFinishes == \A t \in Tabs : result[t] # None ~> Settled(t)

\* Once written, the choices of the filters are those of all rows ("Return distinct
\* choices from every stored spread").
ChoicesAreCurrent == lock = None /\ choices # None => choices = spreads
=============================================================================
