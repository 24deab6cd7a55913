-------------------------- MODULE VerticalScan_proof --------------------------
(***************************************************************************)
(* Proofs about VerticalScan for any number of tabs, any list of           *)
(* expirations, and any ranks of their pairs.                              *)
(***************************************************************************)
EXTENDS VerticalScan, FiniteSetTheorems, WellFoundedInduction, TLAPS

-----------------------------------------------------------------------------
(* Numbers and best pairs                                                  *)

LEMMA SmallestNumber ==
  ASSUME NEW T, T \subseteq Nat, T # {}
  PROVE  \E x \in T : \A y \in T : x <= y
<1> DEFINE R == {ss \in Nat \X Nat : ss[1] < ss[2]}
<1>1. IsWellFoundedOn(R, Nat)
  BY NatLessThanWellFounded DEF OpToRel
<1>2. \E x \in T : \A y \in T : ~ (<<y, x>> \in R)
  <2> HIDE DEF R
  <2> QED BY <1>1, WFMin
<1>3. PICK x \in T : \A y \in T : ~ (<<y, x>> \in R)
  BY <1>2
<1>4. ASSUME NEW y \in T PROVE x <= y
  <2>1. ~ (y < x)
    BY <1>3
  <2> QED BY <2>1
<1> QED BY <1>4

LEMMA ExpirationsFinite ==
  \A X : X \subseteq Expirations =>
    IsFiniteSet(X) /\ Cardinality(X) \in Nat /\ Cardinality(X) <= Last
<1>1. IsFiniteSet(Expirations) /\ Cardinality(Expirations) = Last
  BY ScanAssumption, FS_Interval DEF Expirations
<1> QED BY <1>1, FS_Subset, FS_CardinalityType, ScanAssumption

LEMMA LeastIsIn ==
  ASSUME NEW X, X \subseteq Expirations, X # {}
  PROVE  Least(X) \in X
<1>1. X \subseteq Nat
  BY ScanAssumption DEF Expirations
<1>2. \E e \in X : \A f \in X : e <= f
  BY <1>1, SmallestNumber
<1> QED BY <1>2 DEF Least

Pairs(X, y) == {e \in X : Year[e] = y}

\* A set of pairs of one year has one best.
LEMMA BestIsIn ==
  ASSUME NEW X, X \subseteq Expirations, NEW y, Pairs(X, y) # {}
  PROVE  /\ BestOf(X, y) \in Pairs(X, y)
         /\ \A f \in Pairs(X, y) : Rank[BestOf(X, y)] <= Rank[f]
<1> DEFINE T == {Rank[e] : e \in Pairs(X, y)}
<1>1. T \subseteq Nat /\ T # {}
  BY ScanAssumption DEF Pairs
<1>2. PICK r \in T : \A s \in T : r <= s
  <2> HIDE DEF T
  <2> QED BY <1>1, SmallestNumber
<1>3. PICK e \in Pairs(X, y) : \A f \in Pairs(X, y) : Rank[e] <= Rank[f]
  BY <1>2
<1> QED BY <1>3 DEF BestOf, Pairs

LEMMA BestIsOnly ==
  ASSUME NEW X, X \subseteq Expirations, NEW y, NEW e \in Pairs(X, y),
         \A f \in Pairs(X, y) : Rank[e] <= Rank[f]
  PROVE  BestOf(X, y) = e
<1> DEFINE b == BestOf(X, y)
<1>1. b \in Pairs(X, y) /\ Rank[b] <= Rank[e] /\ Rank[e] <= Rank[b]
  BY BestIsIn
<1>2. b \in Expirations /\ e \in Expirations /\ Rank[b] \in Nat /\ Rank[e] \in Nat
  BY <1>1, ScanAssumption DEF Pairs
<1> QED BY <1>1, <1>2, ScanAssumption

LEMMA BestType ==
  ASSUME NEW X, X \subseteq Expirations, NEW y
  PROVE  /\ BestOf(X, y) \in X \cup {None}
         /\ BestOf(X, y) = None <=> Pairs(X, y) = {}
<1>1. None \notin Expirations
  BY ScanAssumption DEF Expirations
<1>2. CASE Pairs(X, y) = {}
  BY <1>2 DEF BestOf, Pairs
<1>3. CASE Pairs(X, y) # {}
  BY <1>1, <1>3, BestIsIn DEF Pairs
<1> QED BY <1>2, <1>3

Pick(P) == IF P = {} THEN None ELSE CHOOSE e \in P : \A f \in P : Rank[e] <= Rank[f]

LEMMA BestOfSame ==
  ASSUME NEW X, NEW Z, NEW y, Pairs(X, y) = Pairs(Z, y)
  PROVE  BestOf(X, y) = BestOf(Z, y)
<1>1. BestOf(X, y) = Pick(Pairs(X, y))
  BY DEF BestOf, Pairs, Pick
<1>2. BestOf(Z, y) = Pick(Pairs(Z, y))
  BY DEF BestOf, Pairs, Pick
<1> QED BY <1>1, <1>2

\* A pair that is added becomes the best of its year, or changes nothing.
LEMMA BestOfOneMore ==
  ASSUME NEW X, X \subseteq Expirations, NEW e \in Expirations, NEW y
  PROVE  BestOf(X \cup {e}, y) =
           IF Year[e] = y /\ (BestOf(X, y) = None \/ Rank[e] < Rank[BestOf(X, y)])
           THEN e ELSE BestOf(X, y)
<1> DEFINE Z == X \cup {e}
<1>0. Z \subseteq Expirations
  OBVIOUS
<1>1. CASE Year[e] # y
  <2>1. Pairs(Z, y) = Pairs(X, y)
    BY <1>1 DEF Pairs
  <2>2. BestOf(Z, y) = BestOf(X, y)
    BY <2>1, BestOfSame
  <2> QED BY <1>1, <2>2
<1>2. CASE Year[e] = y
  <2>1. Pairs(Z, y) = Pairs(X, y) \cup {e}
    BY <1>2 DEF Pairs
  <2>2. \A f \in Z : Rank[f] \in Nat
    BY <1>0, ScanAssumption
  <2>3. CASE BestOf(X, y) = None
    <3>1. Pairs(X, y) = {}
      BY <2>3, BestType
    <3>2. e \in Pairs(Z, y) /\ \A f \in Pairs(Z, y) : Rank[e] <= Rank[f]
      BY <2>1, <2>2, <3>1
    <3>3. BestOf(Z, y) = e
      BY <1>0, <3>2, BestIsOnly
    <3> QED BY <1>2, <2>3, <3>3
  <2>4. CASE BestOf(X, y) # None
    <3> DEFINE b == BestOf(X, y)
    <3>1. b \in Pairs(X, y) /\ \A f \in Pairs(X, y) : Rank[b] <= Rank[f]
      BY <2>4, BestType, BestIsIn
    <3>2. b \in Z /\ Rank[b] \in Nat
      BY <2>2, <3>1 DEF Pairs
    <3>3. \A f \in Pairs(X, y) : Rank[f] \in Nat
      BY <2>2 DEF Pairs
    <3>4. CASE Rank[e] < Rank[b]
      <4>1. \A f \in Pairs(Z, y) : Rank[e] <= Rank[f]
        BY <2>1, <2>2, <3>1, <3>2, <3>3, <3>4
      <4>2. BestOf(Z, y) = e
        BY <1>0, <2>1, <4>1, BestIsOnly
      <4> QED BY <1>2, <3>4, <4>2
    <3>5. CASE ~ (Rank[e] < Rank[b])
      <4>1. \A f \in Pairs(Z, y) : Rank[b] <= Rank[f]
        BY <2>1, <2>2, <3>1, <3>2, <3>3, <3>5
      <4>2. BestOf(Z, y) = b
        BY <1>0, <2>1, <3>1, <4>1, BestIsOnly
      <4> QED BY <2>4, <3>5, <4>2
    <3> QED BY <3>4, <3>5
  <2> QED BY <2>3, <2>4
<1> QED BY <1>1, <1>2

-----------------------------------------------------------------------------
(* The invariant.  The metadata are always those of the ranked pairs, the  *)
(* ranked expirations with a pair; the rows differ from these only between *)
(* a commit and the metadata that follow it, in the hands of who holds the *)
(* lock.                                                                   *)

Ranked == completed \cap Qualified

Known ==
  /\ count = Cardinality(Ranked)
  /\ annual = [y \in Years |-> BestOf(Ranked, y)]
  /\ \A e \in completed : e >= minimum

Bests == {BestOf(Ranked, y) : y \in Years} \ {None}

\* The pairs that a pruning to c leaves.
Kept(c) == {e \in Ranked : e >= c}

Pruned(t) ==
  /\ pc[t] \in {"rank", "show"} /\ asked[t] # 0 /\ ~ Current(asked[t])
  /\ spreads = Kept(asked[t])
Adds(t) ==
  /\ pc[t] = "added" /\ todo[t] # {}
  /\ Least(todo[t]) \notin completed /\ Least(todo[t]) >= minimum
  /\ spreads = Ranked \cup ({Least(todo[t])} \cap Qualified)

Rows ==
  /\ lock = None => spreads = Ranked
  /\ \A t \in Tabs : lock = t => Pruned(t) \/ Adds(t)
  /\ \A t \in Tabs : pc[t] = "added" => lock = t
  /\ lock = Export =>
       \/ pc[Export] = "shown" /\ spreads = Kept(asked[Export])
       \/ pc[Export] = "marks" /\ spreads = Ranked /\ marks = Bests
  /\ pc[Export] \in {"shown", "marks"} => lock = Export

IInv == TypeOK /\ Known /\ Rows /\ OneRevision

-----------------------------------------------------------------------------
(* Types                                                                   *)

LEMMA NoneIsNone ==
  None \notin Expirations /\ None \notin Raw /\ None # Export
BY ScanAssumption DEF Expirations, Raw

LEMMA FilteredType ==
  ASSUME TypeOK, NEW r \in Raw
  PROVE  Filtered(r) \in Raw
<1>1. /\ Eligible(r.listed) \subseteq Expirations /\ Eligible(r.rows) \subseteq Quoted
      /\ Eligible(r.failed) \subseteq Expirations
  BY DEF Raw, Eligible
<1>2. Filtered(r).next \in 0 .. Last
  BY <1>1, ExpirationsFinite, ScanAssumption DEF Filtered
<1> QED BY <1>1, <1>2 DEF Filtered, Raw

\* The rows that are kept and the ranked pairs are sets of expirations.
LEMMA RankedType ==
  ASSUME TypeOK
  PROVE  /\ Ranked \subseteq Qualified /\ spreads \subseteq Qualified
         /\ Qualified \subseteq Expirations /\ Quoted \subseteq Expirations
         /\ Expirations \subseteq Nat
<1>1. Ranked \subseteq Qualified /\ spreads \subseteq Qualified
  BY DEF TypeOK, Ranked
<1>2. /\ Qualified \subseteq Expirations /\ Quoted \subseteq Expirations
      /\ Expirations \subseteq Nat
  BY ScanAssumption DEF Expirations
<1> QED BY <1>1, <1>2

LEMMA PruneTypes ==
  ASSUME TypeOK, NEW c \in 0 .. MaxCutoff + 1, PruneMetadata(c)
  PROVE  /\ count' \in 0 .. Last /\ completed' \subseteq Quoted
         /\ annual' \in [Years -> Expirations \cup {None}]
         /\ minimum' \in 0 .. MaxCutoff + 1 /\ choices' = None
<1>1. count' \in 0 .. Last
  BY RankedType, ExpirationsFinite, ScanAssumption DEF PruneMetadata
<1>2. annual' \in [Years -> Expirations \cup {None}]
  <2>1. \A y \in Years : BestOf(spreads, y) \in Expirations \cup {None}
    BY RankedType, BestType
  <2> QED BY <2>1 DEF PruneMetadata
<1>3. minimum' \in 0 .. MaxCutoff + 1
  BY DEF PruneMetadata
<1> QED BY <1>1, <1>2, <1>3 DEF TypeOK, PruneMetadata

LEMMA AskType ==
  ASSUME TypeOK, NEW p \in Tabs \cup {Export}, NEW c \in 0 .. MaxCutoff + 1, Ask(p, c)
  PROVE  /\ asked' \in [Tabs \cup {Export} -> 0 .. MaxCutoff + 1] /\ asked'[p] = c
         /\ \A q \in Tabs \cup {Export} : q # p => asked'[q] = asked[q]
BY DEF TypeOK, Ask

LEMMA CutoffType ==
  ASSUME TypeOK
  PROVE  /\ cutoff \in 0 .. MaxCutoff + 1 /\ 0 \in 0 .. MaxCutoff + 1 /\ cutoff \in Nat \ {0}
         /\ \A p \in Tabs \cup {Export} : asked[p] \in 0 .. MaxCutoff + 1 /\ asked[p] \in Nat
BY ScanAssumption DEF TypeOK

\* A count grows by one when a pair is ranked that was not.
LEMMA OneMore ==
  ASSUME TypeOK, Known, NEW e \in Expirations, e \notin completed
  PROVE  /\ Cardinality((completed \cup {e}) \cap Qualified) = count + Cardinality({e} \cap Qualified)
         /\ count + Cardinality({e} \cap Qualified) \in 0 .. Last
<1>1. IsFiniteSet(Ranked) /\ Cardinality(Ranked) \in Nat
  BY RankedType, ExpirationsFinite
<1>2. CASE e \in Qualified
  <2>1. (completed \cup {e}) \cap Qualified = Ranked \cup {e} /\ {e} \cap Qualified = {e} /\ e \notin Ranked
    BY <1>2 DEF Ranked
  <2>2. Cardinality(Ranked \cup {e}) = Cardinality(Ranked) + 1 /\ Cardinality({e}) = 1
    BY <1>1, <2>1, FS_AddElement, FS_Singleton
  <2>3. Cardinality(Ranked \cup {e}) \in 0 .. Last
    <3>1. Ranked \cup {e} \subseteq Expirations
      BY RankedType
    <3> QED BY <3>1, ExpirationsFinite, ScanAssumption
  <2> QED BY <2>1, <2>2, <2>3 DEF Known
<1>3. CASE e \notin Qualified
  <2>1. (completed \cup {e}) \cap Qualified = Ranked /\ {e} \cap Qualified = {}
    BY <1>3 DEF Ranked
  <2>2. Cardinality({}) = 0
    BY FS_EmptySet
  <2>3. count \in 0 .. Last /\ count = Cardinality(Ranked)
    BY DEF TypeOK, Known
  <2>4. Cardinality({e} \cap Qualified) = 0
    BY <2>1, <2>2
  <2>5. Cardinality((completed \cup {e}) \cap Qualified) = count
    BY <2>1, <2>3
  <2>6. count + 0 = count
    BY <2>3, ScanAssumption
  <2> QED BY <2>3, <2>4, <2>5, <2>6
<1> QED BY <1>2, <1>3

LEMMA TypeInit == Init => TypeOK
BY ScanAssumption, NoneIsNone DEF Init, TypeOK, Years, Raw, Result

LEMMA TypeStep ==
  ASSUME TypeOK, Known, Rows, Next
  PROVE  TypeOK'
<1>1. ASSUME NEW t \in Tabs, Scan(t) PROVE TypeOK'
  BY <1>1, ScanAssumption, NoneIsNone
  DEF TypeOK, Scan, store, metadata, download, Goto, Raw, Eligible
<1>2. ASSUME NEW t \in Tabs, Continue(t) PROVE TypeOK'
  <2>1. Filtered(raw[t]) \in Raw /\ [Filtered(raw[t]) EXCEPT !.bad = 0] \in Raw
    <3>1. raw[t] \in Raw
      BY <1>2 DEF TypeOK, Continue
    <3>2. Filtered(raw[t]) \in Raw
      BY <3>1, FilteredType
    <3> QED BY <3>2 DEF Raw
  <2>2. Filtered(raw[t]) # None /\ [Filtered(raw[t]) EXCEPT !.bad = 0] # None
    BY <2>1, NoneIsNone
  <2> HIDE DEF Raw
  <2> QED BY <1>2, <2>1, <2>2 DEF TypeOK, Continue, store, metadata, download, Goto
<1>3. ASSUME NEW t \in Tabs, Load(t) PROVE TypeOK'
  <2>1. batch[t] \in Raw
    BY <1>3 DEF TypeOK, Load
  <2>2. batch[t].next + 1 \in 0 .. Last
    BY <1>3, <2>1, ExpirationsFinite, ScanAssumption DEF Load, MayLoad, ChainsComplete, Raw
  <2>3. batch[t].bad + 1 \in 0 .. 2
    BY <1>3, <2>1 DEF Load, MayLoad, Raw
  <2>4. batch' \in [Tabs -> Raw \cup {None}] /\ batch'[t] # None
    BY <1>3, <2>1, <2>2, <2>3, NoneIsNone, RankedType DEF TypeOK, Load, Raw
  <2>5. \A u \in Tabs : u # t => batch'[u] = batch[u]
    BY <1>3 DEF TypeOK, Load
  <2>6. twice' \subseteq Quoted
    BY <1>3 DEF TypeOK, Load, Again
  <2> QED BY <1>3, <2>4, <2>5, <2>6 DEF TypeOK, Load, store, metadata, download
<1>4. ASSUME NEW t \in Tabs, Loaded(t) PROVE TypeOK'
  BY <1>4 DEF TypeOK, Loaded, store, metadata, download, Goto
<1>5. ASSUME NEW t \in Tabs, PruneFirst(t) \/ PruneShown(t) PROVE TypeOK'
  <2>1. asked' \in [Tabs \cup {Export} -> 0 .. MaxCutoff + 1]
    BY <1>5, AskType, CutoffType DEF PruneFirst, PruneShown, Prunes, TypeOK
  <2>2. asked[t] \in 0 .. MaxCutoff + 1
    BY CutoffType
  <2> QED BY <1>5, <2>1, <2>2, PruneTypes
          DEF TypeOK, PruneFirst, PruneShown, Prunes, PruneRows, scan, metadata, download, Goto
<1>6. ASSUME NEW t \in Tabs, Group(t) PROVE TypeOK'
  BY <1>6 DEF TypeOK, Group, store, metadata, download, Goto, Eligible, Raw
<1>7. ASSUME NEW t \in Tabs, Add(t) PROVE TypeOK'
  BY <1>7 DEF TypeOK, Add, metadata, download, Goto
<1>8. ASSUME NEW t \in Tabs, Added(t) PROVE TypeOK'
  <2>1. Least(todo[t]) \notin completed /\ todo[t] # {} /\ todo[t] \subseteq Quoted
    BY <1>8, NoneIsNone DEF Rows, Added, Adds, Pruned, TypeOK
  <2>2. Least(todo[t]) \in Quoted /\ Least(todo[t]) \in Expirations
    BY <2>1, RankedType, LeastIsIn
  <2>3. count + Cardinality({Least(todo[t])} \cap Qualified) \in 0 .. Last
    BY <2>1, <2>2, OneMore
  <2> HIDE DEF Least
  <2> QED BY <1>8, <2>2, <2>3 DEF TypeOK, Added, metadata, download, Goto
<1>9. ASSUME NEW t \in Tabs, Finish(t) PROVE TypeOK'
  BY <1>9, NoneIsNone DEF TypeOK, Finish, store, metadata, download, Goto, Raw, Result, AllRanked
<1>10. ASSUME NEW t \in Tabs, Show(t) \/ Cut(t) PROVE TypeOK'
  BY <1>10, ScanAssumption DEF TypeOK, Show, Cut, store, scan, metadata, download, Goto
<1>11. ASSUME NEW t \in Tabs, Open(t) PROVE TypeOK'
  BY <1>11 DEF TypeOK, Open, store, metadata, download
<1>12. ASSUME NEW t \in Tabs, Look(t) \/ Cache(t) PROVE TypeOK'
  BY <1>12, RankedType DEF TypeOK, Look, Cache, store, scan, metadata, download, Goto
<1>13. CASE StartExport
  <2>1. asked' \in [Tabs \cup {Export} -> 0 .. MaxCutoff + 1]
    BY <1>13, AskType, CutoffType DEF StartExport
  <2> QED BY <1>13, <2>1 DEF TypeOK, StartExport, PruneRows, scan, metadata, download, Goto
<1>14. CASE ReadMarks
  <2>1. asked[Export] \in 0 .. MaxCutoff + 1
    BY CutoffType
  <2> QED BY <1>14, <2>1, PruneTypes DEF TypeOK, ReadMarks, scan, metadata, Goto
<1>15. CASE ReadRows
  <2>1. asked' \in [Tabs \cup {Export} -> 0 .. MaxCutoff + 1]
    BY <1>15, AskType, CutoffType DEF ReadRows
  <2> QED BY <1>15, <2>1, RankedType DEF TypeOK, ReadRows, Eligible, scan, metadata, Goto
<1>16. CASE Midnight
  BY <1>16, ScanAssumption DEF TypeOK, Midnight, store, scan, metadata, download
<1> QED
  BY <1>1, <1>2, <1>3, <1>4, <1>5, <1>6, <1>7, <1>8, <1>9, <1>10, <1>11, <1>12, <1>13, <1>14,
     <1>15, <1>16 DEF Next, Step

-----------------------------------------------------------------------------
(* The metadata                                                            *)

\* A pruning that has committed leaves rows and metadata alike.
LEMMA PrunedKnown ==
  ASSUME TypeOK, NEW c, PruneMetadata(c), spreads = Kept(c)
  PROVE  Known' /\ Ranked' = spreads
<1>1. completed' \cap Qualified = spreads
  BY DEF PruneMetadata, Ranked, Kept
<1>2. Ranked' = spreads
  BY <1>1 DEF Ranked
<1>3. count' = Cardinality(Ranked') /\ annual' = [y \in Years |-> BestOf(Ranked', y)]
  BY <1>2 DEF PruneMetadata
<1>4. \A e \in completed' : e >= minimum'
  BY DEF PruneMetadata
<1> QED BY <1>2, <1>3, <1>4 DEF Known

\* There is nothing to prune when the cutoff has not moved.
LEMMA CurrentKept ==
  ASSUME TypeOK, Known, NEW c \in Nat, Current(c)
  PROVE  Kept(c) = Ranked
<1>1. \A e \in Ranked : e \in Nat /\ e >= minimum
  BY RankedType DEF Known, Ranked
<1>2. minimum \in Nat /\ c <= minimum
  BY ScanAssumption DEF TypeOK, Current
<1> QED BY <1>1, <1>2 DEF Kept

LEMMA AddedKnown ==
  ASSUME TypeOK, Known, Rows, NEW t \in Tabs, Added(t)
  PROVE  Known' /\ Ranked' = spreads /\ lock = t
<1> DEFINE e == Least(todo[t])
<1>1. lock = t /\ Adds(t)
  <2>1. lock = t /\ pc[t] = "added"
    BY DEF Rows, Added
  <2> QED BY <2>1 DEF Rows, Pruned
<1>2. e \in Expirations /\ e \in Nat
  BY <1>1, RankedType, LeastIsIn DEF Adds, TypeOK
<1>3. e \notin completed /\ e >= minimum /\ spreads = Ranked \cup ({e} \cap Qualified)
  BY <1>1 DEF Adds
<1> HIDE DEF e
<1>4. /\ count' = count + Cardinality({e} \cap Qualified)
      /\ completed' = completed \cup {e} /\ minimum' = minimum
      /\ annual' = IF e \in Qualified /\ (annual[Year[e]] = None \/ Rank[e] < Rank[annual[Year[e]]])
                   THEN [annual EXCEPT ![Year[e]] = e] ELSE annual
  BY DEF Added, e
<1>5. Ranked' = Ranked \cup ({e} \cap Qualified)
  BY <1>4 DEF Ranked
<1>6. count' = Cardinality(Ranked')
  <2>1. Ranked' = (completed \cup {e}) \cap Qualified
    BY <1>4 DEF Ranked
  <2> QED BY <2>1, <1>2, <1>3, <1>4, OneMore
<1>7. annual' = [y \in Years |-> BestOf(Ranked', y)]
  <2>1. \A y \in Years : annual[y] = BestOf(Ranked, y)
    BY DEF Known
  <2>2. CASE e \notin Qualified
    BY <1>4, <1>5, <2>2 DEF Known
  <2>3. CASE e \in Qualified
    <3>1. Ranked' = Ranked \cup {e}
      BY <1>5, <2>3
    <3>2. Year[e] \in Years
      BY <1>2 DEF Years
    <3>3. \A y \in Years : BestOf(Ranked', y) =
            IF Year[e] = y /\ (annual[y] = None \/ Rank[e] < Rank[annual[y]])
            THEN e ELSE annual[y]
      BY <1>2, <2>1, <3>1, BestOfOneMore, RankedType
    <3>4. annual \in [Years -> Expirations \cup {None}]
      BY DEF TypeOK
    <3>5. \A y \in Years : annual'[y] = BestOf(Ranked', y)
      BY <1>4, <2>3, <3>2, <3>3, <3>4
    <3>6. annual' = [y \in Years |-> annual'[y]]
      BY <1>4, <3>4
    <3> QED BY <3>5, <3>6
  <2> QED BY <2>2, <2>3
<1>8. \A f \in completed' : f >= minimum'
  BY <1>3, <1>4 DEF Known
<1> QED BY <1>1, <1>3, <1>5, <1>6, <1>7, <1>8 DEF Known

LEMMA KnownStep ==
  ASSUME TypeOK, Known, Rows, Next
  PROVE  Known'
<1>1. ASSUME UNCHANGED <<count, completed, annual, minimum>> PROVE Known'
  BY <1>1 DEF Known, Ranked, BestOf
<1>2. ASSUME NEW t \in Tabs, PruneFirst(t) \/ PruneShown(t) PROVE Known'
  <2>1. CASE UNCHANGED metadata
    BY <1>1, <2>1 DEF metadata
  <2>2. CASE ~ UNCHANGED metadata
    <3>1. lock = t /\ PruneMetadata(asked[t]) /\ pc[t] \in {"rank", "show"}
      BY <1>2, <2>2 DEF PruneFirst, PruneShown, Prunes, metadata
    <3>2. spreads = Kept(asked[t])
      BY <3>1 DEF Rows, Pruned, Adds
    <3> QED BY <3>1, <3>2, PrunedKnown
  <2> QED BY <2>1, <2>2
<1>3. CASE ReadMarks
  <2>1. lock = Export /\ spreads = Kept(asked[Export])
    BY <1>3 DEF ReadMarks, Rows
  <2>2. CASE Current(asked[Export])
    BY <1>1, <1>3, <2>2 DEF ReadMarks, metadata
  <2>3. CASE ~ Current(asked[Export])
    BY <1>3, <2>1, <2>3, PrunedKnown DEF ReadMarks
  <2> QED BY <2>2, <2>3
<1>4. ASSUME NEW t \in Tabs, Added(t) PROVE Known'
  BY <1>4, AddedKnown
<1>5. ASSUME NEW t \in Tabs, \/ Scan(t) \/ Continue(t) \/ Load(t) \/ Loaded(t) \/ Group(t) \/ Add(t)
                             \/ Finish(t) \/ Look(t) \/ Cache(t) \/ Show(t) \/ Cut(t) \/ Open(t)
      PROVE Known'
  <2>1. UNCHANGED <<count, completed, annual, minimum>>
    BY <1>5 DEF Scan, Continue, Load, Loaded, Group, Add, Finish, Look, Cache, Show, Cut, Open, store,
                metadata
  <2> QED BY <1>1, <2>1
<1>6. CASE StartExport \/ ReadRows \/ Midnight
  <2>1. UNCHANGED <<count, completed, annual, minimum>>
    BY <1>6 DEF StartExport, ReadRows, Midnight, store, metadata
  <2> QED BY <1>1, <2>1
<1> QED BY <1>2, <1>3, <1>4, <1>5, <1>6 DEF Next, Step

-----------------------------------------------------------------------------
(* The rows                                                                *)

\* A step of a tab that does not hold the lock and leaves the store alone.
LEMMA Elsewhere ==
  ASSUME TypeOK, Rows, NEW t \in Tabs, lock # t,
         UNCHANGED <<spreads, completed, minimum, lock, marks>>,
         \A u \in Tabs : u # t => pc'[u] = pc[u] /\ todo'[u] = todo[u] /\ asked'[u] = asked[u],
         pc'[Export] = pc[Export], asked'[Export] = asked[Export], pc'[t] # "added"
  PROVE  Rows'
<1>1. Ranked' = Ranked
  BY DEF Ranked
<1>2. \A c : Kept(c)' = Kept(c)
  BY <1>1 DEF Kept
<1>3. Bests' = Bests
  BY <1>1 DEF Bests, BestOf
<1>4. ASSUME NEW u \in Tabs, lock = u PROVE (Pruned(u) \/ Adds(u))'
  <2>1. u # t /\ (Pruned(u) \/ Adds(u))
    BY <1>4 DEF Rows
  <2>2. /\ Least(todo[u])' = Least(todo[u]) /\ todo'[u] = todo[u] /\ pc'[u] = pc[u]
        /\ asked'[u] = asked[u] /\ Kept(asked[u])' = Kept(asked[u])
        /\ Current(asked[u])' = Current(asked[u])
    BY <2>1 DEF Least, Kept, Ranked, Current
  <2> HIDE DEF Least
  <2> QED BY <1>1, <1>2, <2>1, <2>2 DEF Pruned, Adds
<1>5. Kept(asked[Export])' = Kept(asked[Export])
  BY <1>1 DEF Kept
<1> QED BY <1>1, <1>3, <1>4, <1>5 DEF Rows

LEMMA RowsStep ==
  ASSUME TypeOK, Known, Rows, Next
  PROVE  Rows'
<1> DEFINE Steps == {"idle", "load", "rank", "pruned", "add", "added", "show", "shown", "look", "cache",
                     "marks"}
<1>0. Export \notin Tabs /\ None \notin Tabs /\ None # Export /\ pc \in [Tabs \cup {Export} -> Steps]
  BY ScanAssumption DEF TypeOK
<1> HIDE DEF Steps
<1>1. ASSUME NEW t \in Tabs, PruneFirst(t) \/ PruneShown(t) PROVE Rows'
  <2>1. PICK from \in {"rank", "show"}, to \in {"pruned", "look"} : Prunes(t, from, to)
    BY <1>1 DEF PruneFirst, PruneShown
  <2>2. UNCHANGED <<todo, marks>> /\ \A u \in Tabs \cup {Export} : u # t => asked'[u] = asked[u]
    BY <1>1, CutoffType, AskType DEF PruneFirst, PruneShown, Prunes, scan, download
  <2>3. CASE asked[t] = 0 /\ UNCHANGED <<spreads, metadata, lock, pc>>
    <3>1. lock # t /\ pc[t] = from
      BY <2>1, <2>3 DEF Prunes, Rows, Pruned, Adds
    <3> QED BY <1>0, <2>1, <2>2, <2>3, <3>1, Elsewhere DEF metadata
  <2>4. CASE lock = None /\ Goto(t, to) /\ UNCHANGED <<spreads, metadata, lock>>
    <3>1. pc' = [pc EXCEPT ![t] = to]
      BY <2>4 DEF Goto
    <3> QED BY <1>0, <2>1, <2>2, <2>4, <3>1, Elsewhere DEF metadata
  <2>5. CASE /\ lock = None /\ asked[t] # 0 /\ ~ Current(asked[t]) /\ PruneRows(asked[t]) /\ lock' = t
             /\ UNCHANGED <<metadata, pc, asked>>
    <3>1. spreads' = {e \in spreads : e >= asked[t]} /\ pc[t] = from
      BY <2>1, <2>5 DEF Prunes, PruneRows
    <3>2. spreads = Ranked /\ \A u \in Tabs : pc[u] # "added"
      BY <1>0, <2>5 DEF Rows
    <3>3. pc[Export] \notin {"shown", "marks"}
      BY <1>0, <2>5 DEF Rows
    <3>4. Ranked' = Ranked /\ Kept(asked[t])' = Kept(asked[t]) /\ ~ Current(asked[t])'
      BY <2>5 DEF Ranked, Kept, Current, metadata
    <3>5. Pruned(t)'
      BY <2>1, <2>5, <3>1, <3>2, <3>4 DEF Pruned, Kept
    <3> QED BY <1>0, <2>5, <3>2, <3>3, <3>5 DEF Rows
  <2>6. CASE lock = t /\ PruneMetadata(asked[t]) /\ lock' = None /\ Goto(t, to) /\ UNCHANGED spreads
    <3>1. pc[t] = from /\ pc' = [pc EXCEPT ![t] = to]
      BY <2>1, <2>6 DEF Prunes, Goto
    <3>2. spreads = Kept(asked[t])
      BY <2>1, <2>6, <3>1 DEF Rows, Pruned, Adds
    <3>3. Ranked' = spreads
      BY <2>6, <3>2, PrunedKnown
    <3>4. pc[Export] \notin {"shown", "marks"} /\ \A u \in Tabs : pc[u] # "added"
      BY <1>0, <2>1, <2>6, <3>1 DEF Rows
    <3>5. pc'[Export] = pc[Export] /\ \A u \in Tabs : pc'[u] # "added"
      BY <1>0, <2>1, <3>1, <3>4
    <3> QED BY <1>0, <2>6, <3>3, <3>4, <3>5 DEF Rows
  <2> QED BY <2>1, <2>3, <2>4, <2>5, <2>6 DEF Prunes
<1>2. ASSUME NEW t \in Tabs, Add(t) PROVE Rows'
  <2>1. lock = None /\ UNCHANGED <<metadata, marks, asked>> /\ todo[t] # {} /\ pc[t] = "add"
    BY <1>2 DEF Add, download
  <2> DEFINE e == Least(todo[t])
  <2>2. CASE UNCHANGED <<spreads, lock>>
    <3>1. /\ \A u \in Tabs : u # t => todo'[u] = todo[u] /\ pc'[u] = pc[u]
          /\ pc'[Export] = pc[Export] /\ pc'[t] # "added"
      BY <1>0, <1>2, <2>1, <2>2, NoneIsNone DEF Add, TypeOK, Goto
    <3> QED BY <1>0, <2>1, <2>2, <3>1, Elsewhere DEF metadata
  <2>3. CASE ~ UNCHANGED <<spreads, lock>>
    <3>1. /\ ~ Refuses(e) /\ spreads' = spreads \cup ({e} \cap Qualified) /\ lock' = t
          /\ pc' = [pc EXCEPT ![t] = "added"] /\ todo' = todo
      BY <1>2, <2>3 DEF Add, Goto
    <3>2. e \in Nat
      BY <2>1, RankedType, LeastIsIn DEF TypeOK
    <3> HIDE DEF e
    <3>3. e \notin completed /\ e >= minimum
      BY <3>1, <3>2, ScanAssumption DEF Refuses, TypeOK, e
    <3>4. spreads = Ranked /\ \A u \in Tabs : pc[u] # "added"
      BY <1>0, <2>1 DEF Rows
    <3>5. pc[Export] \notin {"shown", "marks"}
      BY <1>0, <2>1 DEF Rows
    <3>6. Ranked' = Ranked /\ Least(todo[t])' = e /\ completed' = completed /\ minimum' = minimum
      BY <2>1, <3>1 DEF Ranked, metadata, e
    <3>7. Adds(t)'
      <4>1. pc'[t] = "added" /\ todo'[t] # {}
        BY <1>0, <2>1, <3>1
      <4>2. spreads' = Ranked' \cup ({Least(todo[t])'} \cap Qualified)
        BY <3>1, <3>4, <3>6
      <4>3. Least(todo[t])' \notin completed' /\ Least(todo[t])' >= minimum'
        BY <3>3, <3>6
      <4> HIDE DEF Least
      <4> QED BY <4>1, <4>2, <4>3 DEF Adds
    <3>8. pc'[Export] = pc[Export] /\ \A u \in Tabs : u # t => pc'[u] # "added"
      BY <1>0, <3>1, <3>4
    <3> QED BY <1>0, <3>1, <3>5, <3>7, <3>8 DEF Rows
  <2> QED BY <2>2, <2>3
<1>3. ASSUME NEW t \in Tabs, Added(t) PROVE Rows'
  <2>1. lock = t /\ Ranked' = spreads
    BY <1>3, AddedKnown
  <2>2. spreads' = spreads /\ lock' = None /\ pc' = [pc EXCEPT ![t] = "add"]
    BY <1>3 DEF Added, Goto
  <2>3. pc'[Export] \notin {"shown", "marks"} /\ \A u \in Tabs : pc'[u] # "added"
    BY <1>0, <2>1, <2>2 DEF Rows
  <2> QED BY <1>0, <2>1, <2>2, <2>3 DEF Rows
<1>4. ASSUME NEW t \in Tabs, \/ Scan(t) \/ Continue(t) \/ Load(t) \/ Loaded(t) \/ Group(t)
                             \/ Finish(t) \/ Look(t) \/ Cache(t) \/ Show(t) \/ Cut(t) \/ Open(t)
      PROVE Rows'
  <2>1. UNCHANGED <<spreads, completed, minimum, lock, marks, asked>>
    BY <1>4 DEF Scan, Continue, Load, Loaded, Group, Finish, Look, Cache, Show, Cut, Open, store,
                metadata, download
  <2>2. pc[t] \notin {"rank", "show", "added"} /\ pc'[t] # "added"
    BY <1>0, <1>4 DEF Scan, Continue, Load, Loaded, Group, Finish, Look, Cache, Show, Cut, Open, Goto
  <2>3. lock # t
    BY <2>2 DEF Rows, Pruned, Adds
  <2>4. /\ \A u \in Tabs : u # t => pc'[u] = pc[u] /\ todo'[u] = todo[u]
        /\ pc'[Export] = pc[Export]
    BY <1>0, <1>4
    DEF TypeOK, Scan, Continue, Load, Loaded, Group, Finish, Look, Cache, Show, Cut, Open, Goto, scan
  <2> QED BY <2>1, <2>2, <2>3, <2>4, Elsewhere
<1>5. CASE StartExport
  <2>1. /\ lock = None /\ lock' = Export /\ pc' = [pc EXCEPT ![Export] = "shown"]
        /\ UNCHANGED metadata
        /\ spreads' = IF Current(cutoff) THEN spreads ELSE {e \in spreads : e >= cutoff}
        /\ asked'[Export] = cutoff
    BY <1>5, CutoffType, AskType DEF StartExport, PruneRows, Goto
  <2>2. spreads = Ranked /\ \A u \in Tabs : pc[u] # "added"
    BY <1>0, <2>1 DEF Rows
  <2>3. Ranked' = Ranked /\ Kept(asked[Export])' = Kept(cutoff)
    BY <2>1 DEF Ranked, Kept, metadata
  <2>4. spreads' = Kept(asked[Export])'
    BY <2>1, <2>2, <2>3, CurrentKept, CutoffType DEF Kept
  <2>5. pc'[Export] = "shown" /\ \A u \in Tabs : pc'[u] # "added"
    BY <1>0, <2>1, <2>2
  <2> QED BY <1>0, <2>1, <2>4, <2>5 DEF Rows
<1>6. CASE ReadMarks
  <2>1. /\ lock = Export /\ spreads = Kept(asked[Export]) /\ lock' = lock /\ spreads' = spreads
        /\ pc' = [pc EXCEPT ![Export] = "marks"] /\ marks' = {annual'[y] : y \in Years} \ {None}
    BY <1>6 DEF ReadMarks, Rows, Goto
  <2>2. Ranked' = spreads
    <3>1. CASE Current(asked[Export])
      BY <1>6, <2>1, <3>1, CurrentKept, CutoffType DEF ReadMarks, metadata, Ranked
    <3>2. CASE ~ Current(asked[Export])
      BY <1>6, <2>1, <3>2, PrunedKnown DEF ReadMarks
    <3> QED BY <3>1, <3>2
  <2>3. Known'
    BY KnownStep
  <2>4. marks' = Bests'
    BY <2>1, <2>3 DEF Known, Bests
  <2>5. pc'[Export] = "marks" /\ \A u \in Tabs : pc'[u] # "added"
    BY <1>0, <2>1 DEF Rows
  <2> QED BY <1>0, <2>1, <2>2, <2>4, <2>5 DEF Rows
<1>7. CASE ReadRows
  <2>1. /\ lock = Export /\ spreads = Ranked /\ lock' = None
        /\ UNCHANGED <<spreads, metadata>> /\ pc' = [pc EXCEPT ![Export] = "idle"]
    BY <1>7 DEF ReadRows, Rows, Goto
  <2>2. Ranked' = Ranked
    BY <2>1 DEF Ranked, metadata
  <2>3. pc'[Export] = "idle" /\ \A u \in Tabs : pc'[u] # "added"
    BY <1>0, <2>1 DEF Rows
  <2> QED BY <1>0, <2>1, <2>2, <2>3 DEF Rows
<1>8. CASE Midnight
  <2>1. UNCHANGED <<lock, asked, spreads, completed, minimum, pc, todo, marks>>
    BY <1>8 DEF Midnight, store, metadata, scan, download
  <2>2. Ranked' = Ranked /\ Bests' = Bests /\ \A c : Kept(c)' = Kept(c)
    BY <2>1 DEF Ranked, Bests, BestOf, Kept
  <2>3. \A t \in Tabs : Pruned(t)' = Pruned(t) /\ Adds(t)' = Adds(t)
    BY <2>1 DEF Pruned, Adds, Least, Kept, Ranked, Current
  <2>4. Kept(asked[Export])' = Kept(asked[Export])
    BY <2>1 DEF Kept, Ranked
  <2> QED BY <2>1, <2>2, <2>3, <2>4 DEF Rows
<1> QED BY <1>1, <1>2, <1>3, <1>4, <1>5, <1>6, <1>7, <1>8 DEF Next, Step

-----------------------------------------------------------------------------
(* The theorems                                                            *)

LEMMA InitHolds == Init => IInv
<1> SUFFICES ASSUME Init PROVE IInv
  OBVIOUS
<1>1. TypeOK
  BY TypeInit
<1>2. Ranked = {} /\ spreads = {}
  BY DEF Init, Ranked
<1>3. Known
  <2>1. \A y \in Years : BestOf({}, y) = None
    BY DEF BestOf
  <2>2. annual = [y \in Years |-> BestOf(Ranked, y)]
    BY <1>2, <2>1 DEF Init
  <2> QED BY <1>2, <2>2, FS_EmptySet DEF Init, Known
<1>4. Rows
  BY <1>2, ScanAssumption DEF Init, Rows
<1>5. OneRevision
  BY DEF Init, OneRevision
<1> QED BY <1>1, <1>3, <1>4, <1>5 DEF IInv

\* What a download holds is read in one hold of the lock, except for the date.
LEMMA RevisionStep ==
  ASSUME TypeOK, Known, Rows, OneRevision, Next
  PROVE  OneRevision'
<1>1. CASE ReadRows
  <2>1. /\ spreads = Ranked /\ marks = Bests
        /\ exported' = [rows |-> Eligible(spreads), marks |-> Eligible(marks),
                        since |-> minimum, until |-> cutoff]
    BY <1>1 DEF ReadRows, Rows
  <2>2. Ranked \in SUBSET {e \in Qualified : e >= minimum}
    BY RankedType DEF Known, Ranked
  <2>3. exported'.rows = {e \in Ranked : e >= exported'.until} /\ exported'.since = minimum
    BY <2>1 DEF Eligible
  <2>4. Bests \subseteq Ranked
    BY RankedType, BestType DEF Bests
  <2>5. exported'.marks = {BestOf(Ranked, y) : y \in Years} \cap exported'.rows
    BY <2>1, <2>4, NoneIsNone, RankedType DEF Eligible, Bests
  <2>6. OfOneSet(exported')
    BY <2>2, <2>3, <2>5 DEF OfOneSet
  <2> QED BY <2>6 DEF OneRevision
<1>2. CASE ~ ReadRows
  <2>1. exported' = exported
    <3>1. ASSUME NEW t \in Tabs, \/ Scan(t) \/ Continue(t) \/ Load(t) \/ Loaded(t) \/ PruneFirst(t)
                                 \/ PruneShown(t) \/ Group(t) \/ Add(t)
          PROVE  exported' = exported
      BY <3>1 DEF Scan, Continue, Load, Loaded, PruneFirst, PruneShown, Group, Add, download
    <3>2. ASSUME NEW t \in Tabs, \/ Added(t) \/ Finish(t) \/ Look(t) \/ Cache(t) \/ Show(t) \/ Cut(t)
                                 \/ Open(t)
          PROVE  exported' = exported
      BY <3>2 DEF Added, Finish, Look, Cache, Show, Cut, Open, download
    <3>3. ASSUME StartExport \/ ReadMarks \/ Midnight PROVE exported' = exported
      BY <3>3 DEF StartExport, ReadMarks, Midnight, download
    <3> QED BY <1>2, <3>1, <3>2, <3>3 DEF Next, Step
  <2> QED BY <2>1 DEF OneRevision
<1> QED BY <1>1, <1>2

LEMMA Inductive == IInv /\ [Next]_vars => IInv'
<1> SUFFICES ASSUME IInv, [Next]_vars PROVE IInv'
  OBVIOUS
<1>1. CASE Next
  BY <1>1, TypeStep, KnownStep, RowsStep, RevisionStep DEF IInv
<1>2. CASE UNCHANGED vars
  <2>1. TypeOK'
    BY <1>2 DEF vars, store, metadata, scan, download, IInv, TypeOK
  <2>2. Known'
    BY <1>2 DEF vars, store, metadata, IInv, Known, Ranked, BestOf
  <2>3. Rows'
    BY <1>2 DEF vars, store, metadata, scan, download, IInv, Rows, Ranked, Bests, Pruned, Adds, Kept,
                Current, Least, BestOf
  <2>4. OneRevision'
    BY <1>2 DEF vars, download, IInv, OneRevision
  <2> QED BY <2>1, <2>2, <2>3, <2>4 DEF IInv
<1> QED BY <1>1, <1>2

THEOREM Invariance == Spec => []IInv
BY InitHolds, Inductive, PTL DEF Spec

\* Every variable keeps its type.
THEOREM TypeCorrect == Spec => []TypeOK
<1>1. IInv => TypeOK
  BY DEF IInv
<1> QED BY <1>1, Invariance, PTL

\* With the lock free the metadata of the store are those of its rows.
THEOREM StoreAgrees == Spec => []MetadataMatch
<1>1. IInv => MetadataMatch
  BY DEF IInv, Known, Rows, Ranked, MetadataMatch
<1> QED BY <1>1, Invariance, PTL

\* The rows and the markers of a download are of one revision of the store, less what a
\* midnight between them leaves out.
THEOREM DownloadIsOneRevision == Spec => []OneRevision
<1>1. IInv => OneRevision
  BY DEF IInv
<1> QED BY <1>1, Invariance, PTL

-----------------------------------------------------------------------------
(* Complete results.  What a tab has loaded is the chains of a window: the *)
(* expirations from one that was the cutoff, in order, up to the index,    *)
(* but for those that failed.  Equal numbers of chains are then the same   *)
(* chains.                                                                 *)

Window(r, f) ==
  /\ r.listed = f .. Last
  /\ r.rows = {e \in Quoted : f <= e /\ e < f + r.next} \ r.failed
  /\ \A e \in r.failed : e < f + r.next

Held(r, n) == \E f \in 1 .. n : Window(r, f)
Whole(o, n, done) == o.complete /\ o.failed = {} => {e \in Quoted : e >= n} \subseteq done

Windows ==
  /\ minimum <= cutoff /\ \A p \in Tabs \cup {Export} : asked[p] <= cutoff
  /\ \A t \in Tabs : asked[t] # 0 => pc[t] \in {"rank", "show"}
  /\ \A t \in Tabs : pc[t] = "rank" /\ asked[t] # 0 => Held(raw[t], asked[t])
  /\ \A t \in Tabs : raw[t] # None => Held(raw[t], cutoff)
  /\ \A t \in Tabs : batch[t] # None => Held(batch[t], cutoff)
  /\ \A t \in Tabs : pc[t] \in {"pruned", "add", "added"} => Held(raw[t], minimum)
  /\ \A t \in Tabs : result[t] # None => Whole(result[t], minimum, completed)
  /\ memory # None => Held(memory.raw, cutoff) /\ Whole(memory.result, minimum, completed)

LEMMA PlaceInWindow ==
  ASSUME NEW f \in Nat \ {0}, NEW e \in f .. Last
  PROVE  Place(e, f .. Last) = e - f + 1
<1>1. e \in Nat /\ Last \in Nat /\ f <= e /\ e <= Last
  BY ScanAssumption
<1>2. {g \in f .. Last : g <= e} = f .. e
  BY <1>1
<1>3. Cardinality(f .. e) = e - f + 1
  BY <1>1, FS_Interval
<1> QED BY <1>2, <1>3 DEF Place

LEMMA WholeWindow ==
  ASSUME NEW r \in Raw, NEW f \in Nat \ {0}, Window(r, f), ChainsComplete(r)
  PROVE  r.rows = {e \in Quoted : f <= e} \ r.failed
<1>1. Last \in Nat /\ r.next \in Nat /\ Quoted \subseteq 1 .. Last
  BY ScanAssumption DEF Raw, Expirations
<1>2. Cardinality(f .. Last) = IF f > Last THEN 0 ELSE Last - f + 1
  BY <1>1, FS_Interval
<1>3. r.next >= Cardinality(f .. Last)
  BY DEF ChainsComplete, Window
<1>4. \A e \in Quoted : f <= e => e < f + r.next
  BY <1>1, <1>2, <1>3
<1> QED BY <1>4 DEF Window

LEMMA FilteredWindow ==
  ASSUME TypeOK, NEW r \in Raw, NEW f \in 1 .. cutoff, Window(r, f)
  PROVE  Window(Filtered(r), cutoff)
<1> DEFINE c == cutoff
           m == f + r.next - 1
           n == Filtered(r).next
           Passed == {e \in c .. Last : e <= m}
<1>1. /\ Last \in Nat /\ r.next \in Nat /\ Quoted \subseteq 1 .. Last
      /\ r.failed \subseteq 1 .. Last /\ r.rows \subseteq Quoted
      /\ c \in Nat \ {0} /\ f \in Nat \ {0} /\ f <= c /\ m \in Int
  <2>1. /\ Last \in Nat /\ r.next \in Nat /\ Quoted \subseteq 1 .. Last
        /\ r.failed \subseteq 1 .. Last /\ r.rows \subseteq Quoted
    BY ScanAssumption DEF Raw, Expirations
  <2>2. c \in Nat \ {0} /\ f \in Nat \ {0} /\ f <= c
    BY CutoffType
  <2> QED BY <2>1, <2>2
<1>2. Eligible(r.listed) = c .. Last /\ r.listed = f .. Last
  BY <1>1 DEF Eligible, Window
<1>3. {e \in Eligible(r.listed) : Place(e, r.listed) <= r.next} = Passed
  <2>1. \A e \in c .. Last : Place(e, f .. Last) = e - f + 1
    BY <1>1, PlaceInWindow
  <2>2. \A e \in c .. Last : Place(e, f .. Last) <= r.next <=> e <= m
    BY <1>1, <2>1
  <2> QED BY <1>2, <2>2
<1>4. n = Cardinality(Passed)
  BY <1>3 DEF Filtered
<1> HIDE DEF n
<1>5. n \in Nat /\ \A e \in c .. Last : e <= m <=> e < c + n
  <2>1. CASE m < c
    <3>1. Passed = {}
      BY <1>1, <2>1
    <3>2. n = 0
      BY <1>4, <3>1, FS_EmptySet
    <3> HIDE DEF c, m, Passed
    <3> QED BY <1>1, <2>1, <3>2
  <2>2. CASE c <= m /\ m <= Last
    <3>1. Passed = c .. m
      BY <1>1, <2>2
    <3>2. Cardinality(c .. m) = m - c + 1
      <4>1. c \in Int /\ m \in Int /\ ~ (c > m)
        BY <1>1, <2>2
      <4> HIDE DEF c, m
      <4> QED BY <4>1, FS_Interval
    <3>3. n = m - c + 1
      BY <1>4, <3>1, <3>2
    <3> HIDE DEF c, m, Passed
    <3> QED BY <1>1, <2>2, <3>3
  <2>3. CASE c <= m /\ Last < m
    <3>1. Passed = c .. Last
      BY <1>1, <2>3
    <3>2. Cardinality(c .. Last) = IF c > Last THEN 0 ELSE Last - c + 1
      BY <1>1, FS_Interval
    <3>3. n = IF c > Last THEN 0 ELSE Last - c + 1
      BY <1>4, <3>1, <3>2
    <3> HIDE DEF c, m, Passed
    <3> QED BY <1>1, <2>3, <3>3
  <2> QED BY <1>1, <2>1, <2>2, <2>3
<1>6. /\ Filtered(r).listed = c .. Last /\ Filtered(r).rows = Eligible(r.rows)
      /\ Filtered(r).failed = Eligible(r.failed)
  BY <1>2 DEF Filtered
<1> HIDE DEF Passed
<1>7. ASSUME NEW e \in 1 .. Last, c <= e PROVE e < f + r.next <=> e < c + n
  BY <1>1, <1>5, <1>7
<1>8. Eligible(r.rows) = {e \in Quoted : c <= e /\ e < c + n} \ Eligible(r.failed)
  <2>1. \A e \in Quoted : e \in r.rows <=> f <= e /\ e < f + r.next /\ e \notin r.failed
    BY DEF Window
  <2>2. ASSUME NEW e \in Quoted
        PROVE  e \in r.rows /\ e >= c <=> c <= e /\ e < c + n /\ ~ (e \in r.failed /\ e >= c)
    BY <1>1, <1>7, <2>1
  <2> QED BY <1>1, <2>2 DEF Eligible
<1>9. \A e \in Eligible(r.failed) : e < c + n
  BY <1>1, <1>7 DEF Eligible, Window
<1> QED BY <1>6, <1>8, <1>9 DEF Window, n

LEMMA LongerHeld ==
  ASSUME NEW r, NEW a \in Nat, NEW b \in Nat, a <= b, Held(r, a)
  PROVE  Held(r, b)
BY DEF Held

\* The chains that are ranked stay whole: a pruning drops what the cutoff has passed.
LEMMA StoreOnward ==
  ASSUME TypeOK, Rows, minimum <= cutoff, \A p \in Tabs \cup {Export} : asked[p] <= cutoff, Next
  PROVE  /\ {cutoff, cutoff', minimum, minimum'} \subseteq Nat
         /\ cutoff <= cutoff' /\ minimum <= minimum' /\ minimum' <= cutoff'
         /\ \A o : Whole(o, minimum, completed) => Whole(o, minimum', completed')
<1>0. cutoff \in Nat /\ minimum \in Nat /\ completed \subseteq Nat /\ Quoted \subseteq Nat
  BY RankedType, ScanAssumption DEF TypeOK
<1>1. CASE UNCHANGED <<cutoff, minimum, completed>>
  BY <1>0, <1>1
<1>2. ASSUME NEW c \in Nat, c <= cutoff, minimum <= c, PruneMetadata(c), cutoff' = cutoff
      PROVE  /\ {cutoff, cutoff', minimum, minimum'} \subseteq Nat
             /\ cutoff <= cutoff' /\ minimum <= minimum' /\ minimum' <= cutoff'
             /\ \A o : Whole(o, minimum, completed) => Whole(o, minimum', completed')
  <2>1. minimum' = c /\ completed' = {e \in completed : e >= c}
    BY <1>2 DEF PruneMetadata
  <2>2. ASSUME NEW o, Whole(o, minimum, completed) PROVE Whole(o, minimum', completed')
    <3> SUFFICES ASSUME o.complete, o.failed = {}, NEW e \in Quoted, e >= c
                 PROVE  e \in completed
      BY <2>1 DEF Whole
    <3>1. e >= minimum
      BY <1>0, <1>2
    <3> QED BY <2>2, <3>1 DEF Whole
  <2> QED BY <1>0, <1>2, <2>1, <2>2
<1>3. CASE \E e : completed' = completed \cup {e} /\ UNCHANGED <<cutoff, minimum>>
  BY <1>0, <1>3 DEF Whole
<1>4. CASE Midnight
  <2>1. cutoff' = cutoff + 1 /\ UNCHANGED <<minimum, completed>>
    BY <1>4 DEF Midnight, store, metadata
  <2> QED BY <1>0, <2>1
<1>5. ASSUME NEW t \in Tabs, PruneFirst(t) \/ PruneShown(t)
      PROVE  \/ UNCHANGED <<cutoff, minimum, completed>>
             \/ \E c \in Nat : c <= cutoff /\ minimum <= c /\ PruneMetadata(c) /\ cutoff' = cutoff
  <2>1. CASE UNCHANGED metadata
    BY <1>5, <2>1 DEF PruneFirst, PruneShown, metadata
  <2>2. CASE ~ UNCHANGED metadata
    <3>1. lock = t /\ PruneMetadata(asked[t]) /\ pc[t] \in {"rank", "show"} /\ cutoff' = cutoff
      BY <1>5, <2>2 DEF PruneFirst, PruneShown, Prunes, metadata
    <3>2. asked[t] \in Nat /\ asked[t] <= cutoff /\ ~ Current(asked[t])
      BY <3>1, CutoffType DEF Rows, Pruned, Adds
    <3>3. minimum <= asked[t]
      BY <1>0, <3>2 DEF Current
    <3> QED BY <3>1, <3>2, <3>3
  <2> QED BY <2>1, <2>2
<1>6. ASSUME ReadMarks
      PROVE  \/ UNCHANGED <<cutoff, minimum, completed>>
             \/ \E c \in Nat : c <= cutoff /\ minimum <= c /\ PruneMetadata(c) /\ cutoff' = cutoff
  <2>1. CASE Current(asked[Export])
    BY <1>6, <2>1 DEF ReadMarks, metadata
  <2>2. CASE ~ Current(asked[Export])
    <3>1. PruneMetadata(asked[Export]) /\ cutoff' = cutoff
      BY <1>6, <2>2 DEF ReadMarks
    <3>2. asked[Export] \in Nat /\ asked[Export] <= cutoff
      BY CutoffType
    <3>3. minimum <= asked[Export]
      BY <1>0, <2>2, <3>2 DEF Current
    <3> QED BY <3>1, <3>2, <3>3
  <2> QED BY <2>1, <2>2
<1>7. ASSUME NEW t \in Tabs, Added(t)
      PROVE  \E e : completed' = completed \cup {e} /\ UNCHANGED <<cutoff, minimum>>
  BY <1>7 DEF Added
<1>8. ASSUME NEW t \in Tabs, \/ Scan(t) \/ Continue(t) \/ Load(t) \/ Loaded(t) \/ Group(t) \/ Add(t)
                             \/ Finish(t) \/ Look(t) \/ Cache(t) \/ Show(t) \/ Cut(t) \/ Open(t)
      PROVE  UNCHANGED <<cutoff, minimum, completed>>
  BY <1>8 DEF Scan, Continue, Load, Loaded, Group, Add, Finish, Look, Cache, Show, Cut, Open, store,
              metadata
<1>9. ASSUME StartExport \/ ReadRows PROVE UNCHANGED <<cutoff, minimum, completed>>
  BY <1>9 DEF StartExport, ReadRows, metadata
<1> QED BY <1>1, <1>2, <1>3, <1>4, <1>5, <1>6, <1>7, <1>8, <1>9 DEF Next, Step

\* One more chain, in order: loaded or failed.
LEMMA LoadHeld ==
  ASSUME TypeOK, NEW t \in Tabs, Load(t), Held(batch[t], cutoff)
  PROVE  Held(batch'[t], cutoff)
<1>0. batch[t] \in Raw /\ cutoff \in Nat
  BY ScanAssumption DEF TypeOK, Load
<1>1. PICK f \in 1 .. cutoff : Window(batch[t], f)
  BY DEF Held
<1>2. PICK e \in batch[t].listed :
        /\ Place(e, batch[t].listed) = batch[t].next + 1
        /\ \/ batch' = [batch EXCEPT ![t].next = @ + 1, ![t].bad = 0,
                                     ![t].rows = @ \cup ({e} \cap Quoted)]
           \/ batch' = [batch EXCEPT ![t].next = @ + 1, ![t].bad = @ + 1,
                                     ![t].failed = @ \cup {e}]
  BY DEF Load
<1> DEFINE b == batch[t]
           c == batch'[t]
<1>3. /\ f \in Nat \ {0} /\ b.next \in Nat /\ Quoted \subseteq Nat /\ b.failed \subseteq Nat
      /\ e \in Nat /\ e \in f .. Last /\ b.listed = f .. Last
  <2>1. Quoted \subseteq Nat /\ b.next \in Nat /\ b.failed \subseteq Nat
    BY <1>0, RankedType, ScanAssumption DEF Raw
  <2>2. f \in Nat \ {0} /\ b.listed = f .. Last
    BY <1>0, <1>1 DEF Window
  <2>3. e \in f .. Last /\ e \in Nat
    BY <1>2, <2>2, ScanAssumption
  <2> QED BY <2>1, <2>2, <2>3
<1>4. e = f + b.next
  <2>1. Place(e, f .. Last) = e - f + 1 /\ Place(e, f .. Last) = b.next + 1
    BY <1>2, <1>3, PlaceInWindow
  <2> HIDE DEF b
  <2> QED BY <1>3, <2>1
<1>5. /\ c.next = b.next + 1 /\ c.listed = b.listed
      /\ \/ c.rows = b.rows \cup ({e} \cap Quoted) /\ c.failed = b.failed
         \/ c.rows = b.rows /\ c.failed = b.failed \cup {e}
  BY <1>0, <1>2 DEF TypeOK, Raw
<1>6. /\ b.rows = {g \in Quoted : f <= g /\ g < f + b.next} \ b.failed
      /\ \A g \in b.failed : g < f + b.next
  BY <1>1 DEF Window
<1> HIDE DEF b, c
<1>7. \A g \in Nat : g < f + c.next <=> g < f + b.next \/ g = e
  BY <1>3, <1>4, <1>5
<1>8. e \notin b.failed /\ f <= e
  BY <1>3, <1>4, <1>6
<1>9. c.rows = {g \in Quoted : f <= g /\ g < f + c.next} \ c.failed
  <2>1. {g \in Quoted : f <= g /\ g < f + c.next}
          = {g \in Quoted : f <= g /\ g < f + b.next} \cup ({e} \cap Quoted)
    BY <1>3, <1>7, <1>8
  <2>2. e \notin {g \in Quoted : f <= g /\ g < f + b.next}
    BY <1>3, <1>4
  <2> QED BY <1>5, <1>6, <1>8, <2>1, <2>2
<1>10. \A g \in c.failed : g < f + c.next
  BY <1>3, <1>5, <1>6, <1>7
<1>11. Window(c, f)
  BY <1>3, <1>5, <1>9, <1>10 DEF Window
<1> QED BY <1>11 DEF Held, c

LEMMA RawHeld ==
  ASSUME TypeOK, Windows, Next, NEW t \in Tabs, raw'[t] # None
  PROVE  Held(raw'[t], cutoff)
<1>1. CASE raw'[t] = raw[t]
  BY <1>1 DEF Windows
<1>2. CASE Continue(t)
  <2>1. raw[t] # None /\ raw'[t] = Filtered(raw[t])
    BY <1>2 DEF Continue, TypeOK
  <2>2. PICK f \in 1 .. cutoff : Window(raw[t], f)
    BY <2>1 DEF Windows, Held
  <2>3. raw[t] \in Raw /\ cutoff \in 1 .. cutoff
    BY <2>1, ScanAssumption DEF TypeOK
  <2>4. Window(Filtered(raw[t]), cutoff)
    BY <2>2, <2>3, FilteredWindow
  <2> QED BY <2>1, <2>3, <2>4 DEF Held
<1>3. CASE Loaded(t)
  BY <1>3 DEF Loaded, TypeOK, Windows
<1>4. CASE Open(t)
  BY <1>4 DEF Open, TypeOK, Windows
<1>5. CASE ~ (Continue(t) \/ Loaded(t) \/ Open(t))
  <2>1. ASSUME NEW u \in Tabs, Continue(u) \/ Loaded(u) \/ Open(u) PROVE raw'[t] = raw[t]
    <3>1. u # t
      BY <1>5, <2>1
    <3> QED BY <2>1, <3>1 DEF Continue, Loaded, Open, TypeOK
  <2>2. ASSUME NEW u \in Tabs,
               \/ Scan(u) \/ Load(u) \/ PruneFirst(u) \/ Group(u) \/ Add(u) \/ Added(u) \/ Finish(u)
               \/ PruneShown(u) \/ Look(u) \/ Cache(u) \/ Show(u) \/ Cut(u)
        PROVE raw' = raw
    BY <2>2 DEF Scan, Load, PruneFirst, Group, Add, Added, Finish, PruneShown, Look, Cache, Show, Cut, scan
  <2>3. ASSUME StartExport \/ ReadMarks \/ ReadRows \/ Midnight PROVE raw' = raw
    BY <2>3 DEF StartExport, ReadMarks, ReadRows, Midnight, scan
  <2> QED BY <1>1, <2>1, <2>2, <2>3 DEF Next, Step
<1> QED BY <1>2, <1>3, <1>4, <1>5

LEMMA BatchHeld ==
  ASSUME TypeOK, Windows, Next, NEW t \in Tabs, batch'[t] # None
  PROVE  Held(batch'[t], cutoff)
<1>0. cutoff \in Nat /\ cutoff \in 1 .. cutoff /\ Last \in Nat
  BY ScanAssumption DEF TypeOK
<1>1. CASE batch'[t] = batch[t]
  BY <1>1 DEF Windows
<1>2. CASE Scan(t)
  <2> DEFINE b == [listed |-> Eligible(Expirations), next |-> 0, rows |-> {}, failed |-> {}, bad |-> 0]
  <2>1. batch'[t] = b
    BY <1>2 DEF Scan, TypeOK
  <2>2. Eligible(Expirations) = cutoff .. Last
    BY <1>0 DEF Eligible, Expirations
  <2>3. {e \in Quoted : cutoff <= e /\ e < cutoff + 0} = {}
    BY <1>0, RankedType
  <2>4. Window(b, cutoff)
    BY <2>2, <2>3 DEF Window
  <2> QED BY <1>0, <2>1, <2>4 DEF Held
<1>3. CASE Continue(t)
  <2> DEFINE r == Filtered(raw[t])
  <2>1. CASE ChainsComplete(r)
    <3>1. batch' = batch
      BY <1>3, <2>1 DEF Continue
    <3> QED BY <1>1, <3>1
  <2>2. CASE ~ ChainsComplete(r)
    <3>1. raw'[t] = r /\ raw[t] \in Raw
      BY <1>3 DEF Continue, TypeOK
    <3>2. r \in Raw
      BY <3>1, FilteredType
    <3>3. PICK f \in 1 .. cutoff : Window(r, f)
      <4>1. raw'[t] # None
        BY <3>1, <3>2, NoneIsNone
      <4> QED BY <3>1, <4>1, RawHeld DEF Held
    <3>4. batch'[t] = [r EXCEPT !.bad = 0]
      BY <1>3, <2>2 DEF Continue, TypeOK
    <3> HIDE DEF r
    <3>5. Window([r EXCEPT !.bad = 0], f)
      BY <3>2, <3>3 DEF Window, Raw
    <3> QED BY <3>4, <3>5 DEF Held
  <2> QED BY <2>1, <2>2
<1>4. CASE Load(t)
  <2>1. batch[t] # None
    BY <1>4 DEF Load, TypeOK
  <2> QED BY <1>4, <2>1, LoadHeld DEF Windows
<1>5. CASE ~ (Scan(t) \/ Continue(t) \/ Load(t))
  <2>1. ASSUME NEW u \in Tabs, Scan(u) \/ Continue(u) \/ Load(u) PROVE batch'[t] = batch[t]
    <3>1. u # t
      BY <1>5, <2>1
    <3> QED BY <2>1, <3>1 DEF Scan, Continue, Load, TypeOK
  <2>2. ASSUME NEW u \in Tabs, Loaded(u) \/ Cut(u) PROVE batch'[t] = batch[t]
    BY <2>2 DEF Loaded, Cut, TypeOK
  <2>3. ASSUME NEW u \in Tabs,
               \/ PruneFirst(u) \/ Group(u) \/ Add(u) \/ Added(u) \/ Finish(u)
               \/ PruneShown(u) \/ Look(u) \/ Cache(u) \/ Show(u) \/ Open(u)
        PROVE batch' = batch
    BY <2>3 DEF PruneFirst, Group, Add, Added, Finish, PruneShown, Look, Cache, Show, Open, scan
  <2>4. ASSUME StartExport \/ ReadMarks \/ ReadRows \/ Midnight PROVE batch' = batch
    BY <2>4 DEF StartExport, ReadMarks, ReadRows, Midnight, scan
  <2> QED BY <1>1, <2>1, <2>2, <2>3, <2>4 DEF Next, Step
<1> QED BY <1>2, <1>3, <1>4, <1>5

\* The store was pruned, to the window or beyond it, before chains are ranked.
LEMMA RankingHeld ==
  ASSUME TypeOK, Rows, Windows, Next, NEW t \in Tabs, pc'[t] \in {"pruned", "add", "added"}
  PROVE  Held(raw'[t], minimum')
<1>0. {cutoff, minimum, minimum'} \subseteq Nat /\ minimum <= minimum'
  BY StoreOnward DEF Windows
<1>00. t # Export
  BY ScanAssumption
<1>1. CASE raw'[t] = raw[t] /\ pc[t] \in {"pruned", "add", "added"}
  BY <1>0, <1>1, LongerHeld DEF Windows
<1>2. CASE PruneFirst(t)
  <2>1. raw'[t] = raw[t] /\ cutoff' = cutoff /\ pc[t] = "rank"
    BY <1>2 DEF PruneFirst, Prunes, scan
  <2>2. asked[t] # 0 /\ asked[t] \in Nat
    <3>1. CASE lock = t
      BY <2>1, <3>1, CutoffType DEF Rows, Pruned, Adds
    <3>2. CASE lock # t
      <4>1. pc'[t] # pc[t]
        BY <2>1
      <4> QED BY <1>2, <3>2, <4>1, CutoffType DEF PruneFirst, Prunes
    <3> QED BY <3>1, <3>2
  <2>3. Held(raw[t], asked[t])
    BY <2>1, <2>2 DEF Windows
  <2>4. asked[t] <= minimum'
    <3>1. CASE PruneMetadata(asked[t])
      BY <2>2, <3>1 DEF PruneMetadata
    <3>2. CASE ~ PruneMetadata(asked[t])
      <4>1. Current(asked[t]) /\ UNCHANGED metadata
        BY <1>2, <2>1, <3>2 DEF PruneFirst, Prunes
      <4> QED BY <4>1 DEF Current, metadata
    <3> QED BY <3>1, <3>2
  <2> QED BY <1>0, <2>1, <2>2, <2>3, <2>4, LongerHeld
<1>3. CASE ~ PruneFirst(t) /\ pc'[t] # pc[t]
  <2>1. \A u \in Tabs : Scan(u) \/ Continue(u) \/ Loaded(u) \/ PruneFirst(u) \/ Show(u) \/ Look(u)
                         \/ Cache(u) \/ Cut(u) \/ PruneShown(u) \/ Finish(u) => FALSE
    BY <1>3 DEF Scan, Continue, Loaded, PruneFirst, Show, Look, Cache, Cut, PruneShown, Finish, Prunes,
                Goto, TypeOK
  <2>2. ~ (StartExport \/ ReadMarks \/ ReadRows \/ Midnight)
    BY <1>00, <1>3 DEF StartExport, ReadMarks, ReadRows, Midnight, Goto, TypeOK
  <2>3. ASSUME NEW u \in Tabs, Group(u) \/ Add(u) \/ Added(u)
        PROVE  raw' = raw /\ pc[t] \in {"pruned", "add", "added"}
    BY <1>3, <2>3 DEF Group, Add, Added, Goto, TypeOK
  <2>4. ASSUME NEW u \in Tabs, Load(u) \/ Open(u) PROVE FALSE
    BY <1>3, <2>4 DEF Load, Open
  <2> QED BY <1>1, <2>1, <2>2, <2>3, <2>4 DEF Next, Step
<1>4. CASE pc'[t] = pc[t]
  <2>1. raw[t] # None /\ pc[t] \in {"pruned", "add", "added"}
    BY <1>4 DEF TypeOK
  <2>2. raw'[t] = raw[t]
    <3>1. ASSUME NEW u \in Tabs, Continue(u) \/ Loaded(u) \/ Open(u) PROVE raw'[t] = raw[t]
      BY <2>1, <3>1 DEF Continue, Loaded, Open, TypeOK
    <3>2. ASSUME NEW u \in Tabs,
                 \/ Scan(u) \/ Load(u) \/ PruneFirst(u) \/ Group(u) \/ Add(u) \/ Added(u) \/ Finish(u)
                 \/ PruneShown(u) \/ Look(u) \/ Cache(u) \/ Show(u) \/ Cut(u)
          PROVE raw' = raw
      BY <3>2 DEF Scan, Load, PruneFirst, Group, Add, Added, Finish, PruneShown, Look, Cache, Show, Cut,
                  scan
    <3>3. ASSUME StartExport \/ ReadMarks \/ ReadRows \/ Midnight PROVE raw' = raw
      BY <3>3 DEF StartExport, ReadMarks, ReadRows, Midnight, scan
    <3> QED BY <3>1, <3>2, <3>3 DEF Next, Step
  <2> QED BY <1>1, <2>1, <2>2
<1> QED BY <1>2, <1>3, <1>4

\* As many ranked chains as loaded ones are all of them.
LEMMA FinishWhole ==
  ASSUME TypeOK, Known, Windows, NEW t \in Tabs, Finish(t)
  PROVE  Whole(result'[t], minimum, completed)
<1> DEFINE r == raw[t]
<1>1. /\ r \in Raw /\ pc[t] = "add"
      /\ result'[t] = [complete |-> AllRanked(t), failed |-> r.failed, stopped |-> r.bad = 2]
  BY DEF Finish, TypeOK
<1>2. PICK f \in 1 .. minimum : Window(r, f)
  BY <1>1 DEF Windows, Held
<1>3. SUFFICES ASSUME AllRanked(t), r.failed = {}
               PROVE  {e \in Quoted : e >= minimum} \subseteq completed
  BY <1>1 DEF Whole
<1>4. f \in Nat \ {0} /\ minimum \in Nat /\ f <= minimum /\ Quoted \subseteq Nat
  BY RankedType, ScanAssumption DEF TypeOK
<1>5. r.rows = {e \in Quoted : f <= e}
  BY <1>1, <1>2, <1>3, <1>4, WholeWindow DEF AllRanked
<1>6. completed \subseteq r.rows
  BY <1>4, <1>5 DEF Known, TypeOK
<1>7. IsFiniteSet(r.rows)
  BY <1>5, RankedType, ExpirationsFinite
<1>8. completed = r.rows
  BY <1>3, <1>6, <1>7, FS_Subset DEF AllRanked
<1>9. \A e \in Quoted : e >= minimum => f <= e
  BY <1>4
<1> QED BY <1>5, <1>8, <1>9

LEMMA ResultWhole ==
  ASSUME TypeOK, Known, Rows, Windows, Next
  PROVE  /\ \A t \in Tabs : result'[t] # None => Whole(result'[t], minimum', completed')
         /\ memory' # None => /\ Held(memory'.raw, cutoff)
                             /\ Whole(memory'.result, minimum', completed')
<1>0. \A o : Whole(o, minimum, completed) => Whole(o, minimum', completed')
  BY StoreOnward DEF Windows
<1>1. CASE UNCHANGED <<result, memory>>
  BY <1>0, <1>1 DEF Windows
<1>2. ASSUME NEW t \in Tabs, Finish(t)
      PROVE  /\ \A u \in Tabs : result'[u] # None => Whole(result'[u], minimum', completed')
             /\ memory' # None => /\ Held(memory'.raw, cutoff)
                                 /\ Whole(memory'.result, minimum', completed')
  <2>1. Whole(result'[t], minimum', completed')
    BY <1>0, <1>2, FinishWhole
  <2>2. \A u \in Tabs : u # t => result'[u] = result[u]
    BY <1>2 DEF Finish, TypeOK
  <2>3. memory' = [raw |-> raw[t], result |-> result'[t]] /\ raw[t] # None
    BY <1>2 DEF Finish, TypeOK
  <2>4. memory'.raw = raw[t] /\ memory'.result = result'[t]
    BY <2>3
  <2>5. Held(raw[t], cutoff)
    BY <2>3 DEF Windows
  <2> QED BY <1>0, <2>1, <2>2, <2>4, <2>5 DEF Windows
<1>3. ASSUME NEW t \in Tabs, Open(t)
      PROVE  /\ \A u \in Tabs : result'[u] # None => Whole(result'[u], minimum', completed')
             /\ memory' # None => /\ Held(memory'.raw, cutoff)
                                 /\ Whole(memory'.result, minimum', completed')
  <2>1. /\ memory # None /\ memory' = memory /\ result'[t] = memory.result
        /\ \A u \in Tabs : u # t => result'[u] = result[u]
    BY <1>3 DEF Open, TypeOK
  <2> QED BY <1>0, <2>1 DEF Windows
<1>4. ASSUME NEW t \in Tabs,
             \/ Scan(t) \/ Continue(t) \/ Load(t) \/ Loaded(t) \/ PruneFirst(t) \/ Group(t) \/ Add(t)
             \/ Added(t) \/ PruneShown(t) \/ Look(t) \/ Cache(t) \/ Show(t) \/ Cut(t)
      PROVE  UNCHANGED <<result, memory>>
  BY <1>4 DEF Scan, Continue, Load, Loaded, PruneFirst, Group, Add, Added, PruneShown, Look, Cache,
              Show, Cut, scan
<1>5. ASSUME StartExport \/ ReadMarks \/ ReadRows \/ Midnight PROVE UNCHANGED <<result, memory>>
  BY <1>5 DEF StartExport, ReadMarks, ReadRows, Midnight, scan
<1> QED BY <1>1, <1>2, <1>3, <1>4, <1>5 DEF Next, Step

\* A pruning has the cutoff of a moment when the chains were filtered, or later.
LEMMA AskedHeld ==
  ASSUME TypeOK, Windows, Next
  PROVE  /\ \A p \in Tabs \cup {Export} : asked'[p] <= cutoff
         /\ \A t \in Tabs : asked'[t] # 0 => pc'[t] \in {"rank", "show"}
         /\ \A t \in Tabs : pc'[t] = "rank" /\ asked'[t] # 0 => Held(raw'[t], asked'[t])
<1> DEFINE P == /\ \A p \in Tabs \cup {Export} : asked'[p] <= cutoff
                /\ \A t \in Tabs : asked'[t] # 0 => pc'[t] \in {"rank", "show"}
                /\ \A t \in Tabs : pc'[t] = "rank" /\ asked'[t] # 0 => Held(raw'[t], asked'[t])
<1>0. /\ cutoff \in Nat /\ Export \notin Tabs
      /\ \A p \in Tabs \cup {Export} : asked[p] \in Nat /\ asked[p] <= cutoff
  BY CutoffType, ScanAssumption DEF Windows
<1>1. ASSUME NEW u \in Tabs, PruneFirst(u) \/ PruneShown(u) PROVE P
  <2>1. PICK from \in {"rank", "show"}, to \in {"pruned", "look"} : Prunes(u, from, to)
    BY <1>1 DEF PruneFirst, PruneShown
  <2>2. raw' = raw /\ pc[u] = from
    BY <1>1, <2>1 DEF PruneFirst, PruneShown, Prunes, scan
  <2>3. /\ \A p \in Tabs \cup {Export} : p # u => asked'[p] = asked[p] /\ pc'[p] = pc[p]
        /\ \/ asked'[u] = asked[u] /\ pc'[u] = pc[u]
           \/ asked'[u] = cutoff /\ pc'[u] = pc[u]
           \/ asked'[u] = 0
    BY <2>1 DEF Prunes, Ask, Goto, TypeOK
  <2>4. pc[u] = "rank" => Held(raw[u], cutoff)
    BY DEF Windows, TypeOK
  <2> QED BY <1>0, <2>2, <2>3, <2>4 DEF Windows
<1>2. CASE StartExport \/ ReadRows
  <2>1. /\ \A t \in Tabs : asked'[t] = asked[t] /\ pc'[t] = pc[t]
        /\ asked'[Export] \in {0, cutoff} /\ raw' = raw
    BY <1>0, <1>2 DEF StartExport, ReadRows, Ask, Goto, TypeOK, scan
  <2> QED BY <1>0, <2>1 DEF Windows
<1>3. ASSUME NEW u \in Tabs, \/ Scan(u) \/ Continue(u) \/ Load(u) \/ Loaded(u) \/ Group(u) \/ Add(u)
                             \/ Added(u) \/ Finish(u) \/ Look(u) \/ Cache(u) \/ Show(u) \/ Cut(u)
                             \/ Open(u)
      PROVE  P
  <2>1. asked' = asked /\ pc[u] \notin {"rank", "show"}
    BY <1>3 DEF Scan, Continue, Load, Loaded, Group, Add, Added, Finish, Look, Cache, Show, Cut, Open,
                store, TypeOK
  <2>2. \A t \in Tabs : t # u => pc'[t] = pc[t] /\ raw'[t] = raw[t]
    BY <1>3 DEF Scan, Continue, Load, Loaded, Group, Add, Added, Finish, Look, Cache, Show, Cut, Open,
                Goto, scan, TypeOK
  <2>3. asked[u] = 0
    BY <2>1 DEF Windows
  <2> QED BY <1>0, <2>1, <2>2, <2>3 DEF Windows
<1>4. CASE ReadMarks \/ Midnight
  <2>1. asked' = asked /\ raw' = raw /\ \A t \in Tabs : pc'[t] = pc[t]
    BY <1>0, <1>4 DEF ReadMarks, Midnight, store, scan, Goto, TypeOK
  <2> QED BY <1>0, <2>1 DEF Windows
<1> QED BY <1>1, <1>2, <1>3, <1>4 DEF Next, Step

LEMMA WindowsStep ==
  ASSUME TypeOK, Known, Rows, Windows, Next
  PROVE  Windows'
<1>1. /\ {cutoff, cutoff', minimum, minimum'} \subseteq Nat
      /\ cutoff <= cutoff' /\ minimum' <= cutoff'
  BY StoreOnward DEF Windows
<1>2. \A t \in Tabs : raw'[t] # None => Held(raw'[t], cutoff')
  BY <1>1, RawHeld, LongerHeld
<1>3. \A t \in Tabs : batch'[t] # None => Held(batch'[t], cutoff')
  BY <1>1, BatchHeld, LongerHeld
<1>4. \A t \in Tabs : pc'[t] \in {"pruned", "add", "added"} => Held(raw'[t], minimum')
  BY RankingHeld
<1>5. /\ \A t \in Tabs : result'[t] # None => Whole(result'[t], minimum', completed')
      /\ memory' # None => /\ Held(memory'.raw, cutoff')
                          /\ Whole(memory'.result, minimum', completed')
  BY <1>1, ResultWhole, LongerHeld
<1>6. /\ \A p \in Tabs \cup {Export} : asked'[p] <= cutoff'
      /\ \A t \in Tabs : asked'[t] # 0 => pc'[t] \in {"rank", "show"}
      /\ \A t \in Tabs : pc'[t] = "rank" /\ asked'[t] # 0 => Held(raw'[t], asked'[t])
  <2>1. \A p \in Tabs \cup {Export} : asked'[p] <= cutoff /\ asked'[p] \in Nat
    BY AskedHeld, TypeStep, ScanAssumption DEF TypeOK
  <2> QED BY <1>1, <2>1, AskedHeld
<1> QED BY <1>1, <1>2, <1>3, <1>4, <1>5, <1>6 DEF Windows

\* What is shown as complete has every chain that is still eligible.
THEOREM ShownIsWhole == Spec => []CompleteIsWhole
<1>1. Init => Windows
  BY ScanAssumption DEF Init, Windows
<1>2. IInv /\ Windows /\ [Next]_vars => Windows'
  <2> SUFFICES ASSUME IInv, Windows, [Next]_vars PROVE Windows'
    OBVIOUS
  <2>1. CASE Next
    BY <2>1, WindowsStep DEF IInv
  <2>2. CASE UNCHANGED vars
    BY <2>2 DEF vars, store, metadata, scan, Windows
  <2> QED BY <2>1, <2>2
<1>3. Windows => CompleteIsWhole
  BY DEF Windows, CompleteIsWhole, Shown, Whole
<1> QED BY <1>1, <1>2, <1>3, Invariance, PTL DEF Spec
=============================================================================
