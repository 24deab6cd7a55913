-------------------------- MODULE RiskOrders_proof --------------------------
(***************************************************************************)
(* Proofs about RiskOrders for any number of plans, shares, orders,        *)
(* sessions and faults.                                                    *)
(***************************************************************************)
EXTENDS RiskOrders, SequenceTheorems, WellFoundedInduction, TLAPS

-----------------------------------------------------------------------------
(* The invariant                                                           *)

\* Entry e has bought all its shares, as planned in p.
Backed(e, p) == Entry(e) /\ orders[e].filled = Shares /\ orders[e].plan = p

\* The orders at the broker.
Sound(o) ==
  /\ orders[o].status = "EXECUTED" => orders[o].filled = Shares
  /\ orders[o].protects # 0 => Backed(orders[o].protects, orders[o].plan)
Book == \A o \in DOMAIN orders : Sound(o)

\* The rows of the watch log are entries, and those that ended bought nothing.
Log ==
  \A o \in Ids :
    /\ watch[o] # "none" => Entry(o)
    /\ watch[o] \in Ended => orders[o].filled = 0 /\ orders[o].status \notin Live

\* What a run has at hand, and what is kept for the next one.
Hands ==
  /\ review # None => review.protects = 0
  /\ stopReview # None => Backed(stopReview.protects, stopReview.plan)
  /\ Placing => Room
  /\ pc = "placeEntry" => review # None
  /\ pc \in {"placeStop", "stopPlaced", "stopRecorded"} => stopReview # None
  /\ pc \in {"entryPlaced", "entryRecorded"} => Entry(placed)
  /\ pc = "stopPlaced" => placed \in DOMAIN orders /\ orders[placed].protects # 0
  /\ pc = "stopRecorded" => stopOrder # 0

\* The page says that an entry, or a stop, is uncertain.  A row that could be
\* restored would hide the first.
EntryUnsure == entryOrder = 0 /\ entryUncertain # None /\ \A o \in Ids : watch[o] \notin Recoverable
StopUnsure == entryOrder # 0 /\ stopOrder = 0 /\ stopUncertain

\* Where there may be orders nobody on this side knows of.
Unsure ==
  /\ pc \in {"placeEntry", "entryPlaced"} => EntryUnsure
  /\ pc \in {"placeStop", "stopPlaced"} => StopUnsure
  /\ pc \in {"placeEntry", "placeStop", "entryRecorded", "stopRecorded", "clear"} => blind = {}
  /\ pc \in {"entryPlaced", "stopPlaced"} => blind \subseteq {placed}
  /\ pc = "idle" /\ blind # {} => EntryUnsure \/ StopUnsure

IInv == TypeOK /\ Book /\ Log /\ Hands /\ Unsure

-----------------------------------------------------------------------------
(* Helpers                                                                 *)

LEMMA OrdersAre ==
  ASSUME TypeOK
  PROVE  /\ Len(orders) \in Nat /\ DOMAIN orders = 1 .. Len(orders) /\ DOMAIN orders \subseteq Ids
         /\ orders \in [DOMAIN orders -> Orders] /\ 0 \notin DOMAIN orders
<1>1. orders \in Seq(Orders) /\ Len(orders) <= MaxOrders /\ MaxOrders \in Nat
  BY RiskAssumption DEF TypeOK
<1>2. /\ Len(orders) \in Nat /\ DOMAIN orders = 1 .. Len(orders)
      /\ orders \in [1 .. Len(orders) -> Orders]
  BY <1>1, LenProperties
<1> QED BY <1>1, <1>2 DEF Ids

\* The component of the watch log never stores anything.
LEMMA PersistIs == ASSUME NEW log, Persist(log) PROVE watch' = log /\ storage' = storage
BY DEF Persist, Stored, mode, hydrated

LEMMA SeenIs ==
  ASSUME NEW o \in Orders, o.status = "EXECUTED" => o.filled = Shares
  PROVE  /\ Seen(o) \in Statuses /\ Seen(o) # "none"
         /\ Seen(o) \in Ended => o.filled = 0 /\ o.status \notin Live
         /\ Seen(o) \in Ended \cup Active \cup {"READY_TO_SEND"}
         /\ FullFill(o) => o.filled = Shares
<1>1. o.filled \in 0 .. Shares /\ Shares \in Nat \ {0}
  BY RiskAssumption DEF Orders
<1>2. FullFill(o) => o.filled = Shares
  BY DEF FullFill
<1>3. ~ FullFill(o) /\ ~ PartialFill(o) => o.filled = 0
  BY <1>1 DEF FullFill, PartialFill
<1>4. \/ Seen(o) \in {"READY_TO_SEND", "PARTIAL_FILL", "WAITING_FILL"}
      \/ /\ ~ FullFill(o) /\ ~ PartialFill(o) /\ o.status \notin Live
         /\ Seen(o) \in Ended
  BY DEF Seen, Ended, Live
<1>5. Seen(o) \in Ended \cup Active \cup {"READY_TO_SEND"}
  BY <1>4 DEF Active
<1>6. Seen(o) \in Ended => ~ FullFill(o) /\ ~ PartialFill(o) /\ o.status \notin Live
  BY <1>4 DEF Ended
<1>7. Seen(o) \in Statuses /\ Seen(o) # "none"
  BY <1>5 DEF Statuses, Recoverable, Active, Ended
<1> QED BY <1>2, <1>3, <1>5, <1>6, <1>7

LEMMA NoReview == \A r \in Reviews : r # None
BY NoneAssumption

\* A set of order ids has a largest one.
LEMMA Latest ==
  ASSUME NEW T, T \subseteq Ids, T # {}
  PROVE  \E x \in T : \A y \in T : y <= x
<1>0. MaxOrders \in Nat
  BY RiskAssumption
<1> DEFINE N == {MaxOrders - x : x \in T}
           R == {ss \in Nat \X Nat : ss[1] < ss[2]}
<1>1. N \subseteq Nat /\ N # {}
  <2>1. ASSUME NEW x \in T PROVE MaxOrders - x \in Nat
    <3>1. x \in Nat /\ 1 <= x /\ x <= MaxOrders
      BY <1>0 DEF Ids
    <3> QED BY <1>0, <3>1
  <2> QED BY <2>1
<1>2. IsWellFoundedOn(R, Nat)
  BY NatLessThanWellFounded DEF OpToRel
<1>3. PICK n \in N : \A m \in N : ~ (<<m, n>> \in R)
  <2> HIDE DEF R, N
  <2> QED BY <1>1, <1>2, WFMin
<1>4. PICK x \in T : n = MaxOrders - x
  BY <1>3
<1>5. ASSUME NEW y \in T PROVE y <= x
  <2>1. MaxOrders - y \in N /\ MaxOrders - y \in Nat /\ n \in Nat
    BY <1>1, <1>3
  <2>2. ~ (MaxOrders - y < n)
    BY <1>3, <2>1
  <2> QED BY <1>0, <1>4, <2>2 DEF Ids
<1> QED BY <1>5

\* An entry is restored only where there is none, and if there is one to restore.
LEMMA Restoring ==
  \/ RestoredEntry = entryOrder /\ (entryOrder # 0 \/ \A o \in Ids : watch[o] \notin Recoverable)
  \/ entryOrder = 0 /\ RestoredEntry \in Ids /\ watch[RestoredEntry] \in Recoverable
<1>1. CASE entryOrder # 0 \/ \A o \in Ids : watch[o] \notin Recoverable
  BY <1>1 DEF RestoredEntry
<1>2. CASE entryOrder = 0 /\ \E o \in Ids : watch[o] \in Recoverable
  <2> DEFINE T == {o \in Ids : watch[o] \in Recoverable}
  <2>1. PICK x \in T : \A y \in T : y <= x
    <3>1. T \subseteq Ids /\ T # {}
      BY <1>2
    <3> HIDE DEF T
    <3> QED BY <3>1, Latest
  <2>2. \E o \in Ids : watch[o] \in Recoverable /\ \A p \in Ids : watch[p] \in Recoverable => p <= o
    BY <2>1
  <2> QED BY <1>2, <2>2 DEF RestoredEntry
<1> QED BY <1>1, <1>2

\* With the page as it should be there is nothing to restore.
LEMMA NothingToRestore ==
  ASSUME Rendered, entryOrder = 0
  PROVE  \A o \in Ids : watch[o] \notin Recoverable
<1>1. 0 \notin Ids
  BY RiskAssumption DEF Ids
<1> QED BY <1>1, Restoring DEF Rendered

-----------------------------------------------------------------------------
(* The orders of the broker                                                *)

\* What has happened to the orders, in any step.
Advance ==
  /\ orders' \in Seq(Orders) /\ Len(orders') <= MaxOrders
  /\ DOMAIN orders \subseteq DOMAIN orders'
  /\ \A o \in DOMAIN orders :
       /\ orders'[o].plan = orders[o].plan /\ orders'[o].protects = orders[o].protects
       /\ orders[o].filled = Shares => orders'[o].filled = Shares
       /\ orders[o].status \notin Live => orders'[o] = orders[o]

\* Nothing that was an entry, or was bought, ceases to be.
LEMMA BackedStays ==
  ASSUME TypeOK, Advance
  PROVE  /\ \A e : Entry(e) => Entry(e)'
         /\ \A e, p : Backed(e, p) => Backed(e, p)'
BY OrdersAre DEF Advance, Entry, Backed

\* The order that is placed is the review's.
LEMMA Grows ==
  ASSUME IInv, Placing, BrokerTakes
  PROVE  /\ Advance
         /\ Len(orders') = Len(orders) + 1
         /\ DOMAIN orders' = DOMAIN orders \cup {NextId} /\ NextId \notin DOMAIN orders
         /\ \A o \in DOMAIN orders : orders'[o] = orders[o]
         /\ orders'[NextId] = NewOrder
         /\ NewOrder.status = "OPEN"
         /\ pc = "placeEntry" => NewOrder.protects = 0
         /\ pc = "placeStop" => NewOrder.protects # 0 /\ Backed(NewOrder.protects, NewOrder.plan)
<1>0. TypeOK /\ Hands /\ MaxOrders \in Nat /\ Shares \in Nat \ {0}
  BY RiskAssumption DEF IInv
<1>1. /\ Len(orders) \in Nat /\ DOMAIN orders = 1 .. Len(orders) /\ 0 \notin DOMAIN orders
      /\ orders \in Seq(Orders) /\ Len(orders) < MaxOrders
  BY <1>0, OrdersAre DEF Hands, Room, TypeOK
<1> DEFINE r == IF pc = "placeEntry" THEN review ELSE stopReview
<1>2. r \in Reviews
  BY <1>0 DEF Hands, Placing, TypeOK
<1>3. NewOrder = [plan |-> r.plan, protects |-> r.protects, filled |-> 0, status |-> "OPEN"]
  BY DEF NewOrder
<1>4. NewOrder \in Orders /\ NewOrder.status = "OPEN" /\ NewOrder.protects = r.protects /\ NewOrder.plan = r.plan
  BY <1>0, <1>2, <1>3 DEF Orders, Reviews, Live
<1>5. /\ pc = "placeEntry" => NewOrder.protects = 0
      /\ pc = "placeStop" => NewOrder.protects # 0 /\ Backed(NewOrder.protects, NewOrder.plan)
  BY <1>0, <1>1, <1>4 DEF Hands, Placing, Backed, Entry
<1>6. orders' = Append(orders, NewOrder)
  BY DEF BrokerTakes
<1> HIDE DEF r
<1>7. /\ orders' \in Seq(Orders) /\ Len(orders') = Len(orders) + 1
      /\ \A o \in 1 .. Len(orders) : orders'[o] = orders[o]
      /\ orders'[Len(orders) + 1] = NewOrder
  BY <1>1, <1>4, <1>6, AppendProperties
<1>8. DOMAIN orders' = 1 .. Len(orders) + 1
  BY <1>7, LenProperties
<1>9. DOMAIN orders' = DOMAIN orders \cup {NextId} /\ NextId \notin DOMAIN orders
  BY <1>1, <1>8 DEF NextId
<1>10. Advance
  BY <1>0, <1>1, <1>7, <1>9 DEF Advance
<1> QED BY <1>1, <1>4, <1>5, <1>7, <1>9, <1>10 DEF NextId

\* An open entry is filled, in part or as a whole, or ends.
LEMMA Trades ==
  ASSUME IInv, NEW o \in Ids, Fill(o) \/ EndOrder(o)
  PROVE  /\ Advance
         /\ DOMAIN orders' = DOMAIN orders /\ Len(orders') = Len(orders)
         /\ \A p \in DOMAIN orders : p # o => orders'[p] = orders[p]
         /\ o \in DOMAIN orders /\ orders'[o].protects = 0
         /\ orders'[o].status = "EXECUTED" => orders'[o].filled = Shares
<1>0. /\ Len(orders) \in Nat /\ DOMAIN orders = 1 .. Len(orders) /\ orders \in Seq(Orders)
      /\ Len(orders) <= MaxOrders /\ o \in DOMAIN orders /\ orders[o] \in Orders
      /\ orders[o].protects = 0 /\ orders[o].status \in Live /\ Shares \in Nat \ {0}
  BY OrdersAre, RiskAssumption DEF IInv, TypeOK, Fill, EndOrder, Entry
<1>1. \E e \in Orders : /\ orders' = [orders EXCEPT ![o] = e]
                        /\ e.protects = 0 /\ e.plan = orders[o].plan
                        /\ orders[o].filled = Shares => e.filled = Shares
                        /\ e.status = "EXECUTED" => e.filled = Shares
  <2>1. CASE Fill(o)
    <3>1. PICK n \in orders[o].filled .. Shares, status \in Live \cup {"EXECUTED"} :
            /\ status = "EXECUTED" => n = Shares
            /\ orders' = [orders EXCEPT ![o].filled = n, ![o].status = status]
      BY <2>1 DEF Fill
    <3> DEFINE e == [orders[o] EXCEPT !.filled = n, !.status = status]
    <3>2. n \in 0 .. Shares /\ (orders[o].filled = Shares => n = Shares)
      BY <1>0 DEF Orders
    <3>3. /\ e \in Orders /\ e.protects = 0 /\ e.plan = orders[o].plan /\ e.filled = n
          /\ e.status = "EXECUTED" => e.filled = Shares
      BY <1>0, <3>1, <3>2 DEF Orders
    <3>4. orders' = [orders EXCEPT ![o] = e]
      BY <1>0, <3>1
    <3> QED BY <3>2, <3>3, <3>4
  <2>2. CASE EndOrder(o)
    <3>1. PICK status \in {"CANCELLED", "EXPIRED", "REJECTED"} :
            orders' = [orders EXCEPT ![o].status = status]
      BY <2>2 DEF EndOrder
    <3> DEFINE e == [orders[o] EXCEPT !.status = status]
    <3>2. /\ e \in Orders /\ e.protects = 0 /\ e.plan = orders[o].plan /\ e.filled = orders[o].filled
          /\ e.status # "EXECUTED"
      BY <1>0 DEF Orders
    <3>3. orders' = [orders EXCEPT ![o] = e]
      BY <1>0, <3>1
    <3> QED BY <3>2, <3>3
  <2> QED BY <2>1, <2>2
<1>2. PICK e \in Orders : /\ orders' = [orders EXCEPT ![o] = e]
                          /\ e.protects = 0 /\ e.plan = orders[o].plan
                          /\ orders[o].filled = Shares => e.filled = Shares
                          /\ e.status = "EXECUTED" => e.filled = Shares
  BY <1>1
<1>3. /\ orders' \in Seq(Orders) /\ Len(orders') = Len(orders)
      /\ \A p \in 1 .. Len(orders) : orders'[p] = IF p = o THEN e ELSE orders[p]
  BY <1>0, <1>2, ExceptSeq
<1>4. DOMAIN orders' = DOMAIN orders
  BY <1>0, <1>3, LenProperties
<1> QED BY <1>0, <1>2, <1>3, <1>4 DEF Advance

\* Orders change when one is placed, and when the broker deals with an entry.
LEMMA OrdersChange ==
  ASSUME Next
  PROVE  \/ UNCHANGED orders
         \/ Placing /\ BrokerTakes
         \/ \E p \in Ids : Fill(p) \/ EndOrder(p)
<1>1. \/ Render \/ Age \/ (\E p \in Plans \cup {None} : Edit(p))
      \/ ReviewEntry \/ SendEntry \/ ReviewStop \/ SendStop
      => UNCHANGED orders
  BY Zenon DEF Render, Age, Edit, ReviewEntry, SendEntry, ReviewStop, SendStop
<1>2. \/ RefreshStatus \/ ResetStop \/ _clear_risk_order_workflow \/ Cleared
      \/ Interrupt \/ RecordEntry \/ _arm_stop_watch \/ RecordStop \/ _mark_stop_watch_sent
      \/ NewSession \/ (\E p \in Ids : Poll(p))
      => UNCHANGED orders
  BY Zenon DEF RefreshStatus, ResetStop, _clear_risk_order_workflow, Cleared, Interrupt, RecordEntry,
     _arm_stop_watch, RecordStop, _mark_stop_watch_sent, NewSession, Poll
<1>3. place_order => Placing /\ BrokerTakes
  BY Zenon DEF place_order
<1>4. PlaceFails => UNCHANGED orders \/ (Placing /\ BrokerTakes)
  BY Zenon DEF PlaceFails
<1>5. \/ Render \/ Age \/ (\E p \in Plans \cup {None} : Edit(p))
      \/ ReviewEntry \/ SendEntry \/ ReviewStop \/ SendStop
      \/ RefreshStatus \/ ResetStop \/ _clear_risk_order_workflow \/ Cleared
      \/ place_order \/ PlaceFails \/ Interrupt
      \/ RecordEntry \/ _arm_stop_watch \/ RecordStop \/ _mark_stop_watch_sent
      \/ NewSession \/ (\E p \in Ids : Poll(p)) \/ (\E p \in Ids : Fill(p) \/ EndOrder(p))
  BY Zenon DEF Next
<1> QED BY <1>1, <1>2, <1>3, <1>4, <1>5, Zenon

LEMMA BookStep ==
  ASSUME IInv, Next
  PROVE  Advance /\ Book'
<1>0. TypeOK /\ Book
  BY DEF IInv
<1>1. CASE UNCHANGED orders
  <2>1. Advance
    BY <1>0, <1>1 DEF Advance, TypeOK
  <2> QED BY <1>0, <1>1, <2>1 DEF Book, Sound, Backed, Entry
<1>2. CASE Placing /\ BrokerTakes
  <2>1. Advance
    BY <1>2, Grows
  <2>2. ASSUME NEW o \in DOMAIN orders'
        PROVE  Sound(o)'
    <3>1. CASE o \in DOMAIN orders
      BY <1>0, <1>2, <2>1, <3>1, Grows, BackedStays DEF Book, Sound
    <3>2. CASE o = NextId
      BY <1>0, <1>2, <2>1, <3>2, Grows, BackedStays DEF Placing, Sound
    <3> QED BY <1>2, <3>1, <3>2, Grows
  <2> QED BY <2>1, <2>2 DEF Book
<1>3. ASSUME NEW p \in Ids, Fill(p) \/ EndOrder(p) PROVE Advance /\ Book'
  <2>1. Advance
    BY <1>3, Trades
  <2>2. ASSUME NEW o \in DOMAIN orders'
        PROVE  Sound(o)'
    <3>1. CASE o # p
      BY <1>0, <1>3, <2>1, <3>1, Trades, BackedStays DEF Book, Sound
    <3>2. CASE o = p
      BY <1>3, <3>2, Trades DEF Sound
    <3> QED BY <3>1, <3>2
  <2> QED BY <2>1, <2>2 DEF Book
<1>4. \/ UNCHANGED orders
      \/ Placing /\ BrokerTakes
      \/ \E p \in Ids : Fill(p) \/ EndOrder(p)
  BY OrdersChange
<1> QED BY <1>1, <1>2, <1>3, <1>4

-----------------------------------------------------------------------------
(* The watch log                                                           *)

\* The row of entry id gets status s, which is true of the entry if it is an end.
Relog(id, s) ==
  /\ Entry(id) /\ s \in Statuses /\ s # "none"
  /\ s \in Ended => orders[id].filled = 0 /\ orders[id].status \notin Live
  /\ watch' = [watch EXCEPT ![id] = s]

\* A fill is put into the log as it is.
LEMMA FillIsLogged ==
  ASSUME IInv, NEW id \in Ids, Entry(id), _set_stop_watch_fill(id)
  PROVE  Relog(id, Seen(orders[id])) /\ storage' = storage
<1>1. id \in DOMAIN orders /\ orders[id] \in Orders /\ Sound(id)
  BY OrdersAre DEF IInv, Entry, Book
<1>2. watch' = [watch EXCEPT ![id] = Seen(orders[id])] /\ storage' = storage
  BY PersistIs DEF _set_stop_watch_fill
<1> QED BY <1>1, <1>2, SeenIs DEF Relog, Sound

LEMMA EntryOrderIs == ASSUME IInv, entryOrder # 0 PROVE entryOrder \in Ids /\ Entry(entryOrder)
BY OrdersAre DEF IInv, TypeOK, Entry

\* The review of a stop is for the entry of the page.
LEMMA StopReviewIs ==
  ASSUME IInv, ReviewStop
  PROVE  [plan |-> orders[entryOrder].plan, protects |-> entryOrder, fresh |-> TRUE] \in Reviews
<1>1. entryOrder # 0
  BY DEF ReviewStop, Shows, Screen
<1>2. entryOrder \in DOMAIN orders /\ entryOrder \in 0 .. MaxOrders /\ orders[entryOrder].plan \in Plans
  BY <1>1, EntryOrderIs, OrdersAre, RiskAssumption DEF IInv, Entry, Ids, Orders
<1> QED BY <1>2 DEF Reviews

LEMMA LogChanges ==
  ASSUME IInv, Next
  PROVE  /\ storage' = storage
         /\ \/ watch' = watch
            \/ watch' = NoLog
            \/ \E id \in Ids, s \in Statuses : Relog(id, s)
<1> DEFINE Goal == /\ storage' = storage
                   /\ \/ watch' = watch
                      \/ watch' = NoLog
                      \/ \E id \in Ids, s \in Statuses : Relog(id, s)
<1>0. TypeOK /\ Book /\ Log /\ Hands
  BY DEF IInv
<1>s. ASSUME NEW id \in Ids, Entry(id), _set_stop_watch_fill(id) PROVE Goal
  BY <1>s, FillIsLogged DEF Relog
<1>w. ASSUME NEW id, Entry(id), NEW s \in {"ARMED", "STOP_SENT", "STOP_UNCERTAIN"},
             Persist([watch EXCEPT ![id] = s])
      PROVE  Goal
  <2>1. watch' = [watch EXCEPT ![id] = s] /\ storage' = storage
    BY <1>w, PersistIs
  <2>2. id \in Ids
    BY <1>0, <1>w, OrdersAre DEF Entry
  <2>3. s \in Statuses /\ s # "none" /\ s \notin Ended
    BY DEF Statuses, Recoverable, Active, Ended
  <2> QED BY <1>w, <2>1, <2>2, <2>3 DEF Relog
<1>n. Persist(watch) => Goal
  BY PersistIs
<1> HIDE DEF Goal
<1>1. UNCHANGED <<watch, storage>> => Goal
  BY DEF Goal
<1>2. ASSUME Render PROVE Goal
  <2>1. Persist(Armed)
    BY <1>2 DEF Render
  <2>2. CASE Screen = "watch" /\ watch[entryOrder] = "none"
    <3>1. entryOrder # 0
      BY <2>2 DEF Screen
    <3> QED BY <2>1, <2>2, <3>1, <1>w, EntryOrderIs DEF Armed
  <2>3. CASE ~ (Screen = "watch" /\ watch[entryOrder] = "none")
    BY <2>1, <2>3, <1>n DEF Armed
  <2> QED BY <2>2, <2>3
<1>3. ASSUME ReviewStop \/ RefreshStatus PROVE Goal
  <2>1. Screen = "watch" /\ _set_stop_watch_fill(entryOrder)
    BY <1>3 DEF ReviewStop, RefreshStatus, Shows
  <2>2. entryOrder # 0
    BY <2>1 DEF Screen
  <2> QED BY <2>1, <2>2, <1>s, EntryOrderIs
<1>4. ASSUME NEW o \in Ids, Poll(o) PROVE Goal
  <2>1. Entry(o)
    BY <1>0, <1>4 DEF Poll, Log, Active
  <2> QED BY <1>4, <2>1, <1>s DEF Poll
<1>5. ASSUME PlaceFails PROVE Goal
  <2>1. CASE pc = "placeStop" /\ watch[stopReview.protects] # "none"
    <3>1. Entry(stopReview.protects)
      BY <1>0, <2>1 DEF Hands, Backed
    <3> QED BY <1>5, <2>1, <3>1, <1>w DEF PlaceFails
  <2>2. CASE ~ (pc = "placeStop" /\ watch[stopReview.protects] # "none")
    BY <1>5, <2>2, <1>n DEF PlaceFails
  <2> QED BY <2>1, <2>2
<1>6. ASSUME _arm_stop_watch PROVE Goal
  BY <1>0, <1>6, <1>w DEF _arm_stop_watch, Hands
<1>7. ASSUME _mark_stop_watch_sent PROVE Goal
  <2>1. Entry(stopReview.protects)
    BY <1>0, <1>7 DEF Hands, Backed, _mark_stop_watch_sent
  <2> QED BY <1>7, <2>1, <1>w, <1>n DEF _mark_stop_watch_sent
<1>8. ASSUME NewSession PROVE Goal
  <2>1. watch' = NoLog /\ storage' = storage
    BY <1>8 DEF NewSession, BrowserLog, mode
  <2> QED BY <2>1 DEF Goal
<1>9. \/ Age \/ (\E p \in Plans \cup {None} : Edit(p)) \/ ReviewEntry \/ SendEntry \/ SendStop
      \/ ResetStop \/ _clear_risk_order_workflow \/ Cleared \/ place_order \/ Interrupt
      \/ RecordEntry \/ RecordStop \/ (\E p \in Ids : Fill(p) \/ EndOrder(p))
      => UNCHANGED <<watch, storage>>
  <2>1. Age \/ ReviewEntry \/ SendEntry \/ SendStop \/ ResetStop \/ _clear_risk_order_workflow
        => UNCHANGED <<watch, storage>>
    BY Zenon DEF Age, ReviewEntry, SendEntry, SendStop, ResetStop, _clear_risk_order_workflow
  <2>2. Cleared \/ place_order \/ Interrupt \/ RecordEntry \/ RecordStop => UNCHANGED <<watch, storage>>
    BY Zenon DEF Cleared, place_order, Interrupt, RecordEntry, RecordStop
  <2>3. ASSUME NEW p, Edit(p) \/ Fill(p) \/ EndOrder(p) PROVE UNCHANGED <<watch, storage>>
    BY <2>3, Zenon DEF Edit, Fill, EndOrder
  <2> QED BY <2>1, <2>2, <2>3, Zenon
<1> QED
  <2>1. Goal
    BY <1>1, <1>2, <1>3, <1>4, <1>5, <1>6, <1>7, <1>8, <1>9, Zenon DEF Next
  <2> QED BY <2>1 DEF Goal

LEMMA LogStep ==
  ASSUME IInv, Next
  PROVE  /\ Log'
         /\ watch' \in [Ids -> Statuses] /\ storage' \in [Ids -> Statuses]
<1>0. TypeOK /\ Log /\ Advance
  BY BookStep DEF IInv
<1>1. NoLog \in [Ids -> Statuses] /\ \A o \in Ids : NoLog[o] = "none"
  BY DEF NoLog, Statuses
<1>2. watch \in [Ids -> Statuses] /\ storage \in [Ids -> Statuses] /\ "none" \notin Ended
  BY <1>0 DEF TypeOK, Ended
<1>3. \A o \in Ids : watch[o] # "none" => Entry(o)' /\ (watch[o] \in Ended => orders'[o].filled = 0 /\ orders'[o].status \notin Live)
  BY <1>0, BackedStays DEF Log, Advance, Entry
<1>4. CASE watch' = watch
  BY <1>2, <1>3, <1>4, LogChanges DEF Log
<1>5. CASE watch' = NoLog
  BY <1>1, <1>2, <1>5, LogChanges DEF Log
<1>6. ASSUME NEW id \in Ids, NEW s \in Statuses, Relog(id, s)
      PROVE  Log' /\ watch' \in [Ids -> Statuses]
  <2>1. watch' \in [Ids -> Statuses] /\ \A o \in Ids : watch'[o] = IF o = id THEN s ELSE watch[o]
    BY <1>2, <1>6 DEF Relog
  <2>2. Entry(id)' /\ (s \in Ended => orders'[id].filled = 0 /\ orders'[id].status \notin Live)
    BY <1>0, <1>6, BackedStays DEF Relog, Advance, Entry
  <2> QED BY <1>2, <1>3, <2>1, <2>2 DEF Log
<1> QED BY <1>2, <1>4, <1>5, <1>6, LogChanges

-----------------------------------------------------------------------------
(* Types                                                                   *)

\* The session holds orders that are there, and of the right kind.
Kinds ==
  /\ entryOrder \in {0} \cup DOMAIN orders /\ (entryOrder # 0 => orders[entryOrder].protects = 0)
  /\ stopOrder \in {0} \cup DOMAIN orders /\ (stopOrder # 0 => orders[stopOrder].protects # 0)
  /\ placed \in {0} \cup DOMAIN orders
  /\ blind \subseteq DOMAIN orders /\ checked \subseteq DOMAIN orders

Plain ==
  /\ session \in 1 .. MaxSessions
  /\ plan \in Plans \cup {None}
  /\ review \in Reviews \cup {None} /\ stopReview \in Reviews \cup {None}
  /\ entryUncertain \in Plans \cup {None} /\ stopUncertain \in BOOLEAN
  /\ pc \in {"idle", "placeEntry", "entryPlaced", "entryRecorded", "placeStop", "stopPlaced",
             "stopRecorded", "clear"}
  /\ faults \in 0 .. MaxFaults

LEMMA InitHolds == Init => IInv
<1> SUFFICES ASSUME Init PROVE IInv
  OBVIOUS
<1>1. orders = <<>> /\ orders \in Seq(Orders) /\ Len(orders) = 0 /\ DOMAIN orders = {}
  BY EmptySeq DEF Init
<1>2. NoLog \in [Ids -> Statuses] /\ \A o \in Ids : NoLog[o] = "none"
  BY DEF NoLog, Statuses
<1>3. TypeOK
  <2>1. MaxOrders \in Nat /\ 1 \in 1 .. MaxSessions /\ 0 \in 0 .. MaxFaults
    BY RiskAssumption
  <2>2. Plain
    BY <2>1 DEF Init, Plain
  <2>3. Kinds
    BY DEF Init, Kinds
  <2>4. watch \in [Ids -> Statuses] /\ storage \in [Ids -> Statuses]
    BY <1>2 DEF Init
  <2>5. orders \in Seq(Orders) /\ Len(orders) <= MaxOrders
    BY <1>1, <2>1
  <2> QED BY <2>2, <2>3, <2>4, <2>5 DEF TypeOK, Plain, Kinds
<1>4. Book /\ Log
  BY <1>1, <1>2 DEF Init, Book, Log, Ended
<1>5. Hands /\ Unsure
  BY DEF Init, Hands, Unsure, Placing
<1> QED BY <1>3, <1>4, <1>5 DEF IInv

LEMMA PlainStep ==
  ASSUME IInv, Next
  PROVE  Plain'
<1>0. /\ Plain /\ {MaxSessions, MaxFaults} \subseteq Nat /\ TypeOK /\ Hands
  BY RiskAssumption DEF IInv, TypeOK, Plain
<1>f. Fault => faults' \in 0 .. MaxFaults
  BY <1>0 DEF Fault, Plain
<1>r. ASSUME NEW r \in Reviews PROVE [r EXCEPT !.fresh = FALSE] \in Reviews
  BY DEF Reviews
<1>1. ASSUME Render PROVE Plain'
  <2>1. KeptReview \in {review, None} /\ KeptStopReview \in {stopReview, None}
    BY DEF KeptReview, KeptStopReview
  <2> QED BY <1>0, <1>1, <2>1 DEF Render, Plain, entry, stop, unsure
<1>2. ASSUME Age PROVE Plain'
  <2>1. CASE review # None /\ review' = [review EXCEPT !.fresh = FALSE] /\ UNCHANGED stopReview
    <3>1. review' \in Reviews
      BY <1>0, <1>r, <2>1 DEF Plain
    <3> QED BY <1>0, <1>2, <2>1, <3>1 DEF Age, Plain, entry, stop, unsure
  <2>2. CASE stopReview # None /\ stopReview' = [stopReview EXCEPT !.fresh = FALSE] /\ UNCHANGED review
    <3>1. stopReview' \in Reviews
      BY <1>0, <1>r, <2>2 DEF Plain
    <3> QED BY <1>0, <1>2, <2>2, <3>1 DEF Age, Plain, entry, stop, unsure
  <2> QED BY <1>2, <2>1, <2>2 DEF Age
<1>3. ASSUME NEW p \in Plans \cup {None}, Edit(p) PROVE Plain'
  BY <1>0, <1>3 DEF Edit, Plain, entry, stop, unsure
<1>4. ASSUME ReviewEntry PROVE Plain'
  <2>1. review' \in Reviews
    BY <1>0, <1>4, RiskAssumption DEF ReviewEntry, Reviews, Plain, entry, stop, unsure
  <2> QED BY <1>0, <1>4, <2>1 DEF ReviewEntry, Plain, entry, stop, unsure
<1>5. ASSUME SendEntry PROVE Plain'
  BY <1>0, <1>5 DEF SendEntry, Plain, Reviews, entry, stop, unsure
<1>6. ASSUME ReviewStop PROVE Plain'
  <2>2. [plan |-> orders[entryOrder].plan, protects |-> entryOrder, fresh |-> TRUE] \in Reviews
    BY <1>6, StopReviewIs
  <2> QED BY <1>0, <1>6, <2>2 DEF ReviewStop, Plain, entry, stop, unsure
<1>7. ASSUME SendStop \/ RefreshStatus \/ ResetStop \/ _clear_risk_order_workflow \/ Cleared PROVE Plain'
  BY <1>0, <1>7 DEF SendStop, RefreshStatus, ResetStop, _clear_risk_order_workflow, Cleared, Plain, entry,
                    stop, unsure
<1>8. ASSUME place_order \/ PlaceFails \/ Interrupt PROVE Plain'
  <2>1. faults' \in 0 .. MaxFaults
    BY <1>0, <1>8, <1>f DEF place_order, PlaceFails, Interrupt, Plain
  <2>2. /\ pc' \in {"idle", "entryPlaced", "stopPlaced"}
        /\ UNCHANGED <<session, plan, entry, stop>>
    BY <1>8 DEF place_order, PlaceFails, Interrupt
  <2> QED BY <1>0, <2>1, <2>2 DEF Plain, entry, stop
<1>9. ASSUME RecordEntry \/ _arm_stop_watch \/ RecordStop \/ _mark_stop_watch_sent PROVE Plain'
  BY <1>0, <1>9 DEF RecordEntry, _arm_stop_watch, RecordStop, _mark_stop_watch_sent, Plain, entry, stop
<1>10. ASSUME NEW o \in Ids, Poll(o) \/ Fill(o) \/ EndOrder(o) PROVE Plain'
  BY <1>0, <1>10 DEF Poll, Fill, EndOrder, Plain, entry, stop, unsure
<1>11. ASSUME NewSession PROVE Plain'
  <2>1. session' \in 1 .. MaxSessions
    BY <1>0, <1>11 DEF NewSession, Plain
  <2>2. /\ UNCHANGED faults /\ pc' = "idle" /\ plan' = None
        /\ review' = None /\ entryUncertain' = None /\ stopReview' = None /\ stopUncertain' = FALSE
    BY <1>11 DEF NewSession
  <2> QED BY <1>0, <2>1, <2>2 DEF Plain
<1> QED BY <1>1, <1>2, <1>3, <1>4, <1>5, <1>6, <1>7, <1>8, <1>9, <1>10, <1>11 DEF Next

LEMMA KindsStep ==
  ASSUME IInv, Next
  PROVE  Kinds'
<1>0. Kinds /\ TypeOK /\ Hands /\ Log /\ Advance /\ 0 \notin DOMAIN orders
  BY BookStep, OrdersAre DEF IInv, TypeOK, Kinds
\* What was kept may be kept.
<1>1. /\ DOMAIN orders \subseteq DOMAIN orders'
      /\ entryOrder \in {0} \cup DOMAIN orders' /\ (entryOrder # 0 => orders'[entryOrder].protects = 0)
      /\ stopOrder \in {0} \cup DOMAIN orders' /\ (stopOrder # 0 => orders'[stopOrder].protects # 0)
      /\ placed \in {0} \cup DOMAIN orders'
      /\ blind \subseteq DOMAIN orders' /\ checked \subseteq DOMAIN orders'
  BY <1>0 DEF Kinds, Advance
<1>2. CASE UNCHANGED <<entryOrder, stopOrder, placed, blind, checked>>
  BY <1>1, <1>2 DEF Kinds
<1>3. ASSUME Render PROVE Kinds'
  <2>1. entryOrder' = entryOrder \/ Entry(entryOrder')
    BY <1>0, <1>3, Restoring DEF Render, Log, Recoverable, Active
  <2> QED BY <1>0, <1>1, <1>3, <2>1 DEF Render, Kinds, Entry, unsure
<1>4. ASSUME ResetStop \/ _clear_risk_order_workflow \/ Cleared \/ NewSession PROVE Kinds'
  BY <1>1, <1>4 DEF ResetStop, _clear_risk_order_workflow, Cleared, NewSession, Checked, Kinds, unsure,
                    entry, stop
<1>5. ASSUME place_order \/ PlaceFails PROVE Kinds'
  <2>1. CASE BrokerTakes /\ Placing
    <3>1. NextId \in DOMAIN orders' /\ blind' = blind \cup {NextId}
      BY <2>1, Grows DEF BrokerTakes
    <3> QED BY <1>1, <1>5, <3>1 DEF place_order, PlaceFails, Kinds, entry, stop
  <2>2. CASE UNCHANGED <<orders, blind>> /\ PlaceFails
    BY <1>1, <2>2 DEF PlaceFails, Kinds, entry, stop
  <2> QED BY <1>5, <2>1, <2>2 DEF place_order, PlaceFails
<1>6. ASSUME RecordEntry \/ _arm_stop_watch \/ RecordStop \/ _mark_stop_watch_sent \/ Interrupt PROVE Kinds'
  <2>1. UNCHANGED orders
    BY <1>6 DEF RecordEntry, _arm_stop_watch, RecordStop, _mark_stop_watch_sent, Interrupt
  <2> QED BY <1>0, <1>1, <1>6, <2>1 DEF RecordEntry, _arm_stop_watch, RecordStop, _mark_stop_watch_sent,
                 Interrupt, Kinds, Hands, Entry, entry, stop, unsure
<1>7. \/ Age \/ (\E p \in Plans \cup {None} : Edit(p)) \/ ReviewEntry \/ SendEntry \/ ReviewStop
      \/ SendStop \/ RefreshStatus \/ (\E p \in Ids : Poll(p) \/ Fill(p) \/ EndOrder(p))
      => UNCHANGED <<entryOrder, stopOrder, placed, blind, checked>>
  <2>1. Age \/ ReviewEntry \/ SendEntry \/ ReviewStop \/ SendStop \/ RefreshStatus
        => UNCHANGED <<entryOrder, stopOrder, placed, blind, checked>>
    BY DEF Age, ReviewEntry, SendEntry, ReviewStop, SendStop, RefreshStatus, entry, stop, unsure
  <2>2. ASSUME NEW p, Edit(p) \/ Poll(p) \/ Fill(p) \/ EndOrder(p)
        PROVE  UNCHANGED <<entryOrder, stopOrder, placed, blind, checked>>
    BY <2>2 DEF Edit, Poll, Fill, EndOrder, entry, stop, unsure
  <2> QED BY <2>1, <2>2, Zenon
<1> QED BY <1>2, <1>3, <1>4, <1>5, <1>6, <1>7, Zenon DEF Next

LEMMA TypeStep ==
  ASSUME IInv, Next
  PROVE  TypeOK'
<1>1. Advance /\ Kinds' /\ Plain' /\ watch' \in [Ids -> Statuses] /\ storage' \in [Ids -> Statuses]
  BY BookStep, KindsStep, PlainStep, LogStep
<1> QED BY <1>1 DEF TypeOK, Advance, Kinds, Plain

-----------------------------------------------------------------------------
(* The runs                                                                *)

\* Steps that end a run, or leave the page between two.
Idle ==
  \/ Render \/ Age \/ (\E p \in Plans \cup {None} : Edit(p)) \/ ReviewEntry
  \/ RefreshStatus \/ ResetStop \/ Cleared \/ PlaceFails \/ Interrupt
  \/ _arm_stop_watch \/ _mark_stop_watch_sent \/ (\E o \in Ids : Poll(o)) \/ NewSession

LEMMA IdleIs == Idle => pc' = "idle"
<1>1. Render \/ Age \/ ReviewEntry \/ RefreshStatus \/ ResetStop => pc' = "idle"
  BY DEF Render, Age, ReviewEntry, RefreshStatus, ResetStop, Shows, Rendered
<1>2. Cleared \/ PlaceFails \/ Interrupt \/ _arm_stop_watch \/ _mark_stop_watch_sent \/ NewSession
      => pc' = "idle"
  BY Zenon DEF Cleared, PlaceFails, Interrupt, _arm_stop_watch, _mark_stop_watch_sent, NewSession
<1>3. ASSUME NEW p, Edit(p) \/ Poll(p) PROVE pc' = "idle"
  BY <1>3 DEF Edit, Poll
<1> QED BY <1>1, <1>2, <1>3, Zenon DEF Idle

\* What is reviewed.
Reviewed ==
  /\ review # None => review.protects = 0
  /\ stopReview # None => Backed(stopReview.protects, stopReview.plan)

LEMMA ReviewedStep ==
  ASSUME IInv, Next
  PROVE  Reviewed'
<1>0. TypeOK /\ Book /\ Advance /\ Reviewed
  BY BookStep DEF IInv, Hands, Reviewed
<1>1. /\ review # None => review.protects = 0
      /\ stopReview # None =>
           /\ stopReview.protects \in DOMAIN orders' /\ orders'[stopReview.protects].protects = 0
           /\ orders'[stopReview.protects].filled = Shares
           /\ orders'[stopReview.protects].plan = stopReview.plan
  BY <1>0 DEF Reviewed, Backed, Entry, Advance
<1>2. CASE review' \in {review, None} /\ stopReview' \in {stopReview, None}
  BY <1>1, <1>2 DEF Reviewed, Backed, Entry
<1>3. ASSUME Age PROVE Reviewed'
  <2>1. \/ review # None /\ review' = [review EXCEPT !.fresh = FALSE] /\ UNCHANGED stopReview
        \/ stopReview # None /\ stopReview' = [stopReview EXCEPT !.fresh = FALSE] /\ UNCHANGED review
    BY <1>3 DEF Age
  <2>2. review # None => review \in Reviews
    BY <1>0 DEF TypeOK
  <2>3. stopReview # None => stopReview \in Reviews
    BY <1>0 DEF TypeOK
  <2> QED BY <1>1, <2>1, <2>2, <2>3 DEF Reviewed, Backed, Entry, Reviews
<1>4. ASSUME ReviewEntry PROVE Reviewed'
  BY <1>1, <1>4 DEF ReviewEntry, Reviewed, Backed, Entry, stop
<1>5. ASSUME ReviewStop PROVE Reviewed'
  <2>1. entryOrder # 0 /\ UNCHANGED <<orders, review>>
    BY <1>5 DEF ReviewStop, Shows, Screen, entry
  <2>2. CASE stopReview' = stopReview
    BY <1>1, <2>1, <2>2 DEF Reviewed, Backed, Entry
  <2>3. CASE /\ FullFill(orders[entryOrder])
             /\ stopReview' = [plan |-> orders[entryOrder].plan, protects |-> entryOrder, fresh |-> TRUE]
    <3>1. /\ entryOrder \in DOMAIN orders /\ orders[entryOrder].protects = 0
          /\ orders[entryOrder] \in Orders /\ Sound(entryOrder)
      BY <1>0, <2>1, EntryOrderIs, OrdersAre DEF Entry, Book
    <3>2. orders[entryOrder].filled = Shares
      BY <2>3, <3>1, SeenIs DEF Sound
    <3> QED BY <1>1, <2>1, <2>3, <3>1, <3>2 DEF Reviewed, Backed, Entry
  <2> QED BY <1>5, <2>2, <2>3 DEF ReviewStop
<1>6. Next => \/ review' \in {review, None} /\ stopReview' \in {stopReview, None}
              \/ Age \/ ReviewEntry \/ ReviewStop
  <2>1. Render => review' \in {review, None} /\ stopReview' \in {stopReview, None}
    BY DEF Render, KeptReview, KeptStopReview
  <2>2. SendEntry \/ SendStop \/ RefreshStatus \/ ResetStop \/ _clear_risk_order_workflow \/ Cleared
        => review' \in {review, None} /\ stopReview' \in {stopReview, None}
    BY DEF SendEntry, SendStop, RefreshStatus, ResetStop, _clear_risk_order_workflow, Cleared, entry, stop
  <2>3. place_order \/ PlaceFails \/ Interrupt \/ RecordEntry \/ _arm_stop_watch \/ RecordStop
        \/ _mark_stop_watch_sent \/ NewSession
        => review' \in {review, None} /\ stopReview' \in {stopReview, None}
    BY DEF place_order, PlaceFails, Interrupt, RecordEntry, _arm_stop_watch, RecordStop,
           _mark_stop_watch_sent, NewSession, entry, stop
  <2>4. ASSUME NEW p, Edit(p) \/ Poll(p) \/ Fill(p) \/ EndOrder(p)
        PROVE  review' \in {review, None} /\ stopReview' \in {stopReview, None}
    BY <2>4 DEF Edit, Poll, Fill, EndOrder, entry, stop
  <2> QED BY <2>1, <2>2, <2>3, <2>4, Zenon DEF Next
<1> QED BY <1>2, <1>3, <1>4, <1>5, <1>6

LEMMA HandsStep ==
  ASSUME IInv, Next
  PROVE  Hands'
<1>0. TypeOK /\ Hands /\ Advance /\ Reviewed'
  BY BookStep, ReviewedStep DEF IInv
<1>1. CASE pc' \in {"idle", "clear"}
  BY <1>0, <1>1 DEF Hands, Reviewed, Placing
<1>2. CASE SendEntry \/ SendStop
  BY <1>0, <1>2 DEF SendEntry, SendStop, Hands, Reviewed, Placing, Room, stop
<1>3. CASE ReviewStop
  <2>1. pc = "idle" /\ UNCHANGED orders
    BY <1>3 DEF ReviewStop, Shows, Rendered
  <2>2. pc' = "idle" \/ (Room /\ pc' = "placeStop" /\ stopReview' # None)
    <3>1. CASE UNCHANGED <<stopReview, stopUncertain, pc>>
      BY <2>1, <3>1
    <3>2. CASE stopReview' = [plan |-> orders[entryOrder].plan, protects |-> entryOrder, fresh |-> TRUE]
      <4>1. stopReview' # None
        BY <1>0, <1>3, <3>2, StopReviewIs, NoReview
      <4> QED BY <1>3, <2>1, <4>1 DEF ReviewStop
    <3> QED BY <1>3, <3>1, <3>2 DEF ReviewStop
  <2>3. CASE Room /\ pc' = "placeStop" /\ stopReview' # None
    BY <1>0, <2>1, <2>3 DEF Hands, Reviewed, Placing, Room
  <2> QED BY <1>1, <2>2, <2>3
<1>4. CASE place_order
  <2>1. Placing /\ BrokerTakes /\ placed' = NextId /\ UNCHANGED <<review, stopReview>>
        /\ pc' = IF pc = "placeEntry" THEN "entryPlaced" ELSE "stopPlaced"
    BY <1>4 DEF place_order, entry, stop
  <2>2. placed' \in DOMAIN orders' /\ orders'[placed'] = NewOrder
    BY <2>1, Grows
  <2>3. pc = "placeEntry" => Entry(placed)' /\ pc' = "entryPlaced"
    BY <2>1, <2>2, Grows DEF Entry
  <2>4. pc = "placeStop" => /\ orders'[placed'].protects # 0 /\ pc' = "stopPlaced"
                            /\ stopReview' # None
    BY <1>0, <2>1, <2>2, Grows DEF Hands
  <2> QED BY <1>0, <2>1, <2>2, <2>3, <2>4 DEF Hands, Reviewed, Placing
<1>5. CASE RecordEntry \/ RecordStop
  <2>1. UNCHANGED <<orders, placed, stopReview>>
    BY <1>5 DEF RecordEntry, RecordStop, stop
  <2>2. \/ pc = "entryPlaced" /\ pc' = "entryRecorded"
        \/ pc = "stopPlaced" /\ pc' = "stopRecorded" /\ stopOrder' = placed
    BY <1>5 DEF RecordEntry, RecordStop
  <2> QED BY <1>0, <2>1, <2>2, OrdersAre DEF Hands, Reviewed, Placing, Entry
<1>6. ASSUME NEW o \in Ids, Fill(o) \/ EndOrder(o) PROVE Hands'
  <2>1. UNCHANGED <<pc, placed, review, stopReview, stopOrder>>
    BY <1>6 DEF Fill, EndOrder, entry, stop
  <2>2. Len(orders') = Len(orders)
    BY <1>6, Trades
  <2> QED BY <1>0, <2>1, <2>2 DEF Hands, Reviewed, Placing, Room, Entry, Advance
<1>7. _clear_risk_order_workflow => pc' = "clear"
  BY DEF _clear_risk_order_workflow
<1> QED BY <1>1, <1>2, <1>3, <1>4, <1>5, <1>6, <1>7, IdleIs, Zenon DEF Next, Idle

-----------------------------------------------------------------------------
(* Orders nobody knows of                                                  *)

LEMMA UnsureStep ==
  ASSUME IInv, Next
  PROVE  Unsure'
<1>0. TypeOK /\ Hands /\ Log /\ Unsure /\ 0 \notin DOMAIN orders /\ 0 \notin Ids
  BY OrdersAre, RiskAssumption DEF IInv, Ids
\* With nobody unsure there is nothing to be unsure of, and the other way round.
<1>1. CASE pc = "idle" /\ pc' = "idle" /\ blind' = blind
           /\ UNCHANGED <<entryOrder, entryUncertain, stopOrder, stopUncertain, watch>>
  BY <1>0, <1>1 DEF Unsure, EntryUnsure, StopUnsure
<1>2. CASE pc' \in {"idle", "clear"} /\ blind' = {}
  BY <1>2 DEF Unsure
<1>3. CASE Render
  <2>1. /\ pc = "idle" /\ pc' = "idle" /\ UNCHANGED <<entryUncertain, stopUncertain, stopOrder, blind>>
        /\ entryOrder' = RestoredEntry /\ watch' = Armed
    BY <1>3, PersistIs DEF Render, unsure
  <2>2. CASE EntryUnsure
    <3>1. entryOrder' = entryOrder
      BY <2>1, <2>2, Restoring DEF EntryUnsure
    <3>2. watch' = watch
      BY <2>1, <2>2 DEF EntryUnsure, Armed, Screen
    <3> QED BY <1>1, <2>1, <3>1, <3>2
  <2>3. CASE StopUnsure
    <3>1. entryOrder' = entryOrder
      BY <2>1, <2>3, Restoring DEF StopUnsure
    <3> QED BY <2>1, <2>3, <3>1 DEF StopUnsure, Unsure
  <2>4. CASE ~ EntryUnsure /\ ~ StopUnsure
    BY <1>0, <1>2, <2>1, <2>4 DEF Unsure
  <2> QED BY <2>2, <2>3, <2>4
<1>4. ASSUME NEW o \in Ids, Poll(o) PROVE Unsure'
  <2>1. /\ pc = "idle" /\ pc' = "idle" /\ watch[o] \in Recoverable
        /\ UNCHANGED <<entryOrder, entryUncertain, stopOrder, stopUncertain, blind>>
    BY <1>4 DEF Poll, entry, stop, unsure, Recoverable
  <2>2. ~ EntryUnsure
    BY <2>1 DEF EntryUnsure
  <2> QED BY <1>0, <2>1, <2>2 DEF Unsure, StopUnsure
\* The page that shows an entry to watch, or composes, knows of every order.
<1>5. ASSUME Rendered, Screen \in {"compose", "watch", "complete"} PROVE blind = {} /\ pc = "idle"
  <2>1. pc = "idle"
    BY <1>5 DEF Rendered
  <2>2. ~ EntryUnsure /\ ~ StopUnsure
    BY <1>5 DEF EntryUnsure, StopUnsure, Screen
  <2> QED BY <1>0, <2>1, <2>2 DEF Unsure
<1>6. CASE SendEntry
  <2>1. /\ blind = {} /\ blind' = {} /\ pc' = "placeEntry" /\ entryOrder = 0 /\ review # None
        /\ entryUncertain' = review.plan /\ UNCHANGED <<watch, entryOrder>>
    BY <1>5, <1>6 DEF SendEntry, Shows, Screen, unsure
  <2>2. review.plan # None
    BY <1>0, <2>1, RiskAssumption DEF TypeOK, Reviews
  <2>3. \A o \in Ids : watch[o] \notin Recoverable
    BY <1>6, <2>1, NothingToRestore DEF SendEntry, Shows
  <2> QED BY <2>1, <2>2, <2>3 DEF Unsure, EntryUnsure
<1>7. CASE SendStop \/ ReviewStop
  <2>1. /\ blind = {} /\ blind' = {} /\ entryOrder # 0 /\ stopOrder = 0
        /\ UNCHANGED <<entryOrder, stopOrder>>
        /\ pc' = "idle" \/ (pc' = "placeStop" /\ stopUncertain' = TRUE)
    <3>1. Rendered /\ Screen = "watch" /\ UNCHANGED <<unsure, entryOrder, stopOrder>>
      BY <1>7 DEF SendStop, ReviewStop, Shows, entry
    <3>2. blind = {} /\ pc = "idle"
      BY <1>5, <3>1
    <3>3. pc' = "idle" \/ (pc' = "placeStop" /\ stopUncertain' = TRUE)
      BY <1>7, <3>2 DEF SendStop, ReviewStop
    <3> QED BY <3>1, <3>2, <3>3 DEF unsure, Screen
  <2> QED BY <2>1 DEF Unsure, StopUnsure
<1>8. CASE ReviewEntry \/ RefreshStatus
  <2>1. Rendered /\ Screen \in {"compose", "watch"} /\ UNCHANGED <<pc, blind>>
    BY <1>8 DEF ReviewEntry, RefreshStatus, Shows, unsure
  <2> QED BY <1>2, <1>5, <2>1
<1>9. CASE ResetStop \/ _clear_risk_order_workflow
  <2>1. CASE Checked
    <3>1. blind' = {} /\ pc' \in {"idle", "clear"}
      BY <1>9, <2>1 DEF ResetStop, _clear_risk_order_workflow, Checked, Shows, Rendered
    <3> QED BY <1>2, <3>1
  <2>2. CASE ~ Checked
    <3>1. Rendered /\ Screen \in {"complete", "watch"} /\ UNCHANGED blind /\ pc' = "clear"
      BY <1>9, <2>2 DEF ResetStop, _clear_risk_order_workflow, Shows, unsure
    <3> QED BY <1>2, <1>5, <3>1
  <2> QED BY <2>1, <2>2
<1>10. CASE Cleared
  <2>1. pc = "clear" /\ pc' = "idle" /\ blind' = blind
    BY <1>10 DEF Cleared, unsure
  <2> QED BY <1>0, <1>2, <2>1 DEF Unsure
<1>11. CASE place_order
  <2>1. /\ pc \in {"placeEntry", "placeStop"} /\ placed' = NextId /\ blind' = blind \cup {NextId}
        /\ pc' = IF pc = "placeEntry" THEN "entryPlaced" ELSE "stopPlaced"
        /\ UNCHANGED <<entryOrder, entryUncertain, stopOrder, stopUncertain, watch>>
    BY <1>11 DEF place_order, Placing, BrokerTakes, entry, stop
  <2> QED BY <1>0, <2>1 DEF Unsure, EntryUnsure, StopUnsure
<1>12. CASE PlaceFails
  <2>1. /\ pc \in {"placeEntry", "placeStop"} /\ pc' = "idle"
        /\ UNCHANGED <<entryOrder, entryUncertain, stopOrder, stopUncertain>>
        /\ pc = "placeEntry" => watch' = watch
    BY <1>12, PersistIs DEF PlaceFails, Placing, entry, stop
  <2> QED BY <1>0, <2>1 DEF Unsure, EntryUnsure, StopUnsure
<1>13. CASE Interrupt
  <2>1. /\ pc \in {"entryPlaced", "entryRecorded", "stopPlaced", "stopRecorded", "clear"} /\ pc' = "idle"
        /\ UNCHANGED <<entryOrder, entryUncertain, stopOrder, stopUncertain, watch, blind>>
    BY <1>13 DEF Interrupt, entry, stop, unsure
  <2> QED BY <1>0, <2>1 DEF Unsure, EntryUnsure, StopUnsure
<1>14. CASE RecordEntry \/ RecordStop
  <2>1. /\ pc \in {"entryPlaced", "stopPlaced"} /\ blind' = blind \ {placed}
        /\ pc' \in {"entryRecorded", "stopRecorded"}
    BY <1>14 DEF RecordEntry, RecordStop
  <2> QED BY <1>0, <2>1 DEF Unsure
<1>15. CASE _arm_stop_watch \/ _mark_stop_watch_sent
  <2>1. pc \in {"entryRecorded", "stopRecorded"} /\ pc' = "idle" /\ blind' = blind
    BY <1>15 DEF _arm_stop_watch, _mark_stop_watch_sent, unsure
  <2> QED BY <1>0, <1>2, <2>1 DEF Unsure
<1>16. CASE NewSession
  BY <1>2, <1>16 DEF NewSession
<1>17. CASE Age \/ \E p \in Plans \cup {None} : Edit(p)
  BY <1>1, <1>17 DEF Age, Edit, entry, stop, unsure
<1>18. ASSUME NEW o \in Ids, Fill(o) \/ EndOrder(o) PROVE Unsure'
  <2>1. UNCHANGED <<pc, placed, entryOrder, entryUncertain, stopOrder, stopUncertain, watch, blind>>
    BY <1>18 DEF Fill, EndOrder, entry, stop, unsure
  <2> QED BY <1>0, <2>1 DEF Unsure, EntryUnsure, StopUnsure
<1> QED
  BY <1>3, <1>4, <1>6, <1>7, <1>8, <1>9, <1>10, <1>11, <1>12, <1>13, <1>14, <1>15, <1>16, <1>17, <1>18,
     Zenon DEF Next

-----------------------------------------------------------------------------
(* Theorems                                                                *)

LEMMA Inductive == IInv /\ [Next]_vars => IInv'
<1>1. IInv /\ Next => IInv'
  BY TypeStep, BookStep, LogStep, HandsStep, UnsureStep DEF IInv
<1>2. IInv /\ UNCHANGED vars => IInv'
  BY DEF IInv, vars, entry, stop, unsure, TypeOK, Book, Sound, Backed, Entry, Log, Hands, Placing, Room,
         Unsure, EntryUnsure, StopUnsure
<1> QED BY <1>1, <1>2

THEOREM Invariance == Spec => []IInv
BY InitHolds, Inductive, PTL DEF Spec

\* Every variable keeps its type; the session never takes an entry for a stop.
THEOREM TypeCorrect == Spec => []TypeOK
<1>1. IInv => TypeOK
  BY DEF IInv
<1> QED BY <1>1, Invariance, PTL

\* A stop is sent only for an entry that has all its shares, and as planned.
THEOREM StopsCovered == Spec => []StopsAreCovered
<1>1. IInv => StopsAreCovered
  BY DEF IInv, Book, Sound, Backed, StopsAreCovered
<1> QED BY <1>1, Invariance, PTL

\* No order is sent while one may be at the broker that this side does not know.
THEOREM NeverBlind == Spec => NoBlindRetry
<1>1. IInv /\ [Next]_vars => [Len(orders') > Len(orders) => blind = {}]_vars
  <2> SUFFICES ASSUME IInv, Next, blind # {} PROVE ~ (Len(orders') > Len(orders))
    BY DEF vars
  <2>1. Len(orders) \in Nat /\ ~ Placing
    BY OrdersAre DEF IInv, Unsure, Placing
  <2>2. \/ UNCHANGED orders
        \/ \E p \in Ids : Fill(p) \/ EndOrder(p)
    BY <2>1, OrdersChange
  <2> QED BY <2>1, <2>2, Trades
<1> QED BY <1>1, Invariance, PTL DEF Spec, NoBlindRetry

\* A position is tracked until it has its stop, or the user clears the page that
\* shows one.
THEOREM PositionsKept == Spec => NeverForgotten
<1> DEFINE Kept == \A o \in DOMAIN orders :
              Tracked(o) /\ session' = session /\ stopOrder = 0
                => Tracked(o)' \/ orders[o].filled = 0 \/ HasStop(o)
<1>1. IInv /\ [Next]_vars => [Kept]_vars
  <2> SUFFICES ASSUME IInv, Next, NEW o \in DOMAIN orders, Tracked(o), session' = session,
                      stopOrder = 0, orders[o].filled # 0
               PROVE  Tracked(o)'
    OBVIOUS
  <2>0. TypeOK /\ Log /\ Hands /\ Unsure /\ o \in Ids /\ o # 0
    BY OrdersAre DEF IInv
  <2>1. CASE UNCHANGED <<entryOrder, watch>>
    BY <2>1 DEF Tracked
  <2>2. ASSUME UNCHANGED entryOrder, NEW id, NEW st \in Recoverable, watch' = [watch EXCEPT ![id] = st]
        PROVE  Tracked(o)'
    BY <2>0, <2>2 DEF Tracked, TypeOK
  <2>3. ASSUME UNCHANGED entryOrder, NEW id \in Ids, Entry(id), _set_stop_watch_fill(id)
        PROVE  Tracked(o)'
    <3>1. Relog(id, Seen(orders[id]))
      BY <2>3, FillIsLogged
    <3>2. CASE Seen(orders[id]) \in Recoverable
      BY <2>2, <2>3, <3>1, <3>2 DEF Relog
    <3>3. CASE Seen(orders[id]) \notin Recoverable
      <4>1. orders[id] \in Orders /\ Sound(id)
        BY <2>3, OrdersAre DEF IInv, Entry, Book
      <4>2. Seen(orders[id]) \in Ended
        BY <3>3, <4>1, SeenIs DEF Sound, Recoverable
      <4>3. id # o
        BY <3>1, <4>2 DEF Relog
      <4> QED BY <2>0, <2>3, <3>1, <4>3 DEF Relog, Tracked, TypeOK
    <3> QED BY <3>2, <3>3
  <2>4. CASE Render
    <3>1. entryOrder' = RestoredEntry /\ watch' = Armed
      BY <2>4, PersistIs DEF Render
    <3>2. entryOrder = o => entryOrder' = o
      BY <2>0, <3>1, Restoring
    <3>3. entryOrder # o => watch'[o] = watch[o]
      BY <2>0, <3>1 DEF Armed, TypeOK
    <3> QED BY <3>2, <3>3 DEF Tracked
  <2>5. CASE ReviewStop \/ RefreshStatus
    <3>1. Screen = "watch" /\ _set_stop_watch_fill(entryOrder) /\ UNCHANGED entryOrder
      BY <2>5 DEF ReviewStop, RefreshStatus, Shows, entry
    <3>2. entryOrder # 0
      BY <3>1 DEF Screen
    <3> QED BY <2>3, <3>1, <3>2, EntryOrderIs
  <2>6. ASSUME NEW id \in Ids, Poll(id) PROVE Tracked(o)'
    <3>1. Entry(id)
      BY <2>0, <2>6 DEF Poll, Log, Active
    <3> QED BY <2>3, <2>6, <3>1 DEF Poll, entry
  <2>7. CASE _clear_risk_order_workflow
    <3>1. entryOrder # o
      BY <2>0, <2>7 DEF _clear_risk_order_workflow, Shows, Screen, Log
    <3>2. UNCHANGED watch
      BY <2>7 DEF _clear_risk_order_workflow
    <3> QED BY <3>1, <3>2 DEF Tracked
  <2>8. CASE PlaceFails
    <3>1. UNCHANGED entryOrder
      BY <2>8 DEF PlaceFails, entry
    <3>2. \/ watch' = watch
          \/ watch' = [watch EXCEPT ![stopReview.protects] = "STOP_UNCERTAIN"]
      BY <2>8, PersistIs DEF PlaceFails
    <3>3. "STOP_UNCERTAIN" \in Recoverable
      BY DEF Recoverable
    <3> QED BY <2>1, <2>2, <3>1, <3>2, <3>3
  <2>9. CASE RecordEntry
    <3>1. entryOrder = 0 /\ UNCHANGED watch
      BY <2>0, <2>9 DEF RecordEntry, Unsure, EntryUnsure
    <3> QED BY <2>0, <3>1 DEF Tracked
  <2>10. CASE _arm_stop_watch
    <3>1. watch' = [watch EXCEPT ![placed] = "ARMED"] /\ UNCHANGED entryOrder
      BY <2>10, PersistIs DEF _arm_stop_watch
    <3>2. "ARMED" \in Recoverable
      BY DEF Recoverable, Active
    <3> QED BY <2>2, <3>1, <3>2
  <2>11. ~ _mark_stop_watch_sent
    BY <2>0 DEF _mark_stop_watch_sent, Hands
  <2>12. ~ NewSession
    BY <2>0 DEF NewSession, TypeOK
  <2>13. \/ Age \/ (\E p \in Plans \cup {None} : Edit(p)) \/ ReviewEntry \/ SendEntry \/ SendStop
         \/ ResetStop \/ Cleared \/ place_order \/ Interrupt \/ RecordStop
         \/ (\E p \in Ids : Fill(p) \/ EndOrder(p))
         => UNCHANGED <<entryOrder, watch>>
    <3>1. Age \/ ReviewEntry \/ SendEntry \/ SendStop \/ ResetStop => UNCHANGED <<entryOrder, watch>>
      BY DEF Age, ReviewEntry, SendEntry, SendStop, ResetStop, entry
    <3>2. Cleared \/ place_order \/ Interrupt \/ RecordStop => UNCHANGED <<entryOrder, watch>>
      BY DEF Cleared, place_order, Interrupt, RecordStop, entry
    <3>3. ASSUME NEW p, Edit(p) \/ Fill(p) \/ EndOrder(p) PROVE UNCHANGED <<entryOrder, watch>>
      BY <3>3 DEF Edit, Fill, EndOrder, entry
    <3> QED BY <3>1, <3>2, <3>3, Zenon
  <2> QED
    BY <2>1, <2>4, <2>5, <2>6, <2>7, <2>8, <2>9, <2>10, <2>11, <2>12, <2>13, Zenon DEF Next
<1> QED BY <1>1, Invariance, PTL DEF Spec, NeverForgotten

-----------------------------------------------------------------------------
(* One stop for an entry                                                   *)

\* The workflow in which no run is cut short; orders may still be lost, answered late
\* or not at all, and the page may be loaded again.
Uncut == Init /\ [][Next /\ ~ Interrupt]_vars

\* The stops of an entry that the user was never told to look for.
Unchecked(e) == {s \in DOMAIN orders : orders[s].protects = e} \ checked

\* Why no other stop is sent for e: its stop is being recorded; or the page calls it
\* uncertain; or it is recorded, and the log does not bring the entry back.
Settled(e) ==
  \/ entryOrder = e /\ pc \in {"stopPlaced", "stopRecorded"}
  \/ entryOrder = e /\ pc = "idle" /\ stopOrder = 0 /\ stopUncertain /\ Unchecked(e) \subseteq blind
  \/ watch[e] \in {"none", "STOP_SENT"} /\ (entryOrder = e => stopOrder # 0 /\ pc = "idle")

AllSettled == \A e \in Ids : Unchecked(e) # {} => Settled(e)
StopReviewed == stopReview # None => stopReview.protects = entryOrder \/ pc = "clear"
NewEntry == pc \in {"entryPlaced", "entryRecorded"} => \A s \in DOMAIN orders : orders[s].protects # placed

Once == OneStop /\ AllSettled /\ StopReviewed /\ NewEntry

\* No stop is sent in the step, and nobody forgets what was checked.
Unsent ==
  /\ DOMAIN orders' = DOMAIN orders \/ pc = "placeEntry"
  /\ \A s \in DOMAIN orders' : s \notin DOMAIN orders => orders'[s].protects = 0
  /\ DOMAIN orders \subseteq DOMAIN orders'
  /\ \A s \in DOMAIN orders : orders'[s].protects = orders[s].protects
  /\ checked \subseteq checked'

LEMMA UnsentIs ==
  ASSUME OneStop, Unsent
  PROVE  OneStop' /\ \A e \in Ids : Unchecked(e)' \subseteq Unchecked(e)
<1>0. 0 \notin Ids
  BY RiskAssumption DEF Ids
<1> QED BY <1>0 DEF OneStop, Unsent, Unchecked

LEMMA UnsentStep ==
  ASSUME IInv, Next, ~ (pc = "placeStop" /\ BrokerTakes)
  PROVE  Unsent
<1>1. checked \subseteq checked'
  <2>1. \/ Render \/ Age \/ (\E p \in Plans \cup {None} : Edit(p))
        \/ ReviewEntry \/ SendEntry \/ ReviewStop \/ SendStop \/ RefreshStatus
        => checked' = checked
    BY Zenon DEF Render, Age, Edit, ReviewEntry, SendEntry, ReviewStop, SendStop, RefreshStatus, unsure
  <2>2. \/ Cleared \/ place_order \/ PlaceFails \/ Interrupt \/ RecordEntry \/ _arm_stop_watch
        \/ RecordStop \/ _mark_stop_watch_sent \/ NewSession
        => checked' = checked
    BY Zenon DEF Cleared, place_order, PlaceFails, Interrupt, RecordEntry, _arm_stop_watch, RecordStop,
       _mark_stop_watch_sent, NewSession, unsure
  <2>3. ASSUME NEW p \in Ids, Poll(p) \/ Fill(p) \/ EndOrder(p) PROVE checked' = checked
    BY <2>3, Zenon DEF Poll, Fill, EndOrder, unsure
  <2>4. ResetStop \/ _clear_risk_order_workflow => checked \subseteq checked'
    BY DEF ResetStop, _clear_risk_order_workflow, Checked, unsure
  <2> QED BY <2>1, <2>2, <2>3, <2>4, Zenon DEF Next
<1>2. CASE UNCHANGED orders
  BY <1>1, <1>2 DEF Unsent
<1>3. CASE Placing /\ BrokerTakes
  BY <1>1, <1>3, Grows DEF Unsent, Placing
<1>4. ASSUME NEW p \in Ids, Fill(p) \/ EndOrder(p) PROVE Unsent
  <2>1. orders[p].protects = 0
    BY <1>4 DEF Fill, EndOrder, Entry
  <2> QED BY <1>1, <1>4, <2>1, Trades DEF Unsent
<1> QED BY <1>2, <1>3, <1>4, OrdersChange

\* An entry that the page watches has no stop that was not checked.
LEMMA WatchedIsFree ==
  ASSUME AllSettled, NEW e \in Ids, entryOrder = e,
         \/ pc \in {"placeStop", "entryRecorded"}
         \/ pc = "idle" /\ stopOrder = 0 /\ ~ stopUncertain
  PROVE  Unchecked(e) = {}
BY DEF AllSettled, Settled

\* What the page shows is between two runs.
LEMMA PageIs ==
  ASSUME NEW screen, Shows(screen)
  PROVE  /\ pc = "idle" /\ Screen = screen
         /\ screen = "watch" => entryOrder # 0 /\ stopOrder = 0 /\ ~ stopUncertain
         /\ screen = "stop uncertain" => entryOrder # 0 /\ stopOrder = 0 /\ stopUncertain
         /\ screen = "complete" => entryOrder # 0 /\ stopOrder # 0
         /\ screen \in {"entry uncertain", "compose"} => entryOrder = 0
BY DEF Shows, Rendered, Screen

\* A step that leaves e and its stops as they are.
LEMMA SettledStays ==
  ASSUME NEW e \in Ids, Settled(e), Unchecked(e)' \subseteq Unchecked(e), pc = "idle", pc' = "idle",
         UNCHANGED <<entryOrder, stopOrder, stopUncertain, blind>>, watch'[e] = watch[e]
  PROVE  Settled(e)'
BY DEF Settled

LEMMA SettledStep ==
  ASSUME IInv, Once, Next, ~ Interrupt, ~ (pc = "placeStop" /\ BrokerTakes),
         NEW e \in Ids, Unchecked(e)' # {}
  PROVE  Settled(e)'
<1>0. /\ TypeOK /\ Hands /\ Unsure /\ Log /\ StopReviewed /\ NewEntry /\ AllSettled
      /\ 0 \notin DOMAIN orders /\ 0 \notin Ids
  BY OrdersAre, RiskAssumption DEF IInv, Ids, Once
<1>1. Unchecked(e)' \subseteq Unchecked(e)
  BY UnsentIs, UnsentStep DEF Once
<1>2. Settled(e) /\ Unchecked(e) # {}
  BY <1>0, <1>1 DEF AllSettled
<1>3. CASE Render
  <2>1. /\ pc = "idle" /\ pc' = "idle" /\ UNCHANGED <<stopUncertain, stopOrder, blind>>
        /\ entryOrder' = RestoredEntry /\ watch' = Armed
    BY <1>3, PersistIs DEF Render, unsure
  <2>2. entryOrder' = entryOrder \/ (entryOrder = 0 /\ watch[entryOrder'] \in Recoverable)
    BY <2>1, Restoring
  <2>3. watch'[e] = watch[e]
    <3>1. Screen = "watch" => e # entryOrder
      BY <1>0, <1>2, <2>1, WatchedIsFree DEF Screen
    <3> QED BY <1>0, <2>1, <3>1 DEF Armed, TypeOK
  <2>4. CASE entryOrder' = entryOrder
    BY <1>1, <1>2, <2>1, <2>3, <2>4, SettledStays
  <2>5. CASE entryOrder = 0 /\ watch[entryOrder'] \in Recoverable
    <3>1. watch[e] \in {"none", "STOP_SENT"}
      BY <1>0, <1>2, <2>5 DEF Settled
    <3>2. entryOrder' # e
      BY <2>5, <3>1 DEF Recoverable, Active
    <3> QED BY <2>3, <3>1, <3>2 DEF Settled
  <2> QED BY <2>2, <2>4, <2>5
<1>4. ASSUME NEW o \in Ids, Poll(o) PROVE Settled(e)'
  <2>1. /\ pc = "idle" /\ pc' = "idle" /\ watch[o] \in Active /\ Entry(o)
        /\ UNCHANGED <<entryOrder, stopOrder, stopUncertain, blind>> /\ _set_stop_watch_fill(o)
    BY <1>0, <1>4 DEF Poll, entry, stop, unsure, Log, Active
  <2>2. watch' = [watch EXCEPT ![o] = Seen(orders[o])]
    BY <2>1, FillIsLogged DEF Relog
  <2>3. CASE o = e
    <3>1. watch[e] \notin {"none", "STOP_SENT"}
      BY <2>1, <2>3 DEF Active
    <3> QED BY <1>1, <1>2, <2>1, <3>1 DEF Settled
  <2>4. CASE o # e
    BY <1>0, <1>1, <1>2, <2>1, <2>2, <2>4, SettledStays DEF TypeOK
  <2> QED BY <2>3, <2>4
<1>5. CASE ReviewStop \/ RefreshStatus
  <2>1. /\ pc = "idle" /\ pc' \in {"idle", "placeStop"} /\ entryOrder # 0 /\ stopOrder = 0 /\ ~ stopUncertain
        /\ UNCHANGED <<entryOrder, stopOrder, blind>> /\ _set_stop_watch_fill(entryOrder)
    BY <1>5, PageIs DEF ReviewStop, RefreshStatus, entry, unsure, stop
  <2>2. entryOrder # e
    BY <1>0, <1>2, <2>1, WatchedIsFree
  <2>3. watch' = [watch EXCEPT ![entryOrder] = Seen(orders[entryOrder])]
    BY <2>1, EntryOrderIs, FillIsLogged DEF Relog
  <2> QED BY <1>0, <1>2, <2>1, <2>2, <2>3 DEF Settled, TypeOK
<1>6. CASE SendStop
  <2>1. /\ pc = "idle" /\ entryOrder # 0 /\ stopOrder = 0 /\ ~ stopUncertain
        /\ UNCHANGED <<entryOrder, stopOrder, watch>>
    BY <1>6, PageIs DEF SendStop, entry
  <2>2. entryOrder # e
    BY <1>0, <1>2, <2>1, WatchedIsFree
  <2> QED BY <1>2, <2>1, <2>2 DEF Settled
<1>7. CASE ReviewEntry \/ Age \/ \E p \in Plans \cup {None} : Edit(p)
  <2>1. pc = "idle" /\ pc' = "idle" /\ UNCHANGED <<entryOrder, stopOrder, stopUncertain, watch, blind>>
    BY <1>7, PageIs DEF ReviewEntry, Age, Edit, entry, stop, unsure
  <2> QED BY <1>1, <1>2, <2>1, SettledStays
<1>8. CASE SendEntry
  <2>1. pc = "idle" /\ entryOrder = 0 /\ UNCHANGED <<entryOrder, watch>>
    BY <1>8, PageIs DEF SendEntry
  <2> QED BY <1>0, <1>2, <2>1 DEF Settled
<1>9. CASE ResetStop
  <2>1. /\ pc = "idle" /\ stopOrder = 0 /\ UNCHANGED <<orders, entryOrder, watch>>
        /\ checked' = checked \cup blind
    BY <1>9, PageIs DEF ResetStop, entry, Checked
  <2>2. entryOrder # e
    BY <1>2, <2>1 DEF Settled, Unchecked
  <2> QED BY <1>2, <2>1, <2>2 DEF Settled
<1>10. CASE _clear_risk_order_workflow
  <2>1. /\ pc = "idle" /\ entryOrder' = 0 /\ UNCHANGED watch
        /\ entryOrder = 0 \/ stopOrder # 0 \/ (stopOrder = 0 /\ ~ stopUncertain)
    BY <1>10, PageIs DEF _clear_risk_order_workflow
  <2>2. watch[e] \in {"none", "STOP_SENT"}
    BY <1>0, <1>2, <2>1, WatchedIsFree DEF Settled
  <2> QED BY <1>0, <2>1, <2>2 DEF Settled
<1>11. CASE Cleared
  <2>1. pc = "clear" /\ UNCHANGED <<entryOrder, watch>>
    BY <1>11 DEF Cleared, entry
  <2> QED BY <1>2, <2>1 DEF Settled
<1>12. CASE place_order \/ PlaceFails
  <2>1. /\ pc \in {"placeEntry", "placeStop"} /\ UNCHANGED entryOrder
        /\ pc = "placeEntry" => watch' = watch
        /\ pc = "placeStop" =>
             watch' = watch \/ watch' = [watch EXCEPT ![stopReview.protects] = "STOP_UNCERTAIN"]
    BY <1>12, PersistIs DEF place_order, PlaceFails, Placing, entry
  <2>2. watch[e] \in {"none", "STOP_SENT"} /\ entryOrder # e
    BY <1>2, <2>1 DEF Settled
  <2>3. pc = "placeStop" => stopReview.protects = entryOrder
    BY <1>0, <2>1 DEF Hands, StopReviewed
  <2>4. watch'[e] = watch[e]
    BY <1>0, <2>1, <2>2, <2>3 DEF TypeOK
  <2> QED BY <2>1, <2>2, <2>4 DEF Settled
<1>13. CASE RecordEntry
  <2>1. pc = "entryPlaced" /\ entryOrder' = placed /\ UNCHANGED watch
    BY <1>13 DEF RecordEntry
  <2>2. placed # e
    BY <1>0, <1>2, <2>1 DEF NewEntry, Unchecked
  <2>3. entryOrder = 0
    BY <1>0, <2>1 DEF Unsure, EntryUnsure
  <2> QED BY <1>0, <1>2, <2>1, <2>2, <2>3 DEF Settled
<1>14. CASE _arm_stop_watch
  <2>1. pc = "entryRecorded" /\ UNCHANGED entryOrder /\ watch' = [watch EXCEPT ![placed] = "ARMED"]
    BY <1>14, PersistIs DEF _arm_stop_watch
  <2>2. placed # e
    BY <1>0, <1>2, <2>1 DEF NewEntry, Unchecked
  <2> QED BY <1>0, <1>2, <2>1, <2>2 DEF Settled, TypeOK
<1>15. CASE RecordStop
  BY <1>2, <1>15 DEF RecordStop, Settled, entry
<1>16. CASE _mark_stop_watch_sent
  <2>1. /\ pc = "stopRecorded" /\ pc' = "idle" /\ UNCHANGED <<entryOrder, stopOrder>>
        /\ watch' = IF watch[stopReview.protects] # "none"
                    THEN [watch EXCEPT ![stopReview.protects] = "STOP_SENT"] ELSE watch
    BY <1>16, PersistIs DEF _mark_stop_watch_sent, entry
  <2>2. stopReview.protects = entryOrder /\ stopOrder # 0
    BY <1>0, <2>1 DEF Hands, StopReviewed
  <2>3. CASE entryOrder = e
    BY <1>0, <2>1, <2>2, <2>3 DEF Settled, TypeOK
  <2>4. CASE entryOrder # e
    BY <1>0, <1>2, <2>1, <2>2, <2>4 DEF Settled, TypeOK
  <2> QED BY <2>3, <2>4
<1>17. CASE NewSession
  <2>1. watch'[e] = "none" /\ entryOrder' = 0
    BY <1>17 DEF NewSession, BrowserLog, mode, NoLog
  <2> QED BY <1>0, <2>1 DEF Settled
<1>18. ASSUME NEW o \in Ids, Fill(o) \/ EndOrder(o) PROVE Settled(e)'
  <2>1. UNCHANGED <<pc, entryOrder, stopOrder, stopUncertain, watch, blind>>
    BY <1>18 DEF Fill, EndOrder, entry, stop, unsure
  <2> QED BY <1>1, <1>2, <2>1 DEF Settled
<1> QED
  BY <1>3, <1>4, <1>5, <1>6, <1>7, <1>8, <1>9, <1>10, <1>11, <1>12, <1>13, <1>14, <1>15, <1>16, <1>17, <1>18,
     Zenon DEF Next

\* A stop is sent: those the entry had are checked, and the page waits for this one.
LEMMA StopSent ==
  ASSUME IInv, Once, Next, pc = "placeStop", BrokerTakes
  PROVE  OneStop' /\ AllSettled'
<1>0. TypeOK /\ Hands /\ Unsure /\ StopReviewed /\ AllSettled /\ OneStop /\ Placing
  BY DEF IInv, Once, Placing
<1>1. /\ DOMAIN orders' = DOMAIN orders \cup {NextId} /\ NextId \notin DOMAIN orders
      /\ \A o \in DOMAIN orders : orders'[o] = orders[o]
      /\ orders'[NextId] = NewOrder /\ NewOrder.protects # 0
  BY <1>0, Grows
<1>2. /\ stopReview # None /\ stopReview.protects = entryOrder /\ NewOrder.protects = entryOrder
      /\ stopOrder = 0 /\ stopUncertain /\ entryOrder # 0 /\ blind = {}
  BY <1>0 DEF Hands, StopReviewed, NewOrder, Unsure, StopUnsure
<1>3. entryOrder \in Ids
  BY <1>2, EntryOrderIs
<1>4. Unchecked(entryOrder) = {}
  BY <1>0, <1>3, WatchedIsFree
<1>5. CASE place_order \/ PlaceFails
  <2>1. /\ checked' = checked /\ blind' = {NextId}
        /\ UNCHANGED <<entryOrder, stopOrder, stopUncertain>>
        /\ pc' \in {"idle", "stopPlaced"}
        /\ watch' = watch \/ watch' = [watch EXCEPT ![stopReview.protects] = "STOP_UNCERTAIN"]
    <3>1. blind' = {NextId}
      BY <1>2 DEF BrokerTakes
    <3>2. /\ checked' = checked /\ UNCHANGED <<entryOrder, stopOrder, stopUncertain>>
          /\ pc' \in {"idle", "stopPlaced"}
          /\ watch' = watch \/ watch' = [watch EXCEPT ![stopReview.protects] = "STOP_UNCERTAIN"]
      BY <1>5, PersistIs DEF place_order, PlaceFails, entry, stop
    <3> QED BY <3>1, <3>2
  <2>2. OneStop'
    <3> SUFFICES ASSUME NEW r \in DOMAIN orders', NEW s \in DOMAIN orders',
                        orders'[r].protects = orders'[s].protects, orders'[r].protects # 0, r < s
                 PROVE  r \in checked'
      BY DEF OneStop
    <3>1. CASE r \in DOMAIN orders /\ s \in DOMAIN orders
      BY <1>0, <1>1, <2>1, <3>1 DEF OneStop
    <3>2. CASE r \in DOMAIN orders /\ s = NextId
      BY <1>1, <1>2, <1>4, <2>1, <3>2 DEF Unchecked
    <3>3. r # NextId
      <4>1. Len(orders) \in Nat /\ DOMAIN orders = 1 .. Len(orders)
        BY <1>0, OrdersAre
      <4> QED BY <1>1, <4>1 DEF NextId
    <3> QED BY <1>1, <3>1, <3>2, <3>3
  <2>3. ASSUME NEW e \in Ids, Unchecked(e)' # {} PROVE Settled(e)'
    <3>1. CASE e = entryOrder
      <4>1. Unchecked(e)' \subseteq {NextId}
        BY <1>1, <1>4, <2>1, <3>1 DEF Unchecked
      <4> QED BY <1>2, <2>1, <3>1, <4>1 DEF Settled
    <3>2. CASE e # entryOrder
      <4>1. Unchecked(e)' \subseteq Unchecked(e)
        BY <1>1, <1>2, <2>1, <3>2 DEF Unchecked
      <4>2. watch[e] \in {"none", "STOP_SENT"}
        BY <1>0, <2>3, <3>2, <4>1 DEF AllSettled, Settled
      <4> QED BY <1>0, <1>2, <2>1, <3>2, <4>2 DEF Settled, TypeOK
    <3> QED BY <3>1, <3>2
  <2> QED BY <2>2, <2>3 DEF AllSettled
<1>6. place_order \/ PlaceFails
  <2>1. Len(orders') # Len(orders)
    <3>1. Len(orders') = Len(orders) + 1
      BY <1>0, Grows
    <3>2. Len(orders) \in Nat
      BY <1>0, OrdersAre
    <3> QED BY <3>1, <3>2
  <2>2. orders' # orders
    BY <2>1
  <2>3. ~ \E o \in Ids : Poll(o)
    BY DEF Poll
  <2>4. ASSUME NEW o \in Ids, Fill(o) \/ EndOrder(o) PROVE FALSE
    <3>1. Len(orders') = Len(orders)
      BY <2>4, Trades
    <3> QED BY <2>1, <3>1
  <2>5. /\ ~ Render /\ ~ Age /\ ~ (\E p \in Plans \cup {None} : Edit(p)) /\ ~ ReviewEntry /\ ~ SendEntry
        /\ ~ ReviewStop /\ ~ SendStop /\ ~ RefreshStatus /\ ~ ResetStop
    BY PageIs, Zenon DEF Render, Age, Edit, ReviewEntry, SendEntry, ReviewStop, SendStop, RefreshStatus, ResetStop
  <2>6. /\ ~ _clear_risk_order_workflow /\ ~ Cleared /\ ~ Interrupt /\ ~ RecordEntry /\ ~ _arm_stop_watch
        /\ ~ RecordStop /\ ~ _mark_stop_watch_sent /\ ~ NewSession
    BY <1>0, <2>2 DEF _clear_risk_order_workflow, Cleared, Interrupt, RecordEntry, _arm_stop_watch, RecordStop,
       _mark_stop_watch_sent, NewSession
  <2> QED BY <2>3, <2>4, <2>5, <2>6, Zenon DEF Next
<1> QED BY <1>5, <1>6

\* The review of a stop is of the entry that the page shows, until the page is cleared.
LEMMA StopReviewedStep ==
  ASSUME IInv, Once, Next, ~ Interrupt
  PROVE  StopReviewed'
<1>0. TypeOK /\ Hands /\ Unsure /\ StopReviewed /\ 0 \notin DOMAIN orders
  BY OrdersAre DEF IInv, Once
<1>1. entryOrder = 0 /\ pc # "clear" => stopReview = None
  BY <1>0 DEF Hands, StopReviewed, Backed, Entry
<1>2. CASE Render
  <2>1. pc = "idle" /\ entryOrder' = RestoredEntry /\ stopReview' = KeptStopReview
    BY <1>2 DEF Render
  <2>2. entryOrder' = entryOrder \/ entryOrder = 0
    BY <2>1, Restoring
  <2>3. stopReview' \in {stopReview, None}
    BY <2>1 DEF KeptStopReview
  <2> QED BY <1>0, <1>1, <2>1, <2>2, <2>3 DEF StopReviewed
<1>3. CASE ReviewStop
  <2>1. stopReview = None /\ entryOrder' = entryOrder
    BY <1>3 DEF ReviewStop, entry
  <2>2. stopReview' # None => stopReview'.protects = entryOrder
    <3>1. CASE UNCHANGED stopReview
      BY <2>1, <3>1
    <3>2. CASE stopReview' = [plan |-> orders[entryOrder].plan, protects |-> entryOrder, fresh |-> TRUE]
      BY <3>2
    <3> QED BY <1>3, <3>1, <3>2, Zenon DEF ReviewStop
  <2> QED BY <2>1, <2>2 DEF StopReviewed
<1>4. CASE Age
  <2>1. /\ pc = "idle" /\ pc' = "idle" /\ UNCHANGED entryOrder
        /\ stopReview' = stopReview \/ (stopReview # None /\ stopReview' = [stopReview EXCEPT !.fresh = FALSE])
    BY <1>4 DEF Age
  <2>2. stopReview # None => stopReview \in Reviews
    BY <1>0 DEF TypeOK
  <2> QED BY <1>0, <2>1, <2>2 DEF StopReviewed, Reviews
<1>5. CASE ResetStop \/ Cleared \/ _mark_stop_watch_sent \/ NewSession
  <2>1. stopReview' = None
    BY <1>5 DEF ResetStop, Cleared, _mark_stop_watch_sent, NewSession
  <2> QED BY <2>1 DEF StopReviewed
<1>6. CASE _clear_risk_order_workflow
  BY <1>6 DEF _clear_risk_order_workflow, StopReviewed
<1>7. CASE RecordEntry
  <2>1. pc = "entryPlaced" /\ stopReview' = stopReview
    BY <1>7 DEF RecordEntry, stop
  <2> QED BY <1>0, <1>1, <2>1 DEF Unsure, EntryUnsure, StopReviewed
<1>8. CASE pc # "clear" /\ UNCHANGED <<stopReview, entryOrder>>
  BY <1>0, <1>8 DEF StopReviewed
<1>9. \/ ReviewEntry \/ SendEntry \/ SendStop \/ RefreshStatus \/ place_order \/ PlaceFails
      \/ _arm_stop_watch \/ RecordStop \/ (\E p \in Plans \cup {None} : Edit(p))
      => pc # "clear" /\ UNCHANGED <<stopReview, entryOrder>>
  BY PageIs DEF ReviewEntry, SendEntry, SendStop, RefreshStatus, place_order, PlaceFails, Placing,
     _arm_stop_watch, RecordStop, Edit, entry, stop
<1>10. ASSUME NEW o \in Ids, Poll(o) \/ Fill(o) \/ EndOrder(o) PROVE StopReviewed'
  <2>1. UNCHANGED <<stopReview, entryOrder, pc>>
    BY <1>10 DEF Poll, Fill, EndOrder, entry, stop
  <2> QED BY <1>0, <2>1 DEF StopReviewed
<1> QED
  BY <1>2, <1>3, <1>4, <1>5, <1>6, <1>7, <1>8, <1>9, <1>10, Zenon DEF Next

\* An entry has no stop before it is on the page.
LEMMA NewEntryStep ==
  ASSUME IInv, Once, Next
  PROVE  NewEntry'
<1>0. TypeOK /\ Book /\ NewEntry
  BY DEF IInv, Once
<1>1. CASE place_order /\ pc = "placeEntry"
  <2>1. /\ DOMAIN orders' = DOMAIN orders \cup {NextId} /\ NextId \notin DOMAIN orders
        /\ \A o \in DOMAIN orders : orders'[o] = orders[o]
        /\ orders'[NextId].protects = 0 /\ placed' = NextId
    BY <1>1, Grows DEF place_order
  <2>2. NextId # 0
    BY <1>0, OrdersAre DEF NextId
  <2>3. ASSUME NEW s \in DOMAIN orders PROVE orders[s].protects # NextId
    <3>1. orders[s].protects # 0 => orders[s].protects \in DOMAIN orders
      BY <1>0 DEF Book, Sound, Backed, Entry
    <3> QED BY <2>1, <2>2, <3>1
  <2> QED BY <2>1, <2>2, <2>3 DEF NewEntry
<1>2. CASE pc' \notin {"entryPlaced", "entryRecorded"}
  BY <1>2 DEF NewEntry
<1>3. CASE /\ pc \in {"entryPlaced", "entryRecorded"} /\ placed' = placed
           /\ DOMAIN orders' = DOMAIN orders
           /\ \A s \in DOMAIN orders : orders'[s].protects = orders[s].protects
  BY <1>0, <1>3 DEF NewEntry
<1>4. ASSUME NEW o \in Ids, Poll(o) PROVE NewEntry'
  BY <1>2, <1>4 DEF Poll
<1>5. ASSUME NEW o \in Ids, Fill(o) \/ EndOrder(o) PROVE NewEntry'
  <2>1. UNCHANGED <<pc, placed>>
    BY <1>5 DEF Fill, EndOrder
  <2>2. DOMAIN orders' = DOMAIN orders /\ \A s \in DOMAIN orders : orders'[s].protects = orders[s].protects
    BY <1>5, Trades DEF Advance
  <2> QED BY <1>2, <1>3, <2>1, <2>2
<1>6. CASE RecordEntry
  <2>1. pc = "entryPlaced" /\ UNCHANGED <<placed, orders>>
    BY <1>6 DEF RecordEntry
  <2> QED BY <1>3, <2>1
<1>7. \/ Render \/ Age \/ ReviewEntry \/ SendEntry \/ ReviewStop \/ SendStop \/ RefreshStatus \/ ResetStop
      \/ (\E p \in Plans \cup {None} : Edit(p))
      => pc' \notin {"entryPlaced", "entryRecorded"}
  <2>1. Render \/ Age \/ SendEntry \/ SendStop \/ (\E p \in Plans \cup {None} : Edit(p))
        => pc' \notin {"entryPlaced", "entryRecorded"}
    BY DEF Render, Age, SendEntry, SendStop, Edit
  <2>2. ReviewEntry \/ ReviewStop \/ RefreshStatus \/ ResetStop => pc' \notin {"entryPlaced", "entryRecorded"}
    BY PageIs DEF ReviewEntry, ReviewStop, RefreshStatus, ResetStop
  <2> QED BY <2>1, <2>2
<1>8. \/ _clear_risk_order_workflow \/ Cleared \/ PlaceFails \/ Interrupt \/ _arm_stop_watch \/ RecordStop
      \/ _mark_stop_watch_sent \/ NewSession \/ (place_order /\ pc # "placeEntry")
      => pc' \notin {"entryPlaced", "entryRecorded"}
  BY DEF _clear_risk_order_workflow, Cleared, PlaceFails, Interrupt, _arm_stop_watch, RecordStop,
     _mark_stop_watch_sent, NewSession, place_order
<1> QED BY <1>1, <1>2, <1>4, <1>5, <1>6, <1>7, <1>8, Zenon DEF Next

LEMMA OnceStep ==
  ASSUME IInv, Once, [Next /\ ~ Interrupt]_vars
  PROVE  Once'
<1>1. CASE UNCHANGED vars
  BY <1>1 DEF Once, OneStop, AllSettled, Settled, Unchecked, StopReviewed, NewEntry, vars, entry, stop, unsure
<1>2. CASE Next /\ ~ Interrupt
  <2>1. CASE pc = "placeStop" /\ BrokerTakes
    BY <1>2, <2>1, StopSent, StopReviewedStep, NewEntryStep DEF Once
  <2>2. CASE ~ (pc = "placeStop" /\ BrokerTakes)
    <3>1. OneStop'
      BY <1>2, <2>2, UnsentStep, UnsentIs DEF Once
    <3>2. AllSettled'
      BY <1>2, <2>2, SettledStep DEF AllSettled
    <3> QED BY <1>2, <3>1, <3>2, StopReviewedStep, NewEntryStep DEF Once
  <2> QED BY <2>1, <2>2
<1> QED BY <1>1, <1>2

\* "Preventing accidental duplicate buys/stops": as long as no run is cut short, an entry
\* has one stop, and another only after the user was told to look for the first; orders may
\* be lost, fills may come at any time, and the page may be loaded again.
THEOREM SecondStopNeedsInterrupt == Uncut => []OneStop
<1>1. Init => Once
  <2> SUFFICES ASSUME Init PROVE Once
    OBVIOUS
  <2>1. DOMAIN orders = {}
    <3>1. TypeOK /\ Len(orders) = 0
      BY InitHolds DEF Init, IInv
    <3> QED BY <3>1, OrdersAre
  <2> QED BY <2>1 DEF Init, Once, OneStop, AllSettled, Unchecked, StopReviewed, NewEntry
<1>2. IInv /\ Once /\ [Next /\ ~ Interrupt]_vars => IInv' /\ Once'
  BY Inductive, OnceStep
<1>3. Once => OneStop
  BY DEF Once
<1> QED BY <1>1, <1>2, <1>3, InitHolds, PTL DEF Uncut

=============================================================================
