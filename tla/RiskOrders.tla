----------------------------- MODULE RiskOrders -----------------------------
(***************************************************************************)
(* The live stock orders of Risk Sizing (src/risk_sizing_ui_v10.py): a     *)
(* reviewed BUY LIMIT, a watch over its fill, and a protective SELL STOP   *)
(* for the shares it bought.  The broker keeps the orders; the workflow is *)
(* kept in the session of one browser tab, with a copy of the watch log in *)
(* the storage of the browser.                                             *)
(*                                                                         *)
(* Streamlit runs the page again for every click.  What the page does      *)
(* above the clicked button is Render; a click finds the page rendered.    *)
(* The runs of a session do not overlap, but a click elsewhere in the      *)
(* terminal ends a run where it next touches the session (Interrupt).      *)
(***************************************************************************)
EXTENDS Naturals, Sequences, FiniteSets

CONSTANTS
  Plans,      \* account, ticker, shares, entry and stop prices: a fingerprint
  None,       \* no plan, no review
  Shares,     \* shares of an order
  MaxOrders,  \* bound: orders that reach the broker
  MaxSessions,\* bound: sessions, one after the other
  MaxFaults   \* bound: orders that are not answered, runs that are interrupted

ASSUME RiskAssumption ==
  /\ None \notin Plans
  /\ {Shares, MaxSessions} \subseteq Nat \ {0} /\ {MaxOrders, MaxFaults} \subseteq Nat

VARIABLES
  orders,     \* the orders of the broker; an order id is an index
  session,    \* the number of the session
  plan,       \* what the page is filled in with, or None if it cannot be sized
  review, entryUncertain, entryOrder,   \* _risk_live_entry_*
  stopReview, stopUncertain, stopOrder, \* _risk_live_stop_*
  watch,      \* watch[o]: the status of the row of entry o in the watch log
  storage,    \* the copy of the watch log in the browser
  pc,         \* where the run is, "idle" between runs
  placed,     \* the order id of the answer that the run is handling, or 0
  blind,      \* orders of this session that nobody on this side knows of
  checked,    \* orders the user has been told to look for, and says to have
  faults

entry == <<review, entryUncertain, entryOrder>>
stop == <<stopReview, stopUncertain, stopOrder>>
unsure == <<blind, checked>>     \* history, for the properties
vars == <<orders, session, plan, entry, stop, watch, storage, pc, placed, unsure, faults>>

Ids == 1 .. MaxOrders
\* An order is a BUY (protects = 0) or the stop of the entry it protects.
\* "OPEN" stands for CANCEL_REQUESTED too: the code takes them alike.
Live == {"OPEN", "INDIVIDUAL_FILLS"}
Orders == [plan : Plans, protects : 0 .. MaxOrders, filled : 0 .. Shares,
           status : Live \cup {"EXECUTED", "CANCELLED", "EXPIRED", "REJECTED"}]
Reviews == [plan : Plans, protects : 0 .. MaxOrders, fresh : BOOLEAN]
ASSUME NoneAssumption == None \notin Reviews

Active == {"ARMED", "WAITING_FILL", "PARTIAL_FILL"}
Ended == {"ENTRY_CANCELLED", "ENTRY_EXPIRED", "ENTRY_REJECTED"}
Recoverable == Active \cup {"READY_TO_SEND", "STOP_UNCERTAIN"}
Statuses == Recoverable \cup Ended \cup {"none", "STOP_SENT"}
NoLog == [o \in Ids |-> "none"]

Fault == faults < MaxFaults /\ faults' = faults + 1

-----------------------------------------------------------------------------
(* The watch log                                                           *)

\* The browser component reads only when it is asked to, and writes only what
\* has been read before.  The watch log passes neither argument.
mode == "write"
hydrated == FALSE
BrowserLog == IF mode = "read" THEN storage ELSE NoLog
Stored(log) == IF mode # "read" /\ hydrated THEN log ELSE storage

\* _persist_stop_watch_state
Persist(log) == watch' = log /\ storage' = Stored(log)

\* _order_fill_snapshot
PartialFillOfAll(o) ==              \* mutant: off by one
  o.status = "INDIVIDUAL_FILLS" \/ (o.filled > 0 /\ o.filled <= Shares)
PartialFill(o) == o.status = "INDIVIDUAL_FILLS" \/ (o.filled > 0 /\ o.filled < Shares)
FullFillLoose(o) == o.filled > 0    \* mutant: some shares are taken for all
FullFill(o) == ~ PartialFill(o) /\ (o.filled = Shares \/ o.status = "EXECUTED")

SeenStatusFirst(o) ==               \* mutant: the status before the shares
  CASE o.status = "CANCELLED" -> "ENTRY_CANCELLED"
    [] o.status # "CANCELLED" /\ FullFill(o) -> "READY_TO_SEND"
    [] o.status # "CANCELLED" /\ PartialFill(o) -> "PARTIAL_FILL"
    [] OTHER -> "WAITING_FILL"

\* _set_stop_watch_fill: the status of a row for what the broker says.
Seen(o) ==
  CASE FullFill(o) -> "READY_TO_SEND"
    [] PartialFill(o) -> "PARTIAL_FILL"
    [] ~ FullFill(o) /\ ~ PartialFill(o) /\ o.status = "CANCELLED" -> "ENTRY_CANCELLED"
    [] ~ FullFill(o) /\ ~ PartialFill(o) /\ o.status = "EXPIRED" -> "ENTRY_EXPIRED"
    [] ~ FullFill(o) /\ ~ PartialFill(o) /\ o.status = "REJECTED" -> "ENTRY_REJECTED"
    [] OTHER -> "WAITING_FILL"

_set_stop_watch_fill(id) == Persist([watch EXCEPT ![id] = Seen(orders[id])])

\* _restore_entry_order_from_watch: the latest row that still needs the user.
RestoredEntry ==
  IF entryOrder # 0 \/ \A o \in Ids : watch[o] \notin Recoverable THEN entryOrder
  ELSE CHOOSE o \in Ids : /\ watch[o] \in Recoverable
                          /\ \A p \in Ids : watch[p] \in Recoverable => p <= o

\* maybe_auto_watch_risk_entries, every five seconds while the terminal is open.
Poll(o) ==
  /\ pc = "idle"
  /\ watch[o] \in Active
  /\ _set_stop_watch_fill(o)
  /\ UNCHANGED <<orders, session, plan, entry, stop, pc, placed, unsure, faults>>

-----------------------------------------------------------------------------
(* The page                                                                *)

ScreenUnlocked ==                   \* mutant: an uncertain entry does not lock the page
  CASE entryOrder = 0 -> "compose"
    [] entryOrder # 0 /\ stopOrder # 0 -> "complete"
    [] entryOrder # 0 /\ stopOrder = 0 /\ stopUncertain -> "stop uncertain"
    [] OTHER -> "watch"

\* Which part of the workflow the page shows.
Screen ==
  CASE entryOrder = 0 /\ entryUncertain # None -> "entry uncertain"
    [] entryOrder = 0 /\ entryUncertain = None -> "compose"
    [] entryOrder # 0 /\ stopOrder # 0 -> "complete"
    [] entryOrder # 0 /\ stopOrder = 0 /\ stopUncertain -> "stop uncertain"
    [] entryOrder # 0 /\ stopOrder = 0 /\ ~ stopUncertain -> "watch"

\* A review is dropped when it is old, or no longer what the page says.
KeptReview ==
  IF Screen = "compose" /\ plan # None /\ review # None /\ (review.plan # plan \/ ~ review.fresh)
  THEN None ELSE review
KeptStopReview ==
  IF Screen = "watch" /\ watch[entryOrder] = "READY_TO_SEND" /\ stopReview # None /\ ~ stopReview.fresh
  THEN None ELSE stopReview
Armed ==
  IF Screen = "watch" /\ watch[entryOrder] = "none" THEN [watch EXCEPT ![entryOrder] = "ARMED"] ELSE watch

Rendered ==
  /\ pc = "idle"
  /\ RestoredEntry = entryOrder
  /\ KeptReview = review /\ KeptStopReview = stopReview /\ Armed = watch

Shows(screen) == Rendered /\ Screen = screen

Render ==
  /\ pc = "idle"
  /\ ~ Rendered
  /\ entryOrder' = RestoredEntry
  /\ review' = KeptReview
  /\ stopReview' = KeptStopReview
  /\ Persist(Armed)
  /\ UNCHANGED <<orders, session, plan, entryUncertain, stopUncertain, stopOrder, pc, placed, unsure, faults>>

\* The user fills in the page, or picks another account.
Edit(p) ==
  /\ pc = "idle"
  /\ plan # p
  /\ plan' = p
  /\ UNCHANGED <<orders, session, entry, stop, watch, storage, pc, placed, unsure, faults>>

\* A preview is good for _PREVIEW_FRESH_SECONDS.
Age ==
  /\ \/ review # None /\ review.fresh /\ review' = [review EXCEPT !.fresh = FALSE] /\ UNCHANGED stopReview
     \/ stopReview # None /\ stopReview.fresh /\ stopReview' = [stopReview EXCEPT !.fresh = FALSE]
          /\ UNCHANGED review
  /\ pc = "idle"
  /\ UNCHANGED <<orders, session, plan, entryUncertain, entryOrder, stopUncertain, stopOrder, watch, storage, pc,
                 placed, unsure, faults>>

Room == Len(orders) < MaxOrders

\* REVIEW BUY LIMIT WITH E*TRADE; a preview that fails leaves the page as it is.
ReviewEntry ==
  /\ Shows("compose")
  /\ plan # None
  /\ review' = [plan |-> plan, protects |-> 0, fresh |-> TRUE]
  /\ review' # review
  /\ UNCHANGED <<orders, session, plan, entryUncertain, entryOrder, stop, watch, storage, pc, placed, unsure,
                 faults>>

\* SEND LIVE BUY LIMIT: the entry is uncertain until the broker has answered.
SendEntry ==
  /\ Shows("compose")
  /\ plan # None /\ review # None
  /\ Room
  /\ entryUncertain' = review.plan
  /\ pc' = "placeEntry"
  /\ UNCHANGED <<orders, session, plan, review, entryOrder, stop, watch, storage, placed, unsure, faults>>

\* REVIEW + SEND READY PROTECTIVE STOP: the fill is read again, the stop is
\* previewed, and sent at once if the preview has no message.
ReviewStop ==
  /\ Shows("watch")
  /\ watch[entryOrder] = "READY_TO_SEND"
  /\ stopReview = None
  /\ _set_stop_watch_fill(entryOrder)
  /\ \/ UNCHANGED <<stopReview, stopUncertain, pc>>
     \/ /\ FullFill(orders[entryOrder])
        /\ stopReview' = [plan |-> orders[entryOrder].plan, protects |-> entryOrder, fresh |-> TRUE]
        /\ \/ UNCHANGED <<stopUncertain, pc>>
           \/ Room /\ stopUncertain' = TRUE /\ pc' = "placeStop"
  /\ UNCHANGED <<orders, session, plan, entry, stopOrder, placed, unsure, faults>>

\* SEND LIVE PROTECTIVE STOP AFTER MESSAGE REVIEW
SendStop ==
  /\ Shows("watch")
  /\ watch[entryOrder] = "READY_TO_SEND"
  /\ stopReview # None
  /\ Room
  /\ stopUncertain' = TRUE
  /\ pc' = "placeStop"
  /\ UNCHANGED <<orders, session, plan, entry, stopReview, stopOrder, watch, storage, placed, unsure, faults>>

\* REFRESH PROTECTION STATUS NOW
RefreshStatus ==
  /\ Shows("watch")
  /\ _set_stop_watch_fill(entryOrder)
  /\ UNCHANGED <<orders, session, plan, entry, stop, pc, placed, unsure, faults>>

Checked == blind' = {} /\ checked' = checked \cup blind

\* I CHECKED E*TRADE ORDERS -- RESET STOP REVIEW
ResetStop ==
  /\ Shows("stop uncertain")
  /\ stopUncertain' = FALSE
  /\ stopReview' = None
  /\ Checked
  /\ UNCHANGED <<orders, session, plan, entry, stopOrder, watch, storage, pc, placed, faults>>

\* I CHECKED E*TRADE ORDERS -- RESET ENTRY WORKFLOW, and the two buttons CLEAR
\* TERMINAL ORDER WORKFLOW: the keys are dropped one by one.
_clear_risk_order_workflow ==
  /\ \/ Shows("entry uncertain") /\ Checked
     \/ /\ \/ Shows("complete")
           \/ Shows("watch") /\ watch[entryOrder] \in Ended
        /\ UNCHANGED unsure
  /\ review' = None /\ entryOrder' = 0 /\ entryUncertain' = None
  /\ pc' = "clear"
  /\ UNCHANGED <<orders, session, plan, stop, watch, storage, placed, faults>>

Cleared ==
  /\ pc = "clear"
  /\ stopReview' = None /\ stopOrder' = 0 /\ stopUncertain' = FALSE
  /\ pc' = "idle"
  /\ UNCHANGED <<orders, session, plan, entry, watch, storage, placed, unsure, faults>>

-----------------------------------------------------------------------------
(* An order is placed                                                      *)

Placing == pc \in {"placeEntry", "placeStop"}
NewOrder == LET r == IF pc = "placeEntry" THEN review ELSE stopReview
            IN  [plan |-> r.plan, protects |-> r.protects, filled |-> 0, status |-> "OPEN"]
NextId == Len(orders) + 1
BrokerTakes == orders' = Append(orders, NewOrder) /\ blind' = blind \cup {NextId}

place_order ==
  /\ Placing
  /\ BrokerTakes
  /\ placed' = NextId
  /\ pc' = IF pc = "placeEntry" THEN "entryPlaced" ELSE "stopPlaced"
  /\ UNCHANGED <<session, plan, entry, stop, watch, storage, checked, faults>>

\* The broker refuses, or does not answer, or answers without an order id: the
\* order is there or it is not.  A stop is marked as uncertain in the log.
PlaceFails ==
  /\ Placing
  /\ Fault
  /\ BrokerTakes \/ UNCHANGED <<orders, blind>>
  /\ Persist(IF pc = "placeStop" /\ watch[stopReview.protects] # "none"
             THEN [watch EXCEPT ![stopReview.protects] = "STOP_UNCERTAIN"] ELSE watch)
  /\ pc' = "idle"
  /\ UNCHANGED <<session, plan, entry, stop, placed, checked>>

RecordEntry ==
  /\ pc = "entryPlaced"
  /\ entryOrder' = placed
  /\ blind' = blind \ {placed}
  /\ pc' = "entryRecorded"
  /\ UNCHANGED <<orders, session, plan, review, entryUncertain, stop, watch, storage, placed, checked, faults>>

_arm_stop_watch ==
  /\ pc = "entryRecorded"
  /\ Persist([watch EXCEPT ![placed] = "ARMED"])
  /\ entryUncertain' = None /\ review' = None
  /\ placed' = 0
  /\ pc' = "idle"
  /\ UNCHANGED <<orders, session, plan, entryOrder, stop, unsure, faults>>

RecordStop ==
  /\ pc = "stopPlaced"
  /\ stopOrder' = placed
  /\ blind' = blind \ {placed}
  /\ pc' = "stopRecorded"
  /\ UNCHANGED <<orders, session, plan, entry, stopReview, stopUncertain, watch, storage, placed, checked, faults>>

_mark_stop_watch_sent ==
  /\ pc = "stopRecorded"
  /\ stopUncertain' = FALSE /\ stopReview' = None
  /\ Persist(IF watch[stopReview.protects] # "none"
             THEN [watch EXCEPT ![stopReview.protects] = "STOP_SENT"] ELSE watch)
  /\ placed' = 0
  /\ pc' = "idle"
  /\ UNCHANGED <<orders, session, plan, entry, stopOrder, unsure, faults>>

\* touch_session, and every key of the session, is where a run can end.
Interrupt ==
  /\ pc \in {"entryPlaced", "entryRecorded", "stopPlaced", "stopRecorded", "clear"}
  /\ Fault
  /\ pc' = "idle"
  /\ placed' = 0
  /\ UNCHANGED <<orders, session, plan, entry, stop, watch, storage, unsure>>

-----------------------------------------------------------------------------
(* The broker, and the end of a session                                    *)

Entry(o) == o \in DOMAIN orders /\ orders[o].protects = 0

\* An entry is filled at once or in parts; its fills may be listed one by one for
\* as long as the broker likes, the last one included.
Fill(o) ==
  /\ Entry(o) /\ orders[o].status \in Live
  /\ \E n \in orders[o].filled .. Shares, status \in Live \cup {"EXECUTED"} :
       /\ n > 0
       /\ status = "EXECUTED" => n = Shares
       /\ status = "OPEN" => n < Shares
       /\ orders' = [orders EXCEPT ![o].filled = n, ![o].status = status]
  /\ UNCHANGED <<session, plan, entry, stop, watch, storage, pc, placed, unsure, faults>>

\* The user cancels the entry, its day is over, or the exchange rejects it.
EndOrder(o) ==
  /\ Entry(o) /\ orders[o].status \in Live /\ orders[o].filled < Shares
  /\ \E status \in {"CANCELLED", "EXPIRED", "REJECTED"} :
       /\ status = "REJECTED" => orders[o].filled = 0
       /\ orders' = [orders EXCEPT ![o].status = status]
  /\ UNCHANGED <<session, plan, entry, stop, watch, storage, pc, placed, unsure, faults>>

\* The tab is loaded again, or the terminal is deployed again.
NewSession ==
  /\ session < MaxSessions
  /\ ~ Placing
  /\ session' = session + 1
  /\ plan' = None
  /\ review' = None /\ entryUncertain' = None /\ entryOrder' = 0
  /\ stopReview' = None /\ stopUncertain' = FALSE /\ stopOrder' = 0
  /\ watch' = BrowserLog
  /\ pc' = "idle" /\ placed' = 0 /\ blind' = {}
  /\ UNCHANGED <<orders, storage, checked, faults>>

Init ==
  /\ orders = <<>>
  /\ session = 1
  /\ plan = None
  /\ review = None /\ entryUncertain = None /\ entryOrder = 0
  /\ stopReview = None /\ stopUncertain = FALSE /\ stopOrder = 0
  /\ watch = NoLog /\ storage = NoLog
  /\ pc = "idle" /\ placed = 0 /\ blind = {} /\ checked = {}
  /\ faults = 0

Next ==
  \/ Render \/ Age \/ \E p \in Plans \cup {None} : Edit(p)
  \/ ReviewEntry \/ SendEntry \/ ReviewStop \/ SendStop
  \/ RefreshStatus \/ ResetStop \/ _clear_risk_order_workflow \/ Cleared
  \/ place_order \/ PlaceFails \/ Interrupt
  \/ RecordEntry \/ _arm_stop_watch \/ RecordStop \/ _mark_stop_watch_sent
  \/ \E o \in Ids : Poll(o) \/ Fill(o) \/ EndOrder(o)
  \/ NewSession

Spec == Init /\ [][Next]_vars

Run == place_order \/ RecordEntry \/ _arm_stop_watch \/ RecordStop \/ _mark_stop_watch_sent \/ Cleared

\* A run ends (a call of the broker has a timeout), and the watcher runs every
\* five seconds for as long as the terminal is open.
FairSpec == Spec /\ WF_vars(Run) /\ \A o \in Ids : WF_vars(Poll(o))

-----------------------------------------------------------------------------
(* Properties                                                              *)

\* Every variable has its type, and the ids the session keeps are those of a BUY
\* and of a stop: the two halves of the workflow never take each other's order.
TypeOK ==
  /\ orders \in Seq(Orders) /\ Len(orders) <= MaxOrders
  /\ session \in 1 .. MaxSessions
  /\ plan \in Plans \cup {None}
  /\ review \in Reviews \cup {None} /\ stopReview \in Reviews \cup {None}
  /\ entryUncertain \in Plans \cup {None} /\ stopUncertain \in BOOLEAN
  /\ entryOrder \in {0} \cup DOMAIN orders /\ stopOrder \in {0} \cup DOMAIN orders
  /\ entryOrder # 0 => orders[entryOrder].protects = 0
  /\ stopOrder # 0 => orders[stopOrder].protects # 0
  /\ watch \in [Ids -> Statuses] /\ storage \in [Ids -> Statuses]
  /\ pc \in {"idle", "placeEntry", "entryPlaced", "entryRecorded", "placeStop", "stopPlaced",
             "stopRecorded", "clear"}
  /\ placed \in {0} \cup DOMAIN orders
  /\ blind \subseteq DOMAIN orders /\ checked \subseteq DOMAIN orders
  /\ faults \in 0 .. MaxFaults

\* "blocks automatic retries until the user explicitly confirms they checked
\* E*TRADE Orders": in one session no order is sent while one may be at the
\* broker that nobody on this side knows of.
NoBlindRetry == [][Len(orders') > Len(orders) => blind = {}]_vars

HasStop(o) == \E s \in DOMAIN orders : orders[s].protects = o

\* A stop sells what its entry has bought, all of it, as it was planned.
StopsAreCovered ==
  \A s \in DOMAIN orders : orders[s].protects # 0 =>
    /\ orders[orders[s].protects].filled = Shares
    /\ orders[s].plan = orders[orders[s].protects].plan

Tracked(o) == entryOrder = o \/ watch[o] \in Recoverable

\* A position is not forgotten before it has its stop, in one session, unless
\* the user clears a page that shows a stop order.
NeverForgotten ==
  [][\A o \in DOMAIN orders :
       Tracked(o) /\ session' = session /\ stopOrder = 0
         => Tracked(o)' \/ orders[o].filled = 0 \/ HasStop(o)]_vars

\* "preventing accidental duplicate buys/stops": one stop for an entry, unless the user says that the order book was checked.
OneStop == \A r, s \in DOMAIN orders :
  orders[r].protects = orders[s].protects /\ orders[r].protects # 0 /\ r < s => r \in checked

\* A complete fill is noticed while the terminal stays open, once the broker no
\* longer lists the fills one by one: until then the row is a partial fill.
FillIsNoticed ==
  \A o \in Ids :
    (/\ o \in DOMAIN orders /\ watch[o] \in Active
     /\ orders[o].filled = Shares /\ orders[o].status # "INDIVIDUAL_FILLS")
      ~> watch[o] \notin Active

\* "It tracks ... entry terminal states": an entry that has ended is reported.
EndIsNoticed ==
  \A o \in Ids :
    (o \in DOMAIN orders /\ watch[o] \in Active /\ orders[o].status \notin Live) ~> watch[o] \notin Active

\* "Armed/ready entries can be restored after refresh/redeploy": a row of the
\* watch log is in the session or in the browser, from when it is armed on.
LogIsPersistent ==
  [][\A o \in Ids : watch[o] # "none" => watch'[o] # "none" \/ storage'[o] # "none"]_vars
=============================================================================
