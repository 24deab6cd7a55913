----------------------------- MODULE OrderReview -----------------------------
(***************************************************************************)
(* Live option orders from a review: the spread tickets of Vertical        *)
(* Options and Verti Phone (_render_selected_order: one spread, an order   *)
(* per selected account) and the protective put basket                     *)
(* (_render_order_review: one account, an order per selected contract).    *)
(*                                                                         *)
(* A page is drawn by runs of the script.  A run that a click on REVIEW    *)
(* starts previews every line of the selection at the broker and stores    *)
(* the review if all pass; a run that a click on the SEND button starts    *)
(* places the lines of the stored review one by one.  A run ends where it  *)
(* next touches st.session_state if the user has clicked again: between    *)
(* two lines that is touch_session.                                        *)
(*                                                                         *)
(* A line is an account (spread) or a contract (basket).  Terms stand for  *)
(* the rest of the fingerprint: symbol, strikes, quantity, limit, ...      *)
(***************************************************************************)
EXTENDS Naturals, FiniteSets

CONSTANTS
  Pages,       \* pages of one browser session
  Baskets,     \* those that place a basket of puts; the others place spreads
  Lines,       \* accounts or contracts
  Terms,       \* what else the user can set on a ticket
  Window,      \* _PREVIEW_FRESH_SECONDS, or the 90 seconds of the basket
  None,        \* no review
  MaxReviews,  \* bound: clicks on REVIEW
  MaxClock,    \* bound: the last moment
  MaxCuts      \* bound: runs that are ended by a click

Reviews == 1 .. MaxReviews
Times == 0 .. MaxClock

ASSUME ReviewAssumption ==
  /\ Baskets \subseteq Pages
  /\ {Window, MaxReviews, MaxClock, MaxCuts} \subseteq Nat
  /\ IsFiniteSet(Lines)

VARIABLES
  clock,
  selection,  \* selection[p]: the lines and terms on the ticket of page p
  bundle,     \* bundle[p]: the review that page p holds, or None
  pc,         \* the step of the current run of the script
  page,       \* the page it draws
  review,     \* the review it makes or sends, or 0
  todo,       \* the lines it has still to preview or to place
  good,       \* lines whose preview has passed in this run
  made,       \* made[r]: the page, lines and terms of review r, or None
  count,      \* reviews made so far
  accepted,   \* accepted[r]: lines of review r that the broker has accepted
  sent,       \* sent[r][l]: requests to place line l of review r
  doubt,      \* doubt[r]: lines placed without a confirmed order id
  cuts,       \* cuts[r]: runs that were ended while they sent review r
  outdated    \* reviews of something else than their ticket when a run drew it

ticket == <<clock, selection, bundle, outdated>>
script == <<pc, page, review, todo, good>>
broker == <<made, count, accepted, sent, doubt, cuts>>
vars == <<ticket, script, broker>>

Selections == [lines : SUBSET Lines, terms : Terms]
Chosen == (SUBSET Lines) \ {{}}
Bundles == [review : Reviews, lines : Chosen, terms : Terms, at : Times]
Made == [page : Pages, lines : Chosen, terms : Terms]

ASSUME NoneAssumption == None \notin Pages /\ None \notin Bundles /\ None \notin Made

TypeOK ==
  /\ clock \in Times
  /\ selection \in [Pages -> Selections]
  /\ bundle \in [Pages -> Bundles \cup {None}]
  /\ pc \in {"idle", "review", "send"}
  /\ page \in Pages \cup {None}
  /\ review \in 0 .. MaxReviews
  /\ todo \in SUBSET Lines
  /\ good \in SUBSET Lines
  /\ made \in [Reviews -> Made \cup {None}]
  /\ count \in 0 .. MaxReviews
  /\ accepted \in [Reviews -> SUBSET Lines]
  /\ sent \in [Reviews -> [Lines -> Nat]]
  /\ doubt \in [Reviews -> SUBSET Lines]
  /\ cuts \in [Reviews -> 0 .. MaxCuts]
  /\ outdated \in SUBSET Reviews

Init ==
  /\ clock = 0
  /\ selection \in [Pages -> [lines : {{}}, terms : Terms]]
  /\ bundle = [p \in Pages |-> None]
  /\ pc = "idle" /\ page = None /\ review = 0 /\ todo = {} /\ good = {}
  /\ made = [r \in Reviews |-> None]
  /\ count = 0
  /\ accepted = [r \in Reviews |-> {}]
  /\ sent = [r \in Reviews |-> [l \in Lines |-> 0]]
  /\ doubt = [r \in Reviews |-> {}]
  /\ cuts = [r \in Reviews |-> 0]
  /\ outdated = {}

-----------------------------------------------------------------------------
(* Helpers                                                                 *)

\* The fingerprint of a review is that of the ticket.
MatchesTerms(b, s) == b.terms = s.terms    \* mutant: the accounts are not compared
Matches(b, s) == b.lines = s.lines /\ b.terms = s.terms

_reviews_are_fresh(p) ==
  /\ bundle[p] # None
  /\ Matches(bundle[p], selection[p])
  /\ clock - bundle[p].at <= Window

\* What a run leaves of the review of page p when its ticket says s.
KeptForLater(p, s) ==    \* mutant: the review is left for a later comparison
  bundle[p]
Kept(p, s) ==
  IF /\ bundle[p] # None
     /\ Matches(bundle[p], s)
     /\ p \in Baskets => clock - bundle[p].at <= Window
  THEN bundle[p] ELSE None

\* History: a run draws the ticket s on page p.
Outdates(p, s) ==
  outdated' = outdated \cup
    {r \in Reviews : made[r] # None /\ made[r].page = p /\ ~ Matches(made[r], s)}

Drop(p) == bundle' = [bundle EXCEPT ![p] = None]
Ended == pc' = "idle" /\ page' = None /\ review' = 0 /\ todo' = {} /\ good' = {}

-----------------------------------------------------------------------------
(* The user                                                                *)

\* The user checks another row, account, quantity or price.  The run that
\* this starts drops a review of something else.
Edit(p) ==
  /\ pc = "idle"
  /\ \E s \in Selections \ {selection[p]} :
       /\ selection' = [selection EXCEPT ![p] = s]
       /\ bundle' = [bundle EXCEPT ![p] = Kept(p, s)]
       /\ Outdates(p, s)
  /\ UNCHANGED <<clock, script, broker>>

\* ... and the next click ends that run before it has looked at the review.
EditUnseen(p) ==
  /\ pc = "idle"
  /\ \E s \in Selections \ {selection[p]} : selection' = [selection EXCEPT ![p] = s]
  /\ UNCHANGED <<clock, bundle, outdated, script, broker>>

\* Time passes, also while a request is under way.
Tick ==
  /\ clock < MaxClock
  /\ clock' = clock + 1
  /\ UNCHANGED <<selection, bundle, outdated, script, broker>>

\* A click ends the run where it next touches st.session_state.
Cut ==
  /\ pc # "idle"
  /\ cuts[review] < MaxCuts
  /\ cuts' = [cuts EXCEPT ![review] = @ + 1]
  /\ Ended
  /\ UNCHANGED <<ticket, made, count, accepted, sent, doubt>>

-----------------------------------------------------------------------------
(* Review                                                                  *)

\* The button is only there, or enabled, for a selection.
CanReview(p) == selection[p].lines # {}

\* REVIEW: a run that previews the ticket as it is.  A review of the same that
\* the page holds is kept meanwhile.
ClickReview(p) ==
  /\ pc = "idle"
  /\ CanReview(p)
  /\ count < MaxReviews
  /\ pc' = "review" /\ page' = p /\ todo' = selection[p].lines /\ good' = {}
  /\ count' = count + 1
  /\ review' = count + 1
  /\ made' = [made EXCEPT ![count + 1] =
                [page |-> p, lines |-> selection[p].lines, terms |-> selection[p].terms]]
  /\ bundle' = [bundle EXCEPT ![p] = Kept(p, selection[p])]
  /\ Outdates(p, selection[p])
  /\ UNCHANGED <<clock, selection, accepted, sent, doubt, cuts>>

\* A spread is quoted again before its previews: if that fails, or the price
\* is no longer what was checked, the review is blocked.
RequoteBlocked ==
  /\ pc = "review" /\ page \notin Baskets
  /\ todo = made[review].lines
  /\ good = {}
  /\ Drop(page) /\ Ended
  /\ UNCHANGED <<clock, selection, outdated, broker>>

PreviewAccepted ==
  /\ pc = "review"
  /\ \E l \in todo :
       /\ todo' = todo \ {l}
       /\ good' = good \cup {l}
       /\ accepted' = [accepted EXCEPT ![review] = @ \cup {l}]
  /\ UNCHANGED <<ticket, pc, page, review, made, count, sent, doubt, cuts>>

\* A spread asks the other accounts all the same, a basket gives up.
PreviewRejected ==
  /\ pc = "review"
  /\ \E l \in todo :
       \/ /\ page \in Baskets
          /\ Drop(page) /\ Ended
          /\ UNCHANGED <<clock, selection, outdated>>
       \/ /\ page \notin Baskets
          /\ todo' = todo \ {l}
          /\ UNCHANGED <<ticket, pc, page, review, good>>
  /\ UNCHANGED broker

AnyPassed == good # {}    \* mutant: one account that passes is enough
AllPassed == good = made[review].lines

\* The review is stored if every line has passed, and dropped otherwise.
ReviewDone ==
  /\ pc = "review" /\ todo = {}
  /\ bundle' = [bundle EXCEPT ![page] =
                  IF AllPassed
                  THEN [review |-> review, lines |-> made[review].lines,
                        terms |-> made[review].terms, at |-> clock]
                  ELSE None]
  /\ Ended
  /\ UNCHANGED <<clock, selection, outdated, broker>>

-----------------------------------------------------------------------------
(* Placement                                                               *)

\* What SEND leaves of the review it is about to place: the basket consumes
\* it before its first request.
HeldByBoth(p) == bundle[p]    \* mutant: the basket consumes it at the end, too
HeldWhileSending(p) == IF p \in Baskets THEN None ELSE bundle[p]

ClickSend(p) ==
  /\ pc = "idle"
  /\ _reviews_are_fresh(p)
  /\ pc' = "send" /\ page' = p /\ review' = bundle[p].review
  /\ todo' = bundle[p].lines /\ good' = {}
  /\ bundle' = [bundle EXCEPT ![p] = HeldWhileSending(p)]
  /\ UNCHANGED <<clock, selection, outdated, broker>>

\* A run that finds the review too old drops it and sends nothing.
Expire(p) ==
  /\ pc = "idle"
  /\ bundle[p] # None /\ ~ _reviews_are_fresh(p)
  /\ Drop(p)
  /\ UNCHANGED <<clock, selection, outdated, script, broker>>

\* place_order is answered with an order id.
Place ==
  /\ pc = "send"
  /\ \E l \in todo :
       /\ sent' = [sent EXCEPT ![review][l] = @ + 1]
       /\ todo' = todo \ {l}
  /\ UNCHANGED <<ticket, pc, page, review, good, made, count, accepted, doubt, cuts>>

\* What is left to place after a line that may or may not be an order.
AfterDoubtAll(l) == todo \ {l}    \* mutant: the basket goes on, as a spread does
AfterDoubt(l) == IF page \in Baskets THEN {} ELSE todo \ {l}

\* place_order fails, or is answered without an order id.
PlaceUncertain ==
  /\ pc = "send"
  /\ \E l \in todo :
       /\ sent' = [sent EXCEPT ![review][l] = @ + 1]
       /\ doubt' = [doubt EXCEPT ![review] = @ \cup {l}]
       /\ todo' = AfterDoubt(l)
  /\ UNCHANGED <<ticket, pc, page, review, good, made, count, accepted, cuts>>

\* A spread drops its review once every account has been tried; that of a
\* basket is gone already.
ConsumedLater == bundle    \* mutant: the review stays until it is too old
Consumed == [bundle EXCEPT ![page] = None]
Consume ==
  /\ pc = "send" /\ todo = {}
  /\ bundle' = Consumed
  /\ Ended
  /\ UNCHANGED <<clock, selection, outdated, broker>>

-----------------------------------------------------------------------------
Next ==
  \/ \E p \in Pages : Edit(p) \/ EditUnseen(p) \/ ClickReview(p) \/ ClickSend(p) \/ Expire(p)
  \/ Tick \/ Cut
  \/ RequoteBlocked \/ PreviewAccepted \/ PreviewRejected \/ ReviewDone
  \/ Place \/ PlaceUncertain \/ Consume

Spec == Init /\ [][Next]_vars

-----------------------------------------------------------------------------
(* Properties                                                              *)

InBasket(r) == made[r] # None /\ made[r].page \in Baskets

\* No line of a reviewed basket is placed twice, whatever runs are ended and
\* however often the user clicks ("Consume preview atomically before the first
\* network request").
BasketOnce == \A r \in Reviews, l \in Lines : InBasket(r) => sent[r][l] <= 1

\* Once a line of a basket is in doubt nothing more of that basket is placed,
\* by this run or a later one ("Never blindly retry or continue a partially
\* failed basket").
BasketStopsAtDoubt ==
  [][\A r \in Reviews : InBasket(r) /\ doubt[r] # {} => sent'[r] = sent[r]]_vars

\* An order is only placed if the broker has accepted every line of its review,
\* and its line is one of them ("Every account must preview successfully before
\* the live SEND control is enabled", ARCHITECTURE.md).
OnlyWholeReviews ==
  \A r \in Reviews, l \in Lines :
    sent[r][l] > 0 => made[r] # None /\ l \in made[r].lines /\ accepted[r] = made[r].lines

\* What is placed is what the ticket says, and no run has drawn another ticket
\* since it was reviewed, not even one that was then changed back ("any
\* input/account change invalidates the prior preview").
OnlyTheCurrentTicket ==
  [][\A r \in Reviews : sent'[r] # sent[r] =>
       /\ Matches(made[r], selection[made[r].page])
       /\ r \notin outdated]_vars

\* A spread is placed a second time in an account only if a run that was
\* placing it has been ended: a run that comes to its end consumes the review.
AgainOnlyIfCut ==
  \A r \in Reviews, l \in Lines : sent[r][l] <= 1 + cuts[r]

\* The same reviewed spread is placed once in each selected account (the help
\* text of the account chooser, vertical_options_ui.py:2828).
OncePerAccount == \A r \in Reviews, l \in Lines : sent[r][l] <= 1
=============================================================================
