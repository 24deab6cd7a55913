-------------------------- MODULE OrderReview_proof --------------------------
(***************************************************************************)
(* Proofs about OrderReview for any pages, accounts, contracts and terms,  *)
(* any freshness window and any number of reviews and cut runs.            *)
(***************************************************************************)
EXTENDS OrderReview, Integers, TLAPS

\* Review r was made for page p, with a selection of lines.
MadeFor(r, p) == made[r] # None /\ made[r].page = p

\* Nothing is known of a review that has not been made.
Numbered ==
  \A r \in Reviews :
    IF r <= count THEN made[r] # None
    ELSE /\ made[r] = None /\ accepted[r] = {} /\ doubt[r] = {}
         /\ \A l \in Lines : sent[r][l] = 0

\* A page holds a review of its own that the broker has accepted whole.  That
\* of a basket has never been sent, that of a spread only by runs that were
\* ended, and perhaps by the current one.
Holds(p) ==
  LET b == bundle[p]
      r == bundle[p].review
  IN  /\ r <= count
      /\ made[r] = [page |-> p, lines |-> b.lines, terms |-> b.terms]
      /\ accepted[r] = b.lines
      /\ p \in Baskets => doubt[r] = {} /\ \A l \in Lines : sent[r][l] = 0
      /\ p \notin Baskets /\ ~ (pc = "send" /\ page = p) =>
           \A l \in Lines : sent[r][l] <= cuts[r]

Stored == \A p \in Pages : bundle[p] # None => Holds(p)

\* What a run that previews knows.
Reviewing ==
  pc = "review" =>
    /\ accepted[review] = good /\ good \subseteq made[review].lines
    /\ doubt[review] = {} /\ \A l \in Lines : sent[review][l] = 0
    /\ \A p \in Pages : bundle[p] # None => bundle[p].review # review

\* What a run that places has done of its review, and has still to do.
Sending ==
  pc = "send" =>
    /\ accepted[review] = made[review].lines
    /\ page \in Baskets =>
         /\ bundle[page] = None
         /\ \A l \in todo : sent[review][l] = 0
         /\ todo # {} => doubt[review] = {}
    /\ page \notin Baskets =>
         /\ bundle[page] # None => bundle[page].review = review
         /\ \A l \in todo : sent[review][l] <= cuts[review]

Running ==
  pc # "idle" =>
    /\ page \in Pages /\ review \in Reviews /\ review <= count
    /\ MadeFor(review, page)
    /\ todo \subseteq made[review].lines

Inv ==
  /\ TypeOK
  /\ Numbered /\ Stored /\ Running /\ Reviewing /\ Sending
  /\ BasketOnce /\ OnlyWholeReviews /\ AgainOnlyIfCut

-----------------------------------------------------------------------------
(* Every step keeps the invariant                                          *)

LEMMA InitInv == Init => Inv
<1> SUFFICES ASSUME Init PROVE Inv
  OBVIOUS
<1>1. TypeOK
  BY ReviewAssumption DEF Init, TypeOK, Selections, Times
<1>2. Numbered /\ Stored /\ Running /\ Reviewing /\ Sending
  BY DEF Init, Numbered, Stored, Running, Reviewing, Sending, Reviews
<1>3. BasketOnce /\ OnlyWholeReviews /\ AgainOnlyIfCut
  BY <1>1 DEF Init, BasketOnce, OnlyWholeReviews, AgainOnlyIfCut, TypeOK
<1> QED BY <1>1, <1>2, <1>3 DEF Inv

\* The types of what a made review and a stored one consist of.
LEMMA MadeType ==
  ASSUME TypeOK, NEW r \in Reviews, made[r] # None
  PROVE  /\ made[r].page \in Pages /\ made[r].lines \in Chosen /\ made[r].terms \in Terms
         /\ made[r].lines \subseteq Lines
BY DEF TypeOK, Made, Chosen

LEMMA BundleType ==
  ASSUME TypeOK, NEW p \in Pages, bundle[p] # None
  PROVE  /\ bundle[p] \in Bundles
         /\ bundle[p].review \in Reviews /\ bundle[p].lines \in Chosen
         /\ bundle[p].lines \subseteq Lines /\ bundle[p].terms \in Terms
BY DEF TypeOK, Bundles, Chosen

\* Steps that at most drop stored reviews, between runs or by a run that places.
LEMMA DropInv ==
  ASSUME Inv, TypeOK', UNCHANGED <<script, broker>>,
         \A p \in Pages : bundle'[p] \in {bundle[p], None}
  PROVE  Inv'
<1> USE DEF Inv, script, broker
<1>1. Numbered' /\ Running' /\ BasketOnce' /\ OnlyWholeReviews' /\ AgainOnlyIfCut'
  BY DEF Numbered, Running, MadeFor, BasketOnce, InBasket, OnlyWholeReviews, AgainOnlyIfCut
<1>2. Stored'
  BY DEF Stored, Holds
<1>3. Reviewing'
  BY DEF Reviewing
<1>4. Sending'
  BY DEF Sending, Running
<1> QED BY <1>1, <1>2, <1>3, <1>4

\* Steps that end the current run without sending: they may drop reviews.
LEMMA EndInv ==
  ASSUME Inv, TypeOK', Ended, UNCHANGED <<made, count, accepted, sent, doubt>>,
         \A r \in Reviews : cuts'[r] \in Nat /\ cuts[r] <= cuts'[r],
         \A p \in Pages : bundle'[p] \in {bundle[p], None},
         pc = "send" => bundle'[page] = None \/ cuts'[review] = cuts[review] + 1
  PROVE  Inv'
<1> USE DEF Inv, Ended
<1>1. Numbered' /\ Running' /\ Reviewing' /\ Sending'
  BY DEF Numbered, Running, Reviewing, Sending
<1>2. BasketOnce' /\ OnlyWholeReviews'
  BY DEF BasketOnce, InBasket, OnlyWholeReviews
<1>3. AgainOnlyIfCut'
  BY DEF AgainOnlyIfCut, TypeOK
<1>4. ASSUME NEW p \in Pages, bundle'[p] # None PROVE Holds(p)'
  <2>1. bundle'[p] = bundle[p] /\ bundle[p].review \in Reviews /\ Holds(p)
    BY <1>4, BundleType DEF Stored
  <2> DEFINE r == bundle[p].review
  <2>2. ASSUME p \notin Baskets, NEW l \in Lines PROVE sent[r][l] <= cuts'[r]
    <3>1. CASE pc = "send" /\ page = p
      <4>1. r = review /\ cuts'[r] = cuts[r] + 1
        BY <1>4, <2>1, <2>2, <3>1 DEF Sending
      <4>2. sent[r][l] <= 1 + cuts[r]
        BY <2>1 DEF AgainOnlyIfCut
      <4> QED BY <2>1, <4>1, <4>2 DEF TypeOK
    <3>2. CASE ~ (pc = "send" /\ page = p)
      BY <2>1, <2>2, <3>2 DEF Holds, TypeOK
    <3> QED BY <3>1, <3>2
  <2> QED BY <2>1, <2>2 DEF Holds
<1>5. Stored' BY <1>4 DEF Stored
<1> QED BY <1>1, <1>2, <1>3, <1>5

LEMMA KeptIs == \A p \in Pages, s \in Selections : Kept(p, s) \in {bundle[p], None}
BY DEF Kept

LEMMA EditInv ==
  ASSUME Inv, NEW p \in Pages, Edit(p) \/ EditUnseen(p) \/ Expire(p)
  PROVE  Inv'
<1> USE DEF Inv
<1>1. bundle' \in [Pages -> Bundles \cup {None}]
  BY KeptIs DEF Edit, EditUnseen, Expire, Drop, TypeOK
<1>2. \A q \in Pages : bundle'[q] \in {bundle[q], None}
  BY KeptIs DEF Edit, EditUnseen, Expire, Drop, TypeOK
<1>3. selection' \in [Pages -> Selections] /\ outdated' \in SUBSET Reviews
  BY DEF Edit, EditUnseen, Expire, Outdates, TypeOK
<1>4. UNCHANGED <<clock, script, broker>>
  BY DEF Edit, EditUnseen, Expire
<1>5. TypeOK'
  BY <1>1, <1>3, <1>4 DEF TypeOK, script, broker
<1> QED BY <1>2, <1>4, <1>5, DropInv

LEMMA TickInv ==
  ASSUME Inv, Tick
  PROVE  Inv'
<1>1. TypeOK'
  BY ReviewAssumption DEF Inv, Tick, TypeOK, script, broker, Times
<1> QED BY <1>1, DropInv DEF Tick

LEMMA CutInv ==
  ASSUME Inv, Cut
  PROVE  Inv'
<1> USE DEF Inv
<1>1. review \in Reviews /\ cuts[review] + 1 \in 0 .. MaxCuts
  BY ReviewAssumption DEF Cut, Running, TypeOK
<1>2. TypeOK'
  BY <1>1, ReviewAssumption DEF Cut, Ended, ticket, TypeOK
<1>3. \A r \in Reviews : cuts'[r] \in Nat /\ cuts[r] <= cuts'[r]
  BY <1>1 DEF Cut, TypeOK
<1>4. cuts'[review] = cuts[review] + 1
  BY <1>1 DEF Cut, TypeOK
<1> QED BY <1>2, <1>3, <1>4, EndInv DEF Cut, ticket

\* Runs that end with their review dropped: blocked, rejected, or sent.
LEMMA DroppedInv ==
  ASSUME Inv, pc # "idle", Drop(page) \/ bundle' = Consumed, Ended,
         UNCHANGED <<clock, selection, outdated, broker>>
  PROVE  Inv'
<1> USE DEF Inv, broker
<1>1. /\ page \in Pages
      /\ bundle' = [bundle EXCEPT ![page] = None]
  BY DEF Running, Drop, Consumed
<1>2. TypeOK'
  BY <1>1, ReviewAssumption DEF Ended, TypeOK
<1> QED BY <1>1, <1>2, EndInv DEF TypeOK

LEMMA ClickReviewInv ==
  ASSUME Inv, NEW p \in Pages, ClickReview(p)
  PROVE  Inv'
<1> DEFINE n == count + 1
           mine == [page |-> p, lines |-> selection[p].lines, terms |-> selection[p].terms]
<1> USE DEF Inv
<1>1. /\ n \in Reviews /\ mine \in Made /\ mine # None
      /\ selection[p] \in Selections
  <2>1. selection[p] \in Selections
    BY DEF TypeOK
  <2>2. mine \in Made
    <3>1. selection[p].lines \in Chosen /\ selection[p].terms \in Terms
      BY <2>1 DEF ClickReview, CanReview, Selections, Chosen
    <3> QED BY <3>1 DEF Made
  <2>3. n \in Reviews
    BY ReviewAssumption DEF ClickReview, TypeOK, Reviews
  <2> QED BY <2>1, <2>2, <2>3, NoneAssumption
<1>2. /\ made[n] = None /\ accepted[n] = {} /\ doubt[n] = {}
      /\ \A l \in Lines : sent[n][l] = 0
  BY <1>1 DEF Numbered, TypeOK
<1>3. /\ made' = [made EXCEPT ![n] = mine] /\ count' = n /\ review' = n
      /\ pc' = "review" /\ page' = p /\ todo' = selection[p].lines /\ good' = {}
      /\ pc = "idle"
      /\ bundle' = [bundle EXCEPT ![p] = Kept(p, selection[p])]
      /\ UNCHANGED <<clock, selection, accepted, sent, doubt, cuts>>
  BY DEF ClickReview
<1>4. \A q \in Pages : bundle'[q] \in {bundle[q], None}
  BY <1>1, <1>3, KeptIs DEF TypeOK
<1>5. TypeOK'
  <2>1. bundle' \in [Pages -> Bundles \cup {None}]
    BY <1>1, <1>3, KeptIs DEF TypeOK
  <2>2. outdated' \in SUBSET Reviews
    BY DEF ClickReview, Outdates, TypeOK
  <2> QED BY <1>1, <1>3, <2>1, <2>2 DEF TypeOK, Selections, Reviews
<1>6. \A r \in Reviews : r <= count => r # n /\ made'[r] = made[r]
  BY <1>1, <1>3 DEF TypeOK, Reviews
<1>7. Numbered'
  BY <1>1, <1>2, <1>3, <1>6 DEF Numbered, TypeOK, Reviews
<1>8. Stored'
  <2>1. ASSUME NEW q \in Pages, bundle'[q] # None PROVE Holds(q)'
    <3>1. bundle'[q] = bundle[q] /\ bundle[q].review \in Reviews /\ Holds(q)
      BY <2>1, <1>4, BundleType DEF Stored
    <3> QED BY <3>1, <1>3, <1>6 DEF Holds, TypeOK, Reviews
  <2> QED BY <2>1 DEF Stored
<1>9. Running'
  BY <1>1, <1>3 DEF Running, MadeFor, TypeOK, Reviews
<1>10. Reviewing' /\ Sending'
  <2>1. ASSUME NEW q \in Pages, bundle'[q] # None PROVE bundle'[q].review # n
    <3>1. bundle'[q] = bundle[q] /\ bundle[q].review \in Reviews /\ Holds(q)
      BY <2>1, <1>4, BundleType DEF Stored
    <3> QED BY <3>1, <1>6 DEF Holds
  <2>2. /\ accepted'[n] = good' /\ doubt'[n] = {} /\ \A l \in Lines : sent'[n][l] = 0
    BY <1>2, <1>3
  <2> QED BY <1>3, <2>1, <2>2 DEF Reviewing, Sending
<1>11. BasketOnce' /\ OnlyWholeReviews' /\ AgainOnlyIfCut'
  BY <1>2, <1>3, <1>1 DEF BasketOnce, InBasket, OnlyWholeReviews, AgainOnlyIfCut, TypeOK
<1> QED BY <1>5, <1>7, <1>8, <1>9, <1>10, <1>11

LEMMA PreviewInv ==
  ASSUME Inv, PreviewAccepted
  PROVE  Inv'
<1> USE DEF Inv
<1>1. PICK l \in todo :
        /\ todo' = todo \ {l}
        /\ good' = good \cup {l}
        /\ accepted' = [accepted EXCEPT ![review] = @ \cup {l}]
  BY DEF PreviewAccepted
<1>2. /\ pc = "review"
      /\ UNCHANGED <<ticket, pc, page, review, made, count, sent, doubt, cuts>>
  BY DEF PreviewAccepted
<1>3. /\ review \in Reviews /\ review <= count /\ l \in made[review].lines /\ l \in Lines
      /\ accepted[review] = good
      /\ \A k \in Lines : sent[review][k] = 0
      /\ \A p \in Pages : bundle[p] # None => bundle[p].review # review
  BY <1>2, <1>1 DEF Running, Reviewing, TypeOK
<1>4. TypeOK'
  BY <1>1, <1>2, <1>3 DEF TypeOK, ticket
<1>5. \A r \in Reviews : r # review => accepted'[r] = accepted[r]
  BY <1>1 DEF TypeOK
<1>6. Numbered'
  BY <1>2, <1>3, <1>5 DEF Numbered, ticket
<1>7. Stored'
  BY <1>2, <1>3, <1>5, BundleType DEF Stored, Holds, ticket
<1>8. Running' /\ Sending'
  BY <1>1, <1>2 DEF Running, MadeFor, Sending, ticket
<1>9. Reviewing'
  BY <1>1, <1>2, <1>3 DEF Reviewing, ticket, TypeOK
<1>10. BasketOnce' /\ AgainOnlyIfCut'
  BY <1>2 DEF BasketOnce, InBasket, AgainOnlyIfCut, ticket
<1>11. OnlyWholeReviews'
  BY <1>2, <1>3, <1>5 DEF OnlyWholeReviews, ticket
<1> QED BY <1>4, <1>6, <1>7, <1>8, <1>9, <1>10, <1>11

\* An account that rejects a preview: the run goes on with the others.
LEMMA RejectedInv ==
  ASSUME Inv, PreviewRejected
  PROVE  Inv'
<1> USE DEF Inv
<1>1. CASE Drop(page) /\ Ended /\ UNCHANGED <<clock, selection, outdated>>
  BY <1>1, DroppedInv DEF PreviewRejected
<1>2. CASE /\ \E l \in todo : todo' = todo \ {l}
           /\ UNCHANGED <<ticket, pc, page, review, good>>
  <2>1. UNCHANGED <<clock, selection, bundle, outdated, pc, page, review, good, broker>>
        /\ todo' \subseteq todo
    BY <1>2 DEF PreviewRejected, ticket
  <2>2. TypeOK' BY <2>1 DEF TypeOK, broker
  <2>3. Numbered' /\ BasketOnce' /\ OnlyWholeReviews' /\ AgainOnlyIfCut'
    BY <2>1 DEF Numbered, BasketOnce, InBasket, OnlyWholeReviews, AgainOnlyIfCut, broker
  <2>4. Stored' BY <2>1 DEF Stored, Holds, broker
  <2>5. Running' /\ Reviewing' /\ Sending'
    BY <2>1 DEF Running, MadeFor, Reviewing, Sending, PreviewRejected, broker
  <2> QED BY <2>2, <2>3, <2>4, <2>5
<1> QED BY <1>1, <1>2 DEF PreviewRejected

\* The run ends with a review that is either stored whole or dropped.
LEMMA ReviewDoneInv ==
  ASSUME Inv, ReviewDone
  PROVE  Inv'
<1> USE DEF Inv
<1> DEFINE b == [review |-> review, lines |-> made[review].lines,
                 terms |-> made[review].terms, at |-> clock]
<1>1. /\ page \in Pages /\ review \in Reviews /\ review <= count
      /\ MadeFor(review, page)
      /\ doubt[review] = {} /\ \A l \in Lines : sent[review][l] = 0
      /\ accepted[review] = good
  BY DEF ReviewDone, Running, Reviewing
<1>2. Ended /\ UNCHANGED <<clock, selection, outdated, broker>>
  BY DEF ReviewDone
<1>3. CASE ~ AllPassed
  BY <1>3, DroppedInv DEF ReviewDone, Drop
<1>4. CASE AllPassed
  <2>1. bundle' = [bundle EXCEPT ![page] = b]
    BY <1>4 DEF ReviewDone
  <2>2. /\ b \in Bundles
        /\ made[review] = [page |-> page, lines |-> b.lines, terms |-> b.terms]
    BY <1>1, MadeType DEF MadeFor, TypeOK, Bundles, Made
  <2>3. accepted[review] = b.lines
    BY <1>1, <1>4 DEF AllPassed
  <2>4. TypeOK'
    BY <1>1, <1>2, <2>1, <2>2, ReviewAssumption DEF Ended, broker, TypeOK
  <2>5. Numbered' /\ BasketOnce' /\ OnlyWholeReviews' /\ AgainOnlyIfCut'
    BY <1>2 DEF Numbered, BasketOnce, InBasket, OnlyWholeReviews, AgainOnlyIfCut, broker
  <2>6. Running' /\ Reviewing' /\ Sending'
    BY <1>2 DEF Ended, Running, Reviewing, Sending
  <2>7. ASSUME NEW p \in Pages, bundle'[p] # None PROVE Holds(p)'
    <3>1. CASE p = page
      <4>1. bundle'[p] = b
        BY <1>1, <2>1, <3>1 DEF TypeOK
      <4>2. \A l \in Lines : sent[review][l] <= cuts[review]
        BY <1>1 DEF TypeOK
      <4> QED BY <1>1, <1>2, <2>2, <2>3, <3>1, <4>1, <4>2 DEF Holds, broker
    <3>2. CASE p # page
      <4>1. bundle'[p] = bundle[p] /\ Holds(p)
        BY <2>1, <2>7, <3>2 DEF Stored, TypeOK
      <4> QED BY <1>2, <4>1, <3>2 DEF Holds, Ended, broker
    <3> QED BY <3>1, <3>2
  <2>8. Stored' BY <2>7 DEF Stored
  <2> QED BY <2>4, <2>5, <2>6, <2>8
<1> QED BY <1>3, <1>4

LEMMA ClickSendInv ==
  ASSUME Inv, NEW p \in Pages, ClickSend(p)
  PROVE  Inv'
<1> USE DEF Inv
<1> DEFINE r == bundle[p].review
<1>1. /\ bundle[p] # None /\ Holds(p)
      /\ r \in Reviews /\ bundle[p].lines \subseteq Lines
  BY BundleType DEF ClickSend, _reviews_are_fresh, Stored
<1>2. /\ pc = "idle" /\ pc' = "send" /\ page' = p /\ review' = r
      /\ todo' = bundle[p].lines /\ good' = {}
      /\ bundle' = [bundle EXCEPT ![p] = HeldWhileSending(p)]
      /\ UNCHANGED <<clock, selection, outdated, broker>>
  BY DEF ClickSend
<1>3. \A q \in Pages : bundle'[q] \in {bundle[q], None}
  BY <1>2 DEF HeldWhileSending, TypeOK
<1>4. TypeOK'
  <2>1. bundle' \in [Pages -> Bundles \cup {None}]
    BY <1>2 DEF HeldWhileSending, TypeOK
  <2> QED BY <1>1, <1>2, <2>1 DEF TypeOK, Reviews, broker
<1>5. Numbered' /\ BasketOnce' /\ OnlyWholeReviews' /\ AgainOnlyIfCut'
  BY <1>2 DEF Numbered, BasketOnce, InBasket, OnlyWholeReviews, AgainOnlyIfCut, broker
<1>6. Stored'
  BY <1>2, <1>3 DEF Stored, Holds, broker
<1>7. Running' /\ Reviewing'
  BY <1>1, <1>2, NoneAssumption, MadeType DEF Running, MadeFor, Reviewing, Holds, Numbered, broker
<1>8. Sending'
  <2>1. accepted[r] = made[r].lines
    BY <1>1 DEF Holds
  <2>2. ASSUME p \in Baskets
        PROVE  bundle'[p] = None /\ doubt[r] = {} /\ \A l \in Lines : sent[r][l] = 0
    BY <1>1, <1>2, <2>2 DEF Holds, HeldWhileSending, TypeOK
  <2>3. ASSUME p \notin Baskets
        PROVE  bundle'[p] = bundle[p] /\ \A l \in Lines : sent[r][l] <= cuts[r]
    BY <1>1, <1>2, <2>3 DEF Holds, HeldWhileSending, TypeOK
  <2> QED BY <1>1, <1>2, <2>1, <2>2, <2>3 DEF Sending, broker
<1> QED BY <1>4, <1>5, <1>6, <1>7, <1>8

\* A request to place a line of the review, with or without an answer.
LEMMA PlacedInv ==
  ASSUME Inv, pc = "send", NEW l \in todo,
         sent' = [sent EXCEPT ![review][l] = @ + 1],
         \/ todo' = todo \ {l} /\ UNCHANGED doubt
         \/ todo' = AfterDoubt(l) /\ doubt' = [doubt EXCEPT ![review] = @ \cup {l}],
         UNCHANGED <<ticket, pc, page, review, good, made, count, accepted, cuts>>
  PROVE  Inv'
<1> USE DEF Inv
<1>1. /\ page \in Pages /\ review \in Reviews /\ review <= count
      /\ MadeFor(review, page) /\ todo \subseteq made[review].lines
      /\ l \in made[review].lines /\ l \in Lines
      /\ accepted[review] = made[review].lines
  BY DEF Running, Sending, TypeOK
<1>2. /\ \A r \in Reviews, k \in Lines : r # review \/ k # l => sent'[r][k] = sent[r][k]
      /\ sent'[review][l] = sent[review][l] + 1
      /\ \A r \in Reviews : r # review => doubt'[r] = doubt[r]
  BY <1>1 DEF TypeOK
<1>3. /\ todo' \subseteq todo \ {l}
      /\ page \in Baskets /\ todo' # {} => UNCHANGED doubt
  BY DEF AfterDoubt
<1>4. TypeOK'
  <2>1. sent' \in [Reviews -> [Lines -> Nat]]
    BY <1>1 DEF TypeOK
  <2>2. doubt' \in [Reviews -> SUBSET Lines]
    BY <1>1 DEF TypeOK
  <2> QED BY <1>3, <2>1, <2>2 DEF TypeOK, ticket
<1>5. Numbered'
  BY <1>1, <1>2 DEF Numbered, TypeOK
<1>6. Running' /\ Reviewing'
  BY <1>1, <1>3 DEF Running, MadeFor, Reviewing
<1>7. Stored'
  <2>1. ASSUME NEW p \in Pages, bundle'[p] # None PROVE Holds(p)'
    <3>1. bundle'[p] = bundle[p] /\ Holds(p) /\ bundle[p].review \in Reviews
      BY <2>1, BundleType DEF Stored, ticket
    <3>2. CASE bundle[p].review = review
      <4>1. p = page /\ page \notin Baskets
        BY <1>1, <2>1, <3>1, <3>2 DEF Holds, MadeFor, Sending
      <4> QED BY <3>1, <4>1 DEF Holds
    <3>3. CASE bundle[p].review # review
      BY <1>2, <3>1, <3>3 DEF Holds
    <3> QED BY <3>2, <3>3
  <2> QED BY <2>1 DEF Stored
<1>8. Sending'
  BY <1>1, <1>2, <1>3 DEF Sending, ticket, TypeOK
<1>9. BasketOnce'
  <2>1. page \in Baskets => sent'[review][l] <= 1
    BY <1>1, <1>2 DEF Sending
  <2> QED BY <1>1, <1>2, <2>1 DEF BasketOnce, InBasket, MadeFor
<1>10. OnlyWholeReviews'
  BY <1>1, <1>2 DEF OnlyWholeReviews, MadeFor
<1>11. AgainOnlyIfCut'
  <2>1. sent[review][l] <= cuts[review]
    BY <1>1 DEF Sending, TypeOK
  <2>2. sent'[review][l] <= 1 + cuts'[review]
    BY <1>1, <1>2, <2>1 DEF TypeOK
  <2>3. ASSUME NEW r \in Reviews, NEW k \in Lines, r # review \/ k # l
        PROVE  sent'[r][k] <= 1 + cuts'[r]
    BY <1>2, <2>3 DEF AgainOnlyIfCut
  <2> QED BY <2>2, <2>3 DEF AgainOnlyIfCut
<1> QED BY <1>4, <1>5, <1>6, <1>7, <1>8, <1>9, <1>10, <1>11

LEMMA StepInv ==
  ASSUME Inv, [Next]_vars
  PROVE  Inv'
<1>1. ASSUME NEW p \in Pages,
             Edit(p) \/ EditUnseen(p) \/ ClickReview(p) \/ ClickSend(p) \/ Expire(p)
      PROVE  Inv'
  BY <1>1, EditInv, ClickReviewInv, ClickSendInv
<1>2. CASE RequoteBlocked
  BY <1>2, DroppedInv DEF RequoteBlocked
<1>3. CASE Place
  BY <1>3, PlacedInv DEF Place
<1>4. CASE PlaceUncertain
  BY <1>4, PlacedInv DEF PlaceUncertain
<1>5. CASE Consume
  BY <1>5, DroppedInv DEF Consume
<1>6. CASE UNCHANGED vars
  <2>1. TypeOK'
    BY <1>6 DEF Inv, vars, ticket, script, broker, TypeOK
  <2> QED BY <1>6, <2>1, DropInv DEF vars, ticket
<1> QED
  BY <1>1, <1>2, <1>3, <1>4, <1>5, <1>6, TickInv, CutInv, PreviewInv, RejectedInv, ReviewDoneInv
  DEF Next

LEMMA Invariant == Spec => []Inv
<1>1. Inv /\ [Next]_vars => Inv'
  BY StepInv
<1> QED BY InitInv, <1>1, PTL DEF Spec

-----------------------------------------------------------------------------
(* The theorems                                                            *)

\* A page holds a review only of a selection that is not empty, and a run only
\* works on lines of the ticket.
THEOREM TypeCorrect == Spec => []TypeOK
<1>1. Inv => TypeOK
  BY DEF Inv
<1> QED BY Invariant, <1>1, PTL

\* Because the basket is consumed before its first request, no line of it is
\* ever placed twice.
THEOREM NoSecondBasket == Spec => []BasketOnce
<1>1. Inv => BasketOnce
  BY DEF Inv
<1> QED BY Invariant, <1>1, PTL

\* Nothing is placed that the broker has not accepted with the whole review.
THEOREM AcceptedWhole == Spec => []OnlyWholeReviews
<1>1. Inv => OnlyWholeReviews
  BY DEF Inv
<1> QED BY Invariant, <1>1, PTL

\* A reviewed spread is placed again in an account only after a run that was
\* placing it has been ended.
THEOREM AgainAfterCut == Spec => []AgainOnlyIfCut
<1>1. Inv => AgainOnlyIfCut
  BY DEF Inv
<1> QED BY Invariant, <1>1, PTL

\* Nothing more of a basket is placed once one of its lines is in doubt.
THEOREM StopsAtDoubt == Spec => BasketStopsAtDoubt
<1>1. ASSUME Inv, [Next]_vars, NEW r \in Reviews, InBasket(r), doubt[r] # {}
      PROVE  sent'[r] = sent[r]
  <2>1. CASE Place \/ PlaceUncertain
    <3>1. PICK l \in todo : sent' = [sent EXCEPT ![review][l] = @ + 1]
      BY <2>1 DEF Place, PlaceUncertain
    <3>2. pc = "send" /\ page \in Pages /\ MadeFor(review, page) /\ todo # {}
      BY <1>1, <2>1 DEF Place, PlaceUncertain, Inv, Running
    <3>3. review # r
      BY <1>1, <3>2 DEF Inv, Sending, InBasket, MadeFor
    <3> QED BY <3>1, <3>3, <1>1 DEF Inv, TypeOK
  <2>2. CASE ~ (Place \/ PlaceUncertain)
    BY <1>1, <2>2
    DEF Next, vars, broker, Edit, EditUnseen, ClickReview, ClickSend, Expire, Tick, Cut,
        RequoteBlocked, PreviewAccepted, PreviewRejected, ReviewDone, Consume
  <2> QED BY <2>1, <2>2
<1>2. Inv /\ [Next]_vars =>
        [\A r \in Reviews : InBasket(r) /\ doubt[r] # {} => sent'[r] = sent[r]]_vars
  BY <1>1
<1> QED BY Invariant, <1>2, PTL DEF Spec, BasketStopsAtDoubt

-----------------------------------------------------------------------------
(* The ticket.  A review that is stored, or at work, is not outdated: a    *)
(* run that draws another ticket drops it, and no run can be in between.   *)

Current ==
  /\ \A r \in outdated : made[r] # None
  /\ \A p \in Pages : bundle[p] # None => bundle[p].review \notin outdated
  /\ pc # "idle" => review \notin outdated
  /\ pc = "send" => Matches(made[review], selection[page])

\* A run that draws the ticket s of page p keeps what is not outdated by it.
LEMMA DrawnCurrent ==
  ASSUME Inv, Current, NEW p \in Pages, NEW s \in Selections, Outdates(p, s),
         bundle' = [bundle EXCEPT ![p] = Kept(p, s)]
  PROVE  /\ \A r \in outdated' : made[r] # None
         /\ \A q \in Pages : bundle'[q] # None => bundle'[q].review \notin outdated'
<1>1. \A r \in outdated' : made[r] # None
  BY DEF Outdates, Current
<1>2. ASSUME NEW q \in Pages, bundle'[q] # None PROVE bundle'[q].review \notin outdated'
  <2>1. /\ bundle'[q] = bundle[q] /\ bundle[q].review \notin outdated
        /\ q = p => Matches(bundle[q], s)
    BY <1>2 DEF Kept, Current, Inv, TypeOK
  <2>2. made[bundle[q].review] = [page |-> q, lines |-> bundle[q].lines, terms |-> bundle[q].terms]
    BY <1>2, <2>1 DEF Inv, Stored, Holds
  <2> QED BY <2>1, <2>2 DEF Outdates, Matches
<1> QED BY <1>1, <1>2

LEMMA StepCurrent ==
  ASSUME Inv, Current, [Next]_vars
  PROVE  Current'
\* The review at work, if any, goes on or ends, and the stored ones stay or go.
<1>a. ASSUME UNCHANGED <<outdated, selection, made>>,
             \A p \in Pages : bundle'[p] \in {bundle[p], None},
             pc' = "idle" \/ UNCHANGED <<pc, page, review>>
      PROVE  Current'
  BY <1>a DEF Current, Matches
<1>1. ASSUME NEW p \in Pages, Edit(p) PROVE Current'
  <2>1. PICK s \in Selections : Outdates(p, s) /\ bundle' = [bundle EXCEPT ![p] = Kept(p, s)]
    BY <1>1 DEF Edit
  <2>2. pc' = "idle" /\ made' = made
    BY <1>1 DEF Edit, script, broker
  <2> QED BY <2>1, <2>2, DrawnCurrent DEF Current
<1>2. ASSUME NEW p \in Pages, EditUnseen(p) PROVE Current'
  BY <1>2 DEF EditUnseen, Current, script, broker
<1>3. ASSUME NEW p \in Pages, ClickReview(p) PROVE Current'
  <2>1. /\ selection[p] \in Selections
        /\ Outdates(p, selection[p]) /\ bundle' = [bundle EXCEPT ![p] = Kept(p, selection[p])]
        /\ pc' = "review" /\ review' = count + 1 /\ count + 1 \in Reviews
    BY <1>3, ReviewAssumption DEF ClickReview, Inv, TypeOK, Reviews
  <2>2. /\ made[count + 1] = None
        /\ \A r \in Reviews : r # count + 1 => made'[r] = made[r]
    BY <1>3, <2>1 DEF ClickReview, Inv, Numbered, TypeOK
  <2>3. /\ \A r \in outdated' : made[r] # None
        /\ \A q \in Pages : bundle'[q] # None => bundle'[q].review \notin outdated'
    BY <2>1, DrawnCurrent
  <2>4. outdated' \subseteq Reviews
    BY <2>1 DEF Outdates, Inv, TypeOK
  <2> QED BY <2>1, <2>2, <2>3, <2>4 DEF Current
<1>4. ASSUME NEW p \in Pages, ClickSend(p) PROVE Current'
  <2>1. /\ bundle[p] # None /\ Matches(bundle[p], selection[p])
        /\ pc' = "send" /\ page' = p /\ review' = bundle[p].review
        /\ UNCHANGED <<outdated, selection, made>>
        /\ \A q \in Pages : bundle'[q] \in {bundle[q], None}
    BY <1>4 DEF ClickSend, _reviews_are_fresh, HeldWhileSending, broker, Inv, TypeOK
  <2>2. made[bundle[p].review] = [page |-> p, lines |-> bundle[p].lines, terms |-> bundle[p].terms]
    BY <2>1 DEF Inv, Stored, Holds
  <2> QED BY <2>1, <2>2 DEF Current, Matches
<1>5. ASSUME NEW p \in Pages, Expire(p) PROVE Current'
  BY <1>5, <1>a DEF Expire, Drop, script, broker, Inv, TypeOK
<1>6. CASE ReviewDone
  <2>1. /\ review \notin outdated /\ pc' = "idle" /\ UNCHANGED <<outdated, selection, made>>
        /\ \A p \in Pages : bundle'[p] # None =>
             bundle'[p].review = review \/ bundle'[p] = bundle[p]
    BY <1>6 DEF ReviewDone, Ended, broker, Current, Inv, TypeOK
  <2> QED BY <2>1 DEF Current
<1>7. CASE RequoteBlocked \/ PreviewRejected \/ Consume
  BY <1>7, <1>a DEF RequoteBlocked, PreviewRejected, Consume, Consumed, Drop, Ended, ticket, broker, Inv, TypeOK
<1>8. CASE Tick \/ Cut \/ PreviewAccepted \/ Place \/ PlaceUncertain \/ UNCHANGED vars
  BY <1>8, <1>a DEF Tick, Cut, PreviewAccepted, Place, PlaceUncertain, vars, Ended, ticket, script, broker
<1> QED BY <1>1, <1>2, <1>3, <1>4, <1>5, <1>6, <1>7, <1>8 DEF Next

\* What is placed is what the ticket says, and was what every run between its
\* review and its placement drew.
THEOREM TicketAsReviewed == Spec => OnlyTheCurrentTicket
<1>1. Init => Current
  BY DEF Init, Current
<1>2. Inv /\ Current /\ [Next]_vars => Current'
  BY StepCurrent
<1>3. ASSUME Inv, Current, [Next]_vars, NEW r \in Reviews, sent'[r] # sent[r]
      PROVE  Matches(made[r], selection[made[r].page]) /\ r \notin outdated
  <2>1. CASE Place \/ PlaceUncertain
    <3>1. PICK l \in todo : sent' = [sent EXCEPT ![review][l] = @ + 1]
      BY <2>1 DEF Place, PlaceUncertain
    <3>2. pc = "send" /\ MadeFor(review, page)
      BY <1>3, <2>1 DEF Place, PlaceUncertain, Inv, Running
    <3>3. r = review
      BY <1>3, <3>1 DEF Inv, TypeOK
    <3> QED BY <1>3, <3>2, <3>3 DEF Current, MadeFor
  <2>2. CASE ~ (Place \/ PlaceUncertain)
    BY <1>3, <2>2
    DEF Next, vars, broker, Edit, EditUnseen, ClickReview, ClickSend, Expire, Tick, Cut,
        RequoteBlocked, PreviewAccepted, PreviewRejected, ReviewDone, Consume
  <2> QED BY <2>1, <2>2
<1>4. Inv /\ Current /\ [Next]_vars =>
        [\A r \in Reviews : sent'[r] # sent[r] =>
           /\ Matches(made[r], selection[made[r].page])
           /\ r \notin outdated]_vars
  BY <1>3
<1> QED BY Invariant, <1>1, <1>2, <1>4, PTL DEF Spec, OnlyTheCurrentTicket
=============================================================================
