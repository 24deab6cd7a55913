---------------------------- MODULE NetworthLink ----------------------------
(***************************************************************************)
(* Linking institutions with Plaid (src/networth_ui.py).  A pending link   *)
(* is an entry of the ledger.  Every open Networth tab polls Plaid for it  *)
(* (_pending_links, every five seconds) and, once the user has finished in *)
(* Plaid's window, _complete_link claims the entry for five minutes,       *)
(* exchanges each public token for an access token, saves it, and removes  *)
(* the entry.  A public token can be exchanged once: the access token is   *)
(* kept in the memory of the browser session until its save has verified.  *)
(*                                                                         *)
(* A write of the ledger is one step (NetworthLedger): it is saved and     *)
(* verified, or it fails, with its effect at once, later or never.         *)
(***************************************************************************)
EXTENDS Naturals

CONSTANTS
  Sessions,   \* browser sessions; a reopened tab is a new session
  Links,      \* ids of pending links
  Offered,    \* Offered[l]: the institutions that the user can grant in link l
  None,       \* no entry, link or document
  MaxFaults   \* bound: writes and exchanges that fail

ASSUME LinkAssumption == MaxFaults \in Nat /\ None \notin Sessions \cup Links

VARIABLES
  ledger,       \* the pending links and the institutions of the ledger
  overdue,      \* overdue[s]: a document that s gave up writing, or None
  started,      \* links that have been started
  granted,      \* granted[l]: the institutions of the public tokens, once done
  exchanged,    \* tokens that Plaid has exchanged, and will not again
  lost,         \* access tokens that nobody has received, or kept
  removed,      \* access tokens the user has disconnected
  open,         \* sessions that are open
  stage, link,  \* stage[s], link[s]: the step of _complete_link, and its link_id
  seen,         \* seen[s]: processed_tokens of the entry, as it was claimed
  token,        \* token[s]: the token that is being saved
  recovery,     \* recovery[s]: access tokens in the memory of the session
  faults

run == <<stage, link, seen, token>>     \* one call of _complete_link
plaid == <<granted, exchanged, lost, removed>>
linkVars == <<ledger, overdue, started, plaid, open, run, recovery, faults>>

-----------------------------------------------------------------------------

Tokens == UNION {{l} \X Offered[l] : l \in Links}
Entries == [item : Tokens \cup {None}, owner : Sessions \cup {None}, held : BOOLEAN,
            processed : SUBSET Tokens]
ASSUME EntryAssumption == None \notin Entries

EntryOrNone == Entries \cup {None}
Ledgers == [pending : [Links -> EntryOrNone], items : SUBSET Tokens]
NewEntry(item) == [item |-> item, owner |-> None, held |-> FALSE, processed |-> {}]

PublicTokens(l) == {l} \X granted[l]
Mine(s, l) == ledger.pending[l] # None /\ ledger.pending[l].owner = s

\* The session s is done with _complete_link, or an exception has ended it.
Leave(s) ==
  /\ stage' = [stage EXCEPT ![s] = "idle"]
  /\ link' = [link EXCEPT ![s] = None]
  /\ seen' = [seen EXCEPT ![s] = {}]
  /\ token' = [token EXCEPT ![s] = None]

Fault == faults < MaxFaults /\ faults' = faults + 1

\* A document is written over the head, and no PUT under way can land any more.
Overwrite(document) ==
  /\ ledger' = document
  /\ overdue' = [s \in Sessions |-> None]

\* update_state raises: the document was written, may be written later, or not.
WriteFails(s, document) ==
  /\ Fault
  /\ \/ Overwrite(document)
     \/ overdue' = [overdue EXCEPT ![s] = document] /\ UNCHANGED ledger
     \/ UNCHANGED <<overdue, ledger>>

LinkInit ==
  /\ ledger = [pending |-> [l \in Links |-> None], items |-> {}]
  /\ overdue = [s \in Sessions |-> None]
  /\ started = {}
  /\ granted = [l \in Links |-> None]
  /\ exchanged = {} /\ lost = {} /\ removed = {}
  /\ open = Sessions
  /\ stage = [s \in Sessions |-> "idle"]
  /\ link = [s \in Sessions |-> None]
  /\ seen = [s \in Sessions |-> {}]
  /\ token = [s \in Sessions |-> None]
  /\ recovery = [s \in Sessions |-> {}]
  /\ faults = 0

\* link_results says "completed" for the first time.  Renewing the consent of
\* a linked institution grants no new token.
Complete(l) ==
  /\ ledger.pending[l] # None
  /\ granted[l] = None
  /\ \E banks \in SUBSET Offered[l] :
       /\ ledger.pending[l].item # None => banks = {}
       /\ granted' = [granted EXCEPT ![l] = banks]
  /\ UNCHANGED <<ledger, overdue, started, exchanged, lost, removed, open, run, recovery, faults>>

\* _pending_links finds the link and Plaid says it is completed.
Poll(s, l) ==
  /\ s \in open
  /\ stage[s] = "idle"
  /\ ledger.pending[l] # None
  /\ granted[l] # None
  /\ stage' = [stage EXCEPT ![s] = "claim"]
  /\ link' = [link EXCEPT ![s] = l]
  /\ UNCHANGED <<ledger, overdue, started, plaid, open, seen, token, recovery, faults>>

\* claim: the entry is not held by another session.
Claimable(s) ==
  LET entry == ledger.pending[link[s]]
  IN  entry # None /\ (entry.held => entry.owner = s)

claimMarks(s) ==    \* mutant: the claim marks the tokens as processed
  [ledger EXCEPT !.pending[link[s]] =
     [@ EXCEPT !.owner = s, !.held = TRUE, !.processed = PublicTokens(link[s])]]

claim(s) == [ledger EXCEPT !.pending[link[s]] = [@ EXCEPT !.owner = s, !.held = TRUE]]

Claim(s) ==
  /\ stage[s] = "claim"
  /\ Claimable(s)
  /\ Overwrite(claim(s))
  /\ stage' = [stage EXCEPT ![s] = "recall"]
  /\ seen' = [seen EXCEPT ![s] = ledger.pending[link[s]].processed]
  /\ UNCHANGED <<started, plaid, open, link, token, recovery, faults>>

\* The entry is gone, or another session has it.
ClaimRefused(s) ==
  /\ stage[s] = "claim"
  /\ ~ Claimable(s)
  /\ Leave(s)
  /\ UNCHANGED <<ledger, overdue, started, plaid, open, recovery, faults>>

ClaimFails(s) ==
  /\ stage[s] = "claim"
  /\ Claimable(s)
  /\ WriteFails(s, claim(s))
  /\ Leave(s)
  /\ UNCHANGED <<started, plaid, open, recovery>>

\* _networth_link_exchange, the recovery copy of the session, is at hand.
Recall(s) ==
  /\ stage[s] = "recall"
  /\ stage' = [stage EXCEPT ![s] = "exchange"]
  /\ UNCHANGED <<ledger, overdue, started, plaid, open, link, seen, token, recovery, faults>>

\* The user clicks elsewhere: Streamlit ends the script where it touches the
\* session's state, before it claims or after.
Interrupt(s) ==
  /\ stage[s] \in {"claim", "recall"}
  /\ Leave(s)
  /\ UNCHANGED <<ledger, overdue, started, plaid, open, recovery, faults>>

NotExchanged(s) ==    \* mutant: an exchanged token counts as processed
  PublicTokens(link[s]) \ (seen[s] \cup exchanged)

Unprocessed(s) == PublicTokens(link[s]) \ seen[s]

\* The access token is here already, from an exchange that was not saved.
UseRecovery(s) ==
  /\ stage[s] = "exchange"
  /\ \E t \in Unprocessed(s) \cap recovery[s] : token' = [token EXCEPT ![s] = t]
  /\ stage' = [stage EXCEPT ![s] = "save"]
  /\ UNCHANGED <<ledger, overdue, started, plaid, open, link, seen, recovery, faults>>

exchange(s) ==
  /\ stage[s] = "exchange"
  /\ \E t \in Unprocessed(s) \ (recovery[s] \cup exchanged) :
       /\ exchanged' = exchanged \cup {t}
       /\ recovery' = [recovery EXCEPT ![s] = @ \cup {t}]
       /\ token' = [token EXCEPT ![s] = t]
  /\ stage' = [stage EXCEPT ![s] = "save"]
  /\ UNCHANGED <<ledger, overdue, started, granted, lost, removed, open, link, seen, faults>>

\* Plaid has exchanged the token before and refuses.
ExchangeRefused(s) ==
  /\ stage[s] = "exchange"
  /\ \E t \in Unprocessed(s) \ recovery[s] : t \in exchanged
  /\ Leave(s)
  /\ UNCHANGED <<ledger, overdue, started, plaid, open, recovery, faults>>

\* The exchange fails, or its answer does not arrive.
ExchangeFails(s) ==
  /\ stage[s] = "exchange"
  /\ Fault
  /\ \E t \in Unprocessed(s) \ (recovery[s] \cup exchanged) :
       \/ UNCHANGED <<exchanged, lost>>
       \/ exchanged' = exchanged \cup {t} /\ lost' = lost \cup {t}
  /\ Leave(s)
  /\ UNCHANGED <<ledger, overdue, started, granted, removed, open, recovery>>

saveUnrecorded(s) ==    \* mutant: the save does not mark the token as processed
  [ledger EXCEPT !.items = @ \cup {token[s]}]

save(s) == [items |-> ledger.items \cup {token[s]},
            pending |-> [ledger.pending EXCEPT ![link[s]].processed = @ \cup {token[s]}]]

Drop(s, t) == recovery' = [recovery EXCEPT ![s] = @ \ {t}]

Save(s) ==
  /\ stage[s] = "save"
  /\ Mine(s, link[s])
  /\ Overwrite(save(s))
  /\ Drop(s, token[s])
  /\ seen' = [seen EXCEPT ![s] = @ \cup {token[s]}]
  /\ token' = [token EXCEPT ![s] = None]
  /\ stage' = [stage EXCEPT ![s] = "exchange"]
  /\ UNCHANGED <<started, plaid, open, link, faults>>

\* "Plaid connection changed during linking; reload and retry."
SaveRefused(s) ==
  /\ stage[s] = "save"
  /\ ~ Mine(s, link[s])
  /\ Leave(s)
  /\ UNCHANGED <<ledger, overdue, started, plaid, open, recovery, faults>>

SaveFailsForgotten(s) ==    \* mutant: the copy is dropped before the write verifies
  /\ stage[s] = "save"
  /\ Mine(s, link[s])
  /\ WriteFails(s, save(s))
  /\ Drop(s, token[s])
  /\ Leave(s)
  /\ UNCHANGED <<started, plaid, open>>

SaveFails(s) ==
  /\ stage[s] = "save"
  /\ Mine(s, link[s])
  /\ WriteFails(s, save(s))
  /\ Leave(s)
  /\ UNCHANGED <<started, plaid, open, recovery>>

finish(s) == [ledger EXCEPT !.pending[link[s]] = None]

FinishLink(s) ==
  /\ stage[s] = "exchange"
  /\ Unprocessed(s) = {}
  /\ Overwrite(finish(s))
  /\ Leave(s)
  /\ UNCHANGED <<started, plaid, open, recovery, faults>>

FinishFails(s) ==
  /\ stage[s] = "exchange"
  /\ Unprocessed(s) = {}
  /\ WriteFails(s, finish(s))
  /\ Leave(s)
  /\ UNCHANGED <<started, plaid, open, recovery>>

-----------------------------------------------------------------------------
(* What happens around the sessions                                        *)

OverduePutLands(s) ==
  /\ overdue[s] # None
  /\ Overwrite(overdue[s])
  /\ UNCHANGED <<started, plaid, open, run, recovery, faults>>

\* Five minutes after the last claim of the entry.
Expire(l) ==
  /\ ledger.pending[l] # None /\ ledger.pending[l].held
  /\ ledger' = [ledger EXCEPT !.pending[l].held = FALSE]
  /\ UNCHANGED <<overdue, started, plaid, open, run, recovery, faults>>

\* A click: the document is saved, or the write fails.
Click(s, document) ==
  /\ s \in open
  /\ stage[s] = "idle"
  /\ \/ Overwrite(document) /\ UNCHANGED faults
     \/ WriteFails(s, document)

\* _start_link: a new link, or a reconnection of a linked institution.
Start(s, l) ==
  /\ l \notin started
  /\ started' = started \cup {l}
  /\ \E item \in ledger.items \cup {None} :
       Click(s, [ledger EXCEPT !.pending[l] = NewEntry(item)])
  /\ UNCHANGED <<plaid, open, run, recovery>>

Dismiss(s, l) ==
  /\ ledger.pending[l] # None
  /\ Click(s, [ledger EXCEPT !.pending[l] = None])
  /\ UNCHANGED <<started, plaid, open, run, recovery>>

\* DISCONNECT: Plaid removes the item first, then the ledger does, with the
\* links that were to reconnect it.
Disconnect(s, t) ==
  /\ t \in ledger.items
  /\ removed' = removed \cup {t}
  /\ Click(s, [ledger EXCEPT !.items = @ \ {t},
                             !.pending = [l \in Links |->
                                IF ledger.pending[l] # None /\ ledger.pending[l].item = t
                                THEN None ELSE ledger.pending[l]]])
  /\ UNCHANGED <<started, granted, exchanged, lost, open, run, recovery>>

\* The session ends, with all it had in memory.
Close(s) ==
  /\ s \in open
  /\ open' = open \ {s}
  /\ lost' = lost \cup recovery[s]
  /\ recovery' = [recovery EXCEPT ![s] = {}]
  /\ Leave(s)
  /\ UNCHANGED <<ledger, overdue, started, granted, exchanged, removed, faults>>

-----------------------------------------------------------------------------

CompleteLink(s) ==
  \/ \E l \in Links : Poll(s, l)
  \/ Claim(s) \/ ClaimRefused(s) \/ ClaimFails(s)
  \/ Recall(s) \/ UseRecovery(s)
  \/ exchange(s) \/ ExchangeRefused(s) \/ ExchangeFails(s)
  \/ Save(s) \/ SaveRefused(s) \/ SaveFails(s)
  \/ FinishLink(s) \/ FinishFails(s)

User(s) ==
  \/ \E l \in Links : Start(s, l) \/ Dismiss(s, l)
  \/ \E t \in Tokens : Disconnect(s, t)
  \/ Interrupt(s) \/ Close(s)

LinkNext ==
  \/ \E s \in Sessions : CompleteLink(s) \/ User(s) \/ OverduePutLands(s)
  \/ \E l \in Links : Complete(l) \/ Expire(l)

LinkSpec == LinkInit /\ [][LinkNext]_linkVars

(* When a link completes.  The user leaves the tabs alone, a call ends     *)
(* before its lease does, an open tab polls every five seconds, and a      *)
(* lease runs out unless its link is claimed again and again.              *)

Calm(l) == \A s \in Sessions : link[s] = l /\ Mine(s, l) => stage[s] \in {"idle", "claim"}

CalmNext ==
  \/ \E s \in Sessions : CompleteLink(s) \/ OverduePutLands(s) \/ \E l \in Links : Start(s, l)
  \/ \E l \in Links : Complete(l) \/ (Calm(l) /\ Expire(l))

RunsOut(l) ==
  \/ []<><<\E s \in Sessions : link[s] = l /\ Claim(s)>>_linkVars
  \/ WF_linkVars(Calm(l) /\ Expire(l))

FairLinkSpec ==
  /\ LinkInit /\ [][CalmNext]_linkVars
  /\ \A s \in Sessions : WF_linkVars(CompleteLink(s))
  /\ \A l \in Links : RunsOut(l)

-----------------------------------------------------------------------------
(* Properties                                                              *)

\* Every variable has its type; what a session keeps in memory, or has lost, are
\* access tokens that Plaid really gave for a public token.
LinkTypeOK ==
  /\ ledger \in Ledgers
  /\ overdue \in [Sessions -> Ledgers \cup {None}]
  /\ started \subseteq Links
  /\ DOMAIN granted = Links /\ \A l \in Links : granted[l] \in (SUBSET Offered[l]) \cup {None}
  /\ exchanged \subseteq Tokens /\ lost \subseteq exchanged /\ removed \subseteq exchanged
  /\ open \subseteq Sessions
  /\ stage \in [Sessions -> {"idle", "claim", "recall", "exchange", "save"}]
  /\ link \in [Sessions -> Links \cup {None}]
  /\ seen \in [Sessions -> SUBSET Tokens]
  /\ token \in [Sessions -> Tokens \cup {None}]
  /\ recovery \in [Sessions -> SUBSET exchanged]
  /\ faults \in 0 .. MaxFaults

Held == UNION {recovery[s] : s \in Sessions}

\* An access token cannot be had twice, so none is dropped: each one that a
\* session has received is in its memory until the ledger has it, whatever
\* fails, whoever else claims the link, and whenever a PUT lands late.
NoTokenLost == exchanged \ (lost \cup removed) \subseteq ledger.items \cup Held

\* A token that an entry calls processed is linked, or the user has
\* disconnected it since: nobody skips a token that was not saved.
ProcessedIsSaved ==
  \A l \in Links :
    ledger.pending[l] # None => ledger.pending[l].processed \subseteq ledger.items \cup removed

\* A session that finishes a link has nothing of it in its memory still to save.
\* (The entry is removed once every token of the link is saved.)
FinishedIsSaved ==
  [][\A s \in Sessions, l \in Links :
       (stage[s] = "exchange" /\ link[s] = l
          /\ ledger.pending[l] # None /\ ledger'.pending[l] = None /\ stage'[s] = "idle" /\ open' = open)
         => PublicTokens(l) \subseteq ledger.items \cup removed]_linkVars

\* "Keep Networth open until completion is detected": a link that Plaid has
\* completed is saved in the end, unless an answer of Plaid was lost.
CompletionDetected ==
  \A l \in Links : granted[l] # None ~> ledger.pending[l] = None \/ lost # {}

\* A disconnected institution is never linked again with its old access token.
RemovedStaysRemoved == [][removed \cap ledger'.items \subseteq ledger.items]_linkVars
=============================================================================
