--------------------------- MODULE NetworthLedger ---------------------------
(***************************************************************************)
(* What one document of the encrypted Networth store promises its callers. *)
(*                                                                         *)
(* A call of update_state or save_capture takes effect at most once, in    *)
(* one atomic step, on the document as it is at that step.  The caller is  *)
(* told "saved" only after the effect, "unchanged" only if the edit was    *)
(* already there, and "refused" only if the callback raised.  "failed"     *)
(* promises nothing: the edit may or may not have been made, which is what *)
(* "retry before treating it as saved" tells the user.                     *)
(*                                                                         *)
(* The document maps keys to values; a request sets one key.  A key in     *)
(* Captures is a capture id of a day document: save_capture writes it, and *)
(* refuses to give it another value once it has one.                       *)
(***************************************************************************)
CONSTANTS
  Clients,   \* browser sessions and the scheduled worker
  Keys,      \* entries of the document
  Captures,  \* the keys that are capture ids
  Values,    \* what an entry can hold
  NoValue    \* an entry that is not there

VARIABLES
  doc,       \* the document
  call,      \* call[c]: the request client c has under way, or NoCall
  effect,    \* effect[c]: has the request taken effect?
  answer,    \* answer[c]: what c was last told
  late       \* late[c]: a request c gave up on that may still take effect

ledgerVars == <<doc, call, effect, answer, late>>

Requests == [key : Keys, value : Values]
NoCall == [key |-> NoValue, value |-> NoValue]
Answers == {"none", "saved", "unchanged", "refused", "failed"}
Documents == [Keys -> Values \cup {NoValue}]

\* The callback of a request on a document: raise, change nothing, or edit it.
Refuses(r, d) == r.key \in Captures /\ d[r.key] # NoValue /\ d[r.key] # r.value
Edited(r, d) == [d EXCEPT ![r.key] = r.value]
Changes(r, d) == ~ Refuses(r, d) /\ Edited(r, d) # d

LedgerInit ==
  /\ doc = [k \in Keys |-> NoValue]
  /\ call = [c \in Clients |-> NoCall]
  /\ effect = [c \in Clients |-> FALSE]
  /\ answer = [c \in Clients |-> "none"]
  /\ late = [c \in Clients |-> NoCall]

Begin(c, r) ==
  /\ call[c] = NoCall
  /\ call' = [call EXCEPT ![c] = r]
  /\ effect' = [effect EXCEPT ![c] = FALSE]
  /\ answer' = [answer EXCEPT ![c] = "none"]
  /\ UNCHANGED <<doc, late>>

\* Requests that were given up on may be dropped for good at any change.
SomeDropped == late' \in [Clients -> Requests \cup {NoCall}]
               /\ \A c \in Clients : late'[c] \in {late[c], NoCall}

TakeEffect(c) ==
  /\ call[c] # NoCall
  /\ ~ effect[c]
  /\ Changes(call[c], doc)
  /\ doc' = Edited(call[c], doc)
  /\ effect' = [effect EXCEPT ![c] = TRUE]
  /\ SomeDropped
  /\ UNCHANGED <<call, answer>>

\* The edit of a call that failed takes effect after all.
LateEffect(c) ==
  /\ late[c] # NoCall
  /\ Changes(late[c], doc)
  /\ doc' = Edited(late[c], doc)
  /\ SomeDropped
  /\ late'[c] = NoCall
  /\ UNCHANGED <<call, effect, answer>>

\* What each answer says of the document at the moment it is given.
Permitted(c, a) ==
  \/ a = "saved" /\ effect[c]
  \/ a = "unchanged" /\ ~ effect[c] /\ ~ Refuses(call[c], doc) /\ Edited(call[c], doc) = doc
  \/ a = "refused" /\ ~ effect[c] /\ Refuses(call[c], doc)
  \/ a \in {"none", "failed"}

Return(c, a) ==
  /\ call[c] # NoCall
  /\ Permitted(c, a)
  /\ call' = [call EXCEPT ![c] = NoCall]
  /\ effect' = [effect EXCEPT ![c] = FALSE]
  /\ answer' = [answer EXCEPT ![c] = a]
  /\ \/ UNCHANGED late
     \/ /\ a \in {"none", "failed"}
        /\ ~ effect[c]
        /\ late' = [late EXCEPT ![c] = call[c]]
  /\ UNCHANGED doc

LedgerNext ==
  \E c \in Clients :
    \/ \E r \in Requests : Begin(c, r)
    \/ TakeEffect(c)
    \/ LateEffect(c)
    \/ \E a \in Answers : Return(c, a)

LedgerSpec == LedgerInit /\ [][LedgerNext]_ledgerVars
=============================================================================
