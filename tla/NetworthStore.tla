---------------------------- MODULE NetworthStore ----------------------------
(***************************************************************************)
(* GitHubNetworthStore (src/networth_store.py): one encrypted document on  *)
(* a branch of a private repository, read and written over HTTP by browser *)
(* sessions and by the scheduled worker, each in a process of its own.     *)
(*                                                                         *)
(* A write is a PUT that names the blob sha its caller read.  GitHub takes *)
(* it only while that blob is still the head.  Fernet draws a new IV for   *)
(* every write, so no two writes have the same sha: "the sha I hold is the *)
(* head" is exactly "nobody has written since I read", the flag fresh[c].  *)
(*                                                                         *)
(* A GET is retried by _request and fails for good only after three tries; *)
(* a PUT is never sent again.  A PUT whose answer does not arrive raises,  *)
(* and may still land afterwards, as long as its sha is then still the     *)
(* head.  late[c] is such a PUT; any other write makes it void.            *)
(***************************************************************************)
EXTENDS Naturals

CONSTANTS
  Clients,   \* browser sessions and the scheduled worker
  Keys,      \* entries of the document
  Captures,  \* the keys that are capture ids of a day document
  Values,    \* what an entry can hold
  NoValue,   \* an entry that is not there
  MaxTries   \* rounds of the loop of update_state and save_capture (4 in the code)

ASSUME StoreAssumption == NoValue \notin Keys \cup Values /\ Captures \subseteq Keys
ASSUME MaxTriesAssumption == MaxTries \in Nat \ {0}

VARIABLES
  branch,    \* does the data branch exist?
  doc,       \* the decrypted document at the head of the branch
  pc,        \* pc[c]: where client c is in its call
  call,      \* call[c]: the request of the call
  tries,     \* tries[c]: rounds of the loop that ended in a conflict
  fresh,     \* fresh[c]: is the sha c read still that of the head?
  updated,   \* updated[c]: the document c is about to PUT
  late,      \* late[c]: a PUT of c still under way that c no longer waits for
  answer     \* answer[c]: how c's last call ended

vars == <<branch, doc, pc, call, tries, fresh, updated, late, answer>>

Requests == [key : Keys, value : Values]
NoCall == [key |-> NoValue, value |-> NoValue]
Documents == [Keys -> Values \cup {NoValue}]
Answers == {"none", "saved", "unchanged", "refused", "failed"}
Steps == {"idle", "prepare", "create", "read", "put", "verify"}

_initial_state == [k \in Keys |-> NoValue]
NoPut == [call |-> NoCall, body |-> _initial_state]
Puts == [call : Requests, body : Documents] \cup {NoPut}

-----------------------------------------------------------------------------
(* The callbacks.  save_capture refuses a capture id that already holds    *)
(* something else; both kinds of call write nothing when nothing changes.  *)

\* Mutant of Refuses: a capture id that is taken is overwritten.
NeverRefuses(r, d) == FALSE

Refuses(r, d) == r.key \in Captures /\ d[r.key] # NoValue /\ d[r.key] # r.value
Edited(r, d) == [d EXCEPT ![r.key] = r.value]

Goto(c, step) == pc' = [pc EXCEPT ![c] = step]

\* The call of c ends with answer a.
Finish(c, a) ==
  /\ Goto(c, "idle")
  /\ call' = [call EXCEPT ![c] = NoCall]
  /\ tries' = [tries EXCEPT ![c] = 0]
  /\ fresh' = [fresh EXCEPT ![c] = FALSE]
  /\ updated' = [updated EXCEPT ![c] = _initial_state]
  /\ answer' = [answer EXCEPT ![c] = a]

\* Mutant of Commit: a PUT under way does not lose its claim to the head.
CommitKeepsLate(d) ==
  /\ doc' = d
  /\ fresh' = [c \in Clients |-> FALSE]
  /\ UNCHANGED late

\* A PUT with the head's sha: a new blob, so every sha read before is old.
Commit(d) ==
  /\ doc' = d
  /\ fresh' = [c \in Clients |-> FALSE]
  /\ late' = [c \in Clients |-> NoPut]

Init ==
  /\ branch \in BOOLEAN
  /\ doc = _initial_state
  /\ pc = [c \in Clients |-> "idle"]
  /\ call = [c \in Clients |-> NoCall]
  /\ tries = [c \in Clients |-> 0]
  /\ fresh = [c \in Clients |-> FALSE]
  /\ updated = [c \in Clients |-> _initial_state]
  /\ late = [c \in Clients |-> NoPut]
  /\ answer = [c \in Clients |-> "none"]

update_state(c, r) ==
  /\ pc[c] = "idle"
  /\ Goto(c, "prepare")
  /\ call' = [call EXCEPT ![c] = r]
  /\ answer' = [answer EXCEPT ![c] = "none"]
  /\ UNCHANGED <<branch, doc, tries, fresh, updated, late>>

\* The repository is verified private; the branch is looked up.
_prepare(c) ==
  /\ pc[c] = "prepare"
  /\ Goto(c, IF branch THEN "read" ELSE "create")
  /\ UNCHANGED <<branch, doc, call, tries, fresh, updated, late, answer>>

\* POST /git/refs; a competing initializer's 422 is tolerated.
CreateBranch(c) ==
  /\ pc[c] = "create"
  /\ branch' = TRUE
  /\ Goto(c, "read")
  /\ UNCHANGED <<doc, call, tries, fresh, updated, late, answer>>

\* The POST is made but its answer is lost: the call raises.
CreateBranchLost(c) ==
  /\ pc[c] = "create"
  /\ branch' = TRUE
  /\ Finish(c, "failed")
  /\ UNCHANGED <<doc, late>>

\* Not private, wrong branch, or a GET that failed three times.
RequestFails(c) ==
  /\ pc[c] \in {"prepare", "create", "read", "verify"}
  /\ Finish(c, "failed")
  /\ UNCHANGED <<branch, doc, late>>

\* A round of the loop: read the head, run the callback on a copy of it.
ReadUpdated(c) ==
  /\ pc[c] = "read"
  /\ ~ Refuses(call[c], doc)
  /\ Edited(call[c], doc) # doc
  /\ updated' = [updated EXCEPT ![c] = Edited(call[c], doc)]
  /\ fresh' = [fresh EXCEPT ![c] = TRUE]
  /\ Goto(c, "put")
  /\ UNCHANGED <<branch, doc, call, tries, late, answer>>

ReadUnchanged(c) ==
  /\ pc[c] = "read"
  /\ ~ Refuses(call[c], doc)
  /\ Edited(call[c], doc) = doc
  /\ Finish(c, "unchanged")
  /\ UNCHANGED <<branch, doc, late>>

ReadRefused(c) ==
  /\ pc[c] = "read"
  /\ Refuses(call[c], doc)
  /\ Finish(c, "refused")
  /\ UNCHANGED <<branch, doc, late>>

\* Mutant of PutAccepted: the PUT does not name the sha that was read.
PutWithoutSha(c) ==
  /\ pc[c] = "put"
  /\ Commit(updated[c])
  /\ Goto(c, "verify")
  /\ UNCHANGED <<branch, call, tries, updated, answer>>

PutAccepted(c) ==
  /\ pc[c] = "put"
  /\ fresh[c]
  /\ Commit(updated[c])
  /\ Goto(c, "verify")
  /\ UNCHANGED <<branch, call, tries, updated, answer>>

\* Mutant of PutConflict: the loop has no last round.
PutConflictForever(c) ==
  /\ pc[c] = "put"
  /\ fresh' = [fresh EXCEPT ![c] = FALSE]
  /\ updated' = [updated EXCEPT ![c] = _initial_state]
  /\ Goto(c, "read")
  /\ UNCHANGED <<branch, doc, call, tries, late, answer>>

\* 409 or 422.  GitHub also answers 409 while another file of the branch is
\* being committed, so a conflict says nothing about this document.
PutConflict(c) ==
  /\ pc[c] = "put"
  /\ IF tries[c] + 1 < MaxTries
     THEN /\ tries' = [tries EXCEPT ![c] = @ + 1]
          /\ fresh' = [fresh EXCEPT ![c] = FALSE]
          /\ updated' = [updated EXCEPT ![c] = _initial_state]
          /\ Goto(c, "read")
          /\ UNCHANGED <<call, answer>>
     ELSE Finish(c, "failed")
  /\ UNCHANGED <<branch, doc, late>>

\* Mutant of PutLost: no answer is taken for a success.
PutLostTakenAsSaved(c) ==
  /\ pc[c] = "put"
  /\ Finish(c, "saved")
  /\ late' = [late EXCEPT ![c] = IF fresh[c] THEN [call |-> call[c], body |-> updated[c]] ELSE @]
  /\ UNCHANGED <<branch, doc>>

\* The connection breaks, times out or answers 5xx: the call raises.
PutLost(c) ==
  /\ pc[c] = "put"
  /\ Finish(c, "failed")
  /\ late' = [late EXCEPT ![c] = IF fresh[c] THEN [call |-> call[c], body |-> updated[c]] ELSE @]
  /\ UNCHANGED <<branch, doc>>

LatePutLands(c) ==
  /\ late[c] # NoPut
  /\ Commit(late[c].body)
  /\ UNCHANGED <<branch, pc, call, tries, updated, answer>>

\* The file at the new commit is read back and compared; a commit never
\* changes, so only the read itself can fail (RequestFails).
Verified(c) ==
  /\ pc[c] = "verify"
  /\ Finish(c, "saved")
  /\ UNCHANGED <<branch, doc, late>>

\* The process dies: a worker is killed, a session is dropped.
Crash(c) ==
  /\ pc[c] # "idle"
  /\ Finish(c, "none")
  /\ late' = [late EXCEPT ![c] = IF fresh[c] THEN [call |-> call[c], body |-> updated[c]] ELSE @]
  /\ UNCHANGED <<branch, doc>>

Step(c) ==
  \/ _prepare(c) \/ CreateBranch(c) \/ CreateBranchLost(c) \/ RequestFails(c)
  \/ ReadUpdated(c) \/ ReadUnchanged(c) \/ ReadRefused(c)
  \/ PutAccepted(c) \/ PutConflict(c) \/ PutLost(c) \/ Verified(c)

Next ==
  \E c \in Clients :
    \/ \E r \in Requests : update_state(c, r)
    \/ Step(c)
    \/ LatePutLands(c)
    \/ Crash(c)

Spec == Init /\ [][Next]_vars

\* A call runs to its end: every step of it is a request with a timeout.
FairSpec == Spec /\ \A c \in Clients : WF_vars(Step(c))

-----------------------------------------------------------------------------
(* Properties *)

\* Every variable has its type; no call goes round the loop MaxTries times
\* and then starts again.
TypeOK ==
  /\ branch \in BOOLEAN
  /\ doc \in Documents
  /\ pc \in [Clients -> Steps]
  /\ call \in [Clients -> Requests \cup {NoCall}]
  /\ \A c \in Clients : call[c] = NoCall <=> pc[c] = "idle"
  /\ tries \in [Clients -> 0 .. MaxTries - 1]
  /\ fresh \in [Clients -> BOOLEAN]
  /\ updated \in [Clients -> Documents]
  /\ late \in [Clients -> Puts]
  /\ answer \in [Clients -> Answers]

\* A document that is about to be written is the edit of the current head,
\* if its sha is the head's.  This is what makes the compare-and-swap an
\* atomic update; it also holds of a PUT that may land late.
WritesEditTheHead ==
  /\ \A c \in Clients : fresh[c] =>
       /\ pc[c] = "put"
       /\ ~ Refuses(call[c], doc)
       /\ updated[c] = Edited(call[c], doc)
       /\ updated[c] # doc
  /\ \A c \in Clients : late[c] # NoPut =>
       /\ ~ Refuses(late[c].call, doc)
       /\ late[c].body = Edited(late[c].call, doc)
       /\ late[c].body # doc

\* No lost update: a commit changes the one entry its own callback edits, so
\* it never undoes an edit that another client committed after the read.
OneEditPerCommit ==
  [][\A j, k \in Keys : doc'[j] # doc[j] /\ doc'[k] # doc[k] => j = k]_vars

\* An archived capture is never replaced or removed, whatever calls race.
CapturesImmutable ==
  [][\A k \in Captures : doc[k] # NoValue => doc'[k] = doc[k]]_vars

\* The store behaves as NetworthLedger says: one atomic effect per call at
\* most, "saved" only after it, and a late PUT is the effect of a failed call.
Ledger == INSTANCE NetworthLedger WITH
  effect <- [c \in Clients |-> pc[c] = "verify"],
  late <- [c \in Clients |-> late[c].call]

ImplementsLedger == Ledger!LedgerSpec

\* A call that is not killed ends: no sequence of conflicts keeps it busy.
CallsEnd == \A c \in Clients : pc[c] # "idle" ~> pc[c] = "idle"
=============================================================================
