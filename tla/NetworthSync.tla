---------------------------- MODULE NetworthSync ----------------------------
(***************************************************************************)
(* sync_networth (src/networth.py): the paid balance pull that the browser *)
(* sessions and the scheduled worker share.  A run claims a lease in the   *)
(* encrypted ledger, asks Plaid for every linked institution, archives the *)
(* capture and only then checkpoints the ledger.  The scheduled run of a   *)
(* slot first looks for a capture an earlier run archived and did not      *)
(* checkpoint.                                                             *)
(*                                                                         *)
(* The ledger is written by update_state: read, run the callback, PUT if   *)
(* the head has not moved, else again.  The callbacks of a sync are not    *)
(* atomic with their PUT and one of them archives, so their rounds are     *)
(* steps here.  Everything else that writes (the edits of the user, the    *)
(* archive itself) is one step: NetworthStore implements NetworthLedger.   *)
(*                                                                         *)
(* An institution has one account.  A balance is the time it was read, and *)
(* whether its amount was there.  Times are those of one shared clock.     *)
(***************************************************************************)
EXTENDS Naturals, FiniteSets

CONSTANTS
  Workers,    \* processes that can run a sync
  Runners,    \* those that run scheduled slots (the GitHub Actions worker)
  Items,      \* institutions
  Slots,      \* times of the day at which a slot is due (SYNC_HOURS)
  LeaseTTL,   \* _SYNC_LEASE_TTL
  MaxTries,   \* rounds of update_state
  None,       \* no slot, lease, row or document
  MaxClock,   \* bound: the last time of the day
  MaxToken,   \* bound: access tokens issued per institution
  MaxRuns,    \* bound: runs of sync_networth, of all workers
  MaxEdits,   \* bound: edits by the user
  MaxFaults   \* bound: lost requests, failed reads, spurious conflicts, crashes

Times == 1 .. MaxClock

ASSUME SyncAssumption ==
  /\ Runners \subseteq Workers
  /\ Slots \subseteq Times
  /\ {LeaseTTL, MaxTries, MaxClock, MaxToken} \subseteq Nat \ {0}
  /\ {MaxRuns, MaxEdits, MaxFaults} \subseteq Nat

VARIABLES
  clock,
  state,      \* the ledger at the head
  captures,   \* the captures in the archive of the day
  issued,     \* issued[i]: tokens Plaid has issued for institution i
  pc,         \* pc[w]: the step worker w is at
  runs,       \* runs started so far
  run,        \* run[w]: the number of w's run, its owner id (a uuid), or 0
  now,        \* now[w]: the time the run was asked for
  slot,       \* slot[w]: the slot it is for, or None
  initial,    \* initial[w]: tokens and lease of the ledger as claimed
  claimed,    \* claimed[w]: has the run tried to write its lease?
  tries,      \* tries[w]: conflicts of the current update_state
  fresh,      \* fresh[w]: has nobody written since w read the ledger?
  updated,    \* updated[w]: the ledger w is about to PUT, or None
  fetched,    \* fetched[w]: what Plaid answered for each institution
  capture,    \* capture[w]: the capture w archives or recovers, or None
  late,       \* late[w]: a PUT w no longer waits for, or None
  edits, faults

local == <<pc, run, now, slot, initial, claimed, tries, updated, fetched, capture>>
vars == <<clock, state, captures, issued, runs, local, fresh, late, edits, faults>>

-----------------------------------------------------------------------------
(* Data                                                                    *)

Stamps == 0 .. MaxClock              \* 0 is "never"
Tokens == 0 .. MaxToken              \* 0 is "not linked"
ItemRecords == [token : Tokens, sync : Stamps, attempt : Stamps, error : BOOLEAN]
Unlinked == [token |-> 0, sync |-> 0, attempt |-> 0, error |-> FALSE]
RowRecords == [at : Times, whole : BOOLEAN]
Rows == RowRecords \cup {None}
LeaseRecords == [owner : 1 .. MaxRuns, until : Nat]
CaptureRecords ==
  [at : Times, slot : Slots \cup {None}, rows : [Items -> Rows], complete : BOOLEAN]
Ledgers ==
  [items : [Items -> ItemRecords], accounts : [Items -> Rows], excluded : SUBSET Items,
   lease : LeaseRecords \cup {None}, done : SUBSET Slots, lastSync : Stamps,
   lastCapture : CaptureRecords \cup {None}]
Answers == {"none", "whole", "missing", "error"}

ASSUME NoneAssumption ==
  /\ None \notin Times /\ None \notin RowRecords /\ None \notin LeaseRecords
  /\ None \notin CaptureRecords /\ None \notin Ledgers

Linked(s) == {i \in Items : s.items[i].token # 0}
Holds(s, w) == s.lease # None /\ s.lease.owner = run[w]
TokensOf(s) == [i \in Items |-> s.items[i].token]

\* The latest slot that is due at time t, if there is one.
scheduled_slot(t) == {s \in Slots : s <= t /\ \A r \in Slots : r <= t => r <= s}

\* _require_sync_lease: the lease of the ledger s is that of w, and is not over.
_require_sync_lease(s, w) == Holds(s, w) /\ s.lease.until > clock

WithoutLease(s) == [s EXCEPT !.lease = None]

\* The capture can stand for a checkpoint of w's slot that was never made.
Recoverable(w, c) ==
  /\ c.slot = slot[w]
  /\ c.complete
  /\ \A i \in Items : c.rows[i] # None <=> initial[w].tokens[i] # 0

-----------------------------------------------------------------------------
(* The callbacks, each a function of the ledger it is given (state).       *)

\* claim: nothing to pull, or every balance is newer than the run.
NothingToClaim(w) ==
  \/ Linked(state) = {}
  \/ slot[w] # None /\ slot[w] \in state.done
  \/ \A i \in Linked(state) : state.items[i].sync > now[w]

ClaimBusyOnceOver(w) ==    \* mutant: the comparison with the clock is swapped
  state.lease # None /\ state.lease.until < clock
ClaimBusy(w) == state.lease # None /\ state.lease.until > clock

claim(w) == [state EXCEPT !.lease = [owner |-> run[w], until |-> clock + LeaseTTL]]

\* The institutions and their tokens are still those the run has claimed.
KeptItems(w) ==    \* mutant: an institution that is gone is not missed
  \A i \in Linked(state) : state.items[i].token = initial[w].tokens[i]
SameItems(w) == TokensOf(state) = initial[w].tokens

Superseded(c) == state.lastSync > c.at

\* recover: the ledger takes the balances of the archived capture c, unless it
\* has newer ones, and the slot is done.
recover(w, c) ==
  LET restored ==
        [state EXCEPT
           !.accounts = [i \in Items |-> IF c.rows[i] = None THEN @[i] ELSE c.rows[i]],
           !.items = [i \in Items |->
                        IF state.items[i].token = 0 THEN state.items[i]
                        ELSE [state.items[i] EXCEPT !.sync = c.at, !.attempt = c.at, !.error = FALSE]],
           !.lastSync = c.at,
           !.lastCapture = c]
      latest == IF Superseded(c) THEN state ELSE restored
  IN  [latest EXCEPT !.done = @ \cup {slot[w]}, !.lease = None]

\* apply: what becomes of institution i.
Unsynced(w, i) == state.items[i].token # initial[w].tokens[i]
Outdone(w, i) == state.items[i].sync > now[w]
Replaced(w, i) ==
  /\ i \in Linked(state) /\ ~ Unsynced(w, i) /\ ~ Outdone(w, i)
  /\ fetched[w][i] \in {"whole", "missing"}

AppliedItem(w, i) ==
  LET old == state.items[i]
      newer_attempt == old.attempt > now[w]
      tried == [old EXCEPT !.attempt = IF newer_attempt THEN @ ELSE now[w]]
  IN  IF i \notin Linked(state) THEN old
      ELSE IF Unsynced(w, i) THEN [old EXCEPT !.error = TRUE]
      ELSE IF Outdone(w, i) THEN old
      ELSE IF Replaced(w, i) THEN [tried EXCEPT !.sync = now[w], !.error = newer_attempt /\ @]
      ELSE [tried EXCEPT !.error = IF newer_attempt THEN @ ELSE TRUE]

AppliedItems(w) == [i \in Items |-> AppliedItem(w, i)]
AppliedRows(w) ==
  [i \in Items |-> IF Replaced(w, i) THEN [at |-> now[w], whole |-> fetched[w][i] = "whole"]
                   ELSE state.accounts[i]]

\* The capture of the ledger as applied; a row that is excluded from the
\* statement need not have an amount.
AppliedCapture(w) ==
  [at |-> now[w], slot |-> slot[w], rows |-> AppliedRows(w),
   complete |-> /\ Linked(state) # {}
                /\ \A i \in Linked(state) : ~ AppliedItem(w, i).error
                /\ \A i \in Items \ state.excluded :
                     AppliedRows(w)[i] # None => AppliedRows(w)[i].whole]

apply(w) ==
  LET c == AppliedCapture(w)
      synced == [state EXCEPT !.items = AppliedItems(w), !.accounts = c.rows, !.lease = None]
      stamped == IF state.lastSync > now[w] THEN synced
                 ELSE [synced EXCEPT !.lastSync = now[w], !.lastCapture = c]
  IN  IF slot[w] # None /\ c.complete THEN [stamped EXCEPT !.done = @ \cup {slot[w]}] ELSE stamped

-----------------------------------------------------------------------------
(* The life of a run                                                       *)

NoInitial == [tokens |-> [i \in Items |-> 0], until |-> 0]
NoAnswers == [i \in Items |-> "none"]

Fault == faults < MaxFaults /\ faults' = faults + 1
Unread(w) == fresh' = [fresh EXCEPT ![w] = FALSE]
Goto(w, step) == pc' = [pc EXCEPT ![w] = step]

\* The run w forgets everything; it goes to step and has claimed or not.
Forget(w, step, has) ==
  /\ Goto(w, step)
  /\ claimed' = [claimed EXCEPT ![w] = has]
  /\ now' = [now EXCEPT ![w] = 0]
  /\ slot' = [slot EXCEPT ![w] = None]
  /\ initial' = [initial EXCEPT ![w] = NoInitial]
  /\ tries' = [tries EXCEPT ![w] = 0]
  /\ updated' = [updated EXCEPT ![w] = None]
  /\ fetched' = [fetched EXCEPT ![w] = NoAnswers]
  /\ capture' = [capture EXCEPT ![w] = None]
  /\ run' = [run EXCEPT ![w] = IF has THEN @ ELSE 0]

End(w) == Forget(w, "idle", FALSE)

\* An exception: the finally clause releases a lease the run may have.
Raise(w) == IF claimed[w] /\ pc[w] \notin {"release", "releasePut"}
            THEN Forget(w, "release", TRUE) ELSE End(w)

\* A round of update_state got as far as a document to PUT.
Prepare(w, step, document) ==
  /\ Goto(w, step)
  /\ updated' = [updated EXCEPT ![w] = document]
  /\ fresh' = [fresh EXCEPT ![w] = TRUE]

Commit(document) ==
  /\ state' = document
  /\ fresh' = [w \in Workers |-> FALSE]
  /\ late' = [w \in Workers |-> None]

Init ==
  /\ clock = 1
  /\ state \in [items : [Items -> {Unlinked, [Unlinked EXCEPT !.token = 1]}],
               accounts : {[i \in Items |-> None]}, excluded : {{}}, lease : {None},
               done : {{}}, lastSync : {0}, lastCapture : {None}]
  /\ captures = {}
  /\ issued = TokensOf(state)
  /\ pc = [w \in Workers |-> "idle"]
  /\ runs = 0
  /\ run = [w \in Workers |-> 0]
  /\ now = [w \in Workers |-> 0]
  /\ slot = [w \in Workers |-> None]
  /\ initial = [w \in Workers |-> NoInitial]
  /\ claimed = [w \in Workers |-> FALSE]
  /\ tries = [w \in Workers |-> 0]
  /\ fresh = [w \in Workers |-> FALSE]
  /\ updated = [w \in Workers |-> None]
  /\ fetched = [w \in Workers |-> NoAnswers]
  /\ capture = [w \in Workers |-> None]
  /\ late = [w \in Workers |-> None]
  /\ edits = 0
  /\ faults = 0

\* A run begins with read_state; the slot may be done already.
sync_networth(w) ==
  /\ pc[w] = "idle"
  /\ runs < MaxRuns
  /\ runs' = runs + 1
  /\ \E s \in {None} \cup (IF w \in Runners THEN scheduled_slot(clock) ELSE {}) :
       /\ s = None \/ s \notin state.done
       /\ slot' = [slot EXCEPT ![w] = s]
  /\ run' = [run EXCEPT ![w] = runs']
  /\ now' = [now EXCEPT ![w] = clock]
  /\ Goto(w, "claim")
  /\ UNCHANGED <<clock, state, captures, issued, initial, claimed, tries, fresh, updated, fetched,
                 capture, late, edits, faults>>

ReadClaim(w) ==
  /\ pc[w] = "claim"
  /\ ~ ClaimBusy(w)
  /\ ~ NothingToClaim(w)
  /\ Prepare(w, "claimPut", claim(w))
  /\ claimed' = [claimed EXCEPT ![w] = TRUE]
  /\ UNCHANGED <<clock, state, captures, issued, runs, run, now, slot, initial, tries, fetched, capture,
                 late, edits, faults>>

\* NETWORTH_SYNC_IN_PROGRESS; the order of the tests of claim matters.
ReadClaimBusy(w) ==
  /\ pc[w] = "claim"
  /\ ClaimBusy(w)
  /\ Linked(state) # {} /\ (slot[w] = None \/ slot[w] \notin state.done)
  /\ Raise(w)
  /\ UNCHANGED <<clock, state, captures, issued, runs, fresh, late, edits, faults>>

ReadClaimNothing(w) ==
  /\ pc[w] = "claim"
  /\ NothingToClaim(w)
  /\ ~ ClaimBusy(w) \/ Linked(state) = {} \/ (slot[w] # None /\ slot[w] \in state.done)
  /\ End(w)
  /\ UNCHANGED <<clock, state, captures, issued, runs, fresh, late, edits, faults>>

\* read_day: the latest capture that can stand for the checkpoint of the slot.
ReadDay(w) ==
  /\ pc[w] = "day"
  /\ LET recoverable == {c \in captures : Recoverable(w, c)}
     IN  \/ /\ recoverable = {}
            /\ Goto(w, "fetch")
            /\ UNCHANGED capture
         \/ \E c \in recoverable :
              /\ \A other \in recoverable : other.at <= c.at
              /\ capture' = [capture EXCEPT ![w] = c]
              /\ Goto(w, "recover")
  /\ UNCHANGED <<clock, state, captures, issued, runs, run, now, slot, initial, claimed, tries, fresh,
                 updated, fetched, late, edits, faults>>

\* A round of update_state(recover).
ReadRecover(w) ==
  /\ pc[w] = "recover"
  /\ _require_sync_lease(state, w)
  /\ Prepare(w, "recoverPut",
             IF SameItems(w) THEN recover(w, capture[w]) ELSE WithoutLease(state))
  /\ UNCHANGED <<clock, state, captures, issued, runs, run, now, slot, initial, claimed, tries, fetched,
                 capture, late, edits, faults>>

\* The lease of the ledger as claimed is checked before every paid read.
MayRead(w) == pc[w] = "fetch" /\ initial[w].until > clock
Unfetched(w) == {i \in Items : initial[w].tokens[i] # 0 /\ fetched[w][i] = "none"}

Fetch(w) ==
  /\ MayRead(w)
  /\ \E i \in Unfetched(w), answer \in {"whole", "missing", "error"} :
       /\ fetched' = [fetched EXCEPT ![w][i] = answer]
       /\ Goto(w, IF Unfetched(w) = {i} THEN "apply" ELSE "fetch")
  /\ UNCHANGED <<clock, state, captures, issued, runs, run, now, slot, initial, claimed, tries, fresh,
                 updated, capture, late, edits, faults>>

\* NETWORTH_SYNC_LEASE_LOST or _EXPIRED, wherever it is checked.
LeaseOver(w) ==
  /\ \/ pc[w] = "fetch" /\ initial[w].until <= clock
     \/ pc[w] \in {"recover", "apply"} /\ ~ _require_sync_lease(state, w)
     \/ pc[w] = "recheck" /\ initial[w].until <= clock
  /\ Raise(w)
  /\ Unread(w)
  /\ UNCHANGED <<clock, state, captures, issued, runs, late, edits, faults>>

\* A round of update_state(apply), up to the capture it archives.
ReadApply(w) ==
  /\ pc[w] = "apply"
  /\ _require_sync_lease(state, w)
  /\ IF slot[w] # None /\ slot[w] \in state.done
     THEN Prepare(w, "applyPut", WithoutLease(state)) /\ UNCHANGED capture
     ELSE /\ Prepare(w, "archive", apply(w))
          /\ capture' = [capture EXCEPT ![w] = AppliedCapture(w)]
  /\ UNCHANGED <<clock, state, captures, issued, runs, run, now, slot, initial, claimed, tries, fetched,
                 late, edits, faults>>

\* save_capture, inside the callback.
Archive(w) ==
  /\ pc[w] = "archive"
  /\ captures' = captures \cup {capture[w]}
  /\ Goto(w, "recheck")
  /\ UNCHANGED <<clock, state, issued, runs, run, now, slot, initial, claimed, tries, fresh, updated,
                 fetched, capture, late, edits, faults>>

\* save_capture fails, with or without effect.
ArchiveFailsUnnoticed(w) ==    \* mutant: the run goes on without its capture
  /\ pc[w] = "archive"
  /\ Fault
  /\ Goto(w, "recheck")
  /\ UNCHANGED <<clock, state, captures, issued, runs, run, now, slot, initial, claimed, tries, fresh,
                 updated, fetched, capture, late, edits>>

ArchiveFails(w) ==
  /\ pc[w] = "archive"
  /\ Fault
  /\ captures' \in {captures, captures \cup {capture[w]}}
  /\ Raise(w)
  /\ Unread(w)
  /\ UNCHANGED <<clock, state, issued, runs, late, edits>>

\* The lease is checked again, on the ledger that was read and a later clock.
Recheck(w) ==
  /\ pc[w] = "recheck"
  /\ initial[w].until > clock
  /\ Goto(w, "applyPut")
  /\ UNCHANGED <<clock, state, captures, issued, runs, run, now, slot, initial, claimed, tries, fresh,
                 updated, fetched, capture, late, edits, faults>>

\* A round of update_state(release).
ReadRelease(w) ==
  /\ pc[w] = "release"
  /\ IF Holds(state, w)
     THEN /\ Prepare(w, "releasePut", WithoutLease(state))
          /\ UNCHANGED <<run, now, slot, initial, claimed, tries, fetched, capture>>
     ELSE End(w) /\ UNCHANGED fresh
  /\ UNCHANGED <<clock, state, captures, issued, runs, late, edits, faults>>

\* A read of the store fails for good.
ReadFails(w) ==
  /\ pc[w] \in {"claim", "day", "recover", "apply", "release"}
  /\ Fault
  /\ Raise(w)
  /\ UNCHANGED <<clock, state, captures, issued, runs, fresh, late, edits>>

-----------------------------------------------------------------------------
(* The PUT of a round                                                      *)

ReadStep == [claimPut |-> "claim", recoverPut |-> "recover", applyPut |-> "apply",
             releasePut |-> "release"]
Puts == DOMAIN ReadStep

\* The claim is saved: the run owns the ledger it wrote.
Owned(w) ==
  /\ initial' = [initial EXCEPT ![w] = [tokens |-> TokensOf(updated[w]),
                                        until |-> updated[w].lease.until]]
  /\ Goto(w, IF slot[w] = None THEN "fetch" ELSE "day")
  /\ updated' = [updated EXCEPT ![w] = None]
  /\ tries' = [tries EXCEPT ![w] = 0]
  /\ UNCHANGED <<run, now, slot, claimed, fetched, capture>>

PutOverwrites(w) ==    \* mutant: the PUT names no sha
  /\ pc[w] \in Puts
  /\ Commit(updated[w])
  /\ IF pc[w] = "claimPut" THEN Owned(w) ELSE End(w)
  /\ UNCHANGED <<clock, captures, issued, runs, edits, faults>>

PutAccepted(w) ==
  /\ pc[w] \in Puts
  /\ fresh[w]
  /\ Commit(updated[w])
  /\ IF pc[w] = "claimPut" THEN Owned(w) ELSE End(w)
  /\ UNCHANGED <<clock, captures, issued, runs, edits, faults>>

\* The PUT is made, but its answer or the read that verifies it fails.
PutUnverified(w) ==
  /\ pc[w] \in Puts
  /\ fresh[w]
  /\ Fault
  /\ Commit(updated[w])
  /\ Raise(w)
  /\ UNCHANGED <<clock, captures, issued, runs, edits>>

LastRound(w) == tries[w] + 1 = MaxTries

PutConflict(w) ==
  /\ pc[w] \in Puts
  /\ IF fresh[w] THEN Fault ELSE UNCHANGED faults
  /\ IF ~ LastRound(w)
     THEN /\ tries' = [tries EXCEPT ![w] = @ + 1]
          /\ updated' = [updated EXCEPT ![w] = None]
          /\ capture' = [capture EXCEPT ![w] = IF pc[w] = "applyPut" THEN None ELSE @]
          /\ Goto(w, ReadStep[pc[w]])
          /\ UNCHANGED <<run, now, slot, initial, claimed, fetched>>
     ELSE Raise(w)
  /\ Unread(w)
  /\ UNCHANGED <<clock, state, captures, issued, runs, late, edits>>

\* No answer: the run gives up, the PUT may still land.
PutLost(w) ==
  /\ pc[w] \in Puts
  /\ Fault
  /\ late' = [late EXCEPT ![w] = IF fresh[w] THEN updated[w] ELSE @]
  /\ Raise(w)
  /\ Unread(w)
  /\ UNCHANGED <<clock, state, captures, issued, runs, edits>>

LatePutLands(w) ==
  /\ late[w] # None
  /\ Commit(late[w])
  /\ UNCHANGED <<clock, captures, issued, runs, local, edits, faults>>

\* The process is killed; the request it had under way may still land.
Crash(w) ==
  /\ pc[w] # "idle"
  /\ Fault
  /\ late' = [late EXCEPT ![w] = IF pc[w] \in Puts /\ fresh[w] THEN updated[w] ELSE @]
  /\ captures' \in {captures, IF pc[w] = "archive" THEN captures \cup {capture[w]} ELSE captures}
  /\ End(w)
  /\ Unread(w)
  /\ UNCHANGED <<clock, state, issued, runs, edits>>

-----------------------------------------------------------------------------
(* The user (src/networth_ui.py) and the clock                             *)

UserEdit(document) ==
  /\ edits < MaxEdits
  /\ edits' = edits + 1
  /\ document # state
  /\ Commit(document)
  /\ UNCHANGED <<clock, captures, runs, local, faults>>

\* _complete_link saves a new access token, for a new or a known institution.
SaveLink(i) ==
  /\ issued[i] < MaxToken
  /\ issued' = [issued EXCEPT ![i] = @ + 1]
  /\ UserEdit([state EXCEPT !.items[i] = [@ EXCEPT !.token = issued'[i], !.error = FALSE]])

\* _complete_link of a reconnection keeps the token and clears the error.
Reconnect(i) ==
  /\ i \in Linked(state)
  /\ UserEdit([state EXCEPT !.items[i].error = FALSE])
  /\ UNCHANGED issued

\* DISCONNECT removes the institution and its accounts.
Disconnect(i) ==
  /\ i \in Linked(state)
  /\ UserEdit([state EXCEPT !.items[i] = Unlinked, !.accounts[i] = None])
  /\ UNCHANGED issued

\* SAVE CLASSIFICATIONS, or a move between the buckets.
Classify(i) ==
  /\ state.accounts[i] # None
  /\ UserEdit([state EXCEPT !.excluded = IF i \in @ THEN @ \ {i} ELSE @ \cup {i}])
  /\ UNCHANGED issued

Tick ==
  /\ clock < MaxClock
  /\ clock' = clock + 1
  /\ UNCHANGED <<state, captures, issued, runs, local, fresh, late, edits, faults>>

Step(w) ==
  \/ ReadClaim(w) \/ ReadClaimBusy(w) \/ ReadClaimNothing(w)
  \/ ReadDay(w) \/ ReadRecover(w) \/ Fetch(w) \/ LeaseOver(w) \/ ReadApply(w)
  \/ Archive(w) \/ ArchiveFails(w) \/ Recheck(w) \/ ReadRelease(w) \/ ReadFails(w)
  \/ PutAccepted(w) \/ PutUnverified(w) \/ PutConflict(w) \/ PutLost(w)

Next ==
  \/ \E w \in Workers : sync_networth(w) \/ Step(w) \/ LatePutLands(w) \/ Crash(w)
  \/ \E i \in Items : SaveLink(i) \/ Reconnect(i) \/ Disconnect(i) \/ Classify(i)
  \/ Tick

Spec == Init /\ [][Next]_vars

-----------------------------------------------------------------------------
(* Properties                                                              *)

\* Every variable has its type; no update_state goes round MaxTries times and on.
TypeOK ==
  /\ clock \in Times
  /\ state \in Ledgers
  /\ captures \subseteq CaptureRecords
  /\ issued \in [Items -> Tokens]
  /\ pc \in [Workers -> {"idle", "claim", "day", "recover", "fetch", "apply", "archive", "recheck",
                         "release"} \cup Puts]
  /\ runs \in 0 .. MaxRuns
  /\ run \in [Workers -> 0 .. runs]
  /\ now \in [Workers -> Stamps]
  /\ slot \in [Workers -> Slots \cup {None}]
  /\ initial \in [Workers -> [tokens : [Items -> Tokens], until : Nat]]
  /\ claimed \in [Workers -> BOOLEAN]
  /\ tries \in [Workers -> 0 .. MaxTries - 1]
  /\ fresh \in [Workers -> BOOLEAN]
  /\ updated \in [Workers -> Ledgers \cup {None}]
  /\ fetched \in [Workers -> [Items -> Answers]]
  /\ capture \in [Workers -> CaptureRecords \cup {None}]
  /\ late \in [Workers -> Ledgers \cup {None}]
  /\ edits \in 0 .. MaxEdits
  /\ faults \in 0 .. MaxFaults

\* "archive before checkpointing": the ledger calls a slot completed, or a
\* capture its last, only when that capture is in the archive, and complete.
ArchivedBeforeCheckpoint ==
  /\ \A s \in state.done : \E c \in captures : c.slot = s /\ c.complete
  /\ state.lastCapture # None => state.lastCapture \in captures

\* Nothing sync does brings back the accounts of a disconnected institution.
NoResurrection == \A i \in Items : state.accounts[i] # None => i \in Linked(state)

\* Balances never go back in time: not for a run that was asked for earlier and
\* saves later, not for the recovery of an old capture.
BalancesNeverGoBack ==
  [][/\ state'.lastSync >= state.lastSync
     /\ \A i \in Linked(state) \cap Linked(state') :
          /\ state'.items[i].sync >= state.items[i].sync
          /\ state.accounts[i] # None => /\ state'.accounts[i] # None
                                         /\ state'.accounts[i].at >= state.accounts[i].at]_vars

\* What the user has linked, disconnected or classified survives every sync that
\* overlaps the edit, and a completed slot stays completed.
UserEditsSurvive ==
  [][/\ <<TokensOf(state), state.excluded>>' # <<TokensOf(state), state.excluded>> =>
          edits' = edits + 1
     /\ state.done \subseteq state'.done]_vars

\* Balances enter the ledger only under the lease of the run that read them.
OnlyTheOwnerSaves ==
  [][\A i \in Items : state'.accounts[i] # state.accounts[i] /\ state'.accounts[i] # None =>
       state.lease # None /\ \E w \in Workers :
         \/ state.lease.owner = run[w] /\ updated[w] = state'
         \/ late[w] = state']_vars

\* A worker that may still ask Plaid for a paid balance holds the lease of the
\* ledger, so no two workers may at once; and its slot is not completed yet.
PaidReadsExclusive ==
  \A w \in Workers : MayRead(w) =>
    /\ Holds(state, w)
    /\ slot[w] # None => slot[w] \notin state.done

\* What NETWORTH_SETUP.md says of a failed bank: a capture that calls itself
\* complete has a balance as recent as the run for every linked institution.
CompleteIsCurrent ==
  \A w \in Workers : pc[w] = "archive" /\ capture[w].complete =>
    \A i \in Items : updated[w].items[i].token # 0 => updated[w].items[i].sync >= now[w]
=============================================================================
