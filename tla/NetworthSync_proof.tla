------------------------- MODULE NetworthSync_proof -------------------------
(***************************************************************************)
(* Proofs about NetworthSync for any number of workers, institutions,      *)
(* slots, runs, edits and faults.                                          *)
(***************************************************************************)
EXTENDS NetworthSync, Integers, TLAPS

-----------------------------------------------------------------------------
(* Types                                                                   *)

Active(w) == pc[w] \notin {"idle", "release", "releasePut"}

\* What a run holds at each of its steps.
RunHolds ==
  \A w \in Workers :
    /\ pc[w] # "idle" => run[w] # 0
    /\ Active(w) => now[w] \in Times
    /\ pc[w] \in Puts \cup {"archive", "recheck"} => updated[w] # None
    /\ pc[w] = "claimPut" => updated[w].lease # None
    /\ pc[w] \in {"day", "recover", "recoverPut"} => slot[w] # None
    /\ pc[w] \in {"recover", "recoverPut", "archive"} => capture[w] # None

Typed == TypeOK /\ RunHolds

LEMMA StateType ==
  ASSUME TypeOK
  PROVE  /\ state.items \in [Items -> ItemRecords]
         /\ state.accounts \in [Items -> Rows]
         /\ state.excluded \in SUBSET Items
         /\ state.lease \in LeaseRecords \cup {None}
         /\ state.done \in SUBSET Slots
         /\ state.lastSync \in Stamps
         /\ state.lastCapture \in CaptureRecords \cup {None}
BY DEF TypeOK, Ledgers

LEMMA PutsAre == Puts = {"claimPut", "recoverPut", "applyPut", "releasePut"}
BY DEF Puts, ReadStep

LEMMA WithoutLeaseType == TypeOK => WithoutLease(state) \in Ledgers
BY StateType DEF WithoutLease, TypeOK, Ledgers

LEMMA ClaimType ==
  ASSUME TypeOK, NEW w \in Workers, run[w] # 0
  PROVE  claim(w) \in Ledgers /\ claim(w).lease # None
<1> DEFINE mine == [owner |-> run[w], until |-> clock + LeaseTTL]
<1>1. mine \in LeaseRecords
  BY SyncAssumption DEF TypeOK, Times, LeaseRecords
<1>2. mine # None
  BY <1>1, NoneAssumption
<1> QED
  BY <1>1, <1>2, StateType DEF claim, TypeOK, Ledgers

\* recover writes a ledger, with the slot of the run in done.
LEMMA RecoverType ==
  ASSUME TypeOK, NEW w \in Workers, slot[w] # None, NEW c \in CaptureRecords
  PROVE  recover(w, c) \in Ledgers
<1>1. /\ c.at \in Times /\ c.at \in Stamps /\ c.rows \in [Items -> Rows]
      /\ slot[w] \in Slots
  BY SyncAssumption DEF CaptureRecords, Times, Stamps, TypeOK
<1>2. ASSUME NEW i \in Items
      PROVE  [state.items[i] EXCEPT !.sync = c.at, !.attempt = c.at, !.error = FALSE] \in ItemRecords
  BY <1>1, StateType DEF ItemRecords
<1>3. [i \in Items |-> IF state.items[i].token = 0 THEN state.items[i]
                       ELSE [state.items[i] EXCEPT !.sync = c.at, !.attempt = c.at, !.error = FALSE]]
      \in [Items -> ItemRecords]
  BY <1>2, StateType
<1>4. [i \in Items |-> IF c.rows[i] = None THEN state.accounts[i] ELSE c.rows[i]] \in [Items -> Rows]
  BY <1>1, StateType
<1> QED
  BY <1>1, <1>3, <1>4, StateType DEF recover, TypeOK, Ledgers

\* What apply makes of each institution, of the rows and of the capture.
LEMMA AppliedTypes ==
  ASSUME TypeOK, NEW w \in Workers, now[w] \in Times
  PROVE  /\ AppliedItems(w) \in [Items -> ItemRecords]
         /\ AppliedRows(w) \in [Items -> Rows]
         /\ AppliedCapture(w) \in CaptureRecords
<1>0. now[w] \in Stamps
  BY SyncAssumption DEF Times, Stamps
<1>1. ASSUME NEW i \in Items PROVE AppliedItem(w, i) \in ItemRecords
  BY <1>0, StateType DEF AppliedItem, ItemRecords
<1>2. AppliedItems(w) \in [Items -> ItemRecords]
  BY <1>1 DEF AppliedItems
<1>3. ASSUME NEW i \in Items
      PROVE  [at |-> now[w], whole |-> fetched[w][i] = "whole"] \in Rows
  BY DEF Rows, RowRecords
<1>4. AppliedRows(w) \in [Items -> Rows]
  BY <1>3, StateType DEF AppliedRows
<1>5. AppliedCapture(w) \in CaptureRecords
  BY <1>4 DEF AppliedCapture, CaptureRecords, TypeOK
<1> QED BY <1>2, <1>4, <1>5

LEMMA ApplyType ==
  ASSUME TypeOK, NEW w \in Workers, now[w] \in Times
  PROVE  apply(w) \in Ledgers
<1>1. /\ now[w] \in Stamps
      /\ slot[w] # None => slot[w] \in Slots
  BY SyncAssumption DEF Times, Stamps, TypeOK
<1>2. AppliedCapture(w).rows \in [Items -> Rows]
  BY AppliedTypes DEF CaptureRecords
<1> QED
  BY <1>1, <1>2, AppliedTypes, StateType DEF apply, TypeOK, Ledgers

\* Nothing has happened yet.
LEMMA InitTyped == Init => Typed
<1> SUFFICES ASSUME Init PROVE Typed
  OBVIOUS
<1>1. /\ Unlinked \in ItemRecords
      /\ [Unlinked EXCEPT !.token = 1] \in ItemRecords
      /\ Unlinked.token \in Tokens /\ [Unlinked EXCEPT !.token = 1].token \in Tokens
  <2>1. 0 \in Tokens /\ 1 \in Tokens /\ 0 \in Stamps
    BY SyncAssumption DEF Tokens, Stamps
  <2> QED
    BY <2>1 DEF Unlinked, ItemRecords
<1>2. state \in Ledgers
  <2>1. /\ state.items \in [Items -> ItemRecords]
        /\ state.accounts = [i \in Items |-> None]
    BY <1>1 DEF Init
  <2> QED
    BY <2>1, SyncAssumption DEF Init, Ledgers, Rows, Stamps
<1>3. issued \in [Items -> Tokens]
  BY <1>1 DEF Init, TokensOf
<1>4. NoInitial \in [tokens : [Items -> Tokens], until : Nat]
  BY SyncAssumption DEF NoInitial, Tokens
<1>5. NoAnswers \in [Items -> Answers]
  BY DEF NoAnswers, Answers
<1>6. TypeOK
  BY <1>2, <1>3, <1>4, <1>5, SyncAssumption DEF Init, TypeOK, Times, Stamps
<1> QED
  BY <1>6, PutsAre DEF Init, Typed, RunHolds, Active

\* The state outside the runs is of its type after the step.
SharedTyped ==
  /\ clock' \in Times /\ state' \in Ledgers /\ captures' \subseteq CaptureRecords
  /\ issued' \in [Items -> Tokens] /\ runs' = runs
  /\ fresh' \in [Workers -> BOOLEAN] /\ late' \in [Workers -> Ledgers \cup {None}]
  /\ edits' \in 0 .. MaxEdits /\ faults' \in 0 .. MaxFaults

LEMMA ForgetTyped ==
  ASSUME Typed, NEW w \in Workers, pc[w] # "idle", SharedTyped,
         End(w) \/ Forget(w, "release", TRUE)
  PROVE  Typed'
<1>1. NoInitial \in [tokens : [Items -> Tokens], until : Nat]
  BY SyncAssumption DEF NoInitial, Tokens
<1>2. NoAnswers \in [Items -> Answers]
  BY DEF NoAnswers, Answers
<1>3. PICK step \in {"idle", "release"}, has \in BOOLEAN :
        Forget(w, step, has) /\ (has <=> step = "release")
  BY DEF End
<1>4. TypeOK'
  BY <1>1, <1>2, <1>3, SyncAssumption DEF Forget, Goto, SharedTyped, Typed, TypeOK, Stamps
<1> QED
  BY <1>3, <1>4, PutsAre DEF Forget, Goto, Typed, TypeOK, RunHolds, Active

LEMMA RaiseTyped ==
  ASSUME Typed, NEW w \in Workers, pc[w] # "idle", SharedTyped, Raise(w)
  PROVE  Typed'
BY ForgetTyped, Zenon DEF Raise

\* A step of the run w that moves pc[w] and, it may be, its document.
LEMMA PrepareTyped ==
  ASSUME Typed, NEW w \in Workers, NEW step \in Puts \cup {"archive"}, NEW d \in Ledgers,
         Active(w) \/ step = "releasePut", pc[w] # "idle",
         step = "claimPut" => d.lease # None,
         step = "recoverPut" => slot[w] # None /\ capture'[w] # None,
         step = "archive" => capture'[w] # None,
         capture' = [capture EXCEPT ![w] = capture'[w]],
         capture'[w] \in CaptureRecords \cup {None},
         claimed' \in [Workers -> BOOLEAN],
         Prepare(w, step, d),
         UNCHANGED <<clock, state, captures, issued, runs, run, now, slot, initial, tries, fetched,
                     late, edits, faults>>
  PROVE  Typed'
<1>1. d # None
  BY NoneAssumption
<1>2. TypeOK'
  BY PutsAre DEF Prepare, Goto, Typed, TypeOK
<1> QED
  BY <1>1, <1>2, PutsAre DEF Prepare, Goto, Typed, TypeOK, RunHolds, Active

\* An edit of the user, or a PUT that lands: only the ledger changes.
LEMMA CommitTyped ==
  ASSUME Typed, NEW d \in Ledgers, Commit(d), issued' \in [Items -> Tokens],
         edits' \in 0 .. MaxEdits, UNCHANGED <<clock, captures, runs, faults, local>>
  PROVE  Typed'
<1>1. TypeOK'
  BY DEF Commit, Typed, TypeOK, local
<1> QED BY <1>1, PutsAre DEF Typed, RunHolds, Active, local

\* _complete_link, DISCONNECT and SAVE CLASSIFICATIONS write ledgers.
LEMMA EditTyped ==
  ASSUME Typed, NEW i \in Items, SaveLink(i) \/ Reconnect(i) \/ Disconnect(i) \/ Classify(i)
  PROVE  Typed'
<1>0. edits < MaxEdits /\ edits' = edits + 1 => edits' \in 0 .. MaxEdits
  BY SyncAssumption DEF Typed, TypeOK
<1>u. Unlinked \in ItemRecords
  <2>1. 0 \in Tokens /\ 0 \in Stamps
    BY SyncAssumption DEF Tokens, Stamps
  <2> QED BY <2>1 DEF Unlinked, ItemRecords
<1>1. CASE SaveLink(i)
  <2>1. issued' = [issued EXCEPT ![i] = @ + 1] /\ issued'[i] \in Tokens
        /\ issued' \in [Items -> Tokens]
    BY <1>1, SyncAssumption DEF SaveLink, Typed, TypeOK, Tokens
  <2>2. [state EXCEPT !.items[i] = [@ EXCEPT !.token = issued'[i], !.error = FALSE]] \in Ledgers
    <3>1. [state.items[i] EXCEPT !.token = issued'[i], !.error = FALSE] \in ItemRecords
      BY <2>1, StateType DEF Typed, ItemRecords
    <3> QED BY <3>1, StateType DEF Typed, TypeOK, Ledgers
  <2> QED BY <1>0, <1>1, <2>1, <2>2, CommitTyped DEF SaveLink, UserEdit
<1>2. CASE Reconnect(i)
  <2>1. [state EXCEPT !.items[i].error = FALSE] \in Ledgers
    <3>1. [state.items[i] EXCEPT !.error = FALSE] \in ItemRecords
      BY StateType DEF Typed, ItemRecords
    <3> QED BY <3>1, StateType DEF Typed, TypeOK, Ledgers
  <2> QED BY <1>0, <1>2, <2>1, CommitTyped DEF Reconnect, UserEdit, Typed, TypeOK
<1>3. CASE Disconnect(i)
  <2>1. [state EXCEPT !.items[i] = Unlinked, !.accounts[i] = None] \in Ledgers
    BY <1>u, StateType DEF Typed, TypeOK, Ledgers, Rows
  <2> QED BY <1>0, <1>3, <2>1, CommitTyped DEF Disconnect, UserEdit, Typed, TypeOK
<1>4. CASE Classify(i)
  <2>1. [state EXCEPT !.excluded = IF i \in @ THEN @ \ {i} ELSE @ \cup {i}] \in Ledgers
    BY StateType DEF Typed, TypeOK, Ledgers
  <2> QED BY <1>0, <1>4, <2>1, CommitTyped DEF Classify, UserEdit, Typed, TypeOK
<1> QED BY <1>1, <1>2, <1>3, <1>4

LEMMA NextTyped == Typed /\ [Next]_vars => Typed'
<1> SUFFICES ASSUME Typed, [Next]_vars PROVE Typed'
  OBVIOUS
<1>f. Fault => faults' \in 0 .. MaxFaults
  BY SyncAssumption DEF Fault, Typed, TypeOK
<1>u. ASSUME NEW w \in Workers, Unread(w) PROVE fresh' \in [Workers -> BOOLEAN]
  BY <1>u DEF Unread, Typed, TypeOK
<1>l. ASSUME NEW w \in Workers, NEW free \in BOOLEAN,
             late' = [late EXCEPT ![w] = IF free THEN updated[w] ELSE @]
      PROVE  late' \in [Workers -> Ledgers \cup {None}]
  BY <1>l DEF Typed, TypeOK
<1>1. ASSUME NEW w \in Workers, sync_networth(w) PROVE Typed'
  <2>1. /\ runs' = runs + 1 /\ runs' \in 0 .. MaxRuns /\ run' = [run EXCEPT ![w] = runs']
        /\ now' = [now EXCEPT ![w] = clock] /\ Goto(w, "claim")
        /\ UNCHANGED <<clock, state, captures, issued, initial, claimed, tries, fresh, updated, fetched,
                       capture, late, edits, faults>>
    BY <1>1, SyncAssumption DEF sync_networth, Typed, TypeOK
  <2>2. slot' \in [Workers -> Slots \cup {None}]
        /\ \A v \in Workers : v # w => slot'[v] = slot[v]
    BY <1>1 DEF sync_networth, scheduled_slot, Typed, TypeOK
  <2>3. run' \in [Workers -> 0 .. runs']
    BY <2>1 DEF Typed, TypeOK
  <2>4. clock \in Times /\ clock \in Stamps
    BY SyncAssumption DEF Typed, TypeOK, Times, Stamps
  <2>5. TypeOK'
    BY <2>1, <2>2, <2>3, <2>4, Zenon DEF Goto, Typed, TypeOK
  <2> QED
    BY <2>1, <2>2, <2>4, <2>5, PutsAre DEF Goto, Typed, TypeOK, RunHolds, Active
<1>2. ASSUME NEW w \in Workers, ReadClaim(w) PROVE Typed'
  <2>1. claim(w) \in Ledgers /\ claim(w).lease # None
    BY <1>2, ClaimType DEF ReadClaim, Typed, RunHolds
  <2> QED
    BY <1>2, <2>1, PutsAre, PrepareTyped DEF ReadClaim, Typed, TypeOK, Active
<1>3. ASSUME NEW w \in Workers, ReadClaimBusy(w) \/ ReadClaimNothing(w) PROVE Typed'
  BY <1>3, ForgetTyped, RaiseTyped DEF ReadClaimBusy, ReadClaimNothing, SharedTyped, Typed, TypeOK
<1>4. ASSUME NEW w \in Workers, ReadDay(w) PROVE Typed'
  <2>1. /\ pc[w] = "day" /\ (Goto(w, "fetch") \/ Goto(w, "recover"))
        /\ UNCHANGED <<clock, state, captures, issued, runs, run, now, slot, initial, claimed, tries,
                       fresh, updated, fetched, late, edits, faults>>
    BY <1>4 DEF ReadDay
  <2>2. CASE UNCHANGED capture /\ Goto(w, "fetch")
    <3>1. TypeOK' BY <2>1, <2>2 DEF Goto, Typed, TypeOK
    <3> QED BY <2>1, <2>2, <3>1, PutsAre DEF Goto, Typed, TypeOK, RunHolds, Active
  <2>3. CASE \E c \in captures : capture' = [capture EXCEPT ![w] = c] /\ Goto(w, "recover")
    <3>1. PICK c \in CaptureRecords : capture' = [capture EXCEPT ![w] = c] /\ Goto(w, "recover")
      BY <2>3 DEF Typed, TypeOK
    <3>2. c # None
      BY NoneAssumption
    <3>3. TypeOK' BY <2>1, <3>1 DEF Goto, Typed, TypeOK
    <3> QED BY <2>1, <3>1, <3>2, <3>3, PutsAre DEF Goto, Typed, TypeOK, RunHolds, Active
  <2> QED BY <1>4, <2>2, <2>3 DEF ReadDay
<1>5. ASSUME NEW w \in Workers, ReadRecover(w) PROVE Typed'
  <2>1. capture[w] \in CaptureRecords /\ slot[w] # None /\ capture[w] # None
    BY <1>5 DEF ReadRecover, Typed, TypeOK, RunHolds
  <2>2. WithoutLease(state) \in Ledgers /\ recover(w, capture[w]) \in Ledgers
    BY <2>1, RecoverType, WithoutLeaseType DEF Typed
  <2>3. \E d \in Ledgers : Prepare(w, "recoverPut", d)
    BY <1>5, <2>2 DEF ReadRecover
  <2> QED
    BY <1>5, <2>1, <2>3, PutsAre, PrepareTyped DEF ReadRecover, Typed, TypeOK, Active
<1>6. ASSUME NEW w \in Workers, Fetch(w) PROVE Typed'
  <2>1. fetched' \in [Workers -> [Items -> Answers]]
    <3>1. PICK i \in Items, answer \in {"whole", "missing", "error"} :
            fetched' = [fetched EXCEPT ![w][i] = answer]
      BY <1>6 DEF Fetch, Unfetched
    <3>2. [fetched[w] EXCEPT ![i] = answer] \in [Items -> Answers]
      BY DEF Answers, Typed, TypeOK
    <3> QED BY <3>1, <3>2 DEF Typed, TypeOK
  <2>2. /\ pc[w] = "fetch" /\ (Goto(w, "fetch") \/ Goto(w, "apply"))
        /\ UNCHANGED <<clock, state, captures, issued, runs, run, now, slot, initial, claimed, tries,
                       fresh, updated, capture, late, edits, faults>>
    BY <1>6 DEF Fetch, MayRead
  <2>3. TypeOK' BY <2>1, <2>2 DEF Goto, Typed, TypeOK
  <2> QED BY <2>2, <2>3, PutsAre DEF Goto, Typed, TypeOK, RunHolds, Active
<1>7. ASSUME NEW w \in Workers, LeaseOver(w) PROVE Typed'
  BY <1>7, <1>u, RaiseTyped DEF LeaseOver, SharedTyped, Typed, TypeOK
<1>8. ASSUME NEW w \in Workers, ReadApply(w) PROVE Typed'
  <2>1. now[w] \in Times
    BY <1>8 DEF ReadApply, Typed, RunHolds, Active
  <2>2. /\ WithoutLease(state) \in Ledgers /\ apply(w) \in Ledgers
        /\ AppliedCapture(w) \in CaptureRecords /\ AppliedCapture(w) # None
    BY <2>1, ApplyType, AppliedTypes, WithoutLeaseType, NoneAssumption DEF Typed
  <2>3. CASE Prepare(w, "applyPut", WithoutLease(state)) /\ UNCHANGED capture
    BY <1>8, <2>2, <2>3, PutsAre, PrepareTyped DEF ReadApply, Typed, TypeOK, Active
  <2>4. CASE Prepare(w, "archive", apply(w)) /\ capture' = [capture EXCEPT ![w] = AppliedCapture(w)]
    BY <1>8, <2>2, <2>4, PutsAre, PrepareTyped DEF ReadApply, Typed, TypeOK, Active
  <2> QED BY <1>8, <2>3, <2>4 DEF ReadApply
<1>9. ASSUME NEW w \in Workers, Archive(w) PROVE Typed'
  <2>1. captures' \subseteq CaptureRecords
    BY <1>9 DEF Archive, Typed, TypeOK, RunHolds
  <2>2. TypeOK' BY <1>9, <2>1 DEF Archive, Goto, Typed, TypeOK
  <2> QED BY <1>9, <2>2, PutsAre DEF Archive, Goto, Typed, TypeOK, RunHolds, Active
<1>10. ASSUME NEW w \in Workers, ArchiveFails(w) PROVE Typed'
  <2>1. captures' \subseteq CaptureRecords
    BY <1>10 DEF ArchiveFails, Typed, TypeOK, RunHolds
  <2> QED BY <1>10, <2>1, <1>f, <1>u, RaiseTyped DEF ArchiveFails, SharedTyped, Typed, TypeOK
<1>11. ASSUME NEW w \in Workers, Recheck(w) PROVE Typed'
  <2>1. TypeOK' BY <1>11, PutsAre DEF Recheck, Goto, Typed, TypeOK
  <2> QED BY <1>11, <2>1, PutsAre DEF Recheck, Goto, Typed, TypeOK, RunHolds, Active
<1>12. ASSUME NEW w \in Workers, ReadRelease(w) PROVE Typed'
  <2>1. CASE Prepare(w, "releasePut", WithoutLease(state))
             /\ UNCHANGED <<run, now, slot, initial, claimed, tries, fetched, capture>>
    BY <1>12, <2>1, WithoutLeaseType, PutsAre, PrepareTyped DEF ReadRelease, Typed, TypeOK
  <2>2. CASE End(w) /\ UNCHANGED fresh
    BY <1>12, <2>2, ForgetTyped DEF ReadRelease, SharedTyped, Typed, TypeOK
  <2> QED BY <1>12, <2>1, <2>2 DEF ReadRelease
<1>13. ASSUME NEW w \in Workers, ReadFails(w) PROVE Typed'
  BY <1>13, <1>f, RaiseTyped DEF ReadFails, SharedTyped, Typed, TypeOK
<1>c. ASSUME NEW w \in Workers, pc[w] \in Puts, Commit(updated[w])
      PROVE  /\ updated[w] \in Ledgers
             /\ state' \in Ledgers
             /\ fresh' \in [Workers -> BOOLEAN]
             /\ late' \in [Workers -> Ledgers \cup {None}]
  BY <1>c DEF Commit, Typed, TypeOK, RunHolds
<1>14. ASSUME NEW w \in Workers, PutAccepted(w) PROVE Typed'
  <2>1. CASE pc[w] = "claimPut"
    <3>1. updated[w] \in Ledgers /\ updated[w].lease \in LeaseRecords
      BY <1>14, <1>c, <2>1 DEF PutAccepted, Typed, RunHolds, Ledgers
    <3>2. TokensOf(updated[w]) \in [Items -> Tokens] /\ updated[w].lease.until \in Nat
      BY <3>1 DEF TokensOf, Ledgers, ItemRecords, LeaseRecords
    <3>3. Owned(w) /\ Commit(updated[w]) /\ UNCHANGED <<clock, captures, issued, runs, edits, faults>>
      BY <1>14, <2>1 DEF PutAccepted
    <3>4. TypeOK'
      BY <1>14, <1>c, <3>2, <3>3, SyncAssumption DEF PutAccepted, Owned, Goto, Typed, TypeOK
    <3> QED BY <2>1, <3>3, <3>4, PutsAre DEF Owned, Goto, Typed, TypeOK, RunHolds, Active
  <2>2. CASE pc[w] # "claimPut"
    BY <1>14, <1>c, <2>2, PutsAre, ForgetTyped DEF PutAccepted, SharedTyped, Typed, TypeOK
  <2> QED BY <2>1, <2>2
<1>15. ASSUME NEW w \in Workers, PutUnverified(w) PROVE Typed'
  BY <1>15, <1>c, <1>f, PutsAre, RaiseTyped DEF PutUnverified, SharedTyped, Typed, TypeOK
<1>16. ASSUME NEW w \in Workers, PutConflict(w) PROVE Typed'
  <2>1. /\ pc[w] \in Puts /\ Unread(w) /\ faults' \in 0 .. MaxFaults
        /\ UNCHANGED <<clock, state, captures, issued, runs, late, edits>>
    BY <1>16, <1>f DEF PutConflict, Typed, TypeOK
  <2>2. CASE ~ LastRound(w)
    <3>1. /\ tries' = [tries EXCEPT ![w] = @ + 1]
          /\ updated' = [updated EXCEPT ![w] = None]
          /\ capture' = [capture EXCEPT ![w] = IF pc[w] = "applyPut" THEN None ELSE @]
          /\ Goto(w, ReadStep[pc[w]])
          /\ UNCHANGED <<run, now, slot, initial, claimed, fetched>>
      BY <1>16, <2>2 DEF PutConflict
    <3>2. tries' \in [Workers -> 0 .. MaxTries - 1]
      <4>1. MaxTries \in Nat /\ tries \in [Workers -> 0 .. MaxTries - 1] /\ tries[w] + 1 # MaxTries
        BY <2>2, SyncAssumption DEF LastRound, Typed, TypeOK
      <4>2. tries[w] + 1 \in 0 .. MaxTries - 1
        BY <4>1
      <4> QED BY <3>1, <4>1, <4>2
    <3>3. \/ pc[w] = "claimPut" /\ ReadStep[pc[w]] = "claim"
          \/ pc[w] = "recoverPut" /\ ReadStep[pc[w]] = "recover"
          \/ pc[w] = "applyPut" /\ ReadStep[pc[w]] = "apply"
          \/ pc[w] = "releasePut" /\ ReadStep[pc[w]] = "release"
      BY <2>1, PutsAre DEF ReadStep
    <3>4. TypeOK'
      BY <2>1, <1>u, <3>1, <3>2, <3>3 DEF Goto, Typed, TypeOK
    <3> QED BY <2>1, <3>1, <3>3, <3>4, PutsAre DEF Goto, Typed, TypeOK, RunHolds, Active
  <2>3. CASE LastRound(w)
    BY <1>16, <2>1, <2>3, <1>u, PutsAre, RaiseTyped DEF PutConflict, SharedTyped, Typed, TypeOK
  <2> QED BY <2>2, <2>3
<1>17. ASSUME NEW w \in Workers, PutLost(w) PROVE Typed'
  <2>1. late' \in [Workers -> Ledgers \cup {None}]
    BY <1>17, <1>l DEF PutLost, Typed, TypeOK
  <2> QED BY <1>17, <2>1, <1>f, <1>u, PutsAre, RaiseTyped DEF PutLost, SharedTyped, Typed, TypeOK
<1>18. ASSUME NEW w \in Workers, LatePutLands(w) PROVE Typed'
  BY <1>18, CommitTyped DEF LatePutLands, Typed, TypeOK
<1>19. ASSUME NEW w \in Workers, Crash(w) PROVE Typed'
  <2>1. late' \in [Workers -> Ledgers \cup {None}]
    BY <1>19 DEF Crash, Typed, TypeOK
  <2>2. captures' \subseteq CaptureRecords
    BY <1>19 DEF Crash, Typed, TypeOK, RunHolds
  <2> QED BY <1>19, <2>1, <2>2, <1>f, <1>u, ForgetTyped DEF Crash, SharedTyped, Typed, TypeOK
<1>20. ASSUME Tick PROVE Typed'
  <2>1. clock' \in Times
    BY <1>20, SyncAssumption DEF Tick, Typed, TypeOK, Times
  <2>2. TypeOK' BY <1>20, <2>1 DEF Tick, local, Typed, TypeOK
  <2> QED BY <1>20, <2>2, PutsAre DEF Tick, local, Typed, RunHolds, Active
<1>21. CASE UNCHANGED vars
  <2>1. TypeOK' BY <1>21 DEF vars, local, Typed, TypeOK
  <2> QED BY <1>21, <2>1, PutsAre DEF vars, local, Typed, RunHolds, Active
<1> QED
  BY <1>1, <1>2, <1>3, <1>4, <1>5, <1>6, <1>7, <1>8, <1>9, <1>10, <1>11, <1>12, <1>13, <1>14,
     <1>15, <1>16, <1>17, <1>18, <1>19, <1>20, <1>21, EditTyped DEF Next, Step

\* Every variable keeps its type, and no call has more than MaxTries rounds.
THEOREM TypeCorrect == Spec => []TypeOK
<1>1. Init => Typed BY InitTyped
<1>2. Typed /\ [Next]_vars => Typed' BY NextTyped
<1> QED BY <1>1, <1>2, PTL DEF Spec, Typed

-----------------------------------------------------------------------------
(* The inductive invariant behind the safety properties.  What lands in    *)
(* the ledger was computed from the head it replaces, so it is enough to   *)
(* say of every document that can still land how it relates to the head.   *)

\* Balances, attempts and rows are no newer than the last sync, and an
\* institution that is not linked has no rows.
Ages(s) ==
  \A i \in Items :
    /\ s.items[i].sync <= s.lastSync
    /\ s.items[i].attempt <= s.lastSync
    /\ s.accounts[i] # None => s.items[i].token # 0 /\ s.accounts[i].at <= s.items[i].sync

\* What a sync may write over the head.
Successor(d) ==
  /\ TokensOf(d) = TokensOf(state)
  /\ d.excluded = state.excluded
  /\ state.done \subseteq d.done
  /\ d.lastSync >= state.lastSync
  /\ \A i \in Items :
       /\ d.items[i].sync >= state.items[i].sync
       /\ state.accounts[i] # None =>
            d.accounts[i] # None /\ d.accounts[i].at >= state.accounts[i].at
  /\ Ages(d)

\* A complete capture that the ledger is not newer than has only rows of its own
\* time: recovering it cannot bring an older balance back.
Whole(c) ==
  c.complete /\ c.at >= state.lastSync => \A i \in Items : c.rows[i] # None => c.rows[i].at = c.at

\* What the ledger d says is archived is among the captures.
Checkpointed(d, archived) ==
  /\ \A s \in d.done : \E c \in archived : c.slot = s /\ c.complete
  /\ d.lastCapture # None => d.lastCapture \in archived

RunSafe(w) ==
  /\ capture[w] # None => Whole(capture[w])
  /\ pc[w] \in {"recover", "recoverPut"} => capture[w] \in captures /\ Recoverable(w, capture[w])
  /\ fresh[w] /\ updated[w] # None => Successor(updated[w])
  /\ pc[w] = "archive" => Checkpointed(updated[w], captures \cup {capture[w]})
  /\ pc[w] \in Puts \cup {"recheck"} => Checkpointed(updated[w], captures)
  /\ late[w] # None => Successor(late[w]) /\ Checkpointed(late[w], captures)

Safe ==
  /\ Ages(state)
  /\ Checkpointed(state, captures)
  /\ \A c \in captures : Whole(c)
  /\ \A w \in Workers : RunSafe(w)

\* Times, and the types of the ages in a ledger, are numbers.
LEMMA AgesAreNumbers ==
  ASSUME NEW d \in Ledgers
  PROVE  /\ d.lastSync \in Int
         /\ \A i \in Items :
              /\ d.items[i] \in ItemRecords /\ d.accounts[i] \in Rows
              /\ d.items[i].sync \in Int /\ d.items[i].attempt \in Int
              /\ d.accounts[i] # None => d.accounts[i].at \in Int
<1>1. /\ d.lastSync \in Stamps
      /\ \A i \in Items : d.items[i] \in ItemRecords /\ d.accounts[i] \in Rows
  BY DEF Ledgers
<1>2. Stamps \subseteq Int /\ Times \subseteq Int
  BY SyncAssumption DEF Stamps, Times
<1> QED
  BY <1>1, <1>2 DEF ItemRecords, Rows, RowRecords

\* claim and release only write the lease.
LEMMA LeaseSuccessor ==
  ASSUME TypeOK, Ages(state), Checkpointed(state, captures), NEW lease
  PROVE  /\ Successor([state EXCEPT !.lease = lease])
         /\ Checkpointed([state EXCEPT !.lease = lease], captures)
<1> DEFINE d == [state EXCEPT !.lease = lease]
<1>1. state \in Ledgers
  BY DEF TypeOK
<1>2. /\ d.items = state.items /\ d.accounts = state.accounts /\ d.excluded = state.excluded
      /\ d.done = state.done /\ d.lastSync = state.lastSync /\ d.lastCapture = state.lastCapture
  BY <1>1 DEF Ledgers
<1> HIDE DEF d
<1>3. Successor(d)
  BY <1>1, <1>2, AgesAreNumbers DEF Successor, Ages, TokensOf
<1>4. Checkpointed(d, captures)
  BY <1>2 DEF Checkpointed
<1> QED BY <1>3, <1>4 DEF d

\* recover writes the archived capture, unless the ledger is newer.
LEMMA RecoverSuccessor ==
  ASSUME Typed, Ages(state), Checkpointed(state, captures), NEW w \in Workers,
         pc[w] = "recover", NEW c \in captures, Recoverable(w, c), Whole(c), SameItems(w)
  PROVE  Successor(recover(w, c)) /\ Checkpointed(recover(w, c), captures)
<1> DEFINE d == recover(w, c)
<1>0. state \in Ledgers /\ c \in CaptureRecords /\ slot[w] \in Slots
  BY DEF Typed, TypeOK, RunHolds
<1>1. /\ c.at \in Int /\ c.rows \in [Items -> Rows] /\ c.complete /\ c.slot = slot[w]
      /\ \A i \in Items : c.rows[i] # None <=> state.items[i].token # 0
  BY <1>0, SyncAssumption DEF CaptureRecords, Times, Recoverable, SameItems, TokensOf
<1>2. CASE Superseded(c)
  <2>1. /\ d.items = state.items /\ d.accounts = state.accounts /\ d.excluded = state.excluded
        /\ d.done = state.done \cup {slot[w]} /\ d.lastSync = state.lastSync
        /\ d.lastCapture = state.lastCapture
    BY <1>0, <1>2 DEF recover, Ledgers
  <2> HIDE DEF d
  <2>2. Successor(d)
    BY <1>0, <2>1, AgesAreNumbers DEF Successor, Ages, TokensOf
  <2>3. Checkpointed(d, captures)
    BY <1>1, <2>1 DEF Checkpointed
  <2> QED BY <2>2, <2>3 DEF d
<1>3. CASE ~ Superseded(c)
  <2>1. /\ d.items = [i \in Items |->
                       IF state.items[i].token = 0 THEN state.items[i]
                       ELSE [state.items[i] EXCEPT !.sync = c.at, !.attempt = c.at, !.error = FALSE]]
        /\ d.accounts = [i \in Items |-> IF c.rows[i] = None THEN state.accounts[i] ELSE c.rows[i]]
        /\ d.excluded = state.excluded
        /\ d.done = state.done \cup {slot[w]} /\ d.lastSync = c.at /\ d.lastCapture = c
    BY <1>0, <1>3 DEF recover, Ledgers
  <2> HIDE DEF d
  <2>2. state.lastSync <= c.at /\ \A i \in Items : c.rows[i] # None => c.rows[i].at = c.at
    BY <1>0, <1>1, <1>3, AgesAreNumbers DEF Superseded, Whole
  <2>3. ASSUME NEW i \in Items
        PROVE  /\ d.items[i].token = state.items[i].token
               /\ d.items[i].sync = IF state.items[i].token = 0 THEN state.items[i].sync ELSE c.at
               /\ d.items[i].attempt = IF state.items[i].token = 0 THEN state.items[i].attempt ELSE c.at
    <3>1. state.items[i] \in ItemRecords
      BY <1>0, AgesAreNumbers
    <3>2. d.items[i] = IF state.items[i].token = 0 THEN state.items[i]
                       ELSE [state.items[i] EXCEPT !.sync = c.at, !.attempt = c.at, !.error = FALSE]
      BY <2>1
    <3> QED BY <3>1, <3>2 DEF ItemRecords
  <2>n. /\ state.lastSync \in Int
        /\ \A i \in Items :
             /\ state.items[i].sync \in Int /\ state.items[i].attempt \in Int
             /\ state.accounts[i] # None => state.accounts[i].at \in Int
    BY <1>0, AgesAreNumbers
  <2>r. ASSUME NEW i \in Items
        PROVE  d.accounts[i] = IF state.items[i].token = 0 THEN state.accounts[i] ELSE c.rows[i]
    <3>1. d.accounts[i] = IF c.rows[i] = None THEN state.accounts[i] ELSE c.rows[i]
      BY <2>1
    <3>2. (c.rows[i] = None) = (state.items[i].token = 0)
      BY <1>1
    <3> QED BY <3>1, <3>2
  <2>4. Ages(d)
    <3> SUFFICES ASSUME NEW i \in Items
                 PROVE  /\ d.items[i].sync <= c.at /\ d.items[i].attempt <= c.at
                        /\ d.accounts[i] # None =>
                             d.items[i].token # 0 /\ d.accounts[i].at <= d.items[i].sync
      BY <2>1 DEF Ages
    <3>1. CASE state.items[i].token = 0
      BY <1>1, <2>2, <2>3, <2>n, <2>r, <3>1 DEF Ages
    <3>2. CASE state.items[i].token # 0
      <4>1. c.rows[i] # None /\ c.rows[i].at = c.at /\ d.accounts[i] = c.rows[i]
        BY <1>1, <2>2, <2>r, <3>2
      <4> QED BY <1>1, <2>3, <3>2, <4>1
    <3> QED BY <3>1, <3>2
  <2>5. TokensOf(d) = TokensOf(state)
    BY <2>3 DEF TokensOf
  <2>s. ASSUME NEW i \in Items
        PROVE  /\ d.items[i].sync >= state.items[i].sync
               /\ state.accounts[i] # None =>
                    d.accounts[i] # None /\ d.accounts[i].at >= state.accounts[i].at
    BY <1>1, <2>2, <2>3, <2>n, <2>r DEF Ages
  <2>6. Successor(d)
    BY <2>1, <2>2, <2>4, <2>5, <2>s, <2>n, <1>1 DEF Successor
  <2>7. Checkpointed(d, captures)
    BY <1>1, <2>1 DEF Checkpointed
  <2> QED BY <2>6, <2>7 DEF d
<1> QED BY <1>2, <1>3

\* What apply archives is whole, and what it writes is a successor once the
\* capture is archived.
LEMMA ApplySuccessor ==
  ASSUME Typed, Ages(state), Checkpointed(state, captures), NEW w \in Workers, pc[w] = "apply"
  PROVE  /\ Whole(AppliedCapture(w))
         /\ Successor(apply(w))
         /\ Checkpointed(apply(w), captures \cup {AppliedCapture(w)})
<1> DEFINE c == AppliedCapture(w)
           d == apply(w)
<1>0. state \in Ledgers /\ now[w] \in Times /\ now[w] \in Int /\ fetched[w] \in [Items -> Answers]
  <2>1. state \in Ledgers /\ fetched[w] \in [Items -> Answers]
    BY DEF Typed, TypeOK
  <2>2. now[w] \in Times
    BY DEF Typed, RunHolds, Active
  <2> QED BY <2>1, <2>2 DEF Times
<1>n. /\ state.lastSync \in Int
      /\ \A i \in Items :
           /\ state.items[i] \in ItemRecords
           /\ state.items[i].sync \in Int /\ state.items[i].attempt \in Int
           /\ state.accounts[i] # None => state.accounts[i].at \in Int
  BY <1>0, AgesAreNumbers
<1>1. /\ c.at = now[w] /\ c.slot = slot[w] /\ c.rows = AppliedRows(w)
      /\ c.complete => \A i \in Linked(state) : ~ AppliedItem(w, i).error
  BY DEF AppliedCapture
<1>2. ASSUME NEW i \in Items
      PROVE  AppliedRows(w)[i] = IF Replaced(w, i) THEN [at |-> now[w], whole |-> fetched[w][i] = "whole"]
                                 ELSE state.accounts[i]
  BY DEF AppliedRows
<1>3. ASSUME NEW i \in Items
      PROVE  /\ AppliedItem(w, i).token = state.items[i].token
             /\ AppliedItem(w, i).sync = IF Replaced(w, i) THEN now[w] ELSE state.items[i].sync
             /\ AppliedItem(w, i).attempt \in {now[w], state.items[i].attempt}
             /\ Replaced(w, i) => state.items[i].token # 0 /\ state.items[i].sync <= now[w]
             /\ state.items[i].token # 0 /\ ~ Replaced(w, i) /\ ~ AppliedItem(w, i).error =>
                  state.items[i].sync > now[w] \/ state.items[i].attempt > now[w]
  <2>1. state.items[i] \in ItemRecords /\ state.items[i].sync \in Int
    BY <1>n
  <2>2. Replaced(w, i) => i \in Linked(state) /\ ~ Unsynced(w, i) /\ ~ Outdone(w, i)
    BY DEF Replaced
  <2>3. i \in Linked(state) <=> state.items[i].token # 0
    BY DEF Linked
  <2> QED
    BY <1>0, <2>1, <2>2, <2>3 DEF AppliedItem, Outdone, ItemRecords
<1>4. Whole(c)
  <2> SUFFICES ASSUME c.complete, c.at >= state.lastSync, NEW i \in Items, c.rows[i] # None
               PROVE  c.rows[i].at = c.at
    BY DEF Whole
  <2>1. CASE Replaced(w, i)
    <3>1. c.rows[i] = [at |-> now[w], whole |-> fetched[w][i] = "whole"]
      BY <1>1, <1>2, <2>1
    <3> QED BY <1>1, <3>1
  <2>2. CASE ~ Replaced(w, i)
    <3>1. state.accounts[i] # None /\ state.items[i].token # 0
      BY <1>1, <1>2, <2>2 DEF Ages
    <3>2. ~ AppliedItem(w, i).error
      BY <1>1, <3>1 DEF Linked
    <3> QED
      BY <1>0, <1>n, <1>1, <1>3, <2>2, <3>1, <3>2 DEF Ages
  <2> QED BY <2>1, <2>2
<1>5. /\ d.items = AppliedItems(w) /\ d.accounts = AppliedRows(w) /\ d.excluded = state.excluded
      /\ d.done \in {state.done, state.done \cup {slot[w]}}
      /\ d.done # state.done => c.complete
      /\ \/ state.lastSync > now[w] /\ d.lastSync = state.lastSync /\ d.lastCapture = state.lastCapture
         \/ ~ (state.lastSync > now[w]) /\ d.lastSync = now[w] /\ d.lastCapture = c
  BY <1>0, <1>1 DEF apply, Ledgers
<1> HIDE DEF c, d
<1>6. ASSUME NEW i \in Items PROVE d.items[i] = AppliedItem(w, i)
  BY <1>5 DEF AppliedItems
<1>7. TokensOf(d) = TokensOf(state)
  BY <1>3, <1>6 DEF TokensOf
<1>r. ASSUME NEW i \in Items
      PROVE  /\ Replaced(w, i) => d.accounts[i] # None /\ d.accounts[i].at = now[w]
             /\ ~ Replaced(w, i) => d.accounts[i] = state.accounts[i]
  <2>1. [at |-> now[w], whole |-> fetched[w][i] = "whole"] \in RowRecords
    BY <1>0 DEF RowRecords
  <2>2. [at |-> now[w], whole |-> fetched[w][i] = "whole"] # None
    BY <2>1, NoneAssumption
  <2>3. d.accounts[i] = AppliedRows(w)[i]
    BY <1>5
  <2>4. CASE Replaced(w, i)
    <3>1. d.accounts[i] = [at |-> now[w], whole |-> fetched[w][i] = "whole"]
      BY <1>2, <2>3, <2>4
    <3> QED BY <2>2, <2>4, <3>1
  <2>5. CASE ~ Replaced(w, i)
    BY <1>2, <2>3, <2>5
  <2> QED BY <2>4, <2>5
<1>8. Ages(d)
  BY <1>0, <1>n, <1>3, <1>5, <1>6, <1>r DEF Ages
<1>s. ASSUME NEW i \in Items
      PROVE  /\ d.items[i].sync >= state.items[i].sync
             /\ state.accounts[i] # None =>
                  d.accounts[i] # None /\ d.accounts[i].at >= state.accounts[i].at
  BY <1>0, <1>n, <1>3, <1>6, <1>r DEF Ages
<1>9. Successor(d)
  BY <1>0, <1>n, <1>5, <1>7, <1>8, <1>s DEF Successor
<1>10. Checkpointed(d, captures \cup {c})
  BY <1>1, <1>5 DEF Checkpointed
<1> QED BY <1>4, <1>9, <1>10 DEF c, d

LEMMA InitSafe == Init => Safe
<1> SUFFICES ASSUME Init PROVE Safe
  OBVIOUS
<1>1. ASSUME NEW i \in Items
      PROVE  state.items[i].sync = 0 /\ state.items[i].attempt = 0 /\ state.accounts[i] = None
  BY DEF Init, Unlinked
<1>2. state.lastSync = 0 /\ state.done = {} /\ state.lastCapture = None
  BY DEF Init
<1>3. Ages(state)
  BY <1>1, <1>2 DEF Ages
<1> QED
  BY <1>2, <1>3, PutsAre DEF Init, Safe, RunSafe, Checkpointed

\* The ledger only gets newer, so a capture that was whole stays whole.
LEMMA WholeLater ==
  ASSUME state \in Ledgers, state' \in Ledgers, state'.lastSync >= state.lastSync,
         NEW c \in CaptureRecords, Whole(c)
  PROVE  Whole(c)'
<1>1. c.at \in Int
  BY DEF CaptureRecords, Times
<1>2. state.lastSync \in Int /\ state'.lastSync \in Int
  BY AgesAreNumbers
<1> QED BY <1>1, <1>2 DEF Whole

\* A larger archive holds what the smaller one held.
LEMMA ArchiveGrows ==
  ASSUME NEW d, NEW small, NEW large, small \subseteq large, Checkpointed(d, small)
  PROVE  Checkpointed(d, large)
BY DEF Checkpointed

Untouched(v) ==
  UNCHANGED <<pc[v], slot[v], initial[v], fresh[v], updated[v], capture[v], late[v]>>

\* While the ledger stays, a run is safe until it moves.
LEMMA OthersSafe ==
  ASSUME Safe, UNCHANGED state, captures \subseteq captures', NEW v \in Workers, Untouched(v)
  PROVE  RunSafe(v)'
<1>1. RunSafe(v)
  BY DEF Safe
<1>2. /\ Checkpointed(updated[v], captures) => Checkpointed(updated[v], captures')
      /\ Checkpointed(late[v], captures) => Checkpointed(late[v], captures')
      /\ Checkpointed(updated[v], captures \cup {capture[v]})
           => Checkpointed(updated[v], captures' \cup {capture[v]})
  BY ArchiveGrows
<1>3. \A d : Successor(d)' = Successor(d) /\ Whole(d)' = Whole(d)
  BY DEF Successor, Whole
<1>4. capture[v] \in captures => capture[v] \in captures'
  OBVIOUS
<1>5. Recoverable(v, capture[v])' = Recoverable(v, capture[v])
  BY DEF Recoverable, Untouched
<1> QED
  BY <1>1, <1>2, <1>3, <1>4, <1>5 DEF RunSafe, Untouched

\* One run moves and the ledger stays.
LEMMA MoveSafe ==
  ASSUME Typed, Safe, NEW w \in Workers, UNCHANGED state, captures \subseteq captures',
         \A c \in captures' : Whole(c),
         \A v \in Workers : v # w => Untouched(v),
         RunSafe(w)'
  PROVE  Safe'
<1>1. Ages(state)' /\ Checkpointed(state, captures)'
  BY ArchiveGrows DEF Safe, Ages, Checkpointed
<1>2. \A c \in captures' : Whole(c)'
  BY DEF Whole
<1>3. \A v \in Workers : RunSafe(v)'
  BY OthersSafe
<1> QED BY <1>1, <1>2, <1>3 DEF Safe

\* A run that ends leaves nothing behind but, it may be, a late PUT.
LEMMA ForgetSafe ==
  ASSUME Typed, Safe, NEW w \in Workers, End(w) \/ Forget(w, "release", TRUE),
         UNCHANGED state, captures \subseteq captures', \A c \in captures' : Whole(c),
         \A v \in Workers : v # w => fresh'[v] = fresh[v],
         \/ UNCHANGED late
         \/ /\ pc[w] \in Puts
            /\ late' = [late EXCEPT ![w] = IF fresh[w] THEN updated[w] ELSE @]
  PROVE  Safe'
<1>1. PICK step \in {"idle", "release"}, has \in BOOLEAN : Forget(w, step, has)
  BY DEF End
<1>2. ASSUME NEW v \in Workers, v # w PROVE Untouched(v)
  BY <1>1, <1>2 DEF Forget, Goto, Untouched, Typed, TypeOK
<1>d. PICK d : d = late'[w]
  OBVIOUS
<1>3. d # None => Successor(d) /\ Checkpointed(d, captures)
  BY <1>d, PutsAre DEF Safe, RunSafe, Typed, TypeOK, RunHolds
<1>4. d # None => Successor(d)' /\ Checkpointed(d, captures')
  BY <1>3, ArchiveGrows DEF Successor
<1>5. pc'[w] = step /\ capture'[w] = None /\ updated'[w] = None
  BY <1>1 DEF Forget, Goto, Typed, TypeOK
<1>6. RunSafe(w)'
  BY <1>4, <1>5, <1>d, PutsAre DEF RunSafe
<1> QED BY <1>2, <1>6, MoveSafe

LEMMA RaiseSafe ==
  ASSUME Typed, Safe, NEW w \in Workers, Raise(w),
         UNCHANGED state, captures \subseteq captures', \A c \in captures' : Whole(c),
         \A v \in Workers : v # w => fresh'[v] = fresh[v],
         \/ UNCHANGED late
         \/ /\ pc[w] \in Puts
            /\ late' = [late EXCEPT ![w] = IF fresh[w] THEN updated[w] ELSE @]
  PROVE  Safe'
BY ForgetSafe, Zenon DEF Raise

\* What v has in hand after a step in which a document lands.
Left(v) ==
  /\ capture'[v] \in {None, capture[v]}
  /\ pc'[v] \in {"recover", "recoverPut", "archive", "recheck"} \cup Puts =>
       UNCHANGED <<pc[v], slot[v], initial[v], updated[v], capture[v]>>

\* A document lands: it is the ledger, and every other one is void.
LEMMA LandedSafe ==
  ASSUME Typed, Safe, NEW d \in Ledgers, Commit(d), UNCHANGED captures,
         Ages(d), Checkpointed(d, captures), d.lastSync >= state.lastSync,
         \A v \in Workers : Left(v)
  PROVE  Safe'
<1>0. state' = d /\ state \in Ledgers
  BY DEF Commit, Typed, TypeOK
<1>1. Ages(state)' /\ Checkpointed(state, captures)'
  BY <1>0 DEF Ages, Checkpointed
<1>w. ASSUME NEW c \in CaptureRecords, Whole(c) PROVE Whole(c)'
  BY <1>w, <1>0, WholeLater
<1>2. \A c \in captures' : Whole(c)'
  BY <1>w DEF Safe, Typed, TypeOK
<1>3. ASSUME NEW v \in Workers PROVE RunSafe(v)'
  <2>1. fresh'[v] = FALSE /\ late'[v] = None
    BY DEF Commit
  <2>c. PICK c : c = capture'[v]
    OBVIOUS
  <2>2. c # None => Whole(c)'
    <3>1. c # None => c \in CaptureRecords /\ Whole(c)
      BY <2>c DEF Left, Safe, RunSafe, Typed, TypeOK
    <3> QED BY <3>1, <1>w
  <2>3. RunSafe(v)
    BY DEF Safe
  <2>4. pc'[v] \in {"recover", "recoverPut"} => c \in captures' /\ Recoverable(v, c)'
    BY <2>3, <2>c, PutsAre DEF Left, RunSafe, Recoverable
  <2>5. /\ pc'[v] = "archive" => Checkpointed(updated'[v], captures' \cup {capture'[v]})
        /\ pc'[v] \in Puts \cup {"recheck"} => Checkpointed(updated'[v], captures')
    BY <2>3 DEF Left, RunSafe
  <2> QED BY <2>1, <2>2, <2>c, <2>4, <2>5 DEF RunSafe
<1> QED BY <1>1, <1>2, <1>3 DEF Safe

LEMMA EditSafe ==
  ASSUME Typed, Safe, NEW i \in Items, SaveLink(i) \/ Reconnect(i) \/ Disconnect(i) \/ Classify(i)
  PROVE  Safe'
<1>0. state \in Ledgers /\ state' \in Ledgers /\ state.lastSync \in Int
  BY EditTyped, AgesAreNumbers DEF Typed, TypeOK
<1>1. Commit(state') /\ UNCHANGED <<captures, local>>
  BY DEF SaveLink, Reconnect, Disconnect, Classify, UserEdit, Commit
<1>2. /\ state'.lastSync = state.lastSync /\ state'.done = state.done
      /\ state'.lastCapture = state.lastCapture
  BY <1>0 DEF SaveLink, Reconnect, Disconnect, Classify, UserEdit, Commit, Ledgers
<1>3. Ages(state')
  <2>0. \A j \in Items : /\ state.items[j] \in ItemRecords
                         /\ state.items[j].sync \in Int /\ state.items[j].attempt \in Int
    BY <1>0, AgesAreNumbers
  <2>z. 0 <= state.lastSync
    BY <1>0 DEF Ledgers, Stamps
  <2>1. Ages(state)
    BY DEF Safe
  <2>2. CASE SaveLink(i)
    <3>1. /\ state'.items = [state.items EXCEPT ![i] = [@ EXCEPT !.token = issued'[i], !.error = FALSE]]
          /\ state'.accounts = state.accounts /\ issued'[i] = issued[i] + 1 /\ issued[i] \in Nat
      BY <1>0, <2>2 DEF SaveLink, UserEdit, Commit, Ledgers, Typed, TypeOK, Tokens
    <3>2. ASSUME NEW j \in Items
          PROVE  /\ state'.items[j].sync = state.items[j].sync
                 /\ state'.items[j].attempt = state.items[j].attempt
                 /\ state.items[j].token # 0 => state'.items[j].token # 0
      BY <1>0, <2>0, <3>1 DEF Ledgers, ItemRecords
    <3> QED BY <1>2, <2>1, <3>1, <3>2 DEF Ages
  <2>3. CASE Reconnect(i)
    <3>1. /\ state'.items = [state.items EXCEPT ![i] = [@ EXCEPT !.error = FALSE]]
          /\ state'.accounts = state.accounts
      BY <1>0, <2>3 DEF Reconnect, UserEdit, Commit, Ledgers
    <3>2. ASSUME NEW j \in Items
          PROVE  /\ state'.items[j].sync = state.items[j].sync
                 /\ state'.items[j].attempt = state.items[j].attempt
                 /\ state'.items[j].token = state.items[j].token
      BY <1>0, <2>0, <3>1 DEF Ledgers, ItemRecords
    <3> QED BY <1>2, <2>1, <3>1, <3>2 DEF Ages
  <2>4. CASE Disconnect(i)
    <3>1. /\ state'.items = [state.items EXCEPT ![i] = Unlinked]
          /\ state'.accounts = [state.accounts EXCEPT ![i] = None]
      BY <1>0, <2>4 DEF Disconnect, UserEdit, Commit, Ledgers
    <3>2. state'.items[i] = Unlinked /\ state'.accounts[i] = None
      BY <1>0, <3>1 DEF Ledgers
    <3>3. ASSUME NEW j \in Items, j # i
          PROVE  state'.items[j] = state.items[j] /\ state'.accounts[j] = state.accounts[j]
      BY <1>0, <3>1, <3>3 DEF Ledgers
    <3> QED BY <1>0, <1>2, <2>1, <2>z, <3>2, <3>3 DEF Ages, Unlinked
  <2>5. CASE Classify(i)
    <3>1. state'.items = state.items /\ state'.accounts = state.accounts
      BY <1>0, <2>5 DEF Classify, UserEdit, Commit, Ledgers
    <3> QED BY <1>2, <2>1, <3>1 DEF Ages
  <2> QED BY <2>2, <2>3, <2>4, <2>5
<1>4. Checkpointed(state', captures)
  BY <1>2 DEF Checkpointed, Safe
<1>5. \A v \in Workers : Left(v)
  BY <1>1 DEF Left, local
<1> QED BY <1>0, <1>1, <1>2, <1>3, <1>4, <1>5, LandedSafe

\* The run w moves to step with nothing new in hand.
Moves(w, step) ==
  /\ Goto(w, step)
  /\ captures \subseteq captures'
  /\ \A c \in captures' : Whole(c)
  /\ UNCHANGED <<state, slot, initial, capture, late>>
  /\ UNCHANGED fresh \/ Unread(w)
  /\ UNCHANGED updated \/ updated' = [updated EXCEPT ![w] = None]
  /\ step \in {"recover", "recoverPut", "archive"} => pc[w] = "recoverPut" /\ step = "recover"
  /\ step \in Puts \cup {"recheck"} => UNCHANGED updated /\ Checkpointed(updated[w], captures')

LEMMA NextSafe == Typed /\ Safe /\ [Next]_vars => Safe'
<1> SUFFICES ASSUME Typed, Safe, [Next]_vars PROVE Safe'
  OBVIOUS
<1>0. /\ Ages(state) /\ Checkpointed(state, captures) /\ \A c \in captures : Whole(c)
      /\ \A w \in Workers : RunSafe(w)
  BY DEF Safe
<1>o. ASSUME NEW w \in Workers, NEW step, Goto(w, step), UNCHANGED <<slot, initial, late>>,
             \A v \in Workers : v # w => UNCHANGED <<fresh[v], updated[v], capture[v]>>
      PROVE  \A v \in Workers : v # w => Untouched(v)
  BY <1>o DEF Goto, Untouched, Typed, TypeOK
\* A round that writes d, computed from the ledger as it is.
<1>p. ASSUME NEW w \in Workers, NEW step \in Puts \cup {"archive"}, NEW d, Prepare(w, step, d),
             step = "recoverPut" => pc[w] = "recover" /\ UNCHANGED capture,
             step # "archive" => UNCHANGED capture,
             step = "archive" => capture' = [capture EXCEPT ![w] = AppliedCapture(w)]
                                 /\ Whole(AppliedCapture(w))
                                 /\ Checkpointed(d, captures \cup {AppliedCapture(w)}),
             step # "archive" => Checkpointed(d, captures),
             Successor(d),
             UNCHANGED <<state, captures, slot, initial, late>>
      PROVE  Safe'
  <2>1. \A v \in Workers : v # w => Untouched(v)
    BY <1>o, <1>p DEF Prepare, Typed, TypeOK
  <2>2. Successor(d)' /\ \A c : Whole(c) => Whole(c)'
    BY <1>p DEF Successor, Whole
  <2>4. late[w] # None => Successor(late[w]) /\ Checkpointed(late[w], captures)
    BY <1>0 DEF RunSafe
  <2>l. PICK l : l = late[w] /\ l = late'[w]
    BY <1>p
  <2>5. l # None => Successor(l)' /\ Checkpointed(l, captures')
    BY <1>p, <2>4, <2>l DEF Successor
  <2>6. CASE step = "archive"
    <3>1. pc'[w] = "archive" /\ updated'[w] = d /\ capture'[w] = AppliedCapture(w)
      BY <1>p, <2>6 DEF Prepare, Goto, Typed, TypeOK
    <3>2. PICK c : c = AppliedCapture(w)
      OBVIOUS
    <3>3. Whole(c)' /\ Checkpointed(d, captures' \cup {c})
      BY <1>p, <2>2, <2>6, <3>2
    <3>4. RunSafe(w)'
      BY <2>2, <2>l, <2>5, <3>1, <3>2, <3>3, PutsAre DEF RunSafe
    <3> QED BY <1>0, <1>p, <2>1, <3>4, MoveSafe
  <2>7. CASE step # "archive"
    <3>1. pc'[w] = step /\ updated'[w] = d /\ UNCHANGED capture
      BY <1>p, <2>7 DEF Prepare, Goto, Typed, TypeOK
    <3>2. PICK c : c = capture[w] /\ c = capture'[w]
      BY <3>1
    <3>3. c # None => Whole(c)'
      BY <1>0, <2>2, <3>2 DEF RunSafe
    <3>4. step = "recoverPut" => c \in captures' /\ Recoverable(w, c)'
      BY <1>0, <1>p, <3>2 DEF RunSafe, Recoverable
    <3>5. RunSafe(w)'
      BY <1>p, <2>2, <2>l, <2>5, <2>7, <3>1, <3>2, <3>3, <3>4, PutsAre DEF RunSafe
    <3> QED BY <1>0, <1>p, <2>1, <3>5, MoveSafe
  <2> QED BY <2>6, <2>7
<1>l. ASSUME NEW lease
      PROVE  /\ Successor([state EXCEPT !.lease = lease])
             /\ Checkpointed([state EXCEPT !.lease = lease], captures)
  BY <1>0, LeaseSuccessor DEF Typed
<1>m. ASSUME NEW w \in Workers, NEW step, Moves(w, step)
      PROVE  Safe'
  <2>1. \A v \in Workers : v # w => Untouched(v)
    BY <1>o, <1>m DEF Moves, Unread, Typed, TypeOK
  <2>2. \A d : Successor(d)' = Successor(d) /\ Whole(d)' = Whole(d)
    BY <1>m DEF Moves, Successor, Whole
  <2>3. PICK c, l, d : c = capture'[w] /\ l = late'[w] /\ d = updated'[w]
    OBVIOUS
  <2>4. c # None => Whole(c)
    BY <1>0, <1>m, <2>3 DEF Moves, RunSafe
  <2>5. l # None => Successor(l) /\ Checkpointed(l, captures')
    BY <1>0, <1>m, <2>3, ArchiveGrows DEF Moves, RunSafe
  <2>6. fresh'[w] /\ d # None => Successor(d)
    BY <1>0, <1>m, <2>3 DEF Moves, RunSafe, Unread, Typed, TypeOK
  <2>7. pc'[w] = "recover" => c \in captures' /\ Recoverable(w, c)'
    BY <1>0, <1>m, <2>3 DEF Moves, Goto, RunSafe, Recoverable, Typed, TypeOK
  <2>8. pc'[w] = step
    BY <1>m DEF Moves, Goto, Typed, TypeOK
  <2>9. step \in Puts \cup {"recheck"} => Checkpointed(d, captures')
    BY <1>m, <2>3 DEF Moves
  <2>10. RunSafe(w)'
    BY <1>m, <2>2, <2>3, <2>4, <2>5, <2>6, <2>7, <2>8, <2>9, PutsAre DEF Moves, RunSafe
  <2> QED BY <1>m, <2>1, <2>10, MoveSafe DEF Moves
<1>r. ASSUME NEW w \in Workers, Raise(w) \/ End(w), UNCHANGED <<state, captures, late>>,
             UNCHANGED fresh \/ Unread(w)
      PROVE  Safe'
  <2>1. \A v \in Workers : v # w => fresh'[v] = fresh[v]
    BY <1>r DEF Unread, Typed, TypeOK
  <2> QED BY <1>0, <1>r, <2>1, RaiseSafe, ForgetSafe
<1>1. ASSUME NEW w \in Workers, sync_networth(w) PROVE Safe'
  <2>1. \A v \in Workers : v # w => Untouched(v)
    BY <1>1 DEF sync_networth, Goto, Untouched, Typed, TypeOK
  <2>2. \A d : Successor(d)' = Successor(d) /\ Whole(d)' = Whole(d)
    BY <1>1 DEF sync_networth, Successor, Whole
  <2>3. /\ pc'[w] = "claim"
        /\ UNCHANGED <<state, captures, fresh, updated, capture, late>>
    BY <1>1 DEF sync_networth, Goto, Typed, TypeOK
  <2>4. RunSafe(w)'
    BY <1>0, <2>2, <2>3, PutsAre DEF RunSafe
  <2> QED BY <1>0, <2>1, <2>3, <2>4, MoveSafe
<1>2. ASSUME NEW w \in Workers, ReadClaim(w) PROVE Safe'
  <2>1. Successor(claim(w)) /\ Checkpointed(claim(w), captures)
    BY <1>l DEF claim
  <2>2. Prepare(w, "claimPut", claim(w)) /\ UNCHANGED <<state, captures, slot, initial, late, capture>>
    BY <1>2 DEF ReadClaim
  <2> QED BY <2>1, <2>2, <1>p, PutsAre
<1>3. ASSUME NEW w \in Workers, ReadClaimBusy(w) \/ ReadClaimNothing(w) PROVE Safe'
  BY <1>3, <1>r DEF ReadClaimBusy, ReadClaimNothing
<1>4. ASSUME NEW w \in Workers, ReadDay(w) PROVE Safe'
  <2>1. /\ pc[w] = "day"
        /\ UNCHANGED <<clock, state, captures, issued, runs, run, now, slot, initial, claimed, tries,
                       fresh, updated, fetched, late, edits, faults>>
    BY <1>4 DEF ReadDay
  <2>2. CASE UNCHANGED capture /\ Goto(w, "fetch")
    <3>1. captures \subseteq captures' /\ \A c \in captures' : Whole(c)
      BY <1>0, <2>1
    <3>2. Moves(w, "fetch")
      BY <2>1, <2>2, <3>1, PutsAre DEF Moves
    <3> QED BY <1>m, <3>2
  <2>3. CASE \E c \in captures :
               Recoverable(w, c) /\ capture' = [capture EXCEPT ![w] = c] /\ Goto(w, "recover")
    <3>1. PICK c \in captures :
            Recoverable(w, c) /\ capture' = [capture EXCEPT ![w] = c] /\ Goto(w, "recover")
      BY <2>3
    <3>2. \A v \in Workers : v # w => Untouched(v)
      BY <2>1, <3>1, <1>o DEF Typed, TypeOK
    <3>3. \A d : Successor(d)' = Successor(d) /\ Whole(d)' = Whole(d)
      BY <2>1 DEF Successor, Whole
    <3>4. Recoverable(w, c)' /\ capture'[w] = c /\ pc'[w] = "recover"
      BY <2>1, <3>1 DEF Recoverable, Goto, Typed, TypeOK
    <3>5. RunSafe(w)'
      <4>1. PICK l, d : l = late'[w] /\ l = late[w] /\ d = updated'[w] /\ d = updated[w]
        BY <2>1
      <4>2. (l # None => Successor(l)' /\ Checkpointed(l, captures')) /\ fresh'[w] = fresh[w]
        BY <1>0, <2>1, <3>3, <4>1 DEF RunSafe
      <4>3. fresh[w] /\ d # None => Successor(d)'
        BY <1>0, <2>1, <3>3, <4>1 DEF RunSafe
      <4>4. c \in captures' /\ Whole(c)'
        BY <1>0, <2>1, <3>3
      <4> QED BY <3>4, <4>1, <4>2, <4>3, <4>4, PutsAre DEF RunSafe
    <3> QED BY <1>0, <2>1, <3>2, <3>5, MoveSafe
  <2> QED BY <1>4, <2>2, <2>3 DEF ReadDay
<1>5. ASSUME NEW w \in Workers, ReadRecover(w) PROVE Safe'
  <2>1. capture[w] \in captures /\ Recoverable(w, capture[w]) /\ Whole(capture[w]) /\ pc[w] = "recover"
    BY <1>5, <1>0 DEF ReadRecover, RunSafe
  <2>2. SameItems(w) => Successor(recover(w, capture[w])) /\ Checkpointed(recover(w, capture[w]), captures)
    BY <1>0, <2>1, RecoverSuccessor
  <2>3. Successor(WithoutLease(state)) /\ Checkpointed(WithoutLease(state), captures)
    BY <1>l DEF WithoutLease
  <2>4. PICK d : Prepare(w, "recoverPut", d) /\ Successor(d) /\ Checkpointed(d, captures)
    BY <1>5, <2>2, <2>3 DEF ReadRecover
  <2> QED BY <1>5, <2>1, <2>4, <1>p, PutsAre DEF ReadRecover
<1>6. ASSUME NEW w \in Workers, Fetch(w) PROVE Safe'
  <2>1. (Goto(w, "fetch") \/ Goto(w, "apply"))
        /\ UNCHANGED <<state, captures, slot, initial, fresh, updated, capture, late>>
    BY <1>6 DEF Fetch
  <2>2. captures \subseteq captures' /\ \A c \in captures' : Whole(c)
    BY <1>0, <2>1
  <2>3. Moves(w, "fetch") \/ Moves(w, "apply")
    BY <2>1, <2>2, PutsAre DEF Moves
  <2> QED BY <1>m, <2>3
<1>7. ASSUME NEW w \in Workers, LeaseOver(w) PROVE Safe'
  BY <1>7, <1>r DEF LeaseOver
<1>8. ASSUME NEW w \in Workers, ReadApply(w) PROVE Safe'
  <2>1. /\ Whole(AppliedCapture(w)) /\ Successor(apply(w))
        /\ Checkpointed(apply(w), captures \cup {AppliedCapture(w)})
    BY <1>0, <1>8, ApplySuccessor DEF ReadApply
  <2>2. Successor(WithoutLease(state)) /\ Checkpointed(WithoutLease(state), captures)
    BY <1>l DEF WithoutLease
  <2>3. CASE Prepare(w, "applyPut", WithoutLease(state)) /\ UNCHANGED capture
    BY <1>8, <2>2, <2>3, <1>p, PutsAre DEF ReadApply
  <2>4. CASE Prepare(w, "archive", apply(w)) /\ capture' = [capture EXCEPT ![w] = AppliedCapture(w)]
    BY <1>8, <2>1, <2>4, <1>p, PutsAre DEF ReadApply
  <2> QED BY <1>8, <2>3, <2>4 DEF ReadApply
\* The capture that may enter the archive is whole.
<1>a. ASSUME NEW w \in Workers, pc[w] = "archive",
             captures' = captures \/ captures' = captures \cup {capture[w]}
      PROVE  captures \subseteq captures' /\ \A c \in captures' : Whole(c)
  BY <1>0, <1>a DEF RunSafe, Typed, RunHolds
<1>9. ASSUME NEW w \in Workers, Archive(w) PROVE Safe'
  <2>1. Checkpointed(updated[w], captures')
    BY <1>0, <1>9 DEF Archive, RunSafe
  <2>2. captures \subseteq captures' /\ \A c \in captures' : Whole(c)
    BY <1>9, <1>a DEF Archive
  <2>3. Moves(w, "recheck")
    BY <1>9, <2>1, <2>2, PutsAre DEF Archive, Moves
  <2> QED BY <2>3, <1>m
<1>10. ASSUME NEW w \in Workers, ArchiveFails(w) PROVE Safe'
  <2>1. \A v \in Workers : v # w => fresh'[v] = fresh[v]
    BY <1>10 DEF ArchiveFails, Unread, Typed, TypeOK
  <2> QED BY <1>10, <1>a, <2>1, RaiseSafe DEF ArchiveFails
<1>11. ASSUME NEW w \in Workers, Recheck(w) PROVE Safe'
  <2>1. Checkpointed(updated[w], captures')
    BY <1>0, <1>11 DEF Recheck, RunSafe
  <2>2. captures \subseteq captures' /\ \A c \in captures' : Whole(c)
    BY <1>0, <1>11 DEF Recheck
  <2>3. Moves(w, "applyPut")
    BY <1>11, <2>1, <2>2, PutsAre DEF Recheck, Moves
  <2> QED BY <2>3, <1>m
<1>12. ASSUME NEW w \in Workers, ReadRelease(w) PROVE Safe'
  <2>1. CASE Prepare(w, "releasePut", WithoutLease(state))
             /\ UNCHANGED <<run, now, slot, initial, claimed, tries, fetched, capture>>
    BY <1>12, <2>1, <1>p, <1>l, PutsAre DEF ReadRelease, WithoutLease
  <2>2. CASE End(w) /\ UNCHANGED fresh
    BY <1>12, <2>2, <1>r DEF ReadRelease
  <2> QED BY <1>12, <2>1, <2>2 DEF ReadRelease
<1>13. ASSUME NEW w \in Workers, ReadFails(w) PROVE Safe'
  BY <1>13, <1>r DEF ReadFails
\* The document of a PUT that is accepted.
<1>c. ASSUME NEW w \in Workers, pc[w] \in Puts, fresh[w]
      PROVE  /\ updated[w] \in Ledgers /\ Ages(updated[w]) /\ Checkpointed(updated[w], captures)
             /\ updated[w].lastSync >= state.lastSync
  BY <1>0, <1>c DEF RunSafe, Successor, Typed, TypeOK, RunHolds
<1>e. ASSUME NEW w \in Workers, Forget(w, "idle", FALSE) \/ Forget(w, "release", TRUE)
      PROVE  \A v \in Workers : Left(v)
  BY <1>e, PutsAre DEF Forget, Goto, Left, Typed, TypeOK
<1>14. ASSUME NEW w \in Workers, PutAccepted(w) PROVE Safe'
  <2>1. CASE pc[w] = "claimPut"
    <3>1. Owned(w)
      BY <1>14, <2>1 DEF PutAccepted
    <3>2. \A v \in Workers : Left(v)
      <4>1. Goto(w, "fetch") \/ Goto(w, "day")
        BY <3>1 DEF Owned
      <4>2. ASSUME NEW v \in Workers
            PROVE  /\ capture'[v] = capture[v] /\ slot'[v] = slot[v]
                   /\ v # w => UNCHANGED <<pc[v], initial[v], updated[v]>>
        BY <3>1 DEF Owned, Goto, Typed, TypeOK
      <4> QED BY <4>1, <4>2, PutsAre DEF Goto, Left, Typed, TypeOK
    <3> QED BY <1>14, <1>c, <3>2, LandedSafe DEF PutAccepted
  <2>2. CASE pc[w] # "claimPut"
    BY <1>14, <1>c, <1>e, <2>2, LandedSafe DEF PutAccepted, End
  <2> QED BY <2>1, <2>2
<1>15. ASSUME NEW w \in Workers, PutUnverified(w) PROVE Safe'
  <2>1. \A v \in Workers : Left(v)
    BY <1>15, <1>e DEF PutUnverified, Raise, End
  <2> QED BY <1>15, <1>c, <2>1, LandedSafe DEF PutUnverified
<1>16. ASSUME NEW w \in Workers, PutConflict(w) PROVE Safe'
  <2>1. pc[w] \in Puts /\ Unread(w) /\ UNCHANGED <<state, captures, late>>
    BY <1>16 DEF PutConflict
  <2>2. CASE ~ LastRound(w)
    <3>1. /\ updated' = [updated EXCEPT ![w] = None]
          /\ capture' = [capture EXCEPT ![w] = IF pc[w] = "applyPut" THEN None ELSE @]
          /\ Goto(w, ReadStep[pc[w]])
          /\ UNCHANGED <<slot, initial>>
      BY <1>16, <2>2 DEF PutConflict
    <3>2. \/ pc[w] = "claimPut" /\ ReadStep[pc[w]] = "claim"
          \/ pc[w] = "recoverPut" /\ ReadStep[pc[w]] = "recover"
          \/ pc[w] = "applyPut" /\ ReadStep[pc[w]] = "apply"
          \/ pc[w] = "releasePut" /\ ReadStep[pc[w]] = "release"
      BY <2>1, PutsAre DEF ReadStep
    <3>3. CASE pc[w] # "applyPut"
      <4>1. UNCHANGED capture
        BY <3>1, <3>3 DEF Typed, TypeOK
      <4>2. captures \subseteq captures' /\ \A c \in captures' : Whole(c)
        BY <1>0, <2>1
      <4>3. Moves(w, ReadStep[pc[w]])
        BY <2>1, <3>1, <3>2, <3>3, <4>1, <4>2, PutsAre DEF Moves
      <4> QED BY <1>m, <4>3
    <3>4. CASE pc[w] = "applyPut"
      <4>1. \A v \in Workers : v # w => Untouched(v)
        BY <2>1, <3>1, <1>o DEF Unread, Typed, TypeOK
      <4>2. /\ pc'[w] = "apply" /\ capture'[w] = None /\ updated'[w] = None /\ fresh'[w] = FALSE
            /\ late'[w] = late[w]
        BY <2>1, <3>1, <3>2, <3>4 DEF Goto, Unread, Typed, TypeOK
      <4>3. \A d : Successor(d)' = Successor(d)
        BY <2>1 DEF Successor
      <4>4. RunSafe(w)'
        BY <1>0, <2>1, <4>2, <4>3, PutsAre DEF RunSafe
      <4> QED BY <1>0, <2>1, <4>1, <4>4, MoveSafe
    <3> QED BY <3>3, <3>4
  <2>3. CASE LastRound(w)
    BY <1>16, <2>1, <2>3, <1>r DEF PutConflict
  <2> QED BY <2>2, <2>3
<1>17. ASSUME NEW w \in Workers, PutLost(w) PROVE Safe'
  <2>1. \A v \in Workers : v # w => fresh'[v] = fresh[v]
    BY <1>17 DEF PutLost, Unread, Typed, TypeOK
  <2> QED BY <1>0, <1>17, <2>1, RaiseSafe DEF PutLost
<1>18. ASSUME NEW w \in Workers, LatePutLands(w) PROVE Safe'
  <2>1. /\ late[w] \in Ledgers /\ Ages(late[w]) /\ Checkpointed(late[w], captures)
        /\ late[w].lastSync >= state.lastSync
    BY <1>0, <1>18 DEF LatePutLands, RunSafe, Successor, Typed, TypeOK
  <2>2. \A v \in Workers : Left(v)
    BY <1>18 DEF LatePutLands, local, Left
  <2> QED BY <1>18, <2>1, <2>2, LandedSafe DEF LatePutLands
<1>19. ASSUME NEW w \in Workers, Crash(w) PROVE Safe'
  <2>1. \A v \in Workers : v # w => fresh'[v] = fresh[v]
    BY <1>19 DEF Crash, Unread, Typed, TypeOK
  <2>2. captures \subseteq captures' /\ \A c \in captures' : Whole(c)
    BY <1>0, <1>19, <1>a DEF Crash
  <2>3. \/ UNCHANGED late
        \/ pc[w] \in Puts /\ late' = [late EXCEPT ![w] = IF fresh[w] THEN updated[w] ELSE @]
    BY <1>19 DEF Crash, Typed, TypeOK
  <2> QED BY <1>19, <2>1, <2>2, <2>3, ForgetSafe DEF Crash
<1>20. CASE Tick \/ UNCHANGED vars
  <2>1. UNCHANGED <<state, captures, local, fresh, late>>
    BY <1>20 DEF Tick, vars
  <2>2. \A v \in Workers : Untouched(v)
    BY <2>1 DEF local, Untouched
  <2>3. \A v \in Workers : RunSafe(v)'
    BY <2>1, <2>2, OthersSafe
  <2> QED BY <1>0, <2>1, <2>3 DEF Safe, Ages, Checkpointed, Whole
<1> QED
  BY <1>1, <1>2, <1>3, <1>4, <1>5, <1>6, <1>7, <1>8, <1>9, <1>10, <1>11, <1>12, <1>13, <1>14,
     <1>15, <1>16, <1>17, <1>18, <1>19, <1>20, EditSafe DEF Next, Step

LEMMA Invariance == Spec => [](Typed /\ Safe)
<1>1. Init => Typed /\ Safe BY InitTyped, InitSafe
<1>2. Typed /\ Safe /\ [Next]_vars => (Typed /\ Safe)' BY NextTyped, NextSafe
<1> QED BY <1>1, <1>2, PTL DEF Spec

\* "archive before checkpointing" holds whatever runs race, fail or die.
THEOREM ArchiveFirst == Spec => []ArchivedBeforeCheckpoint
<1>1. Safe => ArchivedBeforeCheckpoint
  BY DEF Safe, Checkpointed, ArchivedBeforeCheckpoint
<1> QED BY <1>1, Invariance, PTL

\* The accounts of a disconnected institution are never restored.
THEOREM DisconnectedStaysGone == Spec => []NoResurrection
<1>1. Safe => NoResurrection
  BY DEF Safe, Ages, NoResurrection, Linked
<1> QED BY <1>1, Invariance, PTL

\* A step leaves the ledger, or a PUT lands in it, or it is an edit.
LEMMA OnlyPutsLand ==
  ASSUME [Next]_vars
  PROVE  \/ state' = state
         \/ \E w \in Workers : PutAccepted(w) \/ PutUnverified(w) \/ LatePutLands(w)
         \/ \E i \in Items : SaveLink(i) \/ Reconnect(i) \/ Disconnect(i) \/ Classify(i)
<1>1. ASSUME NEW w \in Workers, Step(w), ~ PutAccepted(w), ~ PutUnverified(w) PROVE state' = state
  BY <1>1, Zenon DEF Step, ReadClaim, ReadClaimBusy, ReadClaimNothing, ReadDay, ReadRecover, Fetch,
     LeaseOver, ReadApply, Archive, ArchiveFails, Recheck, ReadRelease, ReadFails, PutConflict, PutLost
<1>2. ASSUME NEW w \in Workers, sync_networth(w) \/ Crash(w) PROVE state' = state
  BY <1>2 DEF sync_networth, Crash
<1>3. Tick \/ UNCHANGED vars => state' = state
  BY DEF Tick, vars
<1> QED BY <1>1, <1>2, <1>3, Zenon DEF Next

\* It replaces the ledger by a successor, unless it is an edit.
LEMMA StepsAreSuccessors ==
  ASSUME Typed, Safe, [Next]_vars
  PROVE  \/ state' = state
         \/ Successor(state')
         \/ \E i \in Items : SaveLink(i) \/ Reconnect(i) \/ Disconnect(i) \/ Classify(i)
<1> SUFFICES ASSUME NEW w \in Workers, PutAccepted(w) \/ PutUnverified(w) \/ LatePutLands(w)
             PROVE  Successor(state')
  BY OnlyPutsLand
<1>1. CASE PutAccepted(w) \/ PutUnverified(w)
  <2>1. Successor(updated[w]) /\ state' = updated[w]
    BY <1>1 DEF PutAccepted, PutUnverified, Commit, Safe, RunSafe, Typed, RunHolds
  <2> QED BY <2>1
<1>2. CASE LatePutLands(w)
  <2>1. Successor(late[w]) /\ state' = late[w]
    BY <1>2 DEF LatePutLands, Commit, Safe, RunSafe
  <2> QED BY <2>1
<1> QED BY <1>1, <1>2

\* What the user edits is the user's to change, and a slot is completed for good.
THEOREM EditsSurvive == Spec => UserEditsSurvive
<1> DEFINE Kept == /\ <<TokensOf(state), state.excluded>>' # <<TokensOf(state), state.excluded>> =>
                        edits' = edits + 1
                   /\ state.done \subseteq state'.done
<1>1. Typed /\ Safe /\ [Next]_vars => [Kept]_vars
  <2> SUFFICES ASSUME Typed, Safe, [Next]_vars PROVE Kept
    OBVIOUS
  <2>1. CASE state' = state
    BY <2>1 DEF TokensOf
  <2>2. CASE Successor(state')
    BY <2>2 DEF Successor, TokensOf
  <2>3. CASE \E i \in Items : SaveLink(i) \/ Reconnect(i) \/ Disconnect(i) \/ Classify(i)
    <3>1. state \in Ledgers
      BY DEF Typed, TypeOK
    <3> QED
      BY <2>3, <3>1 DEF SaveLink, Reconnect, Disconnect, Classify, UserEdit, Commit, Ledgers
  <2> QED BY <2>1, <2>2, <2>3, StepsAreSuccessors
<1> QED BY <1>1, Invariance, PTL DEF Spec, UserEditsSurvive

\* No overlap of runs and no recovery brings an older balance back.
THEOREM BalancesAdvance == Spec => BalancesNeverGoBack
<1> DEFINE Forward ==
      /\ state'.lastSync >= state.lastSync
      /\ \A i \in Linked(state) \cap Linked(state') :
           /\ state'.items[i].sync >= state.items[i].sync
           /\ state.accounts[i] # None => /\ state'.accounts[i] # None
                                          /\ state'.accounts[i].at >= state.accounts[i].at
<1>1. Typed /\ Safe /\ [Next]_vars => [Forward]_vars
  <2> SUFFICES ASSUME Typed, Safe, [Next]_vars PROVE Forward
    OBVIOUS
  <2>0. /\ state \in Ledgers /\ state.lastSync \in Int
        /\ \A i \in Items : /\ state.items[i] \in ItemRecords /\ state.items[i].sync \in Int
                            /\ state.accounts[i] # None => state.accounts[i].at \in Int
    BY AgesAreNumbers DEF Typed, TypeOK
  <2>i. Linked(state) \subseteq Items
    BY DEF Linked
  <2>1. CASE state' = state
    BY <2>0, <2>1, <2>i
  <2>2. CASE Successor(state')
    BY <2>2, <2>i DEF Successor
  <2>3. CASE \E i \in Items : SaveLink(i) \/ Reconnect(i) \/ Disconnect(i) \/ Classify(i)
    <3>1. PICK i \in Items : SaveLink(i) \/ Reconnect(i) \/ Disconnect(i) \/ Classify(i)
      BY <2>3
    <3>2. state'.lastSync = state.lastSync
      BY <2>0, <3>1 DEF SaveLink, Reconnect, Disconnect, Classify, UserEdit, Commit, Ledgers
    <3>3. ASSUME NEW j \in Linked(state) \cap Linked(state')
          PROVE  state'.items[j].sync = state.items[j].sync /\ state'.accounts[j] = state.accounts[j]
      <4>0. j \in Items /\ state.items[j] \in ItemRecords
        BY <2>0, <2>i
      <4>1. CASE Disconnect(i)
        <5>1. j # i
          BY <2>0, <4>1 DEF Disconnect, UserEdit, Commit, Linked, Unlinked, Ledgers
        <5> QED BY <2>0, <4>0, <4>1, <5>1 DEF Disconnect, UserEdit, Commit, Ledgers
      <4>2. CASE SaveLink(i)
        <5>1. /\ state'.items = [state.items EXCEPT ![i] = [@ EXCEPT !.token = issued'[i], !.error = FALSE]]
              /\ state'.accounts = state.accounts
          BY <2>0, <4>2 DEF SaveLink, UserEdit, Commit, Ledgers
        <5> QED BY <2>0, <4>0, <5>1 DEF Ledgers, ItemRecords
      <4>3. CASE Reconnect(i)
        <5>1. /\ state'.items = [state.items EXCEPT ![i] = [@ EXCEPT !.error = FALSE]]
              /\ state'.accounts = state.accounts
          BY <2>0, <4>3 DEF Reconnect, UserEdit, Commit, Ledgers
        <5> QED BY <2>0, <4>0, <5>1 DEF Ledgers, ItemRecords
      <4>4. CASE Classify(i)
        BY <2>0, <4>4 DEF Classify, UserEdit, Commit, Ledgers
      <4> QED BY <3>1, <4>1, <4>2, <4>3, <4>4
    <3> QED BY <2>0, <2>i, <3>2, <3>3
  <2> QED BY <2>1, <2>2, <2>3, StepsAreSuccessors
<1> QED BY <1>1, Invariance, PTL DEF Spec, BalancesNeverGoBack

-----------------------------------------------------------------------------
(* The lease.  A run whose claim is saved and not over is the only one of  *)
(* its kind, and nothing that can still land takes its lease or its slot.  *)

Claimed == {"day", "recover", "recoverPut", "fetch", "apply", "archive", "recheck", "applyPut"}
Live(w) == pc[w] \in Claimed /\ initial[w].until > clock

\* The slot of w is not completed in the ledger s.
Ahead(w, s) == slot[w] # None => slot[w] \notin s.done

Guarded(w) ==
  /\ Live(w) => Holds(state, w) /\ state.lease.until = initial[w].until /\ Ahead(w, state)
  /\ pc[w] = "idle" => updated[w] = None
  /\ pc[w] = "claimPut" => updated[w].lease.owner = run[w] /\ Ahead(w, updated[w])
  /\ fresh[w] /\ updated[w] # None =>
       /\ \A v \in Workers \ {w} : ~ Live(v)
       /\ updated[w].accounts # state.accounts => Holds(state, w)
  /\ late[w] # None =>
       /\ \A v \in Workers : ~ Live(v)
       /\ late[w].accounts # state.accounts => state.lease # None

Alone == \A v, w \in Workers : run[v] = run[w] /\ run[v] # 0 => v = w
LeaseSafe == Alone /\ \A w \in Workers : Guarded(w)

LEMMA InitLease == Init => LeaseSafe
<1> SUFFICES ASSUME Init PROVE LeaseSafe
  OBVIOUS
<1>1. ASSUME NEW w \in Workers
      PROVE  pc[w] = "idle" /\ run[w] = 0 /\ ~ fresh[w] /\ updated[w] = None /\ late[w] = None
  BY DEF Init
<1> QED BY <1>1 DEF LeaseSafe, Alone, Guarded, Live, Claimed

\* Whoever holds the lease, or finds it free, has no live rival.
LEMMA NoRival ==
  ASSUME Typed, LeaseSafe, NEW w \in Workers, pc[w] # "idle", Holds(state, w) \/ ~ ClaimBusy(w)
  PROVE  \A v \in Workers \ {w} : ~ Live(v)
<1> SUFFICES ASSUME NEW v \in Workers, v # w, Live(v) PROVE FALSE
  OBVIOUS
<1>1. Holds(state, v) /\ state.lease.until > clock
  BY DEF LeaseSafe, Guarded, Live
<1>2. Holds(state, w)
  BY <1>1 DEF ClaimBusy, Holds
<1>3. run[v] = run[w] /\ run[w] # 0
  BY <1>1, <1>2 DEF Holds, Typed, RunHolds
<1> QED BY <1>3 DEF LeaseSafe, Alone

Kept(v) == UNCHANGED <<pc[v], run[v], slot[v], initial[v], updated[v]>>
Numbered(w) == run'[w] \in {0, run[w]} \/ \A v \in Workers : run'[w] # run[v]

LEMMA StillAlone ==
  ASSUME Alone, NEW w \in Workers, \A v \in Workers : v # w => run'[v] = run[v], Numbered(w)
  PROVE  Alone'
BY DEF Alone, Numbered

\* The run w moves and the ledger stays.
LEMMA StayLease ==
  ASSUME Typed, LeaseSafe, NEW w \in Workers, UNCHANGED <<state, clock>>,
         \A v \in Workers : v # w => Kept(v) /\ fresh'[v] = fresh[v] /\ late'[v] = late[v],
         Numbered(w), Live(w)' => Live(w), Guarded(w)'
  PROVE  LeaseSafe'
<1>1. ASSUME NEW v \in Workers, Live(v)' PROVE Live(v)
  BY <1>1 DEF Kept, Live
<1>2. ASSUME NEW v \in Workers, v # w PROVE Guarded(v)'
  <2>1. Kept(v) /\ fresh'[v] = fresh[v] /\ late'[v] = late[v] /\ Guarded(v)
    BY <1>2 DEF LeaseSafe
  <2>2. Holds(state, v)' = Holds(state, v) /\ Ahead(v, state)' = Ahead(v, state)
        /\ Ahead(v, updated[v])' = Ahead(v, updated[v])
    BY <2>1 DEF Kept, Holds, Ahead
  <2> QED BY <1>1, <2>1, <2>2 DEF Guarded, Kept
<1>3. Alone'
  BY StillAlone DEF LeaseSafe, Kept
<1> QED BY <1>2, <1>3 DEF LeaseSafe

\* A document lands, and nobody but w can be live after that.
LEMMA LandLease ==
  ASSUME Typed, LeaseSafe, NEW w \in Workers, NEW d, Commit(d), UNCHANGED clock,
         \A v \in Workers : v # w => Kept(v) /\ ~ Live(v),
         Numbered(w), Guarded(w)'
  PROVE  LeaseSafe'
<1>1. ASSUME NEW v \in Workers, v # w PROVE Guarded(v)'
  <2>1. Kept(v) /\ ~ Live(v)' /\ fresh'[v] = FALSE /\ late'[v] = None /\ Guarded(v)
    BY <1>1 DEF Kept, Live, Commit, LeaseSafe
  <2>2. Ahead(v, updated[v])' = Ahead(v, updated[v])
    BY <2>1 DEF Kept, Ahead
  <2> QED BY <2>1, <2>2 DEF Guarded, Kept
<1>2. Alone'
  BY StillAlone DEF LeaseSafe, Kept
<1> QED BY <1>1, <1>2 DEF LeaseSafe

\* A round of w that writes d.
LEMMA PrepareLease ==
  ASSUME Typed, LeaseSafe, NEW w \in Workers, pc[w] # "idle",
         NEW step \in Puts \cup {"archive"}, NEW d, Prepare(w, step, d),
         UNCHANGED <<state, clock, run, slot, initial, late>>,
         Holds(state, w) \/ ~ ClaimBusy(w),
         step \in Claimed => pc[w] \in Claimed,
         step = "claimPut" => d.lease.owner = run[w] /\ Ahead(w, d),
         d.accounts # state.accounts => Holds(state, w)
  PROVE  LeaseSafe'
<1>1. pc'[w] = step /\ updated'[w] = d /\ fresh'[w] = TRUE
  BY DEF Prepare, Goto, Typed, TypeOK
<1>2. ASSUME NEW v \in Workers, v # w
      PROVE  Kept(v) /\ fresh'[v] = fresh[v] /\ late'[v] = late[v]
  BY <1>2 DEF Prepare, Goto, Kept, Typed, TypeOK
<1>3. Live(w)' => Live(w)
  BY <1>1 DEF Live
<1>4. \A v \in Workers \ {w} : ~ Live(v)'
  BY <1>2, NoRival DEF Kept, Live
<1>5. Guarded(w)
  BY DEF LeaseSafe
<1>6. late[w] # None => ~ Live(w)'
  BY <1>3, <1>5 DEF Guarded
<1>7. /\ Holds(state, w)' = Holds(state, w) /\ Ahead(w, state)' = Ahead(w, state)
      /\ Ahead(w, d)' = Ahead(w, d)
  BY DEF Holds, Ahead
<1>8. Guarded(w)'
  BY <1>1, <1>3, <1>4, <1>5, <1>6, <1>7, PutsAre DEF Guarded
<1> QED BY <1>2, <1>3, <1>8, StayLease DEF Numbered

\* The run w moves on, with the document it has or without one.
LEMMA MoveLease ==
  ASSUME Typed, LeaseSafe, NEW w \in Workers, NEW step, Goto(w, step),
         UNCHANGED <<state, clock, run, slot, initial, late>>,
         UNCHANGED fresh \/ Unread(w),
         UNCHANGED updated \/ updated' = [updated EXCEPT ![w] = None],
         step \in Claimed => pc[w] \in Claimed, step \notin {"idle", "claimPut"}
  PROVE  LeaseSafe'
<1>1. pc'[w] = step /\ updated'[w] \in {updated[w], None} /\ (fresh'[w] => fresh[w])
  BY DEF Goto, Unread, Typed, TypeOK
<1>2. ASSUME NEW v \in Workers, v # w
      PROVE  Kept(v) /\ fresh'[v] = fresh[v] /\ late'[v] = late[v]
  BY <1>2 DEF Goto, Unread, Kept, Typed, TypeOK
<1>3. \A v \in Workers : Live(v)' => Live(v)
  BY <1>1, <1>2 DEF Live, Kept
<1>4. Guarded(w)
  BY DEF LeaseSafe
<1>5. Holds(state, w)' = Holds(state, w) /\ Ahead(w, state)' = Ahead(w, state)
  BY DEF Holds, Ahead
<1>6. Guarded(w)'
  BY <1>1, <1>3, <1>4, <1>5 DEF Guarded
<1> QED BY <1>2, <1>3, <1>6, StayLease DEF Numbered

\* The run w ends, or goes on to release its lease; its PUT may land late.
LEMMA ForgetLease ==
  ASSUME Typed, LeaseSafe, NEW w \in Workers, NEW step \in {"idle", "release"}, NEW has,
         Forget(w, step, has), UNCHANGED <<state, clock>>,
         \A v \in Workers : v # w => fresh'[v] = fresh[v],
         \/ UNCHANGED late
         \/ /\ pc[w] \in Puts
            /\ late' = [late EXCEPT ![w] = IF fresh[w] THEN updated[w] ELSE @]
  PROVE  LeaseSafe'
<1>1. pc'[w] = step /\ updated'[w] = None /\ run'[w] \in {0, run[w]}
  BY DEF Forget, Goto, Typed, TypeOK
<1>2. ASSUME NEW v \in Workers, v # w
      PROVE  Kept(v) /\ fresh'[v] = fresh[v] /\ late'[v] = late[v]
  BY <1>2 DEF Forget, Goto, Kept, Typed, TypeOK
<1>3. ~ Live(w)' /\ \A v \in Workers : v # w => (Live(v)' => Live(v))
  BY <1>1, <1>2 DEF Live, Kept, Claimed
<1>4. Guarded(w)
  BY DEF LeaseSafe
<1>5. \/ late'[w] = late[w]
      \/ fresh[w] /\ updated[w] # None /\ late'[w] = updated[w]
  BY DEF Typed, TypeOK, RunHolds
<1>6. late'[w] # None =>
        /\ \A v \in Workers : ~ Live(v)'
        /\ late'[w].accounts # state.accounts => state.lease # None
  BY <1>3, <1>4, <1>5 DEF Guarded, Holds
<1>7. Guarded(w)'
  BY <1>1, <1>3, <1>6 DEF Guarded
<1> QED BY <1>1, <1>2, <1>3, <1>7, StayLease DEF Numbered

LEMMA RaiseLease ==
  ASSUME Typed, LeaseSafe, NEW w \in Workers, Raise(w) \/ End(w), UNCHANGED <<state, clock>>,
         \A v \in Workers : v # w => fresh'[v] = fresh[v],
         \/ UNCHANGED late
         \/ /\ pc[w] \in Puts
            /\ late' = [late EXCEPT ![w] = IF fresh[w] THEN updated[w] ELSE @]
  PROVE  LeaseSafe'
<1>1. PICK step \in {"idle", "release"}, has \in BOOLEAN : Forget(w, step, has)
  BY Zenon DEF Raise, End
<1> QED BY <1>1, ForgetLease

\* What the callbacks write, and under which lease.
LEMMA Callbacks ==
  ASSUME Typed, NEW w \in Workers
  PROVE  /\ WithoutLease(state).accounts = state.accounts
         /\ claim(w).accounts = state.accounts /\ claim(w).done = state.done
         /\ claim(w).lease.owner = run[w]
<1>1. state \in Ledgers
  BY DEF Typed, TypeOK
<1> QED BY <1>1 DEF WithoutLease, claim, Ledgers

\* An edit touches neither the lease nor the slots that are done.
LEMMA EditKeepsLease ==
  ASSUME Typed, NEW i \in Items, SaveLink(i) \/ Reconnect(i) \/ Disconnect(i) \/ Classify(i)
  PROVE  /\ Commit(state') /\ UNCHANGED <<clock, local>>
         /\ state'.lease = state.lease /\ state'.done = state.done
         /\ \A j \in Items : state'.accounts[j] \in {state.accounts[j], None}
<1>1. state \in Ledgers
  BY DEF Typed, TypeOK
<1>2. Commit(state') /\ UNCHANGED <<clock, local>>
  BY DEF SaveLink, Reconnect, Disconnect, Classify, UserEdit, Commit
<1> QED BY <1>1, <1>2 DEF SaveLink, Reconnect, Disconnect, Classify, UserEdit, Commit, Ledgers

LEMMA EditLease ==
  ASSUME Typed, LeaseSafe, NEW i \in Items, SaveLink(i) \/ Reconnect(i) \/ Disconnect(i) \/ Classify(i)
  PROVE  LeaseSafe'
<1>1. /\ Commit(state') /\ UNCHANGED <<clock, local>>
      /\ state'.lease = state.lease /\ state'.done = state.done
  BY EditKeepsLease
<1>2. ASSUME NEW v \in Workers PROVE Guarded(v)'
  <2>1. Guarded(v)
    BY DEF LeaseSafe
  <2>2. /\ Holds(state, v)' = Holds(state, v) /\ Ahead(v, state)' = Ahead(v, state)
        /\ Ahead(v, updated[v])' = Ahead(v, updated[v]) /\ Live(v)' = Live(v)
    BY <1>1 DEF Holds, Ahead, Live, local
  <2>3. fresh'[v] = FALSE /\ late'[v] = None
    BY <1>1 DEF Commit
  <2> QED BY <1>1, <2>1, <2>2, <2>3 DEF Guarded, local
<1> QED BY <1>1, <1>2 DEF LeaseSafe, Alone, local

LEMMA NextLease == Typed /\ LeaseSafe /\ [Next]_vars => LeaseSafe'
<1> SUFFICES ASSUME Typed, LeaseSafe, [Next]_vars PROVE LeaseSafe'
  OBVIOUS
<1>u. ASSUME NEW w \in Workers, UNCHANGED fresh \/ Unread(w)
      PROVE  \A v \in Workers : v # w => fresh'[v] = fresh[v]
  BY <1>u DEF Unread, Typed, TypeOK
<1>r. ASSUME NEW w \in Workers, Raise(w) \/ End(w), UNCHANGED <<state, clock, late>>,
             UNCHANGED fresh \/ Unread(w)
      PROVE  LeaseSafe'
  BY <1>r, <1>u, RaiseLease
<1>1. ASSUME NEW w \in Workers, sync_networth(w) PROVE LeaseSafe'
  <2>1. /\ pc[w] = "idle" /\ pc'[w] = "claim" /\ run'[w] = runs + 1
        /\ UNCHANGED <<state, clock, initial, fresh, updated, late>>
    BY <1>1 DEF sync_networth, Goto, Typed, TypeOK
  <2>2. ASSUME NEW v \in Workers, v # w PROVE Kept(v)
    BY <1>1, <2>2 DEF sync_networth, Goto, Kept, Typed, TypeOK
  <2>3. \A v \in Workers : run'[w] # run[v]
    BY <2>1 DEF Typed, TypeOK
  <2>4. ~ Live(w)' /\ \A v \in Workers : Live(v)' => Live(v)
    BY <2>1, <2>2 DEF Live, Claimed, Kept
  <2>5. Guarded(w)'
    BY <2>1, <2>4 DEF Guarded, LeaseSafe
  <2> QED BY <2>1, <2>2, <2>3, <2>4, <2>5, StayLease DEF Numbered
<1>2. ASSUME NEW w \in Workers, ReadClaim(w) PROVE LeaseSafe'
  <2>1. claim(w).lease.owner = run[w] /\ claim(w).accounts = state.accounts
    BY Callbacks
  <2>2. Ahead(w, claim(w))
    <3>1. slot[w] # None => slot[w] \notin state.done
      BY <1>2 DEF ReadClaim, NothingToClaim
    <3> QED BY <3>1, Callbacks DEF Ahead
  <2> QED BY <1>2, <2>1, <2>2, PrepareLease, PutsAre DEF ReadClaim, Claimed
<1>3. ASSUME NEW w \in Workers, ReadClaimBusy(w) \/ ReadClaimNothing(w) PROVE LeaseSafe'
  BY <1>3, <1>r DEF ReadClaimBusy, ReadClaimNothing
<1>4. ASSUME NEW w \in Workers, ReadDay(w) PROVE LeaseSafe'
  <2>1. pc[w] = "day" /\ (Goto(w, "fetch") \/ Goto(w, "recover"))
        /\ UNCHANGED <<state, clock, run, slot, initial, late, fresh, updated>>
    BY <1>4 DEF ReadDay
  <2> QED BY <2>1, MoveLease DEF Claimed
<1>5. ASSUME NEW w \in Workers, ReadRecover(w) PROVE LeaseSafe'
  <2>1. PICK d : Prepare(w, "recoverPut", d)
    BY <1>5 DEF ReadRecover
  <2> QED BY <1>5, <2>1, PrepareLease, PutsAre DEF ReadRecover, _require_sync_lease, Claimed
<1>6. ASSUME NEW w \in Workers, Fetch(w) PROVE LeaseSafe'
  <2>1. pc[w] = "fetch" /\ (Goto(w, "fetch") \/ Goto(w, "apply"))
        /\ UNCHANGED <<state, clock, run, slot, initial, late, fresh, updated>>
    BY <1>6 DEF Fetch, MayRead
  <2> QED BY <2>1, MoveLease DEF Claimed
<1>7. ASSUME NEW w \in Workers, LeaseOver(w) PROVE LeaseSafe'
  BY <1>7, <1>r DEF LeaseOver
<1>8. ASSUME NEW w \in Workers, ReadApply(w) PROVE LeaseSafe'
  <2>1. PICK step \in {"applyPut", "archive"} : \E d : Prepare(w, step, d)
    BY <1>8 DEF ReadApply
  <2> QED BY <1>8, <2>1, PrepareLease, PutsAre DEF ReadApply, _require_sync_lease, Claimed
<1>9. ASSUME NEW w \in Workers, Archive(w) \/ Recheck(w) PROVE LeaseSafe'
  <2>1. pc[w] \in Claimed /\ (Goto(w, "recheck") \/ Goto(w, "applyPut"))
        /\ UNCHANGED <<state, clock, run, slot, initial, late, fresh, updated>>
    BY <1>9 DEF Archive, Recheck, Claimed
  <2> QED BY <2>1, MoveLease
<1>10. ASSUME NEW w \in Workers, ArchiveFails(w) \/ ReadFails(w) PROVE LeaseSafe'
  BY <1>10, <1>r DEF ArchiveFails, ReadFails
<1>11. ASSUME NEW w \in Workers, ReadRelease(w) PROVE LeaseSafe'
  <2>1. CASE Holds(state, w)
    BY <1>11, <2>1, Callbacks, PrepareLease, PutsAre DEF ReadRelease, Claimed
  <2>2. CASE ~ Holds(state, w)
    BY <1>11, <2>2, <1>r DEF ReadRelease
  <2> QED BY <2>1, <2>2
\* A PUT that is accepted: nobody else is live.
<1>p. ASSUME NEW w \in Workers, pc[w] \in Puts, fresh[w]
      PROVE  (\A v \in Workers : v # w => ~ Live(v)) /\ updated[w] # None
  BY <1>p DEF LeaseSafe, Guarded, Typed, RunHolds
<1>f. ASSUME NEW w \in Workers, pc[w] \in Puts, fresh[w], Commit(updated[w]), UNCHANGED clock,
             End(w) \/ Raise(w)
      PROVE  LeaseSafe'
  <2>1. PICK step \in {"idle", "release"}, has \in BOOLEAN : Forget(w, step, has)
    BY <1>f, Zenon DEF Raise, End
  <2>2. pc'[w] = step /\ updated'[w] = None /\ run'[w] \in {0, run[w]} /\ late'[w] = None
    BY <1>f, <2>1 DEF Forget, Goto, Commit, Typed, TypeOK
  <2>3. ASSUME NEW v \in Workers, v # w PROVE Kept(v) /\ ~ Live(v)
    BY <1>f, <1>p, <2>1, <2>3 DEF Forget, Goto, Kept, Typed, TypeOK
  <2>4. Guarded(w)'
    BY <2>2 DEF Guarded, Live, Claimed
  <2> QED BY <1>f, <2>2, <2>3, <2>4, LandLease DEF Numbered
<1>12. ASSUME NEW w \in Workers, PutAccepted(w) PROVE LeaseSafe'
  <2>1. CASE pc[w] = "claimPut"
    <3>1. Owned(w) /\ Commit(updated[w]) /\ UNCHANGED clock
      BY <1>12, <2>1 DEF PutAccepted
    <3>2. /\ pc'[w] \in {"fetch", "day"} /\ updated'[w] = None /\ late'[w] = None /\ state' = updated[w]
          /\ initial'[w].until = updated[w].lease.until /\ UNCHANGED <<run, slot>>
      BY <3>1 DEF Owned, Commit, Goto, Typed, TypeOK
    <3>3. ASSUME NEW v \in Workers, v # w PROVE Kept(v) /\ ~ Live(v)
      BY <1>12, <1>p, <3>1, <3>3 DEF PutAccepted, Owned, Goto, Kept, Typed, TypeOK
    <3>4. /\ updated[w].lease # None /\ updated[w].lease.owner = run[w] /\ Ahead(w, updated[w])
      BY <2>1 DEF LeaseSafe, Guarded, Typed, RunHolds
    <3>5. Holds(state, w)' /\ state'.lease.until = initial'[w].until /\ Ahead(w, state)'
      BY <3>2, <3>4 DEF Holds, Ahead
    <3>6. Guarded(w)'
      BY <3>2, <3>5 DEF Guarded
    <3> QED BY <3>1, <3>2, <3>3, <3>6, LandLease DEF Numbered
  <2>2. CASE pc[w] # "claimPut"
    BY <1>12, <1>f, <2>2 DEF PutAccepted
  <2> QED BY <2>1, <2>2
<1>13. ASSUME NEW w \in Workers, PutUnverified(w) PROVE LeaseSafe'
  BY <1>13, <1>f DEF PutUnverified
<1>14. ASSUME NEW w \in Workers, PutConflict(w) PROVE LeaseSafe'
  <2>1. pc[w] \in Puts /\ Unread(w) /\ UNCHANGED <<state, clock, late>>
    BY <1>14 DEF PutConflict
  <2>2. CASE ~ LastRound(w)
    <3>1. /\ updated' = [updated EXCEPT ![w] = None] /\ Goto(w, ReadStep[pc[w]])
          /\ UNCHANGED <<run, slot, initial>>
      BY <1>14, <2>2 DEF PutConflict
    <3>2. \/ pc[w] = "claimPut" /\ ReadStep[pc[w]] = "claim"
          \/ pc[w] = "recoverPut" /\ ReadStep[pc[w]] = "recover"
          \/ pc[w] = "applyPut" /\ ReadStep[pc[w]] = "apply"
          \/ pc[w] = "releasePut" /\ ReadStep[pc[w]] = "release"
      BY <2>1, PutsAre DEF ReadStep
    <3> QED BY <2>1, <3>1, <3>2, MoveLease DEF Claimed
  <2>3. CASE LastRound(w)
    BY <1>14, <2>1, <2>3, <1>r DEF PutConflict
  <2> QED BY <2>2, <2>3
<1>15. ASSUME NEW w \in Workers, PutLost(w) PROVE LeaseSafe'
  BY <1>15, <1>u, RaiseLease DEF PutLost
<1>16. ASSUME NEW w \in Workers, LatePutLands(w) PROVE LeaseSafe'
  <2>1. /\ \A v \in Workers : ~ Live(v)
        /\ Commit(late[w]) /\ UNCHANGED <<clock, local>>
    BY <1>16 DEF LatePutLands, LeaseSafe, Guarded
  <2>2. \A v \in Workers : Kept(v)
    BY <2>1 DEF Kept, local
  <2>3. Guarded(w)'
    <3>1. ~ Live(w)' /\ fresh'[w] = FALSE /\ late'[w] = None /\ Guarded(w)
      BY <2>1 DEF Live, Commit, LeaseSafe, local
    <3>2. Ahead(w, updated[w])' = Ahead(w, updated[w])
      BY <2>1 DEF Ahead, local
    <3> QED BY <2>1, <3>1, <3>2 DEF Guarded, local
  <2> QED BY <2>1, <2>2, <2>3, LandLease DEF Numbered, Kept
<1>17. ASSUME NEW w \in Workers, Crash(w) PROVE LeaseSafe'
  <2>1. \/ UNCHANGED late
        \/ pc[w] \in Puts /\ late' = [late EXCEPT ![w] = IF fresh[w] THEN updated[w] ELSE @]
    BY <1>17 DEF Crash, Typed, TypeOK
  <2> QED BY <1>17, <1>u, <2>1, RaiseLease DEF Crash
<1>18. CASE Tick \/ UNCHANGED vars
  <2>1. /\ UNCHANGED <<state, local, fresh, late>> /\ clock \in Int /\ clock' \in {clock, clock + 1}
    BY <1>18 DEF Tick, vars, Typed, TypeOK, Times
  <2>2. ASSUME NEW v \in Workers PROVE Live(v)' => Live(v)
    BY <2>1 DEF Live, local, Typed, TypeOK
  <2>3. ASSUME NEW v \in Workers PROVE Guarded(v)'
    <3>1. Guarded(v)
      BY DEF LeaseSafe
    <3>2. /\ Holds(state, v)' = Holds(state, v) /\ Ahead(v, state)' = Ahead(v, state)
          /\ Ahead(v, updated[v])' = Ahead(v, updated[v])
      BY <2>1 DEF Holds, Ahead, local
    <3> QED BY <2>1, <2>2, <3>1, <3>2 DEF Guarded, local
  <2> QED BY <2>1, <2>3 DEF LeaseSafe, Alone, local
<1> QED
  BY <1>1, <1>2, <1>3, <1>4, <1>5, <1>6, <1>7, <1>8, <1>9, <1>10, <1>11, <1>12, <1>13, <1>14,
     <1>15, <1>16, <1>17, <1>18, EditLease DEF Next, Step

LEMMA LeaseInvariance == Spec => [](Typed /\ LeaseSafe)
<1>1. Init => Typed /\ LeaseSafe BY InitTyped, InitLease
<1>2. Typed /\ LeaseSafe /\ [Next]_vars => (Typed /\ LeaseSafe)' BY NextTyped, NextLease
<1> QED BY <1>1, <1>2, PTL DEF Spec

\* Whoever may ask Plaid for a paid balance holds the lease of the ledger, and
\* the slot it does so for is not completed.
THEOREM OnePaidReader == Spec => []PaidReadsExclusive
<1>1. LeaseSafe => PaidReadsExclusive
  BY DEF LeaseSafe, Guarded, Live, Claimed, Ahead, MayRead, PaidReadsExclusive
<1> QED BY <1>1, LeaseInvariance, PTL

\* A balance enters the ledger only while the ledger has a lease, that of the run
\* whose document lands or of one whose PUT was late.
THEOREM SavedByOwner == Spec => OnlyTheOwnerSaves
<1> DEFINE Owner ==
      \A i \in Items : state'.accounts[i] # state.accounts[i] /\ state'.accounts[i] # None =>
        state.lease # None /\ \E w \in Workers :
          \/ state.lease.owner = run[w] /\ updated[w] = state'
          \/ late[w] = state'
<1>1. Typed /\ LeaseSafe /\ [Next]_vars => [Owner]_vars
  <2> SUFFICES ASSUME Typed, LeaseSafe, [Next]_vars PROVE Owner
    OBVIOUS
  <2> SUFFICES ASSUME NEW i \in Items, state'.accounts[i] # state.accounts[i], state'.accounts[i] # None
               PROVE  state.lease # None /\ \E w \in Workers :
                        \/ state.lease.owner = run[w] /\ updated[w] = state'
                        \/ late[w] = state'
    OBVIOUS
  <2>1. PICK w \in Workers : PutAccepted(w) \/ PutUnverified(w) \/ LatePutLands(w)
    BY EditKeepsLease, OnlyPutsLand
  <2>2. CASE PutAccepted(w) \/ PutUnverified(w)
    <3>1. fresh[w] /\ updated[w] # None /\ state' = updated[w]
      BY <2>2 DEF PutAccepted, PutUnverified, Commit, Typed, RunHolds
    <3> QED BY <3>1 DEF LeaseSafe, Guarded, Holds
  <2>3. CASE LatePutLands(w)
    <3>1. late[w] # None /\ state' = late[w]
      BY <2>3 DEF LatePutLands, Commit
    <3> QED BY <3>1 DEF LeaseSafe, Guarded
  <2> QED BY <2>1, <2>2, <2>3
<1> QED BY <1>1, LeaseInvariance, PTL DEF Spec, OnlyTheOwnerSaves
=============================================================================
