--------------------------- MODULE Networth_proof ---------------------------
(***************************************************************************)
(* Proofs about the two parts of Net worth that write its ledger: the      *)
(* compare-and-swap of NetworthStore, and NetworthLink, which uses it.     *)
(*                                                                         *)
(* NetworthStore, for any clients, entries, values and number of rounds.   *)
(* The inductive invariant is TypeOK and WritesEditTheHead: while the sha  *)
(* of a client is that of the head, what it is about to write is the edit  *)
(* of the head by its own callback.                                        *)
(*                                                                         *)
(* NetworthLink, for any sessions, links and institutions.  The inductive  *)
(* invariant LinkInv is about every document that is the ledger or may     *)
(* become it when an abandoned PUT lands, and about the calls under way.   *)
(***************************************************************************)
EXTENDS NetworthStore, NetworthLink, TLAPS

-----------------------------------------------------------------------------
(* NetworthStore                                                           *)

\* The callback leaves every entry but its own alone, and gives a document.
LEMMA EditedDocument ==
  ASSUME NEW d \in Documents, NEW r \in Requests
  PROVE  /\ Edited(r, d) \in Documents
         /\ \A k \in Keys : Edited(r, d)[k] = IF k = r.key THEN r.value ELSE d[k]
BY DEF Documents, Requests, Edited

\* No request is the absence of one, and no real PUT is NoPut.
LEMMA RequestsAreCalls ==
  /\ NoCall \notin Requests
  /\ _initial_state \in Documents
  /\ \A r \in Requests, d \in Documents : [call |-> r, body |-> d] \in Puts \ {NoPut}
  /\ \A p \in Puts \ {NoPut} : p.call \in Requests /\ p.body \in Documents
  /\ NoPut \in Puts
BY StoreAssumption DEF NoCall, Requests, _initial_state, Documents, Puts, NoPut

LEMMA InitType == Init => TypeOK
BY RequestsAreCalls, MaxTriesAssumption
DEF Init, TypeOK, Steps, Answers

LEMMA NextType == TypeOK /\ [Next]_vars => TypeOK'
<1> SUFFICES ASSUME TypeOK, [Next]_vars PROVE TypeOK'
  OBVIOUS
<1> USE RequestsAreCalls, MaxTriesAssumption
<1>f. ASSUME NEW c \in Clients, NEW a \in Answers, Finish(c, a),
             branch' \in BOOLEAN, doc' \in Documents, late' \in [Clients -> Puts]
      PROVE  TypeOK'
  BY <1>f DEF Finish, Goto, TypeOK, Steps
<1>l. ASSUME NEW c \in Clients, pc[c] = "put" \/ ~ fresh[c],
             pc[c] # "idle",
             late' = [late EXCEPT ![c] = IF fresh[c] THEN [call |-> call[c], body |-> updated[c]] ELSE @]
      PROVE  late' \in [Clients -> Puts]
  BY <1>l DEF TypeOK, Puts
<1>1. ASSUME NEW c \in Clients, NEW r \in Requests, update_state(c, r) PROVE TypeOK'
  BY <1>1 DEF update_state, Goto, TypeOK, Steps, Answers
<1>2. ASSUME NEW c \in Clients, _prepare(c) PROVE TypeOK'
  BY <1>2 DEF _prepare, Goto, TypeOK, Steps
<1>3. ASSUME NEW c \in Clients, CreateBranch(c) PROVE TypeOK'
  BY <1>3 DEF CreateBranch, Goto, TypeOK, Steps
<1>4. ASSUME NEW c \in Clients, CreateBranchLost(c) PROVE TypeOK'
  BY <1>4, <1>f DEF CreateBranchLost, TypeOK, Answers
<1>5. ASSUME NEW c \in Clients, RequestFails(c) PROVE TypeOK'
  BY <1>5, <1>f DEF RequestFails, TypeOK, Answers
<1>6. ASSUME NEW c \in Clients, ReadUpdated(c) PROVE TypeOK'
  <2>1. call[c] \in Requests
    BY <1>6 DEF ReadUpdated, TypeOK
  <2>2. Edited(call[c], doc) \in Documents
    BY <2>1, EditedDocument DEF TypeOK
  <2> QED
    BY <1>6, <2>2 DEF ReadUpdated, Goto, TypeOK, Steps
<1>7. ASSUME NEW c \in Clients, ReadUnchanged(c) PROVE TypeOK'
  BY <1>7, <1>f DEF ReadUnchanged, TypeOK, Answers
<1>8. ASSUME NEW c \in Clients, ReadRefused(c) PROVE TypeOK'
  BY <1>8, <1>f DEF ReadRefused, TypeOK, Answers
<1>9. ASSUME NEW c \in Clients, PutAccepted(c) PROVE TypeOK'
  BY <1>9 DEF PutAccepted, Commit, Goto, TypeOK, Steps
<1>10. ASSUME NEW c \in Clients, PutConflict(c) PROVE TypeOK'
  <2>1. CASE tries[c] + 1 < MaxTries
    <3>1. /\ tries' = [tries EXCEPT ![c] = tries[c] + 1]
          /\ fresh' = [fresh EXCEPT ![c] = FALSE]
          /\ updated' = [updated EXCEPT ![c] = _initial_state]
          /\ pc' = [pc EXCEPT ![c] = "read"]
          /\ pc[c] = "put"
          /\ UNCHANGED <<call, answer, branch, doc, late>>
      BY <1>10, <2>1, Zenon DEF PutConflict, Goto
    <3>2. tries' \in [Clients -> 0 .. MaxTries - 1]
      BY <3>1, <2>1 DEF TypeOK
    <3> QED
      BY <3>1, <3>2 DEF TypeOK, Steps
  <2>2. CASE ~ (tries[c] + 1 < MaxTries)
    BY <1>10, <2>2, <1>f DEF PutConflict, TypeOK, Answers
  <2> QED BY <2>1, <2>2
<1>11. ASSUME NEW c \in Clients, PutLost(c) PROVE TypeOK'
  BY <1>11, <1>f, <1>l DEF PutLost, TypeOK, Answers
<1>12. ASSUME NEW c \in Clients, Verified(c) PROVE TypeOK'
  BY <1>12, <1>f DEF Verified, TypeOK, Answers
<1>13. ASSUME NEW c \in Clients, LatePutLands(c) PROVE TypeOK'
  BY <1>13 DEF LatePutLands, Commit, TypeOK
<1>14. ASSUME NEW c \in Clients, Crash(c) PROVE TypeOK'
  <2>1. late' \in [Clients -> Puts]
    BY <1>14 DEF Crash, TypeOK, Puts
  <2> QED BY <1>14, <2>1, <1>f DEF Crash, TypeOK, Answers
<1>15. CASE UNCHANGED vars
  BY <1>15 DEF vars, TypeOK
<1> QED
  BY <1>1, <1>2, <1>3, <1>4, <1>5, <1>6, <1>7, <1>8, <1>9, <1>10, <1>11, <1>12,
     <1>13, <1>14, <1>15 DEF Next, Step

\* Types, and the bound on the rounds of a call, hold in every state.
THEOREM TypeCorrect == Spec => []TypeOK
<1>1. Init => TypeOK BY InitType
<1>2. TypeOK /\ [Next]_vars => TypeOK' BY NextType
<1> QED BY <1>1, <1>2, PTL DEF Spec

-----------------------------------------------------------------------------
(* The compare-and-swap is an atomic update.                               *)

LEMMA InitWrites == Init => WritesEditTheHead
BY DEF Init, WritesEditTheHead

LEMMA NextWrites == TypeOK /\ WritesEditTheHead /\ [Next]_vars => WritesEditTheHead'
<1> SUFFICES ASSUME TypeOK, WritesEditTheHead, [Next]_vars PROVE WritesEditTheHead'
  OBVIOUS
<1>c. ASSUME NEW d, Commit(d) PROVE WritesEditTheHead'
  \* Nobody's sha is the head's any more, and no PUT is still under way.
  BY <1>c DEF Commit, WritesEditTheHead
<1>f. ASSUME NEW c \in Clients, NEW a, Finish(c, a), UNCHANGED <<doc, late>>
      PROVE  WritesEditTheHead'
  BY <1>f DEF Finish, Goto, WritesEditTheHead, TypeOK
<1>l. ASSUME NEW c \in Clients, NEW a, Finish(c, a), UNCHANGED doc,
             late' = [late EXCEPT ![c] = IF fresh[c] THEN [call |-> call[c], body |-> updated[c]] ELSE @]
      PROVE  WritesEditTheHead'
  BY <1>l DEF Finish, Goto, WritesEditTheHead, TypeOK
<1>1. ASSUME NEW c \in Clients, NEW r \in Requests, update_state(c, r) PROVE WritesEditTheHead'
  BY <1>1 DEF update_state, Goto, WritesEditTheHead, TypeOK
<1>2. ASSUME NEW c \in Clients, _prepare(c) PROVE WritesEditTheHead'
  BY <1>2 DEF _prepare, Goto, WritesEditTheHead, TypeOK
<1>3. ASSUME NEW c \in Clients, CreateBranch(c) PROVE WritesEditTheHead'
  BY <1>3 DEF CreateBranch, Goto, WritesEditTheHead, TypeOK
<1>4. ASSUME NEW c \in Clients, CreateBranchLost(c) PROVE WritesEditTheHead'
  BY <1>4, <1>f DEF CreateBranchLost
<1>5. ASSUME NEW c \in Clients, RequestFails(c) PROVE WritesEditTheHead'
  BY <1>5, <1>f DEF RequestFails
<1>6. ASSUME NEW c \in Clients, ReadUpdated(c) PROVE WritesEditTheHead'
  BY <1>6 DEF ReadUpdated, Goto, WritesEditTheHead, TypeOK
<1>7. ASSUME NEW c \in Clients, ReadUnchanged(c) PROVE WritesEditTheHead'
  BY <1>7, <1>f DEF ReadUnchanged
<1>8. ASSUME NEW c \in Clients, ReadRefused(c) PROVE WritesEditTheHead'
  BY <1>8, <1>f DEF ReadRefused
<1>9. ASSUME NEW c \in Clients, PutAccepted(c) PROVE WritesEditTheHead'
  BY <1>9, <1>c DEF PutAccepted
<1>10. ASSUME NEW c \in Clients, PutConflict(c) PROVE WritesEditTheHead'
  <2>1. CASE tries[c] + 1 < MaxTries
    <3>1. /\ fresh' = [fresh EXCEPT ![c] = FALSE]
          /\ updated' = [updated EXCEPT ![c] = _initial_state]
          /\ pc' = [pc EXCEPT ![c] = "read"]
          /\ UNCHANGED <<call, doc, late>>
      BY <1>10, <2>1, Zenon DEF PutConflict, Goto
    <3> QED BY <3>1 DEF WritesEditTheHead, TypeOK
  <2>2. CASE ~ (tries[c] + 1 < MaxTries)
    BY <1>10, <2>2, <1>f DEF PutConflict
  <2> QED BY <2>1, <2>2
<1>11. ASSUME NEW c \in Clients, PutLost(c) PROVE WritesEditTheHead'
  BY <1>11, <1>l DEF PutLost
<1>12. ASSUME NEW c \in Clients, Verified(c) PROVE WritesEditTheHead'
  BY <1>12, <1>f DEF Verified
<1>13. ASSUME NEW c \in Clients, LatePutLands(c) PROVE WritesEditTheHead'
  BY <1>13, <1>c DEF LatePutLands
<1>14. ASSUME NEW c \in Clients, Crash(c) PROVE WritesEditTheHead'
  BY <1>14, <1>l DEF Crash
<1>15. CASE UNCHANGED vars
  BY <1>15 DEF vars, WritesEditTheHead
<1> QED
  BY <1>1, <1>2, <1>3, <1>4, <1>5, <1>6, <1>7, <1>8, <1>9, <1>10, <1>11, <1>12,
     <1>13, <1>14, <1>15 DEF Next, Step

\* Whatever calls race, fail or die, a document that can still be committed is
\* the edit of the document it replaces.
THEOREM CompareAndSwap == Spec => [](TypeOK /\ WritesEditTheHead)
<1>1. Init => TypeOK /\ WritesEditTheHead BY InitType, InitWrites
<1>2. TypeOK /\ WritesEditTheHead /\ [Next]_vars => (TypeOK /\ WritesEditTheHead)'
  BY NextType, NextWrites
<1> QED BY <1>1, <1>2, PTL DEF Spec

\* A step that changes the document commits one callback's edit of it.
LEMMA CommitIsAnEdit ==
  ASSUME TypeOK, WritesEditTheHead, [Next]_vars, doc' # doc
  PROVE  \E r \in Requests : ~ Refuses(r, doc) /\ doc' = Edited(r, doc)
<1>1. PICK c \in Clients : PutAccepted(c) \/ LatePutLands(c)
  <2>1. ASSUME NEW c \in Clients, Step(c), ~ PutAccepted(c) PROVE doc' = doc
    BY <2>1, Zenon DEF Step, _prepare, CreateBranch, CreateBranchLost, RequestFails, ReadUpdated,
       ReadUnchanged, ReadRefused, PutConflict, PutLost, Verified
  <2>2. ASSUME NEW c \in Clients, Crash(c) \/ \E r \in Requests : update_state(c, r)
        PROVE  doc' = doc
    BY <2>2 DEF Crash, update_state
  <2> QED BY <2>1, <2>2, Zenon DEF Next, vars
<1>2. CASE PutAccepted(c)
  <2>1. call[c] \in Requests
    BY <1>2 DEF PutAccepted, TypeOK
  <2> QED BY <1>2, <2>1 DEF PutAccepted, Commit, WritesEditTheHead
<1>3. CASE LatePutLands(c)
  <2>1. late[c].call \in Requests
    BY <1>3, RequestsAreCalls DEF LatePutLands, TypeOK
  <2> QED BY <1>3, <2>1 DEF LatePutLands, Commit, WritesEditTheHead
<1> QED BY <1>1, <1>2, <1>3

\* No lost update: each commit changes one entry and keeps all the others.
THEOREM NoLostUpdate == Spec => OneEditPerCommit
<1> DEFINE One == \A j, k \in Keys : doc'[j] # doc[j] /\ doc'[k] # doc[k] => j = k
<1>1. TypeOK /\ WritesEditTheHead /\ [Next]_vars => [One]_vars
  <2> SUFFICES ASSUME TypeOK, WritesEditTheHead, [Next]_vars PROVE One
    OBVIOUS
  <2>1. CASE doc' = doc
    BY <2>1
  <2>2. CASE doc' # doc
    <3>1. PICK r \in Requests : doc' = Edited(r, doc)
      BY <2>2, CommitIsAnEdit
    <3> QED BY <3>1, EditedDocument DEF TypeOK
  <2> QED BY <2>1, <2>2
<1> QED BY <1>1, CompareAndSwap, PTL DEF Spec, OneEditPerCommit

\* An archived capture is never replaced or removed.
THEOREM ArchiveImmutable == Spec => CapturesImmutable
<1> DEFINE Kept == \A k \in Captures : doc[k] # NoValue => doc'[k] = doc[k]
<1>1. TypeOK /\ WritesEditTheHead /\ [Next]_vars => [Kept]_vars
  <2> SUFFICES ASSUME TypeOK, WritesEditTheHead, [Next]_vars PROVE Kept
    OBVIOUS
  <2>1. CASE doc' = doc
    BY <2>1
  <2>2. CASE doc' # doc
    <3>1. PICK r \in Requests : ~ Refuses(r, doc) /\ doc' = Edited(r, doc)
      BY <2>2, CommitIsAnEdit
    <3> QED BY <3>1, EditedDocument, StoreAssumption DEF TypeOK, Refuses
  <2> QED BY <2>1, <2>2
<1> QED BY <1>1, CompareAndSwap, PTL DEF Spec, CapturesImmutable

-----------------------------------------------------------------------------
(* The store implements NetworthLedger: initial states map to initial      *)
(* states, and every step maps to a step of the ledger or changes nothing. *)

AbsEffect == [c \in Clients |-> pc[c] = "verify"]
AbsLate == [c \in Clients |-> late[c].call]

LEMMA LedgerInitially == Init => Ledger!LedgerInit
<1> SUFFICES ASSUME Init PROVE Ledger!LedgerInit
  OBVIOUS
<1>1. ASSUME NEW c \in Clients PROVE (pc[c] = "verify") = FALSE
  BY DEF Init
<1>2. AbsEffect = [c \in Clients |-> FALSE]
  BY <1>1, Zenon DEF AbsEffect
<1>3. AbsLate = [c \in Clients |-> NoCall]
  BY DEF Init, AbsLate, NoPut
<1> QED
  BY <1>2, <1>3, Zenon
  DEF Init, Ledger!LedgerInit, Ledger!NoCall, NoCall, _initial_state, AbsEffect, AbsLate

\* The end of a call that leaves document and late PUTs alone is a Return.
LEMMA FinishIsReturn ==
  ASSUME TypeOK, NEW c \in Clients, NEW a \in Answers, Finish(c, a), UNCHANGED doc,
         pc[c] # "idle",
         \/ a \in {"none", "failed"}
         \/ a = "saved" /\ pc[c] = "verify"
         \/ a = "unchanged" /\ pc[c] = "read" /\ ~ Refuses(call[c], doc) /\ Edited(call[c], doc) = doc
         \/ a = "refused" /\ pc[c] = "read" /\ Refuses(call[c], doc),
         \/ UNCHANGED late
         \/ /\ a \in {"none", "failed"}
            /\ pc[c] # "verify"
            /\ AbsLate' = [AbsLate EXCEPT ![c] = call[c]]
  PROVE  Ledger!Return(c, a)
<1>1. call[c] # NoCall
  BY DEF TypeOK
<1>2. AbsEffect' = [AbsEffect EXCEPT ![c] = FALSE]
  BY DEF Finish, Goto, TypeOK, AbsEffect
<1>3. Ledger!Permitted(c, a)
  BY DEF Ledger!Permitted, Ledger!Refuses, Ledger!Edited, Refuses, Edited
<1>4. call' = [call EXCEPT ![c] = NoCall] /\ answer' = [answer EXCEPT ![c] = a]
  BY DEF Finish
<1>5. \/ UNCHANGED AbsLate
      \/ /\ a \in {"none", "failed"}
         /\ ~ AbsEffect[c]
         /\ AbsLate' = [AbsLate EXCEPT ![c] = call[c]]
  BY DEF AbsLate, AbsEffect
<1>6. call[c] # Ledger!NoCall
  BY <1>1 DEF Ledger!NoCall, NoCall
<1> QED
  BY <1>6, <1>2, <1>3, <1>4, <1>5, Zenon
  DEF Ledger!Return, Ledger!NoCall, NoCall, AbsEffect, AbsLate

\* A PUT whose answer is lost becomes a late PUT of the same request.
LEMMA LateIsTheCall ==
  ASSUME TypeOK, WritesEditTheHead, NEW c \in Clients,
         late' = [late EXCEPT ![c] = IF fresh[c] THEN [call |-> call[c], body |-> updated[c]] ELSE @]
  PROVE  \/ UNCHANGED late
         \/ pc[c] # "verify" /\ AbsLate' = [AbsLate EXCEPT ![c] = call[c]]
<1>1. CASE fresh[c]
  BY <1>1 DEF WritesEditTheHead, TypeOK, AbsLate
<1>2. CASE ~ fresh[c]
  BY <1>2 DEF TypeOK
<1> QED BY <1>1, <1>2

LEMMA LedgerStep ==
  TypeOK /\ TypeOK' /\ WritesEditTheHead /\ [Next]_vars => [Ledger!LedgerNext]_(Ledger!ledgerVars)
<1> SUFFICES ASSUME TypeOK, TypeOK', WritesEditTheHead, [Next]_vars
             PROVE  Ledger!LedgerNext \/ UNCHANGED Ledger!ledgerVars
  OBVIOUS
<1>s. ASSUME NEW c \in Clients, NEW step \in Steps, Goto(c, step), pc[c] # "verify", step # "verify",
             UNCHANGED <<doc, call, late, answer>>
      PROVE  UNCHANGED Ledger!ledgerVars
  <2>1. UNCHANGED AbsEffect
    BY <1>s DEF Goto, AbsEffect, TypeOK
  <2> QED BY <1>s, <2>1 DEF Ledger!ledgerVars, AbsEffect
<1>r. ASSUME NEW c \in Clients, NEW a \in Answers, Ledger!Return(c, a) PROVE Ledger!LedgerNext
  BY <1>r DEF Ledger!LedgerNext, Ledger!Answers, Answers
<1>1. ASSUME NEW c \in Clients, NEW r \in Requests, update_state(c, r) PROVE Ledger!LedgerNext
  <2>1. AbsEffect' = [AbsEffect EXCEPT ![c] = FALSE]
    BY <1>1 DEF update_state, Goto, TypeOK, AbsEffect
  <2>2. Ledger!Begin(c, r)
    BY <1>1, <2>1 DEF update_state, Ledger!Begin, Ledger!NoCall, NoCall, TypeOK, AbsEffect
  <2> QED BY <2>2 DEF Ledger!LedgerNext, Ledger!Requests, Requests
<1>2. ASSUME NEW c \in Clients, _prepare(c) PROVE UNCHANGED Ledger!ledgerVars
  BY <1>2, <1>s DEF _prepare, Steps
<1>3. ASSUME NEW c \in Clients, CreateBranch(c) PROVE UNCHANGED Ledger!ledgerVars
  BY <1>3, <1>s DEF CreateBranch, Steps
<1>4. ASSUME NEW c \in Clients, CreateBranchLost(c) PROVE Ledger!LedgerNext
  BY <1>4, <1>r, FinishIsReturn DEF CreateBranchLost, Answers
<1>5. ASSUME NEW c \in Clients, RequestFails(c) PROVE Ledger!LedgerNext
  BY <1>5, <1>r, FinishIsReturn DEF RequestFails, Answers
<1>6. ASSUME NEW c \in Clients, ReadUpdated(c) PROVE UNCHANGED Ledger!ledgerVars
  BY <1>6, <1>s DEF ReadUpdated, Steps
<1>7. ASSUME NEW c \in Clients, ReadUnchanged(c) PROVE Ledger!LedgerNext
  BY <1>7, <1>r, FinishIsReturn DEF ReadUnchanged, Answers
<1>8. ASSUME NEW c \in Clients, ReadRefused(c) PROVE Ledger!LedgerNext
  BY <1>8, <1>r, FinishIsReturn DEF ReadRefused, Answers
<1>d. ASSUME NEW d, Commit(d)
      PROVE  /\ AbsLate' = [c \in Clients |-> NoCall]
             /\ Ledger!SomeDropped
  <2>1. AbsLate' = [c \in Clients |-> NoCall]
    BY <1>d DEF Commit, AbsLate, NoPut
  <2> QED BY <2>1 DEF Ledger!SomeDropped, AbsLate, Ledger!NoCall, NoCall
<1>9. ASSUME NEW c \in Clients, PutAccepted(c) PROVE Ledger!LedgerNext
  <2>1. AbsEffect' = [AbsEffect EXCEPT ![c] = TRUE]
    BY <1>9 DEF PutAccepted, Goto, TypeOK, AbsEffect
  <2>2. call[c] # NoCall /\ ~ AbsEffect[c] /\ fresh[c]
    BY <1>9 DEF PutAccepted, TypeOK, AbsEffect
  <2>3. Ledger!Changes(call[c], doc) /\ doc' = Ledger!Edited(call[c], doc)
    BY <1>9, <2>2 DEF PutAccepted, Commit, WritesEditTheHead, Ledger!Changes, Ledger!Refuses,
       Ledger!Edited, Refuses, Edited
  <2>4. Ledger!TakeEffect(c)
    BY <1>9, <1>d, <2>1, <2>2, <2>3
    DEF PutAccepted, Ledger!TakeEffect, Ledger!NoCall, NoCall, AbsEffect
  <2> QED BY <2>4 DEF Ledger!LedgerNext
<1>10. ASSUME NEW c \in Clients, PutConflict(c) PROVE Ledger!LedgerNext \/ UNCHANGED Ledger!ledgerVars
  <2>1. CASE tries[c] + 1 < MaxTries
    <3>1. Goto(c, "read") /\ pc[c] = "put" /\ UNCHANGED <<call, answer, doc, late>>
      BY <1>10, <2>1, Zenon DEF PutConflict
    <3> QED BY <3>1, <1>s DEF Steps
  <2>2. CASE ~ (tries[c] + 1 < MaxTries)
    <3>1. Finish(c, "failed") /\ pc[c] = "put" /\ UNCHANGED <<doc, late>>
      BY <1>10, <2>2, Zenon DEF PutConflict
    <3> QED BY <3>1, <1>r, FinishIsReturn DEF Answers
  <2> QED BY <2>1, <2>2
<1>11. ASSUME NEW c \in Clients, PutLost(c) PROVE Ledger!LedgerNext
  BY <1>11, <1>r, FinishIsReturn, LateIsTheCall DEF PutLost, Answers
<1>12. ASSUME NEW c \in Clients, Verified(c) PROVE Ledger!LedgerNext
  BY <1>12, <1>r, FinishIsReturn DEF Verified, Answers
<1>13. ASSUME NEW c \in Clients, LatePutLands(c) PROVE Ledger!LedgerNext
  <2>1. AbsLate[c] # NoCall
    BY <1>13, RequestsAreCalls DEF LatePutLands, TypeOK, AbsLate
  <2>2. Ledger!Changes(AbsLate[c], doc) /\ doc' = Ledger!Edited(AbsLate[c], doc)
    BY <1>13 DEF LatePutLands, Commit, WritesEditTheHead, Ledger!Changes, Ledger!Refuses,
       Ledger!Edited, Refuses, Edited, AbsLate
  <2>3. AbsLate'[c] = NoCall /\ Ledger!SomeDropped
    BY <1>13, <1>d DEF LatePutLands
  <2>4. UNCHANGED <<call, AbsEffect, answer>>
    BY <1>13 DEF LatePutLands, AbsEffect
  <2>5. Ledger!LateEffect(c)
    BY <2>1, <2>2, <2>3, <2>4 DEF Ledger!LateEffect, Ledger!NoCall, NoCall, AbsLate, AbsEffect
  <2> QED BY <2>5 DEF Ledger!LedgerNext
<1>14. ASSUME NEW c \in Clients, Crash(c) PROVE Ledger!LedgerNext
  BY <1>14, <1>r, FinishIsReturn, LateIsTheCall DEF Crash, Answers
<1>15. CASE UNCHANGED vars
  BY <1>15 DEF vars, Ledger!ledgerVars
<1> QED
  BY <1>1, <1>2, <1>3, <1>4, <1>5, <1>6, <1>7, <1>8, <1>9, <1>10, <1>11, <1>12,
     <1>13, <1>14, <1>15 DEF Next, Step

\* The store is a ledger of atomic updates for any clients and any document.
THEOREM StoreImplementsLedger == Spec => ImplementsLedger
<1>1. Init => Ledger!LedgerInit BY LedgerInitially
<1>2. TypeOK /\ TypeOK' /\ WritesEditTheHead /\ [Next]_vars
        => [Ledger!LedgerNext]_(Ledger!ledgerVars)
  BY LedgerStep
<1> QED BY <1>1, <1>2, CompareAndSwap, PTL DEF Spec, ImplementsLedger, Ledger!LedgerSpec

-----------------------------------------------------------------------------
(* NetworthLink                                                            *)

\* The session has claimed an entry and goes through its tokens.
Works(s) == stage[s] \in {"recall", "exchange", "save"}

\* A document that may be the ledger.  What it calls processed is saved in it, or
\* disconnected; a token in the memory of a session that it has saved, it calls
\* processed; and whoever works on an entry of its own has seen all of that.
Sound(d) ==
  /\ d.items \subseteq exchanged
  /\ \A l \in Links : d.pending[l] # None =>
       /\ l \in started
       /\ d.pending[l].processed \subseteq d.items \cup removed
       /\ \A s \in Sessions, t \in Tokens :
            t \in recovery[s] /\ t[1] = l /\ t \in d.items \cup removed => t \in d.pending[l].processed
       /\ \A s \in Sessions :
            Works(s) /\ link[s] = l /\ d.pending[l].owner = s => d.pending[l].processed \subseteq seen[s]

\* d may be written over e: d has all that e has linked and not disconnected, and
\* nothing disconnected that e has not; an entry that e lacks was never completed.
Follows(d, e) ==
  /\ e.items \ removed \subseteq d.items
  /\ d.items \cap removed \subseteq e.items
  /\ \A l \in Links : d.pending[l] # None =>
       IF e.pending[l] = None THEN granted[l] = None
       ELSE e.pending[l].processed \subseteq d.pending[l].processed

\* The ledger is sound, and so is what may still be written over it.
Docs ==
  /\ Sound(ledger)
  /\ \A s \in Sessions : overdue[s] # None => Sound(overdue[s]) /\ Follows(overdue[s], ledger)

\* What a call knows: its link was granted, what it has seen is saved, and the token
\* it is saving is in the memory of its session.
Working ==
  /\ \A l \in Links : granted[l] # None => l \in started
  /\ \A t \in exchanged : granted[t[1]] # None
  /\ \A s \in Sessions : stage[s] # "idle" => link[s] # None /\ granted[link[s]] # None
  /\ \A s \in Sessions : Works(s) => seen[s] \subseteq ledger.items \cup removed
  /\ \A s \in Sessions :
       stage[s] = "save" => token[s] \in (recovery[s] \cap PublicTokens(link[s])) \ seen[s]

\* The inductive invariant.
LinkInv == LinkTypeOK /\ NoTokenLost /\ Docs /\ Working

-----------------------------------------------------------------------------
LEMMA TokenOfLink ==
  \A t \in Tokens : t[1] \in Links /\ t[2] \in Offered[t[1]] /\ t = <<t[1], t[2]>>
BY DEF Tokens

LEMMA PublicTokensType ==
  ASSUME LinkTypeOK, NEW l \in Links, granted[l] # None
  PROVE  PublicTokens(l) \subseteq Tokens /\ \A t \in PublicTokens(l) : t[1] = l
<1>1. granted[l] \subseteq Offered[l]
  BY DEF LinkTypeOK
<1> QED BY <1>1 DEF PublicTokens, Tokens

LEMMA EntryType ==
  ASSUME LinkTypeOK, NEW l \in Links, ledger.pending[l] # None
  PROVE  ledger.pending[l] \in Entries
BY DEF LinkTypeOK, Ledgers, EntryOrNone

\* The documents that are written.
LEMMA ClaimDocument ==
  ASSUME LinkTypeOK, NEW s \in Sessions, link[s] \in Links, ledger.pending[link[s]] # None
  PROVE  /\ claim(s) \in Ledgers /\ claim(s).items = ledger.items
         /\ \A l \in Links : l # link[s] => claim(s).pending[l] = ledger.pending[l]
         /\ claim(s).pending[link[s]] = [ledger.pending[link[s]] EXCEPT !.owner = s, !.held = TRUE]
         /\ claim(s).pending[link[s]].processed = ledger.pending[link[s]].processed
         /\ claim(s).pending[link[s]].owner = s
<1>1. ledger \in Ledgers /\ ledger.pending[link[s]] \in Entries
  BY EntryType DEF LinkTypeOK
<1> DEFINE entry == [ledger.pending[link[s]] EXCEPT !.owner = s, !.held = TRUE]
<1>2. entry \in Entries /\ entry.processed = ledger.pending[link[s]].processed /\ entry.owner = s
  BY <1>1 DEF Entries
<1>3. /\ claim(s).items = ledger.items
      /\ claim(s).pending = [ledger.pending EXCEPT ![link[s]] = entry]
      /\ claim(s) = [pending |-> claim(s).pending, items |-> ledger.items]
  BY <1>1 DEF claim, Ledgers
<1> HIDE DEF entry
<1>4. [ledger.pending EXCEPT ![link[s]] = entry] \in [Links -> EntryOrNone]
  BY <1>1, <1>2 DEF Ledgers, EntryOrNone
<1>5. claim(s) \in Ledgers
  BY <1>1, <1>3, <1>4 DEF Ledgers
<1>6. /\ \A l \in Links : l # link[s] => claim(s).pending[l] = ledger.pending[l]
      /\ claim(s).pending[link[s]] = entry
  BY <1>1, <1>3 DEF Ledgers
<1> QED BY <1>2, <1>3, <1>5, <1>6 DEF entry

LEMMA SaveDocument ==
  ASSUME LinkTypeOK, NEW s \in Sessions, link[s] \in Links, ledger.pending[link[s]] # None,
         token[s] \in Tokens
  PROVE  /\ save(s) \in Ledgers /\ save(s).items = ledger.items \cup {token[s]}
         /\ \A l \in Links : l # link[s] => save(s).pending[l] = ledger.pending[l]
         /\ save(s).pending[link[s]].processed = ledger.pending[link[s]].processed \cup {token[s]}
         /\ save(s).pending[link[s]].owner = ledger.pending[link[s]].owner
<1>1. ledger \in Ledgers /\ ledger.pending[link[s]] \in Entries
  BY EntryType DEF LinkTypeOK
<1> DEFINE entry == [ledger.pending[link[s]] EXCEPT !.processed = @ \cup {token[s]}]
<1>2. /\ entry \in Entries /\ entry.processed = ledger.pending[link[s]].processed \cup {token[s]}
      /\ entry.owner = ledger.pending[link[s]].owner
  BY <1>1 DEF Entries
<1>3. /\ save(s).items = ledger.items \cup {token[s]}
      /\ save(s).pending = [ledger.pending EXCEPT ![link[s]] = entry]
      /\ save(s) = [pending |-> save(s).pending, items |-> save(s).items]
  BY <1>1 DEF save, Ledgers
<1> HIDE DEF entry
<1>4. [ledger.pending EXCEPT ![link[s]] = entry] \in [Links -> EntryOrNone]
  BY <1>1, <1>2 DEF Ledgers, EntryOrNone
<1>5. save(s) \in Ledgers
  BY <1>1, <1>3, <1>4 DEF Ledgers
<1>6. /\ \A l \in Links : l # link[s] => save(s).pending[l] = ledger.pending[l]
      /\ save(s).pending[link[s]] = entry
  BY <1>1, <1>3 DEF Ledgers
<1> QED BY <1>2, <1>3, <1>5, <1>6

\* FinishLink and Dismiss.
Without(m) == [ledger EXCEPT !.pending[m] = None]

LEMMA RemovalDocument ==
  ASSUME LinkTypeOK, NEW m \in Links
  PROVE  /\ Without(m) \in Ledgers /\ Without(m).items = ledger.items /\ Without(m).pending[m] = None
         /\ \A l \in Links : l # m => Without(m).pending[l] = ledger.pending[l]
BY DEF Without, LinkTypeOK, Ledgers, EntryOrNone

Starting(m, item) == [ledger EXCEPT !.pending[m] = NewEntry(item)]

LEMMA StartDocument ==
  ASSUME LinkTypeOK, NEW m \in Links, NEW item \in ledger.items \cup {None}
  PROVE  /\ Starting(m, item) \in Ledgers /\ Starting(m, item).items = ledger.items
         /\ Starting(m, item).pending[m] = NewEntry(item)
         /\ \A l \in Links : l # m => Starting(m, item).pending[l] = ledger.pending[l]
<1>1. NewEntry(item) \in EntryOrNone
  BY DEF NewEntry, EntryOrNone, Entries, LinkTypeOK, Ledgers
<1> QED BY <1>1 DEF Starting, LinkTypeOK, Ledgers

Disconnected(t) ==
  [ledger EXCEPT !.items = @ \ {t},
                 !.pending = [l \in Links |->
                    IF ledger.pending[l] # None /\ ledger.pending[l].item = t
                    THEN None ELSE ledger.pending[l]]]

LEMMA DisconnectDocument ==
  ASSUME LinkTypeOK, NEW t
  PROVE  /\ Disconnected(t) \in Ledgers /\ Disconnected(t).items = ledger.items \ {t}
         /\ \A l \in Links : Disconnected(t).pending[l] \in {None, ledger.pending[l]}
BY DEF Disconnected, LinkTypeOK, Ledgers, EntryOrNone
-----------------------------------------------------------------------------
(* What a step may do around the documents.                                *)

Moves ==
  /\ exchanged \subseteq exchanged' /\ started \subseteq started'
  /\ removed \subseteq removed' /\ removed' \subseteq removed \cup ledger.items
  /\ \A l \in Links : granted'[l] # granted[l] => granted[l] = None /\ ledger.pending[l] # None
  /\ \A s \in Sessions, t \in Tokens : t \in recovery'[s] => t \in recovery[s] \/ t \notin exchanged

\* d tells a session that works on its own link nothing it has not seen.
Tells(d) ==
  \A s \in Sessions : Works(s)' /\ d.pending[link'[s]].owner = s =>
    \/ Works(s) /\ link'[s] = link[s] /\ seen[s] \subseteq seen'[s]
    \/ d.pending[link'[s]].processed \subseteq seen'[s]

Onward ==
  /\ ledger.items \ removed' \subseteq ledger'.items
  /\ ledger'.items \cap removed' \subseteq ledger.items

\* A document that was sound stays so.
LEMMA StaysSound ==
  ASSUME LinkTypeOK, Sound(ledger), Working, Moves,
         NEW d \in Ledgers, Sound(d), Follows(d, ledger), Tells(d),
         NEW e, e = ledger
  PROVE  Sound(d)' /\ Follows(d, e)'
<1>1. d.items \subseteq exchanged'
  BY DEF Sound, Moves
<1>2. ASSUME NEW l \in Links, d.pending[l] # None
      PROVE  /\ l \in started'
             /\ d.pending[l].processed \subseteq d.items \cup removed'
  BY <1>2 DEF Sound, Moves
<1>3. ASSUME NEW l \in Links, d.pending[l] # None, NEW s \in Sessions, NEW t \in Tokens,
             t \in recovery'[s], t[1] = l, t \in d.items \cup removed'
      PROVE  t \in d.pending[l].processed
  <2>1. t \in exchanged
    BY <1>3 DEF Sound, Moves, LinkTypeOK
  <2>2. t \in recovery[s]
    BY <1>3, <2>1 DEF Moves
  <2>3. CASE t \in d.items \cup removed
    BY <1>3, <2>2, <2>3 DEF Sound
  <2>4. CASE t \in ledger.items /\ ledger.pending[l] # None
    <3>1. t \in ledger.pending[l].processed
      BY <1>3, <2>2, <2>4 DEF Sound
    <3> QED BY <1>3, <2>4, <3>1 DEF Follows
  <2>5. CASE t \in ledger.items /\ ledger.pending[l] = None
    <3>1. granted[l] = None
      BY <1>3, <2>5 DEF Follows
    <3> QED BY <1>3, <2>1, <3>1 DEF Working
  <2> QED BY <1>3, <2>3, <2>4, <2>5 DEF Moves
<1>4. ASSUME NEW l \in Links, d.pending[l] # None, NEW s \in Sessions,
             Works(s)', link'[s] = l, d.pending[l].owner = s
      PROVE  d.pending[l].processed \subseteq seen'[s]
  <2>1. CASE Works(s) /\ link'[s] = link[s] /\ seen[s] \subseteq seen'[s]
    BY <1>4, <2>1 DEF Sound
  <2> QED BY <1>4, <2>1 DEF Tells
<1>5. Sound(d)'
  BY <1>1, <1>2, <1>3, <1>4 DEF Sound
<1>6. e.items \ removed' \subseteq d.items /\ d.items \cap removed' \subseteq e.items
  BY DEF Follows, Moves
<1>7. \A l \in Links : d.pending[l] # None =>
         IF e.pending[l] = None THEN granted'[l] = None
         ELSE e.pending[l].processed \subseteq d.pending[l].processed
  BY DEF Follows, Moves
<1> QED BY <1>5, <1>6, <1>7 DEF Follows

\* A write of d: it is saved, may be saved later, or not.
Outcome(s, d) ==
  \/ Overwrite(d)
  \/ overdue' = [overdue EXCEPT ![s] = d] /\ UNCHANGED ledger
  \/ UNCHANGED <<overdue, ledger>>

LEMMA Written ==
  ASSUME LinkTypeOK, Docs, Working, Moves, NEW s \in Sessions, NEW d, NEW e, e = ledger,
         Outcome(s, d), Sound(d)', Follows(d, e)',
         ~ Overwrite(d) => Tells(ledger) /\ \A u \in Sessions : Tells(overdue[u])
  PROVE  Docs' /\ Onward /\ Moves
<1>1. CASE Overwrite(d)
  <2>1. ledger' = d /\ \A u \in Sessions : overdue'[u] = None
    BY <1>1 DEF Overwrite
  <2>2. Sound(ledger)'
    BY <2>1 DEF Sound
  <2>3. Onward
    BY <2>1 DEF Onward, Follows
  <2> QED BY <2>1, <2>2, <2>3 DEF Docs
<1>2. CASE ~ Overwrite(d)
  <2>1. ledger' = e /\ \A u \in Sessions : overdue'[u] \in {d, overdue[u]}
    BY <1>2 DEF Outcome, LinkTypeOK
  <2>2. Follows(ledger, ledger)
    BY DEF Follows
  <2>3. Sound(e) /\ Follows(e, ledger) /\ Tells(e) /\ e \in Ledgers
    BY <1>2, <2>2 DEF Docs, LinkTypeOK
  <2>4. Sound(e)'
    BY <2>3, StaysSound DEF Docs
  <2>5. Sound(ledger)'
    BY <2>1, <2>4 DEF Sound
  <2>6. ASSUME NEW u \in Sessions, overdue'[u] # None
        PROVE  Sound(overdue[u])' /\ Follows(overdue[u], ledger)'
    <3>1. CASE overdue'[u] = d
      BY <2>1, <3>1 DEF Sound, Follows
    <3>2. CASE overdue'[u] = overdue[u]
      <4>1. PICK f \in Ledgers : f = overdue[u]
        BY <2>6, <3>2 DEF LinkTypeOK
      <4>2. Sound(f) /\ Follows(f, ledger) /\ Tells(f)
        BY <1>2, <2>6, <3>2, <4>1 DEF Docs
      <4>3. Sound(f)' /\ Follows(f, e)'
        BY <4>2, StaysSound DEF Docs
      <4> QED BY <2>1, <3>2, <4>1, <4>3 DEF Sound, Follows
    <3> QED BY <2>1, <3>1, <3>2
  <2>7. Onward
    BY <2>1 DEF Onward
  <2> QED BY <2>5, <2>6, <2>7 DEF Docs
<1> QED BY <1>1, <1>2

\* A document with nothing more than a sound one, but for disconnected institutions.
LEMMA Derived ==
  ASSUME NEW d, NEW e, Sound(e)', d.items \subseteq e.items, e.items \ d.items \subseteq removed',
         \A l \in Links : d.pending[l] # None =>
           /\ e.pending[l] # None /\ d.pending[l].processed = e.pending[l].processed
           /\ \/ d.pending[l].owner = e.pending[l].owner
              \/ \A s \in Sessions : Works(s)' /\ link'[s] = l /\ d.pending[l].owner = s =>
                   d.pending[l].processed \subseteq seen'[s]
  PROVE  Sound(d)' /\ Follows(d, e)'
<1>1. d.items \subseteq exchanged'
  BY DEF Sound
<1>2. ASSUME NEW l \in Links, d.pending[l] # None
      PROVE  /\ l \in started'
             /\ d.pending[l].processed \subseteq d.items \cup removed'
  BY <1>2 DEF Sound
<1>3. ASSUME NEW l \in Links, d.pending[l] # None, NEW s \in Sessions, NEW t \in Tokens,
             t \in recovery'[s], t[1] = l, t \in d.items \cup removed'
      PROVE  t \in d.pending[l].processed
  BY <1>3 DEF Sound
<1>4. ASSUME NEW l \in Links, d.pending[l] # None, NEW s \in Sessions,
             Works(s)', link'[s] = l, d.pending[l].owner = s
      PROVE  d.pending[l].processed \subseteq seen'[s]
  BY <1>4 DEF Sound
<1>5. Sound(d)'
  BY <1>1, <1>2, <1>3, <1>4 DEF Sound
<1>6. Follows(d, e)'
  BY DEF Follows
<1> QED BY <1>5, <1>6

\* No session takes up work, and those that work forget nothing.
Steady ==
  \A s \in Sessions : Works(s)' =>
    Works(s) /\ link'[s] = link[s] /\ seen[s] \subseteq seen'[s]

LEMMA SteadyTells ==
  ASSUME Steady, NEW d
  PROVE  Tells(d)
BY DEF Steady, Tells

LEMMA LeaveIsSteady ==
  ASSUME LinkTypeOK, NEW s \in Sessions, Leave(s)
  PROVE  Steady /\ ~ Works(s)'
BY DEF LinkTypeOK, Leave, Steady, Works

\* A step that writes nothing.
LEMMA NothingWritten ==
  ASSUME LinkTypeOK, Docs, Working, Moves, Steady, UNCHANGED <<ledger, overdue>>
  PROVE  Docs' /\ Onward /\ Moves
<1>1. Follows(ledger, ledger)
  BY DEF Follows
<1>2. Sound(ledger)'
  <2>1. PICK e : e = ledger
    OBVIOUS
  <2>2. Sound(e)'
    BY <1>1, <2>1, StaysSound, SteadyTells DEF Docs, LinkTypeOK
  <2> QED BY <2>1, <2>2 DEF Sound
<1>3. ASSUME NEW u \in Sessions, overdue'[u] # None
      PROVE  Sound(overdue[u])' /\ Follows(overdue[u], ledger)'
  <2>1. PICK f \in Ledgers : f = overdue[u]
    BY <1>3 DEF LinkTypeOK
  <2>2. PICK e : e = ledger
    OBVIOUS
  <2>3. Sound(f)' /\ Follows(f, e)'
    BY <1>3, <2>1, <2>2, StaysSound, SteadyTells DEF Docs
  <2> QED BY <2>1, <2>2, <2>3 DEF Sound, Follows
<1> QED BY <1>2, <1>3 DEF Docs, Onward

\* A write of a document derived from the ledger.
LEMMA DerivedWritten ==
  ASSUME LinkTypeOK, Docs, Working, Moves, NEW s \in Sessions, NEW d, NEW e, e = ledger,
         Outcome(s, d), Tells(ledger), Steady \/ Overwrite(d),
         d.items \subseteq e.items, e.items \ d.items \subseteq removed',
         \A l \in Links : d.pending[l] # None =>
           /\ e.pending[l] # None /\ d.pending[l].processed = e.pending[l].processed
           /\ \/ d.pending[l].owner = e.pending[l].owner
              \/ \A u \in Sessions : Works(u)' /\ link'[u] = l /\ d.pending[l].owner = u =>
                   d.pending[l].processed \subseteq seen'[u]
  PROVE  Docs' /\ Onward /\ Moves
<1>1. Follows(ledger, ledger)
  BY DEF Follows
<1>2. Sound(e)'
  BY <1>1, StaysSound DEF Docs, LinkTypeOK
<1>3. Sound(d)' /\ Follows(d, e)'
  BY <1>2, Derived
<1> QED BY <1>3, Written, SteadyTells

-----------------------------------------------------------------------------
(* Docs and Onward, action by action.                                      *)

LEMMA QuietDocs ==
  ASSUME LinkTypeOK, Docs, Working,
         \/ \E l \in Links : Complete(l)
         \/ \E s \in Sessions :
              \/ \E l \in Links : Poll(s, l)
              \/ ClaimRefused(s) \/ Interrupt(s) \/ SaveRefused(s) \/ ExchangeRefused(s)
              \/ ExchangeFails(s) \/ Recall(s) \/ UseRecovery(s) \/ exchange(s) \/ Close(s)
  PROVE  Docs' /\ Onward /\ Moves
<1>0. UNCHANGED <<ledger, overdue>>
  BY DEF Complete, Poll, ClaimRefused, Interrupt, SaveRefused, ExchangeRefused, ExchangeFails,
         Recall, UseRecovery, exchange, Close, Leave
<1>1. CASE \E l \in Links : Complete(l)
  <2>1. Moves /\ Steady
    BY <1>1 DEF Complete, plaid, run, Moves, Steady, Works
  <2> QED BY <2>1, <1>0, NothingWritten
<1>2. ASSUME NEW s \in Sessions, NEW l \in Links, Poll(s, l)
      PROVE  Docs' /\ Onward /\ Moves
  <2>1. Moves
    BY <1>2 DEF Poll, plaid, Moves
  <2>2. Steady
    BY <1>2 DEF Poll, Steady, Works, LinkTypeOK
  <2> QED BY <2>1, <2>2, <1>0, NothingWritten
<1>3. ASSUME NEW s \in Sessions, ClaimRefused(s) \/ Interrupt(s) \/ SaveRefused(s) \/ ExchangeRefused(s)
      PROVE  Docs' /\ Onward /\ Moves
  <2>1. Moves
    BY <1>3 DEF ClaimRefused, Interrupt, SaveRefused, ExchangeRefused, plaid, Moves
  <2>2. Leave(s)
    BY <1>3 DEF ClaimRefused, Interrupt, SaveRefused, ExchangeRefused
  <2> QED BY <2>1, <2>2, <1>0, NothingWritten, LeaveIsSteady
<1>4. ASSUME NEW s \in Sessions, ExchangeFails(s)
      PROVE  Docs' /\ Onward /\ Moves
  <2>1. Moves
    BY <1>4 DEF ExchangeFails, Moves
  <2>2. Leave(s)
    BY <1>4 DEF ExchangeFails
  <2> QED BY <2>1, <2>2, <1>0, NothingWritten, LeaveIsSteady
<1>5. ASSUME NEW s \in Sessions, Recall(s) \/ UseRecovery(s)
      PROVE  Docs' /\ Onward /\ Moves
  <2>1. Moves
    BY <1>5 DEF Recall, UseRecovery, plaid, Moves
  <2>2. Steady
    BY <1>5 DEF Recall, UseRecovery, Steady, Works, LinkTypeOK
  <2> QED BY <2>1, <2>2, <1>0, NothingWritten
<1>6. ASSUME NEW s \in Sessions, exchange(s)
      PROVE  Docs' /\ Onward /\ Moves
  <2>1. Moves
    BY <1>6 DEF exchange, Moves, LinkTypeOK
  <2>2. Steady
    BY <1>6 DEF exchange, Steady, Works, LinkTypeOK
  <2> QED BY <2>1, <2>2, <1>0, NothingWritten
<1>7. ASSUME NEW s \in Sessions, Close(s)
      PROVE  Docs' /\ Onward /\ Moves
  <2>1. Moves
    BY <1>7 DEF Close, Moves, LinkTypeOK
  <2>2. Leave(s)
    BY <1>7 DEF Close
  <2> QED BY <2>1, <2>2, <1>0, NothingWritten, LeaveIsSteady
<1> QED BY <1>1, <1>2, <1>3, <1>4, <1>5, <1>6, <1>7

LEMMA ClaimDocs ==
  ASSUME LinkTypeOK, Docs, Working, NEW s \in Sessions, Claim(s) \/ ClaimFails(s)
  PROVE  Docs' /\ Onward /\ Moves
<1>1. link[s] \in Links /\ ledger.pending[link[s]] # None
  BY DEF Claim, ClaimFails, Claimable, Working, LinkTypeOK
<1>2. Moves
  BY DEF Claim, ClaimFails, plaid, Moves
<1>3. PICK d, e : d = claim(s) /\ e = ledger
  OBVIOUS
<1>4. d.items = e.items
  BY <1>1, <1>3, ClaimDocument
<1>5. CASE Claim(s)
  <2>1. link' = link /\ seen' = [seen EXCEPT ![s] = ledger.pending[link[s]].processed]
        /\ stage' = [stage EXCEPT ![s] = "recall"]
    BY <1>5 DEF Claim
  <2>2. \A u \in Sessions : Works(u)' => link'[u] = link[u] /\ (u # s => Works(u) /\ seen'[u] = seen[u])
    BY <2>1 DEF Works, LinkTypeOK
  <2>3. seen'[s] = ledger.pending[link[s]].processed
    BY <2>1 DEF LinkTypeOK
  <2>4. Tells(ledger)
    BY <2>2, <2>3 DEF Tells
  <2>5. ASSUME NEW l \in Links, d.pending[l] # None
        PROVE  /\ e.pending[l] # None /\ d.pending[l].processed = e.pending[l].processed
               /\ \/ d.pending[l].owner = e.pending[l].owner
                  \/ \A u \in Sessions : Works(u)' /\ link'[u] = l /\ d.pending[l].owner = u =>
                       d.pending[l].processed \subseteq seen'[u]
    <3>1. CASE l # link[s]
      BY <1>1, <1>3, <2>5, <3>1, ClaimDocument
    <3>2. CASE l = link[s]
      <4>1. d.pending[l].processed = e.pending[l].processed /\ d.pending[l].owner = s
        BY <1>1, <1>3, <3>2, ClaimDocument
      <4> QED BY <1>1, <1>3, <2>3, <3>2, <4>1
    <3> QED BY <3>1, <3>2
  <2>6. Overwrite(d) /\ Outcome(s, d)
    BY <1>3, <1>5 DEF Claim, Outcome
  <2> QED BY <1>2, <1>3, <1>4, <2>4, <2>5, <2>6, DerivedWritten
<1>6. CASE ClaimFails(s)
  <2>1. Steady /\ ~ Works(s)'
    BY <1>6, LeaveIsSteady DEF ClaimFails
  <2>2. ASSUME NEW l \in Links, d.pending[l] # None
        PROVE  /\ e.pending[l] # None /\ d.pending[l].processed = e.pending[l].processed
               /\ \/ d.pending[l].owner = e.pending[l].owner
                  \/ \A u \in Sessions : Works(u)' /\ link'[u] = l /\ d.pending[l].owner = u =>
                       d.pending[l].processed \subseteq seen'[u]
    <3>1. CASE l # link[s]
      BY <1>1, <1>3, <2>2, <3>1, ClaimDocument
    <3>2. CASE l = link[s]
      <4>1. d.pending[l].processed = e.pending[l].processed /\ d.pending[l].owner = s
        BY <1>1, <1>3, <3>2, ClaimDocument
      <4> QED BY <1>1, <1>3, <2>1, <3>2, <4>1
    <3> QED BY <3>1, <3>2
  <2>3. Outcome(s, d)
    BY <1>3, <1>6 DEF ClaimFails, WriteFails, Outcome
  <2>4. Tells(ledger)
    BY <2>1, SteadyTells
  <2> QED BY <1>2, <1>3, <1>4, <2>1, <2>2, <2>3, <2>4, DerivedWritten
<1> QED BY <1>5, <1>6

\* FinishLink and Dismiss take an entry away.
LEMMA RemovalDocs ==
  ASSUME LinkTypeOK, Docs, Working,
         NEW s \in Sessions, FinishLink(s) \/ FinishFails(s) \/ \E m \in Links : Dismiss(s, m)
  PROVE  Docs' /\ Onward /\ Moves
<1>1. Moves /\ Steady
  <2>1. CASE FinishLink(s) \/ FinishFails(s)
    <3>1. Leave(s)
      BY <2>1 DEF FinishLink, FinishFails
    <3> QED BY <2>1, <3>1, LeaveIsSteady DEF FinishLink, FinishFails, plaid, Moves
  <2>2. CASE \E m \in Links : Dismiss(s, m)
    BY <2>2 DEF Dismiss, plaid, run, Moves, Steady, Works
  <2> QED BY <2>1, <2>2
<1>2. PICK m \in Links : Outcome(s, Without(m))
  <2>1. CASE FinishLink(s) \/ FinishFails(s)
    <3>1. link[s] \in Links
      BY <2>1 DEF FinishLink, FinishFails, Working, LinkTypeOK
    <3> QED BY <2>1, <3>1 DEF FinishLink, FinishFails, finish, Without, WriteFails, Outcome
  <2>2. CASE \E m \in Links : Dismiss(s, m)
    BY <2>2 DEF Dismiss, Click, Without, WriteFails, Outcome
  <2> QED BY <2>1, <2>2
<1>3. PICK d, e : d = Without(m) /\ e = ledger
  OBVIOUS
<1>4. d.items = e.items /\ d.pending[m] = None /\ \A l \in Links : l # m => d.pending[l] = e.pending[l]
  BY <1>3, RemovalDocument
<1>5. \A l \in Links : d.pending[l] # None =>
         e.pending[l] # None /\ d.pending[l].processed = e.pending[l].processed
           /\ d.pending[l].owner = e.pending[l].owner
  BY <1>4
<1>6. Tells(ledger)
  BY <1>1, SteadyTells
<1> QED BY <1>1, <1>2, <1>3, <1>4, <1>5, <1>6, DerivedWritten

LEMMA DisconnectDocs ==
  ASSUME LinkTypeOK, Docs, Working, NEW s \in Sessions, NEW t \in Tokens, Disconnect(s, t)
  PROVE  Docs' /\ Onward /\ Moves
<1>1. Moves /\ Steady
  BY DEF Disconnect, run, Moves, Steady, Works
<1>2. PICK d, e : d = Disconnected(t) /\ e = ledger
  OBVIOUS
<1>3. Outcome(s, d)
  BY <1>2 DEF Disconnect, Click, Disconnected, WriteFails, Outcome
<1>4. d.items = e.items \ {t} /\ \A l \in Links : d.pending[l] \in {None, e.pending[l]}
  BY <1>2, DisconnectDocument
<1>5. t \in removed'
  BY DEF Disconnect
<1>6. d.items \subseteq e.items /\ e.items \ d.items \subseteq removed'
  BY <1>4, <1>5
<1>7. \A l \in Links : d.pending[l] # None =>
         e.pending[l] # None /\ d.pending[l].processed = e.pending[l].processed
           /\ d.pending[l].owner = e.pending[l].owner
  BY <1>4
<1>8. Tells(ledger)
  BY <1>1, SteadyTells
<1> QED BY <1>1, <1>2, <1>3, <1>6, <1>7, <1>8, DerivedWritten

LEMMA OverdueDocs ==
  ASSUME LinkTypeOK, Docs, Working, NEW s \in Sessions, OverduePutLands(s)
  PROVE  Docs' /\ Onward /\ Moves
<1>1. Moves /\ Steady
  BY DEF OverduePutLands, plaid, run, Moves, Steady, Works
<1>2. PICK d \in Ledgers : d = overdue[s]
  BY DEF OverduePutLands, LinkTypeOK
<1>3. PICK e : e = ledger
  OBVIOUS
<1>4. Sound(d)' /\ Follows(d, e)'
  BY <1>1, <1>2, <1>3, StaysSound, SteadyTells DEF Docs, OverduePutLands
<1>5. Outcome(s, d)
  BY <1>2 DEF OverduePutLands, Outcome
<1> QED BY <1>1, <1>3, <1>4, <1>5, Written, SteadyTells

LEMMA StartDocs ==
  ASSUME LinkTypeOK, Docs, Working, NEW s \in Sessions, NEW m \in Links, Start(s, m)
  PROVE  Docs' /\ Onward /\ Moves
<1>1. Moves /\ Steady
  BY DEF Start, plaid, run, Moves, Steady, Works
<1>2. PICK item \in ledger.items \cup {None} : Outcome(s, Starting(m, item))
  BY DEF Start, Click, Starting, WriteFails, Outcome
<1>3. PICK d, e : d = Starting(m, item) /\ e = ledger
  OBVIOUS
<1>4. d.items = e.items /\ d.pending[m] = NewEntry(item) /\ \A l \in Links : l # m => d.pending[l] = e.pending[l]
  BY <1>3, StartDocument
<1>5. Sound(e)'
  <2>1. Follows(ledger, ledger)
    BY DEF Follows
  <2> QED BY <1>1, <1>3, <2>1, StaysSound, SteadyTells DEF Docs, LinkTypeOK
<1>6. e.pending[m] = None /\ granted'[m] = None /\ m \in started'
  BY <1>3 DEF Start, Docs, Sound, Working, plaid
<1>7. \A u \in Sessions, t \in Tokens : t \in recovery'[u] => t[1] # m
  BY <1>6 DEF Start, plaid, Working, LinkTypeOK
<1>8. Sound(d)'
  BY <1>4, <1>5, <1>6, <1>7, LinkAssumption DEF Sound, NewEntry
<1>9. Follows(d, e)'
  BY <1>4, <1>6 DEF Follows, NewEntry
<1> QED BY <1>1, <1>2, <1>3, <1>8, <1>9, Written, SteadyTells

LEMMA SaveDocs ==
  ASSUME LinkTypeOK, Docs, Working, NEW s \in Sessions, Save(s) \/ SaveFails(s)
  PROVE  Docs' /\ Onward /\ Moves
<1>1. /\ Works(s) /\ link[s] \in Links /\ ledger.pending[link[s]] # None
      /\ ledger.pending[link[s]].owner = s
      /\ token[s] \in Tokens /\ token[s] \in recovery[s] /\ token[s][1] = link[s]
      /\ token[s] \notin seen[s]
  <2>1. /\ stage[s] = "save" /\ link[s] \in Links /\ granted[link[s]] # None
        /\ ledger.pending[link[s]] # None /\ ledger.pending[link[s]].owner = s
    BY DEF Save, SaveFails, Mine, Working, LinkTypeOK
  <2>2. token[s] \in recovery[s] /\ token[s] \in PublicTokens(link[s]) /\ token[s] \notin seen[s]
    BY <2>1 DEF Working
  <2> QED BY <2>1, <2>2, PublicTokensType DEF Works
<1>2. Moves /\ Steady
  <2>1. CASE Save(s)
    <3>1. Moves
      BY <2>1 DEF Save, Drop, plaid, Moves, LinkTypeOK
    <3>2. Steady
      BY <2>1 DEF Save, Steady, Works, LinkTypeOK
    <3> QED BY <3>1, <3>2
  <2>2. CASE SaveFails(s)
    BY <2>2, LeaveIsSteady DEF SaveFails, plaid, Moves
  <2> QED BY <2>1, <2>2
<1>3. Works(s)' => token[s] \in seen'[s]
  <2>1. CASE Save(s)
    BY <2>1 DEF Save, LinkTypeOK
  <2>2. CASE SaveFails(s)
    BY <2>2, LeaveIsSteady DEF SaveFails
  <2> QED BY <2>1, <2>2
<1>4. token[s] \notin ledger.items \cup removed
  BY <1>1 DEF Docs, Sound
<1>5. PICK d, e : d = save(s) /\ e = ledger
  OBVIOUS
<1>6. /\ d.items = e.items \cup {token[s]}
      /\ \A l \in Links : l # link[s] => d.pending[l] = e.pending[l]
      /\ d.pending[link[s]].processed = e.pending[link[s]].processed \cup {token[s]}
      /\ d.pending[link[s]].owner = e.pending[link[s]].owner
  BY <1>1, <1>5, SaveDocument
<1>7. Sound(e)'
  <2>1. Follows(ledger, ledger)
    BY DEF Follows
  <2> QED BY <1>2, <1>5, <2>1, StaysSound, SteadyTells DEF Docs, LinkTypeOK
<1>8. e.pending[link[s]] # None /\ e.pending[link[s]].owner = s
  BY <1>1, <1>5
<1>9. token[s] \in exchanged'
  BY <1>1, <1>2 DEF LinkTypeOK, Moves
<1>10. Sound(d)'
  <2>1. d.items \subseteq exchanged'
    BY <1>6, <1>7, <1>9 DEF Sound
  <2>2. ASSUME NEW l \in Links, d.pending[l] # None
        PROVE  /\ l \in started' /\ d.pending[l].processed \subseteq d.items \cup removed'
    BY <1>6, <1>7, <1>8, <2>2 DEF Sound
  <2>3. ASSUME NEW l \in Links, d.pending[l] # None, NEW u \in Sessions, NEW t \in Tokens,
               t \in recovery'[u], t[1] = l, t \in d.items \cup removed'
        PROVE  t \in d.pending[l].processed
    <3>1. CASE t = token[s]
      BY <1>1, <1>6, <2>3, <3>1
    <3>2. CASE t # token[s]
      BY <1>6, <1>7, <1>8, <2>3, <3>2 DEF Sound
    <3> QED BY <3>1, <3>2
  <2>4. ASSUME NEW l \in Links, d.pending[l] # None, NEW u \in Sessions,
               Works(u)', link'[u] = l, d.pending[l].owner = u
        PROVE  d.pending[l].processed \subseteq seen'[u]
    <3>1. CASE l = link[s]
      <4>1. u = s
        BY <1>6, <1>8, <2>4, <3>1
      <4>2. e.pending[l].processed \subseteq seen'[u]
        BY <1>7, <1>8, <2>4, <3>1, <4>1 DEF Sound
      <4> QED BY <1>3, <1>6, <2>4, <3>1, <4>1, <4>2
    <3>2. CASE l # link[s]
      BY <1>6, <1>7, <2>4, <3>2 DEF Sound
    <3> QED BY <3>1, <3>2
  <2> QED BY <2>1, <2>2, <2>3, <2>4 DEF Sound
<1>11. Follows(d, e)'
  <2>1. removed' = removed
    BY DEF Save, SaveFails, plaid
  <2>2. e.items \ removed' \subseteq d.items /\ d.items \cap removed' \subseteq e.items
    BY <1>4, <1>6, <2>1
  <2>3. \A l \in Links : d.pending[l] # None =>
           e.pending[l] # None /\ e.pending[l].processed \subseteq d.pending[l].processed
    BY <1>6, <1>8
  <2> QED BY <2>2, <2>3 DEF Follows
<1>12. Outcome(s, d)
  BY <1>5 DEF Save, SaveFails, WriteFails, Outcome
<1> QED BY <1>2, <1>5, <1>10, <1>11, <1>12, Written, SteadyTells

LEMMA ExpireDocs ==
  ASSUME LinkTypeOK, Docs, Working, NEW m \in Links, Expire(m)
  PROVE  Docs' /\ Onward /\ Moves
<1>1. Moves /\ Steady
  BY DEF Expire, plaid, run, Moves, Steady, Works
<1>2. PICK e : e = ledger
  OBVIOUS
<1>3. ledger \in Ledgers /\ ledger.pending[m] \in Entries
  BY EntryType DEF LinkTypeOK, Expire
<1>4. /\ ledger'.items = e.items
      /\ \A l \in Links : l # m => ledger'.pending[l] = e.pending[l]
      /\ ledger'.pending[m] = [e.pending[m] EXCEPT !.held = FALSE]
  BY <1>2, <1>3 DEF Expire, Ledgers
<1>5. /\ ledger'.pending[m].processed = e.pending[m].processed
      /\ ledger'.pending[m].owner = e.pending[m].owner
  BY <1>2, <1>3, <1>4 DEF Entries
<1>6. e.pending[m] # None
  BY <1>2 DEF Expire
<1>7. Sound(e)'
  <2>1. Follows(ledger, ledger)
    BY DEF Follows
  <2> QED BY <1>1, <1>2, <2>1, StaysSound, SteadyTells DEF Docs, LinkTypeOK
<1>8. \A l \in Links :
         ledger'.pending[l] # None =>
           /\ e.pending[l] # None /\ ledger'.pending[l].processed = e.pending[l].processed
           /\ ledger'.pending[l].owner = e.pending[l].owner
  BY <1>4, <1>5, <1>6
<1>9. Sound(ledger)'
  <2>1. PICK d : d = ledger'
    OBVIOUS
  <2>2. Sound(d)'
    BY <1>4, <1>7, <1>8, <2>1, Derived
  <2> QED BY <2>1, <2>2 DEF Sound
<1>10. ASSUME NEW u \in Sessions, overdue'[u] # None
       PROVE  Sound(overdue[u])' /\ Follows(overdue[u], ledger)'
  <2>0. overdue' = overdue
    BY DEF Expire
  <2>1. PICK f \in Ledgers : f = overdue[u]
    BY <1>10, <2>0 DEF LinkTypeOK
  <2>2. Sound(f)' /\ Follows(f, e)'
    BY <1>1, <1>2, <1>10, <2>0, <2>1, StaysSound, SteadyTells DEF Docs
  <2>3. ledger'.pending[m] # None
    BY <1>2, <1>3, <1>4, EntryAssumption DEF Entries
  <2>4. \A l \in Links : e.pending[l] # None => ledger'.pending[l].processed = e.pending[l].processed
    BY <1>4, <1>5
  <2>5. Follows(f, ledger)'
    BY <1>4, <1>6, <2>2, <2>3, <2>4 DEF Follows
  <2> QED BY <2>0, <2>1, <2>2, <2>5 DEF Sound, Follows
<1> QED BY <1>1, <1>2, <1>4, <1>9, <1>10 DEF Docs, Onward

-----------------------------------------------------------------------------
(* Types                                                                   *)

LEMMA LinkInitInv == LinkInit => LinkInv
BY LinkAssumption, EntryAssumption
   DEF LinkInit, LinkInv, LinkTypeOK, NoTokenLost, Held, Docs, Sound, Working, Works, Ledgers, EntryOrNone

LEMMA LeaveType ==
  ASSUME LinkTypeOK, NEW s \in Sessions, Leave(s)
  PROVE  /\ stage' \in [Sessions -> {"idle", "claim", "recall", "exchange", "save"}]
         /\ link' \in [Sessions -> Links \cup {None}]
         /\ seen' \in [Sessions -> SUBSET Tokens]
         /\ token' \in [Sessions -> Tokens \cup {None}]
BY DEF LinkTypeOK, Leave

LEMMA OutcomeType ==
  ASSUME LinkTypeOK, NEW s \in Sessions, NEW d \in Ledgers, Outcome(s, d)
  PROVE  ledger' \in Ledgers /\ overdue' \in [Sessions -> Ledgers \cup {None}]
BY DEF LinkTypeOK, Outcome, Overwrite

LEMMA FaultType ==
  ASSUME LinkTypeOK, Fault \/ UNCHANGED faults
  PROVE  faults' \in 0 .. MaxFaults
BY LinkAssumption DEF LinkTypeOK, Fault

LEMMA CallType ==
  ASSUME LinkInv, NEW s \in Sessions, CompleteLink(s)
  PROVE  LinkTypeOK'
<1> USE DEF LinkInv
<1>1. ASSUME NEW l \in Links, Poll(s, l) PROVE LinkTypeOK'
  BY <1>1 DEF Poll, plaid, LinkTypeOK
<1>2. CASE Claim(s) \/ ClaimFails(s)
  <2>1. link[s] \in Links /\ ledger.pending[link[s]] # None /\ Outcome(s, claim(s))
    BY <1>2 DEF Claim, ClaimFails, Claimable, Outcome, WriteFails, Working, LinkTypeOK
  <2>2. ledger' \in Ledgers /\ overdue' \in [Sessions -> Ledgers \cup {None}]
    BY <2>1, ClaimDocument, OutcomeType
  <2>3. CASE Claim(s)
    <3>1. ledger.pending[link[s]].processed \subseteq Tokens
      BY <2>1, EntryType DEF Entries
    <3> QED BY <2>2, <2>3, <3>1 DEF Claim, plaid, LinkTypeOK
  <2>4. CASE ClaimFails(s)
    <3>1. UNCHANGED <<started, plaid, open, recovery>> /\ Leave(s) /\ Fault
      BY <2>4 DEF ClaimFails, WriteFails
    <3> QED BY <2>2, <3>1, LeaveType, FaultType DEF plaid, LinkTypeOK
  <2> QED BY <1>2, <2>3, <2>4
<1>3. CASE ClaimRefused(s) \/ ExchangeRefused(s) \/ SaveRefused(s)
  BY <1>3, LeaveType DEF ClaimRefused, ExchangeRefused, SaveRefused, plaid, LinkTypeOK
<1>4. CASE Recall(s)
  BY <1>4 DEF Recall, plaid, LinkTypeOK
<1>5. CASE UseRecovery(s)
  BY <1>5 DEF UseRecovery, plaid, LinkTypeOK
<1>6. CASE exchange(s) \/ ExchangeFails(s)
  <2>1. Unprocessed(s) \subseteq Tokens
    BY <1>6, PublicTokensType DEF exchange, ExchangeFails, Unprocessed, Working, LinkTypeOK
  <2>2. CASE exchange(s)
    BY <2>1, <2>2 DEF exchange, LinkTypeOK
  <2>3. CASE ExchangeFails(s)
    <3>1. Leave(s) /\ Fault
      BY <2>3 DEF ExchangeFails
    <3> QED BY <2>1, <2>3, <3>1, LeaveType, FaultType DEF ExchangeFails, LinkTypeOK
  <2> QED BY <1>6, <2>2, <2>3
<1>7. CASE Save(s) \/ SaveFails(s)
  <2>1. /\ link[s] \in Links /\ ledger.pending[link[s]] # None /\ Outcome(s, save(s))
        /\ token[s] \in Tokens
    BY <1>7 DEF Save, SaveFails, Mine, Outcome, WriteFails, Working, LinkTypeOK
  <2>2. ledger' \in Ledgers /\ overdue' \in [Sessions -> Ledgers \cup {None}]
    BY <2>1, SaveDocument, OutcomeType
  <2>3. CASE Save(s)
    BY <2>1, <2>2, <2>3 DEF Save, Drop, plaid, LinkTypeOK
  <2>4. CASE SaveFails(s)
    <3>1. UNCHANGED <<started, plaid, open, recovery>> /\ Leave(s) /\ Fault
      BY <2>4 DEF SaveFails, WriteFails
    <3> QED BY <2>2, <3>1, LeaveType, FaultType DEF plaid, LinkTypeOK
  <2> QED BY <1>7, <2>3, <2>4
<1>8. CASE FinishLink(s) \/ FinishFails(s)
  <2>1. link[s] \in Links /\ Outcome(s, Without(link[s]))
    BY <1>8 DEF FinishLink, FinishFails, finish, Without, Outcome, WriteFails, Working, LinkTypeOK
  <2>2. ledger' \in Ledgers /\ overdue' \in [Sessions -> Ledgers \cup {None}]
    BY <2>1, RemovalDocument, OutcomeType
  <2>3. UNCHANGED <<started, plaid, open, recovery>> /\ Leave(s) /\ (Fault \/ UNCHANGED faults)
    BY <1>8 DEF FinishLink, FinishFails, WriteFails
  <2> QED BY <2>2, <2>3, LeaveType, FaultType DEF plaid, LinkTypeOK
<1> QED BY <1>1, <1>2, <1>3, <1>4, <1>5, <1>6, <1>7, <1>8 DEF CompleteLink

LEMMA LinkStepType ==
  ASSUME LinkInv, LinkNext
  PROVE  LinkTypeOK'
<1> USE DEF LinkInv
<1>1. ASSUME NEW s \in Sessions, NEW l \in Links, Start(s, l) \/ Dismiss(s, l) PROVE LinkTypeOK'
  <2>1. PICK d \in Ledgers : Outcome(s, d)
    <3>1. CASE Start(s, l)
      BY <3>1, StartDocument DEF Start, Click, Starting, WriteFails, Outcome
    <3>2. CASE Dismiss(s, l)
      BY <3>2, RemovalDocument DEF Dismiss, Click, Without, WriteFails, Outcome
    <3> QED BY <1>1, <3>1, <3>2
  <2>2. ledger' \in Ledgers /\ overdue' \in [Sessions -> Ledgers \cup {None}]
    BY <2>1, OutcomeType
  <2>3. /\ UNCHANGED <<plaid, open, run, recovery>> /\ started' \subseteq started \cup {l}
        /\ (Fault \/ UNCHANGED faults)
    BY <1>1 DEF Start, Dismiss, Click, WriteFails
  <2> QED BY <2>2, <2>3, FaultType DEF plaid, run, LinkTypeOK
<1>2. ASSUME NEW s \in Sessions, NEW t \in Tokens, Disconnect(s, t) PROVE LinkTypeOK'
  <2>1. Outcome(s, Disconnected(t))
    BY <1>2 DEF Disconnect, Click, Disconnected, WriteFails, Outcome
  <2>2. ledger' \in Ledgers /\ overdue' \in [Sessions -> Ledgers \cup {None}]
    BY <2>1, DisconnectDocument, OutcomeType
  <2>3. /\ UNCHANGED <<started, granted, exchanged, lost, open, run, recovery>>
        /\ removed' = removed \cup {t} /\ t \in exchanged
        /\ (Fault \/ UNCHANGED faults)
    BY <1>2 DEF Disconnect, Click, WriteFails, Docs, Sound
  <2> QED BY <2>2, <2>3, FaultType DEF run, LinkTypeOK
<1>3. ASSUME NEW s \in Sessions, Interrupt(s) PROVE LinkTypeOK'
  BY <1>3, LeaveType DEF Interrupt, plaid, LinkTypeOK
<1>4. ASSUME NEW s \in Sessions, Close(s) PROVE LinkTypeOK'
  BY <1>4, LeaveType DEF Close, LinkTypeOK
<1>5. ASSUME NEW s \in Sessions, OverduePutLands(s) PROVE LinkTypeOK'
  BY <1>5 DEF OverduePutLands, Overwrite, plaid, run, LinkTypeOK
<1>6. ASSUME NEW l \in Links, Complete(l) PROVE LinkTypeOK'
  BY <1>6 DEF Complete, run, LinkTypeOK
<1>7. ASSUME NEW l \in Links, Expire(l) PROVE LinkTypeOK'
  <2>1. [ledger.pending[l] EXCEPT !.held = FALSE] \in Entries
    BY <1>7, EntryType DEF Expire, Entries
  <2>2. ledger' \in Ledgers
    BY <1>7, <2>1 DEF Expire, LinkTypeOK, Ledgers, EntryOrNone
  <2> QED BY <1>7, <2>2 DEF Expire, plaid, run, LinkTypeOK
<1> QED BY <1>1, <1>2, <1>3, <1>4, <1>5, <1>6, <1>7, CallType DEF LinkNext, User

-----------------------------------------------------------------------------
(* The calls, and the tokens they hold                                     *)

LEMMA DocsStep ==
  ASSUME LinkInv, LinkNext
  PROVE  Docs' /\ Onward /\ Moves
BY QuietDocs, ClaimDocs, RemovalDocs, DisconnectDocs, OverdueDocs, StartDocs, SaveDocs, ExpireDocs
   DEF LinkInv, LinkNext, CompleteLink, User

\* What Working says of one session, and a step that leaves the session alone.
Fit(s) ==
  /\ stage[s] # "idle" => link[s] # None /\ granted[link[s]] # None
  /\ Works(s) => seen[s] \subseteq ledger.items \cup removed
  /\ stage[s] = "save" => token[s] \in (recovery[s] \cap PublicTokens(link[s])) \ seen[s]

Same(s) ==
  /\ stage'[s] = stage[s] /\ link'[s] = link[s] /\ seen'[s] = seen[s] /\ token'[s] = token[s]
  /\ recovery'[s] = recovery[s]

LEMMA KeepsWorking ==
  ASSUME LinkTypeOK, Docs, Working, Moves, Onward,
         \A t \in exchanged' \ exchanged : t[1] \in Links /\ granted[t[1]] # None,
         \A s \in Sessions : Same(s) \/ Fit(s)'
  PROVE  Working'
<1>1. \A l \in Links : granted'[l] # None => l \in started'
  BY DEF Moves, Working, Docs, Sound
<1>2. \A l \in Links : granted[l] # None => granted'[l] = granted[l]
  BY DEF Moves
<1>3. \A t \in exchanged' : granted'[t[1]] # None
  BY <1>2, TokenOfLink DEF Working, LinkTypeOK
<1>4. ASSUME NEW s \in Sessions, Same(s)
      PROVE  Fit(s)'
  <2>1. Fit(s)
    BY DEF Working, Fit
  <2>2. link[s] # None => link[s] \in Links
    BY DEF LinkTypeOK
  <2>3. stage'[s] # "idle" => link'[s] # None /\ granted'[link'[s]] # None
    BY <1>2, <1>4, <2>1, <2>2 DEF Fit, Same
  <2>4. Works(s)' => seen'[s] \subseteq ledger'.items \cup removed'
    BY <1>4, <2>1 DEF Fit, Same, Works, Onward, Moves
  <2>5. stage'[s] = "save" =>
          token'[s] \in (recovery'[s] \cap PublicTokens(link[s])') \ seen'[s]
    BY <1>2, <1>4, <2>1, <2>2 DEF Fit, Same, PublicTokens
  <2> QED BY <1>4, <2>3, <2>4, <2>5 DEF Fit
<1> QED BY <1>1, <1>3, <1>4 DEF Working, Fit

LEMMA LeaveFits ==
  ASSUME LinkTypeOK, NEW s \in Sessions, Leave(s)
  PROVE  Fit(s)' /\ \A u \in Sessions \ {s} :
           stage'[u] = stage[u] /\ link'[u] = link[u] /\ seen'[u] = seen[u] /\ token'[u] = token[u]
BY DEF LinkTypeOK, Leave, Fit, Works

LEMMA WorkingStep ==
  ASSUME LinkInv, LinkNext
  PROVE  Working'
<1> USE DEF LinkInv
<1>0. Docs' /\ Onward /\ Moves
  BY DocsStep
<1>1. SUFFICES /\ \A t \in exchanged' \ exchanged : t[1] \in Links /\ granted[t[1]] # None
               /\ \A s \in Sessions : Same(s) \/ Fit(s)'
  BY <1>0, KeepsWorking
<1>2. ASSUME NEW s \in Sessions, NEW l \in Links, Poll(s, l)
      PROVE  exchanged' = exchanged /\ \A u \in Sessions : Same(u) \/ Fit(u)'
  BY <1>2, LinkAssumption DEF Poll, plaid, LinkTypeOK, Same, Fit, Works
<1>3. ASSUME NEW s \in Sessions, Claim(s)
      PROVE  exchanged' = exchanged /\ \A u \in Sessions : Same(u) \/ Fit(u)'
  <2>1. \A u \in Sessions \ {s} : Same(u)
    BY <1>3 DEF Claim, LinkTypeOK, Same
  <2>2. link[s] \in Links /\ ledger.pending[link[s]] # None /\ granted[link[s]] # None
    BY <1>3 DEF Claim, Claimable, Working, LinkTypeOK
  <2>3. seen'[s] = ledger.pending[link[s]].processed /\ stage'[s] = "recall"
    BY <1>3 DEF Claim, LinkTypeOK
  <2>4. seen'[s] \subseteq ledger.items \cup removed
    BY <2>2, <2>3 DEF Docs, Sound
  <2>5. link' = link /\ granted' = granted
    BY <1>3 DEF Claim, plaid
  <2>6. Fit(s)'
    BY <1>0, <2>2, <2>3, <2>4, <2>5, LinkAssumption DEF Fit, Onward, Moves
  <2> QED BY <1>3, <2>1, <2>6 DEF Claim, plaid
<1>4. ASSUME NEW s \in Sessions, ClaimRefused(s) \/ ExchangeRefused(s) \/ SaveRefused(s) \/ Interrupt(s)
      PROVE  exchanged' = exchanged /\ \A u \in Sessions : Same(u) \/ Fit(u)'
  BY <1>4, LeaveFits DEF ClaimRefused, ExchangeRefused, SaveRefused, Interrupt, plaid, Same
<1>5. ASSUME NEW s \in Sessions, ClaimFails(s) \/ SaveFails(s) \/ FinishLink(s) \/ FinishFails(s)
      PROVE  exchanged' = exchanged /\ \A u \in Sessions : Same(u) \/ Fit(u)'
  BY <1>5, LeaveFits DEF ClaimFails, SaveFails, FinishLink, FinishFails, plaid, Same
<1>6. ASSUME NEW s \in Sessions, Recall(s)
      PROVE  exchanged' = exchanged /\ \A u \in Sessions : Same(u) \/ Fit(u)'
  <2>1. \A u \in Sessions \ {s} : Same(u)
    BY <1>6 DEF Recall, LinkTypeOK, Same
  <2>2. Fit(s)'
    BY <1>6 DEF Recall, LinkTypeOK, Working, Fit, Works, plaid
  <2> QED BY <1>6, <2>1, <2>2 DEF Recall, plaid
<1>7. ASSUME NEW s \in Sessions, UseRecovery(s)
      PROVE  exchanged' = exchanged /\ \A u \in Sessions : Same(u) \/ Fit(u)'
  <2>1. \A u \in Sessions \ {s} : Same(u)
    BY <1>7 DEF UseRecovery, LinkTypeOK, Same
  <2>2. Fit(s)'
    BY <1>7 DEF UseRecovery, LinkTypeOK, Working, Fit, Works, Unprocessed, PublicTokens, plaid
  <2> QED BY <1>7, <2>1, <2>2 DEF UseRecovery, plaid
<1>8. ASSUME NEW s \in Sessions, exchange(s)
      PROVE  /\ \A t \in exchanged' \ exchanged : t[1] \in Links /\ granted[t[1]] # None
             /\ \A u \in Sessions : Same(u) \/ Fit(u)'
  <2>1. link[s] \in Links /\ granted[link[s]] # None
    BY <1>8 DEF exchange, Working, LinkTypeOK
  <2>2. \A t \in Unprocessed(s) : t[1] = link[s]
    BY <2>1, PublicTokensType DEF Unprocessed
  <2>3. \A u \in Sessions \ {s} : Same(u)
    BY <1>8 DEF exchange, LinkTypeOK, Same
  <2>4. Fit(s)'
    BY <1>8 DEF exchange, LinkTypeOK, Working, Fit, Works, Unprocessed, PublicTokens
  <2> QED BY <1>8, <2>1, <2>2, <2>3, <2>4 DEF exchange
<1>9. ASSUME NEW s \in Sessions, ExchangeFails(s)
      PROVE  /\ \A t \in exchanged' \ exchanged : t[1] \in Links /\ granted[t[1]] # None
             /\ \A u \in Sessions : Same(u) \/ Fit(u)'
  <2>1. link[s] \in Links /\ granted[link[s]] # None
    BY <1>9 DEF ExchangeFails, Working, LinkTypeOK
  <2>2. \A t \in Unprocessed(s) : t[1] = link[s]
    BY <2>1, PublicTokensType DEF Unprocessed
  <2>3. \A u \in Sessions : Same(u) \/ Fit(u)'
    BY <1>9, LeaveFits DEF ExchangeFails, Same
  <2> QED BY <1>9, <2>1, <2>2, <2>3 DEF ExchangeFails
<1>10. ASSUME NEW s \in Sessions, Save(s)
       PROVE  exchanged' = exchanged /\ \A u \in Sessions : Same(u) \/ Fit(u)'
  <2>1. \A u \in Sessions \ {s} : Same(u)
    BY <1>10 DEF Save, Drop, LinkTypeOK, Same
  <2>2. link[s] \in Links /\ granted[link[s]] # None /\ seen[s] \subseteq ledger.items \cup removed
    BY <1>10 DEF Save, Works, Working, LinkTypeOK
  <2>3. /\ stage'[s] = "exchange" /\ link' = link /\ granted' = granted
        /\ seen'[s] = seen[s] \cup {token[s]} /\ ledger'.items = ledger.items \cup {token[s]}
        /\ removed' = removed
    BY <1>10 DEF Save, Overwrite, save, plaid, LinkTypeOK
  <2>4. Fit(s)'
    BY <2>2, <2>3, LinkAssumption DEF Fit
  <2> QED BY <1>10, <2>1, <2>4 DEF Save, plaid
<1>11. ASSUME NEW s \in Sessions, Close(s)
       PROVE  exchanged' = exchanged /\ \A u \in Sessions : Same(u) \/ Fit(u)'
  <2>1. \A u \in Sessions \ {s} : recovery'[u] = recovery[u]
    BY <1>11 DEF Close, LinkTypeOK
  <2> QED BY <1>11, <2>1, LeaveFits DEF Close, Same
<1>12. ASSUME UNCHANGED <<run, recovery, exchanged>>
       PROVE  \A u \in Sessions : Same(u) \/ Fit(u)'
  BY <1>12 DEF run, Same
<1>13. ASSUME NEW s \in Sessions, NEW l \in Links,
              Start(s, l) \/ Dismiss(s, l) \/ OverduePutLands(s) \/ Complete(l) \/ Expire(l)
       PROVE  UNCHANGED <<run, recovery, exchanged>>
  BY <1>13 DEF Start, Dismiss, OverduePutLands, Complete, Expire, plaid
<1>14. ASSUME NEW s \in Sessions, NEW t \in Tokens, Disconnect(s, t)
       PROVE  UNCHANGED <<run, recovery, exchanged>>
  BY <1>14 DEF Disconnect
<1>15. ASSUME NEW l \in Links, Complete(l) \/ Expire(l)
       PROVE  UNCHANGED <<run, recovery, exchanged>>
  BY <1>15 DEF Complete, Expire, plaid
<1>16. ASSUME NEW s \in Sessions, OverduePutLands(s)
       PROVE  UNCHANGED <<run, recovery, exchanged>>
  BY <1>16 DEF OverduePutLands, plaid
<1> QED
  BY <1>2, <1>3, <1>4, <1>5, <1>6, <1>7, <1>8, <1>9, <1>10, <1>11, <1>12, <1>13, <1>14, <1>15, <1>16
     DEF LinkNext, CompleteLink, User

\* A token is kept where it was, or the ledger has it now, or its session has closed.
LEMMA KeepsTokens ==
  ASSUME NoTokenLost, Onward, Moves, lost \subseteq lost',
         exchanged' \ exchanged \subseteq lost' \cup Held',
         \A s \in Sessions, t \in Tokens :
           t \in recovery[s] => t \in recovery'[s] \/ t \in ledger'.items \cup lost',
         exchanged \subseteq Tokens
  PROVE  NoTokenLost'
<1>1. ASSUME NEW t, t \in exchanged', t \notin lost' \cup removed'
      PROVE  t \in ledger'.items \cup Held'
  <2>1. CASE t \notin exchanged
    BY <1>1, <2>1
  <2>2. CASE t \in exchanged /\ t \in ledger.items
    BY <1>1, <2>2 DEF Onward
  <2>3. CASE t \in exchanged /\ t \notin ledger.items
    <3>1. PICK s \in Sessions : t \in recovery[s]
      BY <1>1, <2>3 DEF NoTokenLost, Held, Moves
    <3>2. t \in recovery'[s] \/ t \in ledger'.items
      BY <1>1, <2>3, <3>1
    <3> QED BY <3>2 DEF Held
  <2> QED BY <2>1, <2>2, <2>3
<1> QED BY <1>1 DEF NoTokenLost

LEMMA TokensStep ==
  ASSUME LinkInv, LinkNext
  PROVE  NoTokenLost'
<1> USE DEF LinkInv
<1>0. Onward /\ Moves /\ exchanged \subseteq Tokens
  BY DocsStep DEF LinkTypeOK
<1>1. ASSUME NEW s \in Sessions, exchange(s) PROVE NoTokenLost'
  <2>1. PICK t \in Unprocessed(s) :
          exchanged' = exchanged \cup {t} /\ recovery' = [recovery EXCEPT ![s] = @ \cup {t}]
    BY <1>1 DEF exchange
  <2>2. lost' = lost
    BY <1>1 DEF exchange
  <2>3. t \in Held'
    BY <2>1 DEF LinkTypeOK, Held
  <2>4. \A u \in Sessions : recovery[u] \subseteq recovery'[u]
    BY <2>1 DEF LinkTypeOK
  <2> QED BY <1>0, <2>1, <2>2, <2>3, <2>4, KeepsTokens
<1>2. ASSUME NEW s \in Sessions, ExchangeFails(s) PROVE NoTokenLost'
  BY <1>0, <1>2, KeepsTokens DEF ExchangeFails
<1>3. ASSUME NEW s \in Sessions, Save(s) PROVE NoTokenLost'
  <2>1. \A u \in Sessions : recovery[u] \subseteq recovery'[u] \cup {token[s]}
    BY <1>3 DEF Save, Drop, LinkTypeOK
  <2>2. token[s] \in ledger'.items
    BY <1>3 DEF Save, Overwrite, save
  <2>3. exchanged' = exchanged /\ lost' = lost
    BY <1>3 DEF Save, plaid
  <2> QED BY <1>0, <2>1, <2>2, <2>3, KeepsTokens
<1>4. ASSUME NEW s \in Sessions, Close(s) PROVE NoTokenLost'
  <2>1. \A u \in Sessions : recovery[u] \subseteq recovery'[u] \cup lost'
    BY <1>4 DEF Close, LinkTypeOK
  <2> QED BY <1>0, <1>4, <2>1, KeepsTokens DEF Close
<1>5. ASSUME exchanged' = exchanged, lost' = lost, recovery' = recovery PROVE NoTokenLost'
  BY <1>0, <1>5, KeepsTokens
<1>6. ASSUME NEW s \in Sessions,
             \/ \E l \in Links : Poll(s, l) \/ Start(s, l) \/ Dismiss(s, l)
             \/ Claim(s) \/ ClaimRefused(s) \/ ClaimFails(s) \/ Recall(s) \/ UseRecovery(s)
      PROVE  exchanged' = exchanged /\ lost' = lost /\ recovery' = recovery
  BY <1>6 DEF Poll, Start, Dismiss, Claim, ClaimRefused, ClaimFails, Recall, UseRecovery, plaid
<1>7. ASSUME NEW s \in Sessions,
             \/ \E t \in Tokens : Disconnect(s, t)
             \/ ExchangeRefused(s) \/ SaveRefused(s) \/ SaveFails(s) \/ FinishLink(s) \/ FinishFails(s)
             \/ Interrupt(s) \/ OverduePutLands(s)
      PROVE  exchanged' = exchanged /\ lost' = lost /\ recovery' = recovery
  BY <1>7 DEF Disconnect, ExchangeRefused, SaveRefused, SaveFails, FinishLink, FinishFails, Interrupt,
              OverduePutLands, plaid
<1>8. ASSUME NEW l \in Links, Complete(l) \/ Expire(l)
      PROVE  exchanged' = exchanged /\ lost' = lost /\ recovery' = recovery
  BY <1>8 DEF Complete, Expire, plaid
<1> QED
  BY <1>1, <1>2, <1>3, <1>4, <1>5, <1>6, <1>7, <1>8 DEF LinkNext, CompleteLink, User

LEMMA LinkStepInv ==
  ASSUME LinkInv, [LinkNext]_linkVars
  PROVE  LinkInv'
<1>1. CASE LinkNext
  BY <1>1, LinkStepType, DocsStep, WorkingStep, TokensStep DEF LinkInv
<1>2. CASE UNCHANGED linkVars
  <2>1. LinkTypeOK' /\ NoTokenLost'
    BY <1>2 DEF linkVars, plaid, run, LinkInv, LinkTypeOK, NoTokenLost, Held
  <2>2. Docs' /\ Working'
    BY <1>2 DEF linkVars, plaid, run, LinkInv, Docs, Sound, Follows, Working, Works, PublicTokens
  <2> QED BY <2>1, <2>2 DEF LinkInv
<1> QED BY <1>1, <1>2

LEMMA LinkInvariant == LinkSpec => []LinkInv
<1>1. LinkInit => LinkInv
  BY LinkInitInv
<1>2. LinkInv /\ [LinkNext]_linkVars => LinkInv'
  BY LinkStepInv
<1> QED BY <1>1, <1>2, PTL DEF LinkSpec

-----------------------------------------------------------------------------

\* Every variable keeps its type: the memory of a session, what was lost and what
\* was disconnected are access tokens that Plaid has given.
THEOREM LinkTypeCorrect == LinkSpec => []LinkTypeOK
<1>1. LinkInv => LinkTypeOK
  BY DEF LinkInv
<1> QED BY <1>1, LinkInvariant, PTL

\* No access token is dropped: _complete_link keeps it in the session until its
\* save has verified, however the writes of all sessions end and PUTs land.
THEOREM TokensAreKept == LinkSpec => []NoTokenLost
<1>1. LinkInv => NoTokenLost
  BY DEF LinkInv
<1> QED BY <1>1, LinkInvariant, PTL

\* processed_tokens of an entry names only tokens that are linked, or were
\* disconnected since: a session that skips them skips nothing.
THEOREM ProcessedTokensAreSaved == LinkSpec => []ProcessedIsSaved
<1>1. LinkInv => ProcessedIsSaved
  BY DEF LinkInv, Docs, Sound, ProcessedIsSaved
<1> QED BY <1>1, LinkInvariant, PTL

\* _complete_link removes an entry only when each of its tokens is saved.
THEOREM FinishedLinksAreSaved == LinkSpec => FinishedIsSaved
<1> DEFINE A ==
      \A s \in Sessions, l \in Links :
        (stage[s] = "exchange" /\ link[s] = l
           /\ ledger.pending[l] # None /\ ledger'.pending[l] = None /\ stage'[s] = "idle" /\ open' = open)
          => PublicTokens(l) \subseteq ledger.items \cup removed
<1>1. LinkInv /\ [LinkNext]_linkVars => A
  <2> SUFFICES ASSUME LinkInv, LinkNext, NEW s \in Sessions, stage[s] = "exchange",
                      ledger.pending[link[s]] # None, ledger'.pending[link[s]] = None,
                      stage'[s] = "idle", open' = open
               PROVE  PublicTokens(link[s]) \subseteq ledger.items \cup removed
    BY DEF linkVars, run
  <2>1. CASE Unprocessed(s) = {}
    BY <2>1 DEF LinkInv, Working, Works, Unprocessed
  <2>2. CASE Unprocessed(s) # {}
    <3>1. ASSUME NEW u \in Sessions, u # s, CompleteLink(u) \/ Interrupt(u) \/ Close(u)
          PROVE  stage'[s] = stage[s]
      <4>1. Leave(u) => stage'[s] = stage[s]
        BY <3>1, LeaveFits DEF LinkInv
      <4> QED
        BY <3>1, <4>1
           DEF CompleteLink, Poll, Claim, ClaimRefused, ClaimFails, Recall, UseRecovery, exchange,
               ExchangeRefused, ExchangeFails, Save, SaveRefused, SaveFails, FinishLink, FinishFails,
               Interrupt, Close, LinkInv, LinkTypeOK
    <3>2. CASE CompleteLink(s) \/ Interrupt(s) \/ Close(s)
      <4>1. ledger' = ledger \/ stage'[s] = "save"
        BY <2>2, <3>2
           DEF CompleteLink, Poll, Claim, ClaimRefused, ClaimFails, Recall, UseRecovery, exchange,
               ExchangeRefused, ExchangeFails, Save, SaveRefused, SaveFails, FinishLink, FinishFails,
               Interrupt, Close, LinkInv, LinkTypeOK
      <4> QED BY <4>1
    <3>3. ASSUME NEW u \in Sessions, NEW l \in Links,
                 \/ Start(u, l) \/ Dismiss(u, l) \/ OverduePutLands(u) \/ Complete(l) \/ Expire(l)
                 \/ \E t \in Tokens : Disconnect(u, t)
          PROVE  stage' = stage
      BY <3>3 DEF Start, Dismiss, OverduePutLands, Complete, Expire, Disconnect, run
    <3>4. \A u \in Sessions, l \in Links :
             \/ Start(u, l) \/ Dismiss(u, l) \/ OverduePutLands(u) \/ Complete(l) \/ Expire(l)
             \/ \E t \in Tokens : Disconnect(u, t)
             => stage' = stage
      BY <3>3
    <3>5. link[s] \in Links
      BY DEF LinkInv, Working, LinkTypeOK
    <3> QED BY <3>1, <3>2, <3>4, <3>5 DEF LinkNext, User
  <2> QED BY <2>1, <2>2
<1>2. LinkInv /\ [LinkNext]_linkVars => [A]_linkVars
  BY <1>1
<1> QED BY <1>2, LinkInvariant, PTL DEF LinkSpec, FinishedIsSaved

\* No write, late or not, brings a disconnected institution back.
THEOREM RemovedTokensStayOut == LinkSpec => RemovedStaysRemoved
<1>1. LinkInv /\ [LinkNext]_linkVars => removed \cap ledger'.items \subseteq ledger.items
  <2>1. LinkInv /\ LinkNext => removed \cap ledger'.items \subseteq ledger.items
    BY DocsStep DEF Onward, Moves
  <2> QED BY <2>1 DEF linkVars
<1> QED BY <1>1, LinkInvariant, PTL DEF LinkSpec, RemovedStaysRemoved
=============================================================================
