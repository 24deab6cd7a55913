---------------------------- MODULE ETradeSession ----------------------------
(***************************************************************************)
(* The E*TRADE OAuth session of the browser tabs (streamlit_app.py,        *)
(* terminal_core.py, etrade_connection_ui_v2.py) and the vault of the      *)
(* process that brings it back after a page refresh                        *)
(* (src/session_persistence.py).  A tab holds an access token and the time *)
(* it was last used; each of its runs saves both in the vault, under the   *)
(* key of the one access code, and an unlocked tab without a token takes   *)
(* what is there.  Nothing locks the vault: a look and the write that      *)
(* depends on it are two steps.                                            *)
(***************************************************************************)
EXTENDS Naturals

CONSTANTS
  Tabs,        \* browser tabs
  Inactivity,  \* ETRADE_INACTIVITY_SECONDS
  Day,         \* moments from one midnight to the next
  NoSession,   \* no saved session
  MaxToken,    \* bound: authorizations
  LastMoment   \* bound

Moments == 0 .. LastMoment
Tokens == 1 .. MaxToken

ASSUME SessionAssumption ==
  /\ {Inactivity, MaxToken, LastMoment} \subseteq Nat
  /\ Day \in Nat \ {0}

VARIABLES
  clock,
  issued,     \* issued[k]: when token k was issued (issued_at)
  count,      \* tokens issued so far
  vault,      \* the saved session, or NoSession
  stage,      \* stage[t]: the step of the run of tab t
  unlocked,   \* unlocked[t]: the access code was entered
  token,      \* token[t]: etrade_access_token, or 0
  activity,   \* activity[t]: etrade_last_activity_at
  hand,       \* hand[t]: the session tab t is about to restore or to save, or NoSession
  touched,    \* history: touched[k] is the last use of token k in any tab
  forgotten   \* history: tokens disconnected in the last tab that had them, by a
              \* run that nothing ended before its own token was dropped

tabs == <<stage, unlocked, token, activity, hand>>
sessionVars == <<clock, issued, count, vault, tabs, touched, forgotten>>

Saved == [token : Tokens, activity : Moments]

ASSUME NoSessionAssumption == NoSession \notin Saved

SessionTypeOK ==
  /\ clock \in Moments
  /\ issued \in [Tokens -> Moments]
  /\ count \in 0 .. MaxToken
  /\ vault \in Saved \cup {NoSession}
  /\ stage \in [Tabs -> {"idle", "restore", "connect", "save", "page", "disconnect", "lock", "forget", "clear"}]
  /\ unlocked \in [Tabs -> BOOLEAN]
  /\ token \in [Tabs -> 0 .. count]
  /\ activity \in [Tabs -> Moments]
  /\ hand \in [Tabs -> Saved \cup {NoSession}]
  /\ \A t \in Tabs : /\ stage[t] = "restore" => hand[t] # NoSession
                     /\ hand[t] # NoSession => stage[t] \in {"restore", "save", "lock"}
  /\ touched \in [Tokens -> Moments]
  /\ forgotten \in SUBSET Tokens

SessionInit ==
  /\ clock = 0
  /\ issued = [k \in Tokens |-> 0]
  /\ count = 0
  /\ vault = NoSession
  /\ stage = [t \in Tabs |-> "idle"]
  /\ unlocked = [t \in Tabs |-> FALSE]
  /\ token = [t \in Tabs |-> 0]
  /\ activity = [t \in Tabs |-> 0]
  /\ hand = [t \in Tabs |-> NoSession]
  /\ touched = [k \in Tokens |-> 0]
  /\ forgotten = {}

-----------------------------------------------------------------------------
(* Expiry                                                                  *)

\* _expiry_times: midnight after the token was issued, whatever its use, and
\* the end of the inactivity.
Midnight(k) == (issued[k] \div Day + 1) * Day
Expired(s) == clock >= s.activity + Inactivity \/ clock >= Midnight(s.token)

\* What save_etrade_session keeps of the tab: the time of its last use.
SavedAtNow(t) ==    \* mutant: saving counts as use
  [token |-> token[t], activity |-> clock]
SessionOf(t) == [token |-> token[t], activity |-> activity[t]]

Goto(t, p) == stage' = [stage EXCEPT ![t] = p]

\* save_etrade_session compares the clock: the session is written in the next
\* step, or is over and popped from the vault.
Save(t, s, next) ==
  IF Expired(s)
  THEN /\ vault' = NoSession
       /\ hand' = [hand EXCEPT ![t] = NoSession]
       /\ Goto(t, next)
  ELSE /\ hand' = [hand EXCEPT ![t] = s]
       /\ Goto(t, IF next = "lock" THEN "lock" ELSE "save")
       /\ UNCHANGED vault

\* _touch_etrade_session, up to its save.
Touches(t, k) ==
  /\ activity' = [activity EXCEPT ![t] = clock]
  /\ touched' = [touched EXCEPT ![k] = clock]

-----------------------------------------------------------------------------
(* A run of the script                                                     *)

CanRestore(t) == token[t] = 0 /\ vault # NoSession

\* The run looks for a session if the tab has none
\* (_restore_active_etrade_session_after_unlock).
Begin(t) ==
  /\ stage[t] = "idle" /\ unlocked[t]
  /\ IF CanRestore(t)
     THEN /\ hand' = [hand EXCEPT ![t] = vault]
          /\ Goto(t, "restore")
     ELSE /\ Goto(t, "connect")
          /\ UNCHANGED hand
  /\ UNCHANGED <<clock, issued, count, vault, unlocked, token, activity, touched, forgotten>>

\* restore_etrade_session: an expired session is popped, a valid one is taken.
Restore(t) ==
  /\ stage[t] = "restore" /\ ~ Expired(hand[t])
  /\ token' = [token EXCEPT ![t] = hand[t].token]
  /\ activity' = [activity EXCEPT ![t] = hand[t].activity]
  /\ hand' = [hand EXCEPT ![t] = NoSession]
  /\ Goto(t, "connect")
  /\ UNCHANGED <<clock, issued, count, vault, unlocked, touched, forgotten>>

DropExpired(t) ==
  /\ stage[t] = "restore" /\ Expired(hand[t])
  /\ vault' = NoSession
  /\ hand' = [hand EXCEPT ![t] = NoSession]
  /\ Goto(t, "connect")
  /\ UNCHANGED <<clock, issued, count, unlocked, token, activity, touched, forgotten>>

\* VERIFY & CONNECT: a new token, and its first use.
Verify(t) ==
  /\ stage[t] = "connect" /\ token[t] = 0
  /\ count < MaxToken
  /\ count' = count + 1
  /\ issued' = [issued EXCEPT ![count + 1] = clock]
  /\ token' = [token EXCEPT ![t] = count + 1]
  /\ Touches(t, count + 1)
  /\ hand' = [hand EXCEPT ![t] = [token |-> count + 1, activity |-> clock]]
  /\ Goto(t, "save")
  /\ UNCHANGED <<clock, vault, unlocked, forgotten>>

\* _persist_active_etrade_session, in every run.
Persist(t) ==
  /\ stage[t] = "connect"
  /\ IF token[t] = 0 THEN Goto(t, "page") /\ UNCHANGED <<vault, hand>>
     ELSE Save(t, SessionOf(t), "page")
  /\ UNCHANGED <<clock, issued, count, unlocked, token, activity, touched, forgotten>>

\* A page, or RENEW, uses the session: touch_session.
Touch(t) ==
  /\ stage[t] \in {"connect", "page"} /\ token[t] # 0
  /\ Touches(t, token[t])
  /\ Save(t, [token |-> token[t], activity |-> clock], "page")
  /\ UNCHANGED <<clock, issued, count, unlocked, token, forgotten>>

\* The session is written to the vault.
Write(t) ==
  /\ stage[t] = "save"
  /\ vault' = hand[t]
  /\ hand' = [hand EXCEPT ![t] = NoSession]
  /\ Goto(t, "page")
  /\ UNCHANGED <<clock, issued, count, unlocked, token, activity, touched, forgotten>>

\* The run is over, or a click ends it wherever it touches the session; a
\* disconnection can so be ended with the token still in the tab.
End(t) ==
  /\ stage[t] \notin {"idle", "lock"}
  /\ Goto(t, "idle")
  /\ hand' = [hand EXCEPT ![t] = NoSession]
  /\ forgotten' = IF stage[t] = "disconnect" THEN forgotten \ {token[t]} ELSE forgotten
  /\ UNCHANGED <<clock, issued, count, vault, unlocked, token, activity, touched>>

-----------------------------------------------------------------------------
(* DISCONNECT, LOCK, refresh and redeploy                                  *)

\* Another tab has the token, and is not about to drop it.
Elsewhere(t, k) ==
  \E u \in Tabs \ {t} : \/ token[u] = k /\ stage[u] # "disconnect"
                        \/ hand[u] # NoSession /\ hand[u].token = k

DisconnectKeeping(t) ==    \* mutant: the vault is not cleared
  /\ stage[t] = "connect" /\ token[t] # 0
  /\ forgotten' = IF Elsewhere(t, token[t]) THEN forgotten ELSE forgotten \cup {token[t]}
  /\ Goto(t, "disconnect")
  /\ UNCHANGED <<clock, issued, count, vault, unlocked, token, activity, hand, touched>>
\* DISCONNECT: clear_etrade_session pops the session of the vault, and then
\* touches the session of the tab.
Disconnect(t) ==
  /\ stage[t] = "connect" /\ token[t] # 0
  /\ vault' = NoSession
  /\ forgotten' = IF Elsewhere(t, token[t]) THEN forgotten ELSE forgotten \cup {token[t]}
  /\ Goto(t, "disconnect")
  /\ UNCHANGED <<clock, issued, count, unlocked, token, activity, hand, touched>>

\* LOCK saves the session once more.
Lock(t) ==
  /\ stage[t] = "connect"
  /\ IF token[t] = 0 THEN Goto(t, "lock") /\ UNCHANGED <<vault, hand>>
     ELSE Save(t, SessionOf(t), "lock")
  /\ UNCHANGED <<clock, issued, count, unlocked, token, activity, touched, forgotten>>

Locked(t) ==
  /\ stage[t] = "lock"
  /\ vault' = IF hand[t] # NoSession THEN hand[t] ELSE vault
  /\ hand' = [hand EXCEPT ![t] = NoSession]
  /\ Goto(t, "forget")
  /\ UNCHANGED <<clock, issued, count, unlocked, token, activity, touched, forgotten>>

\* _clear_etrade_runtime(lock_access=True), the part of terminal_core: after
\* either button the tab drops its token first, and then the other keys.
Forget(t) ==
  /\ stage[t] \in {"disconnect", "forget"}
  /\ token' = [token EXCEPT ![t] = 0]
  /\ Goto(t, "clear")
  /\ UNCHANGED <<clock, issued, count, vault, unlocked, activity, hand, touched, forgotten>>

Emptied(t) ==
  /\ activity' = [activity EXCEPT ![t] = 0]
  /\ unlocked' = [unlocked EXCEPT ![t] = FALSE]

Clear(t) ==
  /\ stage[t] = "clear"
  /\ Emptied(t)
  /\ Goto(t, "idle")
  /\ UNCHANGED <<clock, issued, count, vault, token, hand, touched, forgotten>>

\* The page is refreshed: a session without anything, and locked.
Refresh(t) ==
  /\ stage[t] = "idle"
  /\ Emptied(t)
  /\ token' = [token EXCEPT ![t] = 0]
  /\ UNCHANGED <<clock, issued, count, vault, stage, hand, touched, forgotten>>

Unlock(t) ==
  /\ stage[t] = "idle" /\ ~ unlocked[t]
  /\ unlocked' = [unlocked EXCEPT ![t] = TRUE]
  /\ UNCHANGED <<clock, issued, count, vault, stage, token, activity, hand, touched, forgotten>>

\* A redeployment ends the process: the vault and every tab's session are gone.
Redeploy ==
  /\ vault' = NoSession
  /\ stage' = [t \in Tabs |-> "idle"]
  /\ unlocked' = [t \in Tabs |-> FALSE]
  /\ token' = [t \in Tabs |-> 0]
  /\ activity' = [t \in Tabs |-> 0]
  /\ hand' = [t \in Tabs |-> NoSession]
  /\ UNCHANGED <<clock, issued, count, touched, forgotten>>

TimePasses ==
  /\ clock < LastMoment
  /\ clock' = clock + 1
  /\ UNCHANGED <<issued, count, vault, tabs, touched, forgotten>>

SessionNext ==
  \/ \E t \in Tabs :
       \/ Begin(t) \/ Restore(t) \/ DropExpired(t) \/ Verify(t) \/ Persist(t) \/ Touch(t)
       \/ Write(t) \/ End(t) \/ Disconnect(t) \/ Lock(t) \/ Locked(t) \/ Forget(t) \/ Clear(t)
       \/ Refresh(t) \/ Unlock(t)
  \/ Redeploy \/ TimePasses

SessionSpec == SessionInit /\ [][SessionNext]_sessionVars

-----------------------------------------------------------------------------
(* Properties                                                              *)

\* A tab gets a session back only while it is valid: before the midnight after
\* its authorization, and within the inactivity limit since it was really used
\* last, in whatever tab; saving and restoring do not extend it ("without
\* extending it").
RestoredInTime ==
  [][\A t \in Tabs : token[t] = 0 /\ token'[t] # 0 /\ count' = count =>
       /\ clock < Midnight(token'[t])
       /\ clock < touched[token'[t]] + Inactivity]_sessionVars

\* A session that is disconnected in the last tab that has it is forgotten: no
\* save, restore, refresh or redeployment brings it back ("Forget the cached
\* OAuth session after an explicit disconnect"), unless the run that disconnects
\* is ended before the tab itself has dropped the token.
DisconnectIsFinal ==
  \A k \in forgotten :
    /\ vault = NoSession \/ vault.token # k
    /\ \A t \in Tabs : token[t] = k => stage[t] = "disconnect"

\* The same without the exception: the vault never has it again.
DisconnectIsHeld ==
  \A k \in Tokens : [](k \in forgotten => [](vault = NoSession \/ vault.token # k))
=============================================================================
