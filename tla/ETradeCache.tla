----------------------------- MODULE ETradeCache -----------------------------
(***************************************************************************)
(* The cache every page reads E*TRADE through (src/etrade_data_cache.py).  *)
(* Entries live in one vault of the process, keyed by the OAuth token (its *)
(* namespace) and the resource; a second vault keeps what was last known   *)
(* for the time E*TRADE cannot be reached.  A lock guards each vault, and  *)
(* none is held while E*TRADE is asked, so loads of the browser tabs       *)
(* overlap with each other, with hits and with a DISCONNECT.               *)
(*                                                                         *)
(* A value is the moment E*TRADE read it.  An entry is stamped loaded_at   *)
(* (at) when its answer is stored, which is later: by at most Latency, the *)
(* time an answer is on its way.                                           *)
(***************************************************************************)
EXTENDS Naturals, FiniteSets

CONSTANTS
  Callers,           \* browser tabs: each makes one call at a time
  Spaces,            \* namespaces: OAuth tokens
  Keys,              \* resources
  TTL,               \* CACHE_TTLS
  Retention,         \* CACHE_RETENTION_SECONDS
  OfflineRetention,  \* OFFLINE_RETENTION_SECONDS
  MaxEntries,        \* MAX_ENTRIES_PER_SESSION
  MaxOffline,        \* MAX_OFFLINE_ENTRIES
  Latency,           \* assumed: an answer is returned this soon after it was read
  None,              \* no entry, call or answer
  MaxClock           \* bound: the last moment

Times == 0 .. MaxClock

ASSUME CacheAssumption ==
  /\ IsFiniteSet(Callers) /\ IsFiniteSet(Keys)
  /\ {Retention, OfflineRetention, MaxEntries, MaxOffline, Latency, MaxClock} \subseteq Nat
  /\ TTL \in Nat \ {0}

VARIABLES
  now,
  entries,   \* entries[s][k]: the cached answer for resource k, or None
  offline,   \* offline[k]: what is last known of resource k, or None
  pc,        \* pc[c]: where the call of tab c is
  call,      \* call[c]: the namespace, the resource, and the time before which an
             \* answer is not wanted: that of the call with force_refresh, or 0
  stale,     \* stale[c]: the entry the call found and did not use (stale_entry)
  value,     \* value[c]: the answer that was read and is not stored yet
  answer,    \* what the last step returned, or None
  seen       \* history: seen[s][k] is the newest value returned as current

vars == <<now, entries, offline, pc, call, stale, value, answer, seen>>

Entry == {e \in [at : Times, read : Times] : e.read <= e.at}
Call == [space : Spaces, key : Keys, wanted : Times]
Answer == [space : Spaces, key : Keys, wanted : Times,
           read : Times, at : Times, offline : BOOLEAN]

ASSUME NoneAssumption == None \notin Entry /\ None \notin Call /\ None \notin Answer

TypeOK ==
  /\ now \in Times
  /\ entries \in [Spaces -> [Keys -> Entry \cup {None}]]
  /\ offline \in [Keys -> Entry \cup {None}]
  /\ pc \in [Callers -> {"idle", "load", "loaded", "store"}]
  /\ call \in [Callers -> Call \cup {None}]
  /\ \A c \in Callers : pc[c] \in {"load", "loaded", "store"} => call[c] # None
  /\ stale \in [Callers -> Entry \cup {None}]
  /\ value \in [Callers -> Entry \cup {None}]
  /\ \A c \in Callers : pc[c] \in {"loaded", "store"} => value[c] # None
  /\ answer \in Answer \cup {None}
  /\ seen \in [Spaces -> [Keys -> Times]]

Init ==
  /\ now = 0
  /\ entries = [s \in Spaces |-> [k \in Keys |-> None]]
  /\ offline = [k \in Keys |-> None]
  /\ pc = [c \in Callers |-> "idle"]
  /\ call = [c \in Callers |-> None]
  /\ stale = [c \in Callers |-> None]
  /\ value = [c \in Callers |-> None]
  /\ answer = None
  /\ seen = [s \in Spaces |-> [k \in Keys |-> 0]]

-----------------------------------------------------------------------------
(* Pruning                                                                 *)

Filled(e) == {k \in Keys : e[k] # None}
Restricted(e, K) == [k \in Keys |-> IF k \in K THEN e[k] ELSE None]

\* The keys that can be left of e: those that are not too old at time t, and
\* the newest max of them.  Which of two of one moment goes first is open.
KeepsAge(e, retention, max, t) ==    \* mutant: only the age is looked at
  {{k \in Filled(e) : t - e[k].at <= retention}}
Keeps(e, retention, max, t) ==
  LET young == {k \in Filled(e) : t - e[k].at <= retention}
  IN  {K \in SUBSET young :
         /\ Cardinality(K) <= max
         /\ K # young => Cardinality(K) = max
         /\ \A k \in K, d \in young \ K : e[d].at <= e[k].at}

_prune_locked(e, t) == {Restricted(e, K) : K \in Keeps(e, Retention, MaxEntries, t)}
_prune_offline_locked(e, t) ==
  {Restricted(e, K) : K \in Keeps(e, OfflineRetention, MaxOffline, t)}

\* _offline_store: prune, then put the entry.
_offline_store(k, entry) ==
  \E e \in _prune_offline_locked(offline, entry.at) : offline' = [e EXCEPT ![k] = entry]

-----------------------------------------------------------------------------
(* A call (_cached)                                                        *)

Called(s, k, forced) == [space |-> s, key |-> k, wanted |-> IF forced THEN now ELSE 0]

\* The call w returns the value read, as current or as offline.
Returns(w, read, isOffline) ==
  /\ answer' = [space |-> w.space, key |-> w.key, wanted |-> w.wanted,
                read |-> read, at |-> now, offline |-> isOffline]
  /\ IF isOffline THEN UNCHANGED seen
     ELSE seen' = [seen EXCEPT ![w.space][w.key] = IF @ < read THEN read ELSE @]

Nothing == answer' = None /\ UNCHANGED seen

\* The call of tab c is over.
Done(c) ==
  /\ pc' = [pc EXCEPT ![c] = "idle"]
  /\ call' = [call EXCEPT ![c] = None]
  /\ stale' = [stale EXCEPT ![c] = None]
  /\ value' = [value EXCEPT ![c] = None]

YoungAtLast(entry) ==    \* mutant: one moment too long
  now - entry.at <= TTL
Young(entry) == now - entry.at < TTL

\* A call that asks E*TRADE: with force_refresh, or when the entry is missing or
\* too old.  The namespace is pruned first.
Ask(c) ==
  /\ pc[c] = "idle"
  /\ \E s \in Spaces, k \in Keys, forced \in BOOLEAN :
       \E e \in _prune_locked(entries[s], now) :
         /\ e[k] # None => forced \/ ~ Young(e[k])
         /\ entries' = [entries EXCEPT ![s] = e]
         /\ call' = [call EXCEPT ![c] = Called(s, k, forced)]
         /\ stale' = [stale EXCEPT ![c] = e[k]]
  /\ pc' = [pc EXCEPT ![c] = "load"]
  /\ Nothing
  /\ UNCHANGED <<now, offline, value>>

\* A call that the cache answers.
Hit(c) ==
  /\ pc[c] = "idle"
  /\ \E s \in Spaces, k \in Keys :
       \E e \in _prune_locked(entries[s], now) :
         /\ e[k] # None /\ Young(e[k])
         /\ entries' = [entries EXCEPT ![s] = e]
         /\ Returns(Called(s, k, FALSE), e[k].read, FALSE)
  /\ UNCHANGED <<now, offline, pc, call, stale, value>>

\* E*TRADE reads the value; its answer is on the way.
Respond(c) ==
  /\ pc[c] = "load"
  /\ value' = [value EXCEPT ![c] = [at |-> now, read |-> now]]
  /\ pc' = [pc EXCEPT ![c] = "loaded"]
  /\ Nothing
  /\ UNCHANGED <<now, entries, offline, call, stale>>

\* The request fails: the call returns the entry it found, or what is last
\* known, or raises.
FailRestamps(c) ==    \* mutant: the old value is stored as if it were new
  /\ pc[c] = "load"
  /\ stale[c] # None
  /\ entries' = [entries EXCEPT ![call[c].space][call[c].key] = [stale[c] EXCEPT !.at = now]]
  /\ Returns(call[c], stale[c].read, TRUE)
  /\ Done(c)
  /\ UNCHANGED <<now, offline>>
Fail(c) ==
  /\ pc[c] = "load"
  /\ IF stale[c] # None
     THEN Returns(call[c], stale[c].read, TRUE) /\ UNCHANGED offline
     ELSE \E e \in _prune_offline_locked(offline, now) :
            /\ offline' = e
            /\ IF e[call[c].key] # None
               THEN Returns(call[c], e[call[c].key].read, TRUE)
               ELSE Nothing
  /\ Done(c)
  /\ UNCHANGED <<now, entries>>

\* The answer arrives.  It is stored without a look at what is there, and
\* loaded_at is the time of that.
Arrive(c) ==
  /\ pc[c] = "loaded"
  /\ LET entry == [at |-> now, read |-> value[c].read]
     IN  /\ value' = [value EXCEPT ![c] = entry]
         /\ entries' = [entries EXCEPT ![call[c].space][call[c].key] = entry]
  /\ pc' = [pc EXCEPT ![c] = "store"]
  /\ Nothing
  /\ UNCHANGED <<now, offline, call, stale>>

\* ... and then as what is last known, under the other lock.
Store(c) ==
  /\ pc[c] = "store"
  /\ _offline_store(call[c].key, value[c])
  /\ Returns(call[c], value[c].read, FALSE)
  /\ Done(c)
  /\ UNCHANGED <<now, entries>>

\* A click ends the run at _etrade_cache_last_event, before it is.
Cut(c) ==
  /\ pc[c] = "store"
  /\ Nothing
  /\ Done(c)
  /\ UNCHANGED <<now, entries, offline>>

-----------------------------------------------------------------------------
(* The rest                                                                *)

\* DISCONNECT.
clear_session_cache(s) ==
  /\ Filled(entries[s]) # {}
  /\ entries' = [entries EXCEPT ![s] = [k \in Keys |-> None]]
  /\ Nothing
  /\ UNCHANGED <<now, offline, pc, call, stale, value>>

\* Time passes; an answer that has been read is returned within Latency.
Tick ==
  /\ now < MaxClock
  /\ \A c \in Callers : pc[c] \in {"loaded", "store"} => now - value[c].read < Latency
  /\ now' = now + 1
  /\ Nothing
  /\ UNCHANGED <<entries, offline, pc, call, stale, value>>

Next ==
  \/ \E c \in Callers :
       Ask(c) \/ Hit(c) \/ Respond(c) \/ Fail(c) \/ Arrive(c) \/ Store(c) \/ Cut(c)
  \/ \E s \in Spaces : clear_session_cache(s)
  \/ Tick

Spec == Init /\ [][Next]_vars

-----------------------------------------------------------------------------
(* Properties                                                              *)

Loading(s) == {c \in Callers : pc[c] \in {"load", "loaded"} /\ call[c].space = s}

\* Entries are pruned before a load and added after it.  With the loads that are
\* under way, a namespace never has more than one entry for each tab above the
\* bound; what is last known exceeds its bound by one.
Bounded ==
  /\ \A s \in Spaces :
       Cardinality(Filled(entries[s])) + Cardinality(Loading(s)) <= MaxEntries + Cardinality(Callers)
  /\ Cardinality(Filled(offline)) <= MaxOffline + 1

\* What a call returns without marking the session as offline was read by
\* E*TRADE less than the TTL and the way of one answer ago, however loads,
\* failures, prunings and disconnections overlap.
FreshOrOffline ==
  answer # None /\ ~ answer.offline => answer.at - answer.read < TTL + Latency

\* A load that is overtaken by a newer one stores its older answer over it.
\* What tabs are shown as current of one resource goes back by no more than
\* the way of one answer.
NeverFarBack ==
  [][answer' # None /\ ~ answer'.offline =>
       answer'.read + Latency >= seen[answer'.space][answer'.key]]_vars

\* A call with force_refresh returns what E*TRADE reads after the click ("an
\* uncached chain quote is obtained before broker preview",
\* vertical_options_ui.py:2890).
ForcedIsFresh == answer # None => answer.read >= answer.wanted
=============================================================================
