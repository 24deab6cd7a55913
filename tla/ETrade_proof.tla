---------------------------- MODULE ETrade_proof ----------------------------
(***************************************************************************)
(* Proofs about the two things a process keeps of E*TRADE.                 *)
(*                                                                         *)
(* ETradeCache: for any number of tabs, tokens and resources, any limits   *)
(* and retentions and any way of an answer.                                *)
(*                                                                         *)
(* ETradeSession: for any number of tabs and authorizations, any           *)
(* inactivity limit and any length of the day.                             *)
(***************************************************************************)
EXTENDS ETradeCache, ETradeSession, Integers, FiniteSetTheorems, TLAPS

-----------------------------------------------------------------------------
(* ETradeCache                                                             *)

(* Pruning                                                                 *)

Vault == [Keys -> Entry \cup {None}]

\* A pruned vault has entries of the vault, and no more than the bound.
LEMMA KeepsBound ==
  ASSUME NEW e \in Vault, NEW retention, NEW max \in Nat, NEW t,
         NEW K \in Keeps(e, retention, max, t)
  PROVE  /\ Restricted(e, K) \in Vault
         /\ \A k \in Keys : Restricted(e, K)[k] \in {e[k], None}
         /\ IsFiniteSet(Filled(Restricted(e, K)))
         /\ Cardinality(Filled(Restricted(e, K))) <= max
<1>1. K \subseteq Filled(e) /\ Cardinality(K) <= max
  BY DEF Keeps
<1>2. Filled(e) \subseteq Keys
  BY DEF Filled
<1>3. Restricted(e, K) \in Vault /\ \A k \in Keys : Restricted(e, K)[k] \in {e[k], None}
  BY DEF Restricted, Vault
<1>4. Filled(Restricted(e, K)) = K
  BY <1>1, <1>2 DEF Filled, Restricted
<1>5. IsFiniteSet(K)
  BY <1>1, <1>2, FS_Subset, CacheAssumption
<1> QED BY <1>1, <1>3, <1>4, <1>5

LEMMA PruneBound ==
  ASSUME NEW e \in Vault, NEW t, NEW f \in _prune_locked(e, t)
  PROVE  /\ f \in Vault
         /\ \A k \in Keys : f[k] \in {e[k], None}
         /\ Cardinality(Filled(f)) <= MaxEntries
<1>1. PICK K \in Keeps(e, Retention, MaxEntries, t) : f = Restricted(e, K)
  BY DEF _prune_locked
<1> QED BY <1>1, KeepsBound, CacheAssumption

LEMMA PruneOfflineBound ==
  ASSUME NEW e \in Vault, NEW t, NEW f \in _prune_offline_locked(e, t)
  PROVE  /\ f \in Vault
         /\ \A k \in Keys : f[k] \in {e[k], None}
         /\ Cardinality(Filled(f)) <= MaxOffline
<1>1. PICK K \in Keeps(e, OfflineRetention, MaxOffline, t) : f = Restricted(e, K)
  BY DEF _prune_offline_locked
<1> QED BY <1>1, KeepsBound, CacheAssumption

LEMMA FilledFinite ==
  ASSUME NEW e
  PROVE  IsFiniteSet(Filled(e)) /\ Cardinality(Filled(e)) \in Nat
<1>1. Filled(e) \subseteq Keys
  BY DEF Filled
<1> QED BY <1>1, FS_Subset, FS_CardinalityType, CacheAssumption

\* One entry that is written adds at most one.
LEMMA FilledPut ==
  ASSUME NEW e \in Vault, NEW k \in Keys, NEW x \in Entry \cup {None}
  PROVE  Cardinality(Filled([e EXCEPT ![k] = x])) <= Cardinality(Filled(e)) + 1
<1>1. Filled([e EXCEPT ![k] = x]) \subseteq Filled(e) \cup {k}
  BY DEF Filled, Vault
<1>2. /\ IsFiniteSet(Filled(e) \cup {k})
      /\ Cardinality(Filled(e) \cup {k}) <= Cardinality(Filled(e)) + 1
  BY FilledFinite, FS_AddElement
<1>3. Cardinality(Filled([e EXCEPT ![k] = x])) <= Cardinality(Filled(e) \cup {k})
  BY <1>1, <1>2, FS_Subset
<1> QED BY <1>2, <1>3, FilledFinite, FS_CardinalityType

-----------------------------------------------------------------------------
(* Types                                                                   *)

\* An answer on its way was read in the past.
ReadBefore == \A c \in Callers : value[c] # None => value[c].read <= now

Typed == TypeOK /\ ReadBefore

LEMMA InitTyped == Init => Typed
BY CacheAssumption DEF Init, Typed, TypeOK, ReadBefore, Times

LEMMA DoneType ==
  ASSUME Typed, NEW c \in Callers, Done(c)
  PROVE  /\ pc' \in [Callers -> {"idle", "load", "loaded", "store"}]
         /\ call' \in [Callers -> Call \cup {None}]
         /\ \A d \in Callers : pc'[d] \in {"load", "loaded", "store"} => call'[d] # None
         /\ stale' \in [Callers -> Entry \cup {None}]
         /\ value' \in [Callers -> Entry \cup {None}]
         /\ \A d \in Callers : pc'[d] \in {"loaded", "store"} => value'[d] # None
         /\ \A d \in Callers : value'[d] # None => value'[d] = value[d]
BY DEF Done, Typed, TypeOK

LEMMA ReturnsType ==
  ASSUME Typed, NEW w \in Call, NEW read \in Times, NEW o \in BOOLEAN, Returns(w, read, o)
  PROVE  answer' \in Answer /\ answer' # None /\ seen' \in [Spaces -> [Keys -> Times]]
<1>1. answer' \in Answer
  BY DEF Returns, Answer, Call, Typed, TypeOK
<1>2. seen' \in [Spaces -> [Keys -> Times]]
  <2>1. CASE o
    BY <2>1 DEF Returns, Typed, TypeOK
  <2>2. CASE ~ o
    <3>1. /\ w.space \in Spaces /\ w.key \in Keys
          /\ seen[w.space][w.key] \in Times
      BY DEF Call, Typed, TypeOK
    <3>2. PICK v \in Times : seen' = [seen EXCEPT ![w.space][w.key] = v]
      BY <2>2, <3>1 DEF Returns
    <3> QED BY <3>1, <3>2 DEF Typed, TypeOK
  <2> QED BY <2>1, <2>2
<1> QED BY <1>1, <1>2, NoneAssumption

LEMMA NothingType ==
  ASSUME Typed, Nothing
  PROVE  answer' \in Answer \cup {None} /\ seen' \in [Spaces -> [Keys -> Times]]
BY DEF Nothing, Typed, TypeOK

LEMMA CalledType ==
  ASSUME Typed, NEW s \in Spaces, NEW k \in Keys, NEW f \in BOOLEAN
  PROVE  Called(s, k, f) \in Call /\ Called(s, k, f) # None
         /\ Called(s, k, f).space = s /\ Called(s, k, f).key = k
BY CacheAssumption, NoneAssumption DEF Typed, TypeOK, Called, Call, Times

LEMMA CallType ==
  ASSUME Typed, NEW c \in Callers, pc[c] # "idle"
  PROVE  /\ call[c] \in Call /\ call[c] # None
         /\ call[c].space \in Spaces /\ call[c].key \in Keys
BY DEF Typed, TypeOK, Call

LEMMA ValueType ==
  ASSUME Typed, NEW c \in Callers, pc[c] \in {"loaded", "store"}
  PROVE  /\ value[c] \in Entry /\ value[c].read \in Times /\ value[c].read <= now
BY DEF Typed, TypeOK, ReadBefore, Entry

LEMMA VaultType == Typed => offline \in Vault /\ \A s \in Spaces : entries[s] \in Vault
BY DEF Typed, TypeOK, Vault

LEMMA EntryType == \A x \in Entry : x # None /\ x.read \in Times /\ x.at \in Times /\ x.read <= x.at
BY NoneAssumption DEF Entry

-----------------------------------------------------------------------------
(* The invariant                                                           *)

\* How old values are, and that no entry is older than what was shown last by
\* more than the way of an answer.
Recent ==
  /\ \A c \in Callers : pc[c] \in {"loaded", "store"} => now - value[c].read <= Latency
  /\ \A s \in Spaces, k \in Keys : seen[s][k] <= now
  /\ \A s \in Spaces, k \in Keys : entries[s][k] # None =>
       /\ entries[s][k].at <= now
       /\ entries[s][k].at - entries[s][k].read <= Latency
       /\ entries[s][k].read + Latency >= seen[s][k]
  /\ \A c \in Callers : pc[c] = "store" =>
       LET e == entries[call[c].space][call[c].key]
       IN  e # None => e.read + Latency >= value[c].read

Inv == Typed /\ Bounded /\ Recent /\ FreshOrOffline

LEMMA LoadingFinite ==
  \A s \in Spaces :
    /\ IsFiniteSet(Loading(s))
    /\ Cardinality(Loading(s)) \in Nat
    /\ Cardinality(Loading(s)) <= Cardinality(Callers)
    /\ Cardinality(Callers) \in Nat
<1>1. \A s \in Spaces : Loading(s) \subseteq Callers
  BY DEF Loading
<1> QED BY <1>1, FS_Subset, FS_CardinalityType, CacheAssumption

LEMMA InitInv == Init => Inv
<1> SUFFICES ASSUME Init PROVE Inv
  OBVIOUS
<1>1. Typed
  BY InitTyped
<1>2. Bounded
  <2>1. /\ \A s \in Spaces : Filled(entries[s]) = {}
        /\ Filled(offline) = {}
    BY DEF Init, Filled
  <2> QED BY <2>1, LoadingFinite, FS_EmptySet, CacheAssumption DEF Bounded
<1>3. Recent
  BY DEF Init, Recent
<1>4. FreshOrOffline
  BY DEF Init, FreshOrOffline
<1> QED BY <1>1, <1>2, <1>3, <1>4 DEF Inv

\* What was shown can only grow, and only in what is now returned as current.
LEMMA SeenGrows ==
  ASSUME Typed, NEW w \in Call, NEW read \in Times, NEW o \in BOOLEAN, Returns(w, read, o)
  PROVE  /\ ~ o => seen'[w.space][w.key] \in {seen[w.space][w.key], read}
         /\ \A s \in Spaces, k \in Keys :
              o \/ s # w.space \/ k # w.key => seen'[s][k] = seen[s][k]
<1>1. /\ w.space \in Spaces /\ w.key \in Keys
      /\ seen[w.space] \in [Keys -> Times]
  BY DEF Call, Typed, TypeOK
<1>2. CASE o
  BY <1>2 DEF Returns
<1>3. CASE ~ o
  <2>1. PICK v \in {seen[w.space][w.key], read} : seen' = [seen EXCEPT ![w.space][w.key] = v]
    BY <1>1, <1>3 DEF Returns
  <2> QED BY <1>1, <1>3, <2>1 DEF Typed, TypeOK
<1> QED BY <1>2, <1>3

\* The same for a call of the resource k, answered by E*TRADE or the cache.
LEMMA SeenGrowsAt ==
  ASSUME Typed, NEW s \in Spaces, NEW k \in Keys, NEW w \in Call, w.space = s, w.key = k,
         NEW read \in Times, Returns(w, read, FALSE)
  PROVE  /\ seen'[s][k] \in {seen[s][k], read}
         /\ \A r \in Spaces, j \in Keys : r # s \/ j # k => seen'[r][j] = seen[r][j]
<1>1. FALSE \in BOOLEAN
  OBVIOUS
<1>2. /\ ~ FALSE => seen'[w.space][w.key] \in {seen[w.space][w.key], read}
      /\ \A r \in Spaces, j \in Keys :
           FALSE \/ r # w.space \/ j # w.key => seen'[r][j] = seen[r][j]
  BY <1>1, SeenGrows
<1> QED BY <1>2

\* A call prunes its namespace: entries go, and nothing else.
LEMMA PrunedEntries ==
  ASSUME Inv, NEW s \in Spaces, NEW e \in _prune_locked(entries[s], now),
         entries' = [entries EXCEPT ![s] = e]
  PROVE  /\ entries' \in [Spaces -> [Keys -> Entry \cup {None}]]
         /\ \A r \in Spaces, k \in Keys : entries'[r][k] \in {entries[r][k], None}
         /\ Cardinality(Filled(entries'[s])) <= MaxEntries
         /\ \A r \in Spaces \ {s} : entries'[r] = entries[r]
<1>1. /\ e \in Vault
      /\ \A k \in Keys : e[k] \in {entries[s][k], None}
      /\ Cardinality(Filled(e)) <= MaxEntries
  BY PruneBound, VaultType DEF Inv
<1> QED BY <1>1 DEF Inv, Typed, TypeOK, Vault

LEMMA AskInv ==
  ASSUME Inv, NEW c \in Callers, Ask(c)
  PROVE  Inv'
<1>1. PICK s \in Spaces, k \in Keys, forced \in BOOLEAN :
        \E e \in _prune_locked(entries[s], now) :
          /\ e[k] # None => forced \/ ~ Young(e[k])
          /\ entries' = [entries EXCEPT ![s] = e]
          /\ call' = [call EXCEPT ![c] = Called(s, k, forced)]
          /\ stale' = [stale EXCEPT ![c] = e[k]]
  BY DEF Ask
<1>2. PICK e \in _prune_locked(entries[s], now) :
          /\ entries' = [entries EXCEPT ![s] = e]
          /\ call' = [call EXCEPT ![c] = Called(s, k, forced)]
          /\ stale' = [stale EXCEPT ![c] = e[k]]
  BY <1>1
<1>3. /\ pc[c] = "idle" /\ pc' = [pc EXCEPT ![c] = "load"]
      /\ Nothing /\ UNCHANGED <<now, offline, value>>
  BY DEF Ask
<1>4. /\ entries' \in [Spaces -> [Keys -> Entry \cup {None}]]
      /\ \A r \in Spaces, j \in Keys : entries'[r][j] \in {entries[r][j], None}
      /\ Cardinality(Filled(entries'[s])) <= MaxEntries
      /\ \A r \in Spaces \ {s} : entries'[r] = entries[r]
  BY <1>2, PrunedEntries
<1>5. /\ Called(s, k, forced) \in Call /\ Called(s, k, forced) # None
      /\ Called(s, k, forced).space = s
      /\ e[k] \in Entry \cup {None}
  BY <1>2, CalledType, PruneBound, VaultType DEF Inv, Vault
<1>6. Typed'
  BY <1>2, <1>3, <1>4, <1>5 DEF Inv, Typed, TypeOK, ReadBefore, Nothing
<1>7. Bounded'
  <2>1. \A r \in Spaces \ {s} : Loading(r)' = Loading(r)
    BY <1>2, <1>3, <1>5 DEF Loading, Inv, Typed, TypeOK
  <2>2. \A r \in Spaces : Cardinality(Loading(r)') <= Cardinality(Callers)
                          /\ Cardinality(Loading(r)') \in Nat
    <3>1. \A r \in Spaces : Loading(r)' \subseteq Callers
      BY DEF Loading
    <3> QED BY <3>1, FS_Subset, FS_CardinalityType, CacheAssumption
  <2>3. Cardinality(Filled(entries'[s])) \in Nat /\ Cardinality(Callers) \in Nat
    BY FilledFinite, LoadingFinite
  <2>4. ASSUME NEW r \in Spaces
        PROVE  Cardinality(Filled(entries'[r])) + Cardinality(Loading(r)')
                 <= MaxEntries + Cardinality(Callers)
    <3>1. CASE r = s
      BY <1>4, <2>2, <2>3, <3>1, CacheAssumption
    <3>2. CASE r # s
      BY <1>4, <2>1, <3>2 DEF Inv, Bounded
    <3> QED BY <3>1, <3>2
  <2> QED BY <1>3, <2>4 DEF Inv, Bounded, Loading
<1>8. Recent'
  <2>1. ASSUME NEW d \in Callers, pc'[d] \in {"loaded", "store"}
        PROVE  d # c /\ pc'[d] = pc[d] /\ call'[d] = call[d]
    BY <1>2, <1>3, <2>1 DEF Inv, Typed, TypeOK
  <2>2. ASSUME NEW d \in Callers, pc[d] = "store"
        PROVE  LET x == entries'[call[d].space][call[d].key]
               IN  x # None => x.read + Latency >= value[d].read
    BY <1>4, <2>2, CallType DEF Inv, Recent
  <2>3. ASSUME NEW r \in Spaces, NEW j \in Keys, entries'[r][j] # None
        PROVE  entries'[r][j] = entries[r][j]
    BY <1>4, <2>3
  <2> QED BY <1>3, <2>1, <2>2, <2>3 DEF Inv, Recent, Nothing
<1>9. FreshOrOffline'
  BY <1>3 DEF Nothing, FreshOrOffline
<1> QED BY <1>6, <1>7, <1>8, <1>9 DEF Inv

LEMMA HitInv ==
  ASSUME Inv, NEW c \in Callers, Hit(c)
  PROVE  /\ Inv'
         /\ answer' # None /\ ~ answer'.offline =>
              answer'.read + Latency >= seen[answer'.space][answer'.key]
<1>1. PICK s \in Spaces, k \in Keys :
        \E e \in _prune_locked(entries[s], now) :
          /\ e[k] # None /\ Young(e[k])
          /\ entries' = [entries EXCEPT ![s] = e]
          /\ Returns(Called(s, k, FALSE), e[k].read, FALSE)
  BY DEF Hit
<1>2. PICK e \in _prune_locked(entries[s], now) :
        /\ e[k] # None /\ Young(e[k])
        /\ entries' = [entries EXCEPT ![s] = e]
        /\ Returns(Called(s, k, FALSE), e[k].read, FALSE)
  BY <1>1
<1>3. UNCHANGED <<now, offline, pc, call, stale, value>>
  BY DEF Hit
<1> DEFINE w == Called(s, k, FALSE)
           read == e[k].read
<1>4. /\ entries' \in [Spaces -> [Keys -> Entry \cup {None}]]
      /\ \A r \in Spaces, j \in Keys : entries'[r][j] \in {entries[r][j], None}
      /\ Cardinality(Filled(entries'[s])) <= MaxEntries
      /\ \A r \in Spaces \ {s} : entries'[r] = entries[r]
  BY <1>2, PrunedEntries
<1>5. /\ w \in Call /\ w # None /\ w.space = s /\ w.key = k
      /\ e[k] = entries[s][k] /\ e[k] \in Entry
      /\ read \in Times /\ e[k].at \in Times /\ read <= e[k].at
  <2>1. e \in Vault /\ e[k] \in {entries[s][k], None}
    BY PruneBound, VaultType DEF Inv
  <2>2. e[k] \in Entry
    BY <1>2, <2>1 DEF Vault
  <2> QED BY <1>2, <2>1, <2>2, CalledType, EntryType DEF Inv
<1>6. Typed'
  <2>1. answer' \in Answer \cup {None} /\ seen' \in [Spaces -> [Keys -> Times]]
    BY <1>2, <1>5, ReturnsType DEF Inv
  <2> QED BY <1>3, <1>4, <2>1 DEF Inv, Typed, TypeOK, ReadBefore
<1>7. Bounded'
  <2>1. \A r \in Spaces : Loading(r)' = Loading(r)
    BY <1>3 DEF Loading
  <2>2. Cardinality(Filled(entries'[s])) \in Nat
    BY FilledFinite
  <2>3. ASSUME NEW r \in Spaces
        PROVE  Cardinality(Filled(entries'[r])) + Cardinality(Loading(r))
                 <= MaxEntries + Cardinality(Callers)
    <3>1. CASE r = s
      BY <1>4, <2>2, <3>1, LoadingFinite, CacheAssumption
    <3>2. CASE r # s
      BY <1>4, <3>2 DEF Inv, Bounded
    <3> QED BY <3>1, <3>2
  <2> QED BY <1>3, <2>1, <2>3 DEF Inv, Bounded
<1>8. /\ e[k].at <= now /\ e[k].at - read <= Latency /\ read + Latency >= seen[s][k]
      /\ now - e[k].at < TTL /\ read <= now
  BY <1>2, <1>5, CacheAssumption DEF Inv, Recent, Young, Typed, TypeOK, Times
<1>9. Recent'
  <2>1. /\ seen'[s][k] \in {seen[s][k], read}
        /\ \A r \in Spaces, j \in Keys : r # s \/ j # k => seen'[r][j] = seen[r][j]
    <3>1. Typed /\ w \in Call /\ read \in Times /\ w.space = s /\ w.key = k /\ Returns(w, read, FALSE)
      BY <1>2, <1>5 DEF Inv
    <3> HIDE DEF w, read
    <3> QED BY <3>1, SeenGrowsAt
  <2>2. \A r \in Spaces, j \in Keys : seen'[r][j] <= now'
    BY <1>3, <1>8, <2>1 DEF Inv, Recent
  <2>3. read <= read + Latency
    BY <1>5, CacheAssumption DEF Times
  <2>4. ASSUME NEW r \in Spaces, NEW j \in Keys, entries'[r][j] # None
        PROVE  /\ entries'[r][j].at <= now
               /\ entries'[r][j].at - entries'[r][j].read <= Latency
               /\ entries'[r][j].read + Latency >= seen'[r][j]
    <3>1. entries'[r][j] = entries[r][j]
      BY <1>4, <2>4
    <3>2. CASE r = s /\ j = k
      BY <1>5, <1>8, <2>1, <2>3, <3>1, <3>2
    <3>3. CASE r # s \/ j # k
      BY <2>1, <2>4, <3>1, <3>3 DEF Inv, Recent
    <3> QED BY <3>2, <3>3
  <2>5. ASSUME NEW d \in Callers, pc[d] = "store"
        PROVE  LET x == entries'[call[d].space][call[d].key]
               IN  x # None => x.read + Latency >= value[d].read
    BY <1>4, <2>5, CallType DEF Inv, Recent
  <2> QED BY <1>3, <2>2, <2>4, <2>5 DEF Inv, Recent
<1>10. answer' = [space |-> s, key |-> k, wanted |-> w.wanted,
                  read |-> read, at |-> now, offline |-> FALSE]
  BY <1>2, <1>5 DEF Returns
<1>11. FreshOrOffline'
  <2>1. now - read < TTL + Latency
    BY <1>5, <1>8, CacheAssumption DEF Inv, Typed, TypeOK, Times
  <2> QED BY <1>10, <2>1 DEF FreshOrOffline
<1> QED BY <1>6, <1>7, <1>8, <1>9, <1>10, <1>11 DEF Inv

\* Steps after which a namespace has no more entries and loads than before.
LEMMA StillBounded ==
  ASSUME Inv, entries' \in [Spaces -> [Keys -> Entry \cup {None}]],
         \A s \in Spaces, k \in Keys : entries'[s][k] \in {entries[s][k], None},
         \A s \in Spaces : Loading(s)' \subseteq Loading(s),
         Cardinality(Filled(offline')) <= MaxOffline + 1
  PROVE  Bounded'
<1>1. \A s \in Spaces : Filled(entries'[s]) \subseteq Filled(entries[s])
  BY DEF Filled
<1>2. ASSUME NEW s \in Spaces
      PROVE  /\ Cardinality(Filled(entries'[s])) <= Cardinality(Filled(entries[s]))
             /\ Cardinality(Loading(s)') <= Cardinality(Loading(s))
             /\ Cardinality(Filled(entries'[s])) \in Nat
             /\ Cardinality(Loading(s)') \in Nat
  <2>1. Filled(entries'[s]) \subseteq Filled(entries[s]) /\ IsFiniteSet(Filled(entries[s]))
    BY <1>1, FilledFinite
  <2>2. Loading(s)' \subseteq Loading(s) /\ IsFiniteSet(Loading(s))
    BY LoadingFinite
  <2> QED BY <2>1, <2>2, FS_Subset, FS_CardinalityType
<1>3. ASSUME NEW s \in Spaces
      PROVE  Cardinality(Filled(entries'[s])) + Cardinality(Loading(s)')
               <= MaxEntries + Cardinality(Callers)
  BY <1>2, FilledFinite, LoadingFinite, CacheAssumption DEF Inv, Bounded
<1> QED BY <1>3 DEF Bounded

LEMMA OfflineBounded == Inv => Cardinality(Filled(offline)) <= MaxOffline + 1
BY DEF Inv, Bounded

LEMMA RespondInv ==
  ASSUME Inv, NEW c \in Callers, Respond(c)
  PROVE  Inv'
<1> DEFINE x == [at |-> now, read |-> now]
<1>1. /\ pc[c] = "load" /\ pc' = [pc EXCEPT ![c] = "loaded"]
      /\ value' = [value EXCEPT ![c] = x]
      /\ Nothing /\ UNCHANGED <<now, entries, offline, call, stale>>
  BY DEF Respond
<1>2. x \in Entry /\ x # None /\ now \in Times
  BY NoneAssumption DEF Inv, Typed, TypeOK, Entry, Times
<1>3. Typed'
  BY <1>1, <1>2 DEF Inv, Typed, TypeOK, ReadBefore, Nothing, Times
<1>4. Bounded'
  <2>1. \A s \in Spaces : Loading(s)' = Loading(s)
    BY <1>1 DEF Loading, Inv, Typed, TypeOK
  <2> QED BY <1>1, <2>1 DEF Inv, Bounded
<1>5. Recent'
  <2>1. now - x.read <= Latency
    BY <1>2, CacheAssumption DEF Times
  <2> QED BY <1>1, <2>1 DEF Inv, Typed, TypeOK, Recent, Nothing
<1>6. FreshOrOffline'
  BY <1>1 DEF Nothing, FreshOrOffline
<1> QED BY <1>3, <1>4, <1>5, <1>6 DEF Inv

\* The call of tab c ends, without any change of the entries.
LEMMA DoneRecent ==
  ASSUME Inv, NEW c \in Callers, Done(c), UNCHANGED <<now, entries, seen>>
  PROVE  Recent'
<1>1. \A d \in Callers : d # c =>
        pc'[d] = pc[d] /\ call'[d] = call[d] /\ value'[d] = value[d]
  BY DEF Done, Inv, Typed, TypeOK
<1>2. pc'[c] = "idle"
  BY DEF Done, Inv, Typed, TypeOK
<1> QED BY <1>1, <1>2 DEF Inv, Recent

LEMMA DoneLoading ==
  ASSUME Inv, NEW c \in Callers, Done(c)
  PROVE  \A s \in Spaces : Loading(s)' \subseteq Loading(s)
BY DEF Done, Loading, Inv, Typed, TypeOK

LEMMA FailInv ==
  ASSUME Inv, NEW c \in Callers, Fail(c)
  PROVE  /\ Inv'
         /\ answer' = None \/ answer'.offline
<1>1. /\ pc[c] = "load" /\ Done(c) /\ UNCHANGED <<now, entries>>
      /\ call[c] \in Call
  BY CallType DEF Fail, Inv
<1>2. /\ offline' \in Vault
      /\ Cardinality(Filled(offline')) <= MaxOffline + 1
      /\ \/ Nothing
         \/ \E r \in Times : Returns(call[c], r, TRUE)
  <2>1. CASE stale[c] # None
    <3>1. stale[c] \in Entry /\ stale[c].read \in Times
      BY <2>1, EntryType DEF Inv, Typed, TypeOK
    <3> QED BY <2>1, <3>1, VaultType, OfflineBounded DEF Fail, Inv
  <2>2. CASE stale[c] = None
    <3>1. PICK e \in _prune_offline_locked(offline, now) :
            /\ offline' = e
            /\ IF e[call[c].key] # None
               THEN Returns(call[c], e[call[c].key].read, TRUE)
               ELSE Nothing
      BY <2>2 DEF Fail
    <3>2. e \in Vault /\ Cardinality(Filled(e)) <= MaxOffline
      BY PruneOfflineBound, VaultType DEF Inv
    <3>3. Cardinality(Filled(e)) <= MaxOffline + 1
      BY <3>2, FilledFinite, CacheAssumption
    <3>4. e[call[c].key] # None => e[call[c].key].read \in Times
      BY <1>1, <3>2, EntryType DEF Vault, Call
    <3> QED BY <3>1, <3>2, <3>3, <3>4
  <2> QED BY <2>1, <2>2
<1>3. /\ answer' \in Answer \cup {None} /\ seen' = seen
      /\ answer' = None \/ answer'.offline
  <2>1. CASE Nothing
    BY <2>1 DEF Nothing
  <2>2. ASSUME NEW r \in Times, Returns(call[c], r, TRUE)
        PROVE  answer' \in Answer /\ seen' = seen /\ answer'.offline
    BY <1>1, <2>2, ReturnsType DEF Returns, Inv
  <2> QED BY <1>2, <2>1, <2>2
<1>4. Typed'
  BY <1>1, <1>2, <1>3, DoneType DEF Inv, Typed, TypeOK, ReadBefore, Vault
<1>5. Bounded'
  <2>1. entries' \in [Spaces -> [Keys -> Entry \cup {None}]]
    BY <1>1 DEF Inv, Typed, TypeOK
  <2> QED BY <1>1, <1>2, <2>1, DoneLoading, StillBounded
<1>6. Recent'
  BY <1>1, <1>3, DoneRecent
<1>7. FreshOrOffline'
  BY <1>3 DEF FreshOrOffline
<1> QED BY <1>3, <1>4, <1>5, <1>6, <1>7 DEF Inv

LEMMA ArriveInv ==
  ASSUME Inv, NEW c \in Callers, Arrive(c)
  PROVE  Inv'
<1> DEFINE x == [at |-> now, read |-> value[c].read]
           s == call[c].space
           k == call[c].key
<1>1. /\ pc[c] = "loaded" /\ pc' = [pc EXCEPT ![c] = "store"]
      /\ value' = [value EXCEPT ![c] = x]
      /\ entries' = [entries EXCEPT ![s][k] = x]
      /\ Nothing /\ UNCHANGED <<now, offline, call, stale>>
  BY DEF Arrive
<1>2. /\ s \in Spaces /\ k \in Keys
      /\ value[c].read \in Times /\ value[c].read <= now /\ now \in Times
      /\ now - value[c].read <= Latency
  BY <1>1, CallType, ValueType DEF Inv, Typed, TypeOK, Recent
<1>3. x \in Entry /\ x # None
  BY <1>2, NoneAssumption DEF Entry
<1>4. /\ entries' \in [Spaces -> [Keys -> Entry \cup {None}]]
      /\ entries'[s] = [entries[s] EXCEPT ![k] = x]
      /\ entries'[s][k] = x
      /\ \A r \in Spaces, j \in Keys : r # s \/ j # k => entries'[r][j] = entries[r][j]
      /\ \A r \in Spaces \ {s} : entries'[r] = entries[r]
  BY <1>1, <1>2, <1>3 DEF Inv, Typed, TypeOK
<1>5. Typed'
  BY <1>1, <1>2, <1>3, <1>4 DEF Inv, Typed, TypeOK, ReadBefore, Nothing
<1>6. Bounded'
  <2>1. \A r \in Spaces : r # s => Loading(r)' = Loading(r)
    BY <1>1 DEF Loading, Inv, Typed, TypeOK
  <2>2. Cardinality(Filled(entries'[s])) <= Cardinality(Filled(entries[s])) + 1
    BY <1>2, <1>3, <1>4, FilledPut, VaultType DEF Inv
  <2>3. ASSUME NEW r \in Spaces
        PROVE  Cardinality(Filled(entries'[r])) + Cardinality(Loading(r)')
                 <= MaxEntries + Cardinality(Callers)
    <3>1. CASE r = s
      <4>1. Loading(r)' = Loading(r) \ {c} /\ c \in Loading(r)
        BY <1>1, <3>1 DEF Loading, Inv, Typed, TypeOK
      <4>2. Cardinality(Loading(r)') = Cardinality(Loading(r)) - 1
        BY <4>1, LoadingFinite, FS_RemoveElement
      <4>3. Cardinality(Filled(entries[r])) + Cardinality(Loading(r))
              <= MaxEntries + Cardinality(Callers)
        BY DEF Inv, Bounded
      <4>4. /\ Cardinality(Filled(entries'[r])) \in Nat
            /\ Cardinality(Filled(entries[r])) \in Nat
        BY FilledFinite
      <4> QED BY <2>2, <3>1, <4>2, <4>3, <4>4, LoadingFinite, CacheAssumption
    <3>2. CASE r # s
      BY <1>4, <2>1, <3>2 DEF Inv, Bounded
    <3> QED BY <3>1, <3>2
  <2> QED BY <1>1, <2>3 DEF Inv, Bounded
<1>7. Recent'
  <2>1. now - x.read <= Latency /\ x.read + Latency >= now
    BY <1>2, CacheAssumption DEF Times
  <2>2. \A d \in Callers :
          /\ d # c => pc'[d] = pc[d] /\ value'[d] = value[d]
          /\ value'[c] = x /\ call'[d] = call[d]
    BY <1>1 DEF Inv, Typed, TypeOK
  <2>3. ASSUME NEW d \in Callers, pc'[d] \in {"loaded", "store"}
        PROVE  now - value'[d].read <= Latency
    BY <2>1, <2>2, <2>3 DEF Inv, Recent
  <2>4. ASSUME NEW r \in Spaces, NEW j \in Keys, entries'[r][j] # None
        PROVE  /\ entries'[r][j].at <= now
               /\ entries'[r][j].at - entries'[r][j].read <= Latency
               /\ entries'[r][j].read + Latency >= seen[r][j]
    <3>1. CASE r = s /\ j = k
      <4>1. seen[s][k] <= now /\ seen[s][k] \in Times
        BY <1>2 DEF Inv, Recent, Typed, TypeOK
      <4> QED BY <1>2, <1>4, <2>1, <3>1, <4>1, CacheAssumption DEF Times
    <3>2. CASE r # s \/ j # k
      BY <1>4, <2>4, <3>2 DEF Inv, Recent
    <3> QED BY <3>1, <3>2
  <2>5. ASSUME NEW d \in Callers, pc'[d] = "store",
               entries'[call[d].space][call[d].key] # None
        PROVE  entries'[call[d].space][call[d].key].read + Latency >= value'[d].read
    <3>1. value'[d].read \in Times /\ value'[d].read <= now
      <4>1. value'[d] # None /\ value'[d] \in Entry
        BY <1>5, <2>5 DEF Typed, TypeOK
      <4> QED BY <1>1, <1>5, <4>1, EntryType DEF Typed, ReadBefore
    <3>2. CASE call[d].space = s /\ call[d].key = k
      BY <1>2, <1>4, <2>1, <3>1, <3>2, CacheAssumption DEF Times
    <3>3. CASE call[d].space # s \/ call[d].key # k
      <4>1. d # c /\ pc[d] = "store"
        BY <2>2, <2>5, <3>3
      <4>2. call[d].space \in Spaces /\ call[d].key \in Keys
        BY <4>1, CallType DEF Inv
      <4> QED BY <1>4, <2>2, <2>5, <3>3, <4>1, <4>2 DEF Inv, Recent
    <3> QED BY <3>2, <3>3
  <2> QED BY <1>1, <2>3, <2>4, <2>5 DEF Inv, Recent, Nothing
<1>8. FreshOrOffline'
  BY <1>1 DEF Nothing, FreshOrOffline
<1> QED BY <1>5, <1>6, <1>7, <1>8 DEF Inv

LEMMA StoreInv ==
  ASSUME Inv, NEW c \in Callers, Store(c)
  PROVE  /\ Inv'
         /\ answer'.read + Latency >= seen[answer'.space][answer'.key]
<1> DEFINE s == call[c].space
           k == call[c].key
           read == value[c].read
<1>1. /\ pc[c] = "store" /\ Done(c) /\ UNCHANGED <<now, entries>>
      /\ Returns(call[c], read, FALSE)
      /\ call[c] \in Call /\ s \in Spaces /\ k \in Keys
  BY CallType DEF Store, Inv
<1>2. /\ value[c] \in Entry /\ read \in Times /\ read <= now /\ now \in Times
      /\ now - read <= Latency
  BY <1>1, ValueType DEF Inv, Typed, TypeOK, Recent
<1>3. /\ offline' \in Vault
      /\ Cardinality(Filled(offline')) <= MaxOffline + 1
  <2>1. PICK e \in _prune_offline_locked(offline, value[c].at) :
          offline' = [e EXCEPT ![k] = value[c]]
    BY DEF Store, _offline_store
  <2>2. e \in Vault /\ Cardinality(Filled(e)) <= MaxOffline
    BY PruneOfflineBound, VaultType DEF Inv
  <2>3. Cardinality(Filled(offline')) <= Cardinality(Filled(e)) + 1
    BY <1>1, <1>2, <2>1, <2>2, FilledPut
  <2>4. offline' \in Vault
    BY <1>2, <2>1, <2>2 DEF Vault
  <2> QED BY <2>2, <2>3, <2>4, FilledFinite, CacheAssumption
<1>4. answer' \in Answer /\ seen' \in [Spaces -> [Keys -> Times]]
  BY <1>1, <1>2, ReturnsType DEF Inv
<1>5. Typed'
  BY <1>1, <1>3, <1>4, DoneType DEF Inv, Typed, TypeOK, ReadBefore, Vault
<1>6. Bounded'
  <2>1. entries' \in [Spaces -> [Keys -> Entry \cup {None}]]
    BY <1>1 DEF Inv, Typed, TypeOK
  <2> QED BY <1>1, <1>3, <2>1, DoneLoading, StillBounded
<1>7. /\ seen'[s][k] \in {seen[s][k], read}
      /\ \A r \in Spaces, j \in Keys : r # s \/ j # k => seen'[r][j] = seen[r][j]
  BY <1>1, <1>2, SeenGrowsAt DEF Inv
<1>8. Recent'
  <2>1. \A d \in Callers : d # c =>
          pc'[d] = pc[d] /\ call'[d] = call[d] /\ value'[d] = value[d]
    BY <1>1 DEF Done, Inv, Typed, TypeOK
  <2>2. pc'[c] = "idle"
    BY <1>1 DEF Done, Inv, Typed, TypeOK
  <2>3. \A r \in Spaces, j \in Keys : seen'[r][j] <= now
    BY <1>2, <1>7 DEF Inv, Recent
  <2>4. ASSUME NEW r \in Spaces, NEW j \in Keys, entries[r][j] # None
        PROVE  entries[r][j].read + Latency >= seen'[r][j]
    <3>1. CASE r = s /\ j = k
      BY <1>1, <1>7, <2>4, <3>1 DEF Inv, Recent
    <3>2. CASE r # s \/ j # k
      BY <1>7, <2>4, <3>2 DEF Inv, Recent
    <3> QED BY <3>1, <3>2
  <2>5. \A d \in Callers : pc'[d] \in {"loaded", "store"} => now - value'[d].read <= Latency
    BY <2>1, <2>2 DEF Inv, Recent
  <2>6. \A r \in Spaces, j \in Keys : entries[r][j] # None =>
          /\ entries[r][j].at <= now
          /\ entries[r][j].at - entries[r][j].read <= Latency
    BY DEF Inv, Recent
  <2>7. ASSUME NEW d \in Callers, pc'[d] = "store",
               entries[call'[d].space][call'[d].key] # None
        PROVE  entries[call'[d].space][call'[d].key].read + Latency >= value'[d].read
    BY <2>1, <2>2, <2>7 DEF Inv, Recent
  <2> QED BY <1>1, <2>3, <2>4, <2>5, <2>6, <2>7 DEF Recent
<1>9. answer' = [space |-> s, key |-> k, wanted |-> call[c].wanted,
                 read |-> read, at |-> now, offline |-> FALSE]
  BY <1>1 DEF Returns
<1>10. FreshOrOffline'
  <2>1. now - read < TTL + Latency
    BY <1>2, CacheAssumption DEF Times
  <2> QED BY <1>9, <2>1 DEF FreshOrOffline
<1>11. read + Latency >= seen[s][k]
  <2>1. seen[s][k] <= now /\ seen[s][k] \in Times
    BY <1>1 DEF Inv, Recent, Typed, TypeOK
  <2> QED BY <1>2, <2>1, CacheAssumption DEF Times
<1> QED BY <1>5, <1>6, <1>8, <1>9, <1>10, <1>11 DEF Inv

LEMMA CutInv ==
  ASSUME Inv, NEW c \in Callers, Cut(c)
  PROVE  Inv'
<1>1. /\ Done(c) /\ UNCHANGED <<now, entries, offline>>
      /\ answer' = None /\ seen' = seen
  BY DEF Cut, Nothing
<1>2. Typed'
  BY <1>1, DoneType DEF Inv, Typed, TypeOK, ReadBefore
<1>3. Bounded'
  <2>1. entries' \in [Spaces -> [Keys -> Entry \cup {None}]]
    BY <1>1 DEF Inv, Typed, TypeOK
  <2> QED BY <1>1, <2>1, DoneLoading, StillBounded, OfflineBounded
<1>4. Recent'
  BY <1>1, DoneRecent
<1>5. FreshOrOffline'
  BY <1>1 DEF FreshOrOffline
<1> QED BY <1>2, <1>3, <1>4, <1>5 DEF Inv

LEMMA ClearInv ==
  ASSUME Inv, NEW s \in Spaces, clear_session_cache(s)
  PROVE  Inv'
<1>1. /\ entries' = [entries EXCEPT ![s] = [k \in Keys |-> None]]
      /\ answer' = None /\ seen' = seen
      /\ UNCHANGED <<now, offline, pc, call, stale, value>>
  BY DEF clear_session_cache, Nothing
<1>2. /\ entries' \in [Spaces -> [Keys -> Entry \cup {None}]]
      /\ \A r \in Spaces, k \in Keys : entries'[r][k] \in {entries[r][k], None}
  BY <1>1 DEF Inv, Typed, TypeOK
<1>3. Typed'
  BY <1>1, <1>2 DEF Inv, Typed, TypeOK, ReadBefore
<1>4. Bounded'
  <2>1. \A r \in Spaces : Loading(r)' = Loading(r)
    BY <1>1 DEF Loading
  <2> QED BY <1>1, <1>2, <2>1, StillBounded, OfflineBounded
<1>5. Recent'
  <2>1. ASSUME NEW d \in Callers, pc[d] = "store"
        PROVE  LET x == entries'[call[d].space][call[d].key]
               IN  x # None => x.read + Latency >= value[d].read
    BY <1>2, <2>1, CallType DEF Inv, Recent
  <2>2. ASSUME NEW r \in Spaces, NEW j \in Keys, entries'[r][j] # None
        PROVE  entries'[r][j] = entries[r][j]
    BY <1>2, <2>2
  <2> QED BY <1>1, <2>1, <2>2 DEF Inv, Recent
<1>6. FreshOrOffline'
  BY <1>1 DEF FreshOrOffline
<1> QED BY <1>3, <1>4, <1>5, <1>6 DEF Inv

LEMMA TickInv ==
  ASSUME Inv, Tick
  PROVE  Inv'
<1>1. /\ now' = now + 1 /\ now < MaxClock
      /\ answer' = None /\ seen' = seen
      /\ UNCHANGED <<entries, offline, pc, call, stale, value>>
  BY DEF Tick, Nothing
<1>2. now \in Times /\ now' \in Times /\ now < now'
  BY <1>1, CacheAssumption DEF Inv, Typed, TypeOK, Times
<1>3. Typed'
  <2>1. ASSUME NEW c \in Callers, value[c] # None PROVE value[c].read <= now'
    <3>1. value[c].read \in Times /\ value[c].read <= now
      BY <2>1, EntryType DEF Inv, Typed, TypeOK, ReadBefore
    <3> QED BY <1>2, <3>1 DEF Times
  <2> QED BY <1>1, <1>2, <2>1 DEF Inv, Typed, TypeOK, ReadBefore
<1>4. Bounded'
  <2>1. \A r \in Spaces : Loading(r)' = Loading(r)
    BY <1>1 DEF Loading
  <2> QED BY <1>1, <2>1 DEF Inv, Bounded
<1>5. Recent'
  <2>1. ASSUME NEW c \in Callers, pc[c] \in {"loaded", "store"}
        PROVE  now' - value[c].read <= Latency
    <3>1. now - value[c].read < Latency
      BY <2>1 DEF Tick
    <3>2. value[c].read \in Times
      BY <2>1, ValueType DEF Inv
    <3> QED BY <1>1, <1>2, <3>1, <3>2, CacheAssumption DEF Times
  <2>2. ASSUME NEW s \in Spaces, NEW k \in Keys PROVE seen[s][k] <= now'
    <3>1. seen[s][k] \in Times /\ seen[s][k] <= now
      BY DEF Inv, Recent, Typed, TypeOK
    <3> QED BY <1>2, <3>1 DEF Times
  <2>3. ASSUME NEW s \in Spaces, NEW k \in Keys, entries[s][k] # None
        PROVE  entries[s][k].at <= now'
    <3>1. entries[s][k].at \in Times /\ entries[s][k].at <= now
      BY <2>3, EntryType DEF Inv, Recent, Typed, TypeOK
    <3> QED BY <1>2, <3>1 DEF Times
  <2> QED BY <1>1, <2>1, <2>2, <2>3 DEF Inv, Recent
<1>6. FreshOrOffline'
  BY <1>1 DEF FreshOrOffline
<1> QED BY <1>3, <1>4, <1>5, <1>6 DEF Inv

LEMMA StepInv ==
  ASSUME Inv, [Next]_vars
  PROVE  Inv'
<1>1. ASSUME NEW c \in Callers,
             Ask(c) \/ Respond(c) \/ Arrive(c) \/ Cut(c)
      PROVE  Inv'
  BY <1>1, AskInv, RespondInv, ArriveInv, CutInv
<1>2. CASE \E s \in Spaces : clear_session_cache(s)
  BY <1>2, ClearInv
<1>3. CASE Tick
  BY <1>3, TickInv
<1>4. CASE UNCHANGED vars
  <2>1. \A s \in Spaces : Loading(s)' = Loading(s)
    BY <1>4 DEF vars, Loading
  <2>2. Typed' /\ Recent' /\ FreshOrOffline'
    BY <1>4 DEF Inv, vars, Typed, TypeOK, ReadBefore, Recent, FreshOrOffline
  <2>3. Bounded'
    BY <1>4, <2>1 DEF Inv, vars, Bounded
  <2> QED BY <1>4, <2>2, <2>3 DEF Inv, vars
<1> QED
  BY <1>1, <1>2, <1>3, <1>4, HitInv, FailInv, StoreInv DEF Next

LEMMA Invariant == Spec => []Inv
<1>1. Inv /\ [Next]_vars => Inv'
  BY StepInv
<1> QED BY InitInv, <1>1, PTL DEF Spec

-----------------------------------------------------------------------------
(* The theorems                                                            *)

\* Entries are stamped with moments of the clock, and a call that asks E*TRADE
\* knows what it asks for.
THEOREM TypeCorrect == Spec => []TypeOK
<1>1. Inv => TypeOK
  BY DEF Inv, Typed
<1> QED BY Invariant, <1>1, PTL

\* _prune_locked before a load and the put after it bound the vaults, whatever
\* loads overlap.
THEOREM VaultsBounded == Spec => []Bounded
<1>1. Inv => Bounded
  BY DEF Inv
<1> QED BY Invariant, <1>1, PTL

\* What _cached returns without the offline mark is no older than the TTL and
\* the way of one answer.
THEOREM Fresh == Spec => []FreshOrOffline
<1>1. Inv => FreshOrOffline
  BY DEF Inv
<1> QED BY Invariant, <1>1, PTL

\* A load that overwrites a newer one takes what is shown back by no more than
\* the way of one answer.
THEOREM NotFarBack == Spec => NeverFarBack
<1>1. Inv /\ [Next]_vars =>
        [answer' # None /\ ~ answer'.offline =>
           answer'.read + Latency >= seen[answer'.space][answer'.key]]_vars
  <2> SUFFICES ASSUME Inv, [Next]_vars, vars' # vars, answer' # None, ~ answer'.offline
               PROVE  answer'.read + Latency >= seen[answer'.space][answer'.key]
    OBVIOUS
  <2>1. ASSUME NEW c \in Callers, Hit(c) \/ Fail(c) \/ Store(c)
        PROVE  answer'.read + Latency >= seen[answer'.space][answer'.key]
    BY <2>1, HitInv, FailInv, StoreInv
  <2> QED
    BY <2>1 DEF Next, Ask, Respond, Arrive, Cut, clear_session_cache, Tick, Nothing
<1> QED BY Invariant, <1>1, PTL DEF Spec, NeverFarBack

-----------------------------------------------------------------------------
(* ETradeSession                                                           *)

\* What is saved, or on its way to or from the vault: a token that was issued
\* and not forgotten, with a time at which it was already in use.
Genuine(s) ==
  /\ s.token <= count
  /\ s.activity <= touched[s.token]
  /\ s.token \notin forgotten

\* Neither a copy of a session nor a tab knows of a later use than there was.
Traced ==
  /\ forgotten \subseteq 1 .. count
  /\ \A k \in Tokens : touched[k] <= clock
  /\ vault # NoSession => Genuine(vault)
  /\ \A t \in Tabs : hand[t] # NoSession => Genuine(hand[t])
  /\ \A t \in Tabs : token[t] # 0 =>
       /\ activity[t] <= touched[token[t]]
       /\ token[t] \in forgotten => stage[t] = "disconnect"
  /\ \A t \in Tabs : stage[t] = "clear" => token[t] = 0

SessionInv == SessionTypeOK /\ Traced

-----------------------------------------------------------------------------
(* Every step keeps the invariant                                          *)

LEMMA SessionInitInv == SessionInit => SessionInv
BY SessionAssumption DEF SessionInit, SessionInv, SessionTypeOK, Traced, Moments, Tokens

\* The session of a tab as the tab would save it.
LEMMA SessionGenuine ==
  ASSUME SessionInv, NEW t \in Tabs, token[t] # 0, stage[t] = "connect"
  PROVE  /\ SessionOf(t) \in Saved
         /\ Genuine(SessionOf(t))
BY SessionAssumption DEF SessionInv, SessionTypeOK, Traced, Genuine, SessionOf, Saved, Moments, Tokens

\* save_etrade_session saves or pops a genuine session.
LEMMA SaveInv ==
  ASSUME SessionInv, NEW t \in Tabs, NEW s \in Saved, Genuine(s),
         NEW next \in {"page", "lock"}, stage[t] # "disconnect", Save(t, s, next),
         UNCHANGED <<clock, issued, count, unlocked, token, activity, touched, forgotten>>
  PROVE  SessionInv'
<1>1. \/ /\ vault' = NoSession /\ hand' = [hand EXCEPT ![t] = NoSession]
         /\ stage' = [stage EXCEPT ![t] = next]
      \/ /\ vault' = vault /\ hand' = [hand EXCEPT ![t] = s]
         /\ stage' \in {[stage EXCEPT ![t] = "lock"], [stage EXCEPT ![t] = "save"]}
  BY DEF Save, Goto
<1>2. SessionTypeOK'
  BY <1>1 DEF SessionInv, SessionTypeOK
<1>3. Traced'
  BY <1>1 DEF SessionInv, SessionTypeOK, Traced, Genuine
<1> QED BY <1>2, <1>3 DEF SessionInv

LEMMA SessionStepInv ==
  ASSUME SessionInv, [SessionNext]_sessionVars
  PROVE  SessionInv'
<1> USE SessionAssumption DEF SessionInv
<1>1. ASSUME NEW t \in Tabs, Begin(t) PROVE SessionInv'
  <2>1. SessionTypeOK' BY <1>1 DEF Begin, CanRestore, Goto, SessionTypeOK
  <2>2. Traced' BY <1>1 DEF Begin, CanRestore, Goto, Traced, Genuine, SessionTypeOK
  <2> QED BY <2>1, <2>2
<1>2. ASSUME NEW t \in Tabs, Restore(t) PROVE SessionInv'
  <2>1. hand[t] # NoSession /\ hand[t] \in Saved
    BY <1>2 DEF Restore, SessionTypeOK
  <2>2. hand[t].token \in 0 .. count /\ hand[t].activity \in Moments
    BY <2>1 DEF SessionTypeOK, Traced, Genuine, Saved, Tokens
  <2>3. SessionTypeOK'
    BY <1>2, <2>2 DEF Restore, Goto, SessionTypeOK
  <2>4. Traced' BY <1>2, <2>1 DEF Restore, Goto, Traced, Genuine, SessionTypeOK, Saved
  <2> QED BY <2>3, <2>4
<1>3. ASSUME NEW t \in Tabs, DropExpired(t) PROVE SessionInv'
  <2>1. SessionTypeOK' BY <1>3 DEF DropExpired, Goto, SessionTypeOK
  <2>2. Traced' BY <1>3 DEF DropExpired, Goto, Traced, Genuine, SessionTypeOK
  <2> QED BY <2>1, <2>2
<1>4. ASSUME NEW t \in Tabs, Verify(t) PROVE SessionInv'
  <2>1. /\ count + 1 \in Tokens /\ count + 1 \notin forgotten
        /\ clock \in Moments
        /\ [token |-> count + 1, activity |-> clock] \in Saved
    BY <1>4 DEF Verify, SessionTypeOK, Traced, Tokens, Saved
  <2>2. SessionTypeOK' BY <1>4, <2>1 DEF Verify, Touches, Goto, SessionTypeOK, Tokens
  <2>3. Traced'
    <3>0. PICK s : s = [token |-> count + 1, activity |-> clock]
      OBVIOUS
    <3>1. /\ count' = count + 1 /\ touched' = [touched EXCEPT ![count + 1] = clock]
          /\ hand' = [hand EXCEPT ![t] = s] /\ token' = [token EXCEPT ![t] = count + 1]
          /\ activity' = [activity EXCEPT ![t] = clock]
          /\ UNCHANGED <<clock, vault, forgotten>>
      BY <1>4, <3>0 DEF Verify, Touches
    <3>2. \A k \in Tokens : touched[k] <= touched'[k] /\ touched'[k] <= clock
      BY <2>1, <3>1 DEF SessionTypeOK, Traced, Moments
    <3>3. ASSUME NEW r \in Saved, Genuine(r) PROVE Genuine(r)'
      <4>1. r.token \in Tokens /\ r.activity \in Moments
        BY DEF Saved
      <4>2. touched[r.token] \in Moments /\ touched'[r.token] \in Moments
        BY <2>2, <4>1 DEF SessionTypeOK
      <4>3. r.activity <= touched'[r.token]
        BY <3>2, <3>3, <4>1, <4>2 DEF Genuine, Moments
      <4>4. r.token <= count'
        BY <3>1, <3>3, <4>1 DEF Genuine, SessionTypeOK, Tokens
      <4> QED BY <3>1, <3>3, <4>3, <4>4 DEF Genuine
    <3>4. Genuine(s)' /\ hand'[t] = s
      <4>1. touched'[count + 1] = clock /\ hand'[t] = s
        BY <2>1, <3>1 DEF SessionTypeOK
      <4>2. clock <= clock /\ count + 1 <= count'
        BY <2>1, <3>1 DEF Moments, Tokens
      <4>3. s.token = count + 1 /\ s.activity = clock
        BY <3>0
      <4> QED BY <2>1, <3>1, <4>1, <4>2, <4>3 DEF Genuine
    <3>5. ASSUME NEW u \in Tabs, token'[u] # 0
          PROVE  /\ activity'[u] <= touched'[token'[u]]
                 /\ token'[u] \in forgotten' => stage'[u] = "disconnect"
      <4>0. stage'[u] = stage[u] \/ u = t
        BY <1>4 DEF Verify, Goto, SessionTypeOK
      <4>1. CASE u = t
        BY <2>1, <3>1, <4>1 DEF SessionTypeOK, Moments
      <4>2. CASE u # t
        BY <3>1, <3>2, <3>5, <4>0, <4>2, <2>2 DEF Traced, SessionTypeOK, Moments, Tokens
      <4> QED BY <4>1, <4>2
    <3>6. forgotten' \subseteq 1 .. count'
      BY <3>1 DEF Traced, SessionTypeOK
    <3>7. vault' # NoSession => Genuine(vault)'
      BY <3>1, <3>3 DEF Traced, SessionTypeOK, Genuine
    <3>8. ASSUME NEW u \in Tabs, hand'[u] # NoSession PROVE Genuine(hand[u])'
      <4>1. CASE u = t
        BY <3>4, <4>1 DEF Genuine
      <4>2. CASE u # t
        <5>1. hand'[u] = hand[u] /\ hand[u] \in Saved /\ Genuine(hand[u])
          BY <3>1, <3>8, <4>2 DEF Traced, SessionTypeOK
        <5> QED BY <3>3, <5>1 DEF Genuine
      <4> QED BY <4>1, <4>2
    <3>9. \A k \in Tokens : touched'[k] <= clock'
      BY <3>1, <3>2
    <3>10. \A u \in Tabs : stage'[u] = "clear" => token'[u] = 0
      BY <1>4, <3>1 DEF Verify, Goto, Traced, SessionTypeOK
    <3> QED BY <3>5, <3>6, <3>7, <3>8, <3>9, <3>10 DEF Traced
  <2> QED BY <2>2, <2>3
<1>5. ASSUME NEW t \in Tabs, Persist(t) PROVE SessionInv'
  <2>1. CASE token[t] = 0
    <3>1. SessionTypeOK' BY <1>5, <2>1 DEF Persist, Goto, SessionTypeOK
    <3>2. Traced' BY <1>5, <2>1 DEF Persist, Goto, Traced, Genuine, SessionTypeOK
    <3> QED BY <3>1, <3>2
  <2>2. CASE token[t] # 0
    BY <1>5, <2>2, SessionGenuine, SaveInv DEF Persist, SessionTypeOK
  <2> QED BY <2>1, <2>2
<1>6. ASSUME NEW t \in Tabs, Touch(t) PROVE SessionInv'
  <2> DEFINE s == [token |-> token[t], activity |-> clock]
  <2>1. token[t] \in Tokens /\ token[t] <= count /\ clock \in Moments /\ s \in Saved
    BY <1>6 DEF Touch, SessionTypeOK, Tokens, Saved
  <2>2. /\ \/ /\ vault' = NoSession /\ hand' = [hand EXCEPT ![t] = NoSession]
              /\ stage' = [stage EXCEPT ![t] = "page"]
           \/ /\ vault' = vault /\ hand' = [hand EXCEPT ![t] = s]
              /\ stage' = [stage EXCEPT ![t] = "save"]
        /\ stage[t] \in {"connect", "page"}
        /\ activity' = [activity EXCEPT ![t] = clock]
        /\ touched' = [touched EXCEPT ![token[t]] = clock]
        /\ UNCHANGED <<clock, issued, count, unlocked, token, forgotten>>
    BY <1>6 DEF Touch, Touches, Save, Goto
  <2>3. SessionTypeOK' BY <2>1, <2>2 DEF SessionTypeOK
  <2>4. \A k \in Tokens : touched[k] <= touched'[k] /\ touched'[k] <= clock
    BY <2>1, <2>2 DEF SessionTypeOK, Traced, Moments
  <2>5. ASSUME NEW r \in Saved, Genuine(r) PROVE Genuine(r)'
    BY <2>2, <2>4, <2>5, <2>3 DEF Genuine, Saved, SessionTypeOK, Moments, Tokens
  <2>6. Genuine(s)'
    BY <2>1, <2>2, <1>6 DEF Genuine, Touch, Traced, SessionTypeOK, Moments
  <2>7. ASSUME NEW u \in Tabs, token'[u] # 0
        PROVE  /\ activity'[u] <= touched'[token'[u]]
               /\ token'[u] \in forgotten' => stage'[u] = "disconnect"
    BY <2>1, <2>2, <2>4, <2>7, <2>3 DEF Traced, SessionTypeOK, Moments, Tokens
  <2>8. Traced'
    BY <2>2, <2>4, <2>5, <2>6, <2>7 DEF Traced, SessionTypeOK
  <2> QED BY <2>3, <2>8
<1>7. ASSUME NEW t \in Tabs, Write(t) PROVE SessionInv'
  <2>1. SessionTypeOK' BY <1>7 DEF Write, Goto, SessionTypeOK
  <2>2. Traced' BY <1>7 DEF Write, Goto, Traced, Genuine, SessionTypeOK
  <2> QED BY <2>1, <2>2
<1>8. ASSUME NEW t \in Tabs, End(t) PROVE SessionInv'
  <2>1. SessionTypeOK' BY <1>8 DEF End, Goto, SessionTypeOK
  <2>2. Traced' BY <1>8 DEF End, Goto, Traced, Genuine, SessionTypeOK
  <2> QED BY <2>1, <2>2
<1>9. ASSUME NEW t \in Tabs, Disconnect(t) PROVE SessionInv'
  <2>1. token[t] \in Tokens /\ token[t] <= count
    BY <1>9 DEF Disconnect, SessionTypeOK, Tokens
  <2>2. SessionTypeOK' BY <1>9, <2>1 DEF Disconnect, Goto, SessionTypeOK
  <2>3. stage' = [stage EXCEPT ![t] = "disconnect"] /\ stage[t] = "connect"
    BY <1>9 DEF Disconnect, Goto
  <2>4. CASE Elsewhere(t, token[t])
    <3>1. Traced' BY <1>9, <2>3, <2>4 DEF Disconnect, Traced, Genuine, SessionTypeOK
    <3> QED BY <2>2, <3>1
  <2>5. CASE ~ Elsewhere(t, token[t])
    <3>1. \A u \in Tabs : hand[u] # NoSession => hand[u].token # token[t]
      BY <2>3, <2>5 DEF Elsewhere, SessionTypeOK
    <3>2. \A u \in Tabs : u # t /\ token[u] = token[t] => stage[u] = "disconnect"
      BY <2>5 DEF Elsewhere
    <3>3. /\ forgotten' = forgotten \cup {token[t]} /\ vault' = NoSession
          /\ UNCHANGED <<clock, count, token, activity, hand, touched>>
      BY <1>9, <2>5 DEF Disconnect
    <3>4. \A u \in Tabs : hand'[u] # NoSession => Genuine(hand[u])'
      BY <3>1, <3>3 DEF Traced, Genuine
    <3>5. \A u \in Tabs : token'[u] \in forgotten' /\ token'[u] # 0 => stage'[u] = "disconnect"
      BY <2>3, <3>2, <3>3 DEF Traced, SessionTypeOK
    <3>6. forgotten' \subseteq 1 .. count' /\ \A u \in Tabs : stage'[u] = "clear" => token'[u] = 0
      <4>1. token[t] \in 1 .. count
        BY <2>1 DEF SessionTypeOK, Tokens
      <4>2. forgotten \subseteq 1 .. count
        BY DEF Traced
      <4>3. forgotten' \subseteq 1 .. count'
        BY <3>3, <4>1, <4>2
      <4>4. \A u \in Tabs : stage'[u] = "clear" => token'[u] = 0
        BY <2>3, <3>3 DEF Traced, SessionTypeOK
      <4> QED BY <4>3, <4>4
    <3>7. Traced'
      BY <3>3, <3>4, <3>5, <3>6 DEF Traced
    <3> QED BY <2>2, <3>7
  <2> QED BY <2>4, <2>5
<1>10. ASSUME NEW t \in Tabs, Lock(t) PROVE SessionInv'
  <2>1. CASE token[t] = 0
    <3>1. SessionTypeOK' BY <1>10, <2>1 DEF Lock, Goto, SessionTypeOK
    <3>2. Traced' BY <1>10, <2>1 DEF Lock, Goto, Traced, Genuine, SessionTypeOK
    <3> QED BY <3>1, <3>2
  <2>2. CASE token[t] # 0
    BY <1>10, <2>2, SessionGenuine, SaveInv DEF Lock
  <2> QED BY <2>1, <2>2
<1>11. ASSUME NEW t \in Tabs, Locked(t) PROVE SessionInv'
  <2>1. SessionTypeOK' BY <1>11 DEF Locked, Goto, SessionTypeOK
  <2>2. Traced' BY <1>11, <2>1 DEF Locked, Goto, Traced, Genuine, SessionTypeOK
  <2> QED BY <2>1, <2>2
<1>12. ASSUME NEW t \in Tabs, Forget(t) \/ Clear(t) \/ Refresh(t) PROVE SessionInv'
  <2>1. 0 \in Moments BY SessionAssumption DEF Moments
  <2>2. SessionTypeOK'
    <3>1. CASE Forget(t) BY <3>1 DEF Forget, Goto, SessionTypeOK
    <3>2. CASE Clear(t) BY <2>1, <3>2 DEF Clear, Emptied, Goto, SessionTypeOK
    <3>3. CASE Refresh(t) BY <2>1, <3>3 DEF Refresh, Emptied, SessionTypeOK
    <3> QED BY <1>12, <3>1, <3>2, <3>3
  <2>3. stage[t] = "clear" => token[t] = 0
    BY DEF Traced
  <2>4. Traced' BY <1>12, <2>1, <2>2, <2>3 DEF Forget, Clear, Refresh, Emptied, Goto, Traced, Genuine, SessionTypeOK
  <2> QED BY <2>2, <2>4
<1>13. ASSUME NEW t \in Tabs, Unlock(t) PROVE SessionInv'
  <2>1. SessionTypeOK' BY <1>13 DEF Unlock, SessionTypeOK
  <2>2. Traced' BY <1>13 DEF Unlock, Traced, Genuine
  <2> QED BY <2>1, <2>2
<1>14. CASE Redeploy
  <2>1. 0 \in Moments BY DEF Moments
  <2>2. SessionTypeOK' BY <1>14, <2>1 DEF Redeploy, SessionTypeOK
  <2>3. Traced' BY <1>14 DEF Redeploy, Traced
  <2> QED BY <2>2, <2>3
<1>15. CASE TimePasses
  <2>1. SessionTypeOK' BY <1>15 DEF TimePasses, tabs, SessionTypeOK, Moments
  <2>2. \A k \in Tokens : touched'[k] <= clock'
    BY <1>15 DEF TimePasses, Traced, SessionTypeOK, Moments
  <2>3. Traced' BY <1>15, <2>2 DEF TimePasses, tabs, Traced, Genuine
  <2> QED BY <2>1, <2>3
<1>16. CASE UNCHANGED sessionVars
  <2>1. SessionTypeOK' BY <1>16 DEF sessionVars, tabs, SessionTypeOK
  <2>2. Traced' BY <1>16 DEF sessionVars, tabs, Traced, Genuine
  <2> QED BY <2>1, <2>2
<1> QED
  BY <1>1, <1>2, <1>3, <1>4, <1>5, <1>6, <1>7, <1>8, <1>9, <1>10, <1>11, <1>12, <1>13,
     <1>14, <1>15, <1>16 DEF SessionNext

LEMMA SessionInvariant == SessionSpec => []SessionInv
<1>1. SessionInv /\ [SessionNext]_sessionVars => SessionInv'
  BY SessionStepInv
<1> QED BY SessionInitInv, <1>1, PTL DEF SessionSpec

-----------------------------------------------------------------------------
(* The theorems                                                            *)

\* Tabs only hold tokens that were issued, and a run only restores a session it
\* has found (_restore_active_etrade_session_after_unlock).
THEOREM SessionTypeCorrect == SessionSpec => []SessionTypeOK
<1>1. SessionInv => SessionTypeOK
  BY DEF SessionInv
<1> QED BY SessionInvariant, <1>1, PTL

\* clear_etrade_session is final: no save that was under way when the last tab
\* with the session disconnected, and no restore, brings it back, if that run
\* came to drop its own token.
THEOREM NeverBack == SessionSpec => []DisconnectIsFinal
<1>1. SessionInv => DisconnectIsFinal
  BY DEF SessionInv, SessionTypeOK, Traced, Genuine, DisconnectIsFinal, Tokens
<1> QED BY SessionInvariant, <1>1, PTL

\* restore_etrade_session gives back only what is still valid, counted from the
\* last real use: neither saving nor restoring extends a session.
THEOREM RestoredValid == SessionSpec => RestoredInTime
<1>1. ASSUME SessionInv, [SessionNext]_sessionVars, NEW t \in Tabs,
             token[t] = 0, token'[t] # 0, count' = count
      PROVE  /\ clock < Midnight(token'[t])
             /\ clock < touched[token'[t]] + Inactivity
  <2>1. Restore(t)
    <3>1. ASSUME NEW u \in Tabs, Forget(u) \/ Refresh(u) PROVE token'[t] = 0
      BY <1>1, <3>1 DEF Forget, Refresh, SessionInv, SessionTypeOK
    <3>2. CASE Redeploy
      BY <1>1, <3>2 DEF Redeploy
    <3>3. ASSUME NEW u \in Tabs, Restore(u) PROVE u = t
      BY <1>1, <3>3 DEF Restore, SessionInv, SessionTypeOK
    <3>4. ASSUME NEW u \in Tabs PROVE ~ Verify(u)
      BY <1>1 DEF Verify, SessionInv, SessionTypeOK
    <3> QED
      BY <1>1, <3>1, <3>2, <3>3, <3>4
      DEF SessionNext, sessionVars, tabs, Begin, DropExpired, Persist, Touch, Write, End, Disconnect, Lock,
          Locked, Clear, Unlock, TimePasses
  <2>2. /\ hand[t] \in Saved /\ hand[t] # NoSession
        /\ ~ Expired(hand[t])
        /\ token'[t] = hand[t].token
    BY <1>1, <2>1 DEF Restore, SessionInv, SessionTypeOK
  <2>3. Midnight(hand[t].token) \in Int
    <3>1. issued[hand[t].token] \in Int
      BY <1>1, <2>2 DEF SessionInv, SessionTypeOK, Saved, Moments
    <3>2. issued[hand[t].token] \div Day \in Int
      BY <3>1, SessionAssumption
    <3> QED BY <3>2, SessionAssumption DEF Midnight
  <2>4. hand[t].activity <= touched[hand[t].token]
    BY <1>1, <2>2 DEF SessionInv, Traced, Genuine
  <2> QED
    BY <1>1, <2>2, <2>3, <2>4, SessionAssumption DEF Expired, SessionInv, SessionTypeOK, Saved, Moments
<1>2. SessionInv /\ [SessionNext]_sessionVars =>
        [\A t \in Tabs : token[t] = 0 /\ token'[t] # 0 /\ count' = count =>
           /\ clock < Midnight(token'[t])
           /\ clock < touched[token'[t]] + Inactivity]_sessionVars
  BY <1>1
<1> QED BY SessionInvariant, <1>2, PTL DEF SessionSpec, RestoredInTime
=============================================================================
