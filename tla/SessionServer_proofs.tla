------------------------ MODULE SessionServer_proofs ------------------------
(***************************************************************************)
(* The session store, for every limit and every TTL: its types, the        *)
(* agreement of its two dictionaries, the bound on their size, and that a  *)
(* session leaves the store only for a reason.  Then the HTTP server and   *)
(* its clients, for any number of clients, threads, sessions and any       *)
(* times: types, privacy of the environments, and that a session a client  *)
(* holds was reset.                                                        *)
(***************************************************************************)
EXTENDS SessionServer, FiniteSetTheorems, WellFoundedInduction, TLAPS

-----------------------------------------------------------------------------
(* The store (SessionStore).                                               *)

StoreInv == StoreTypeOK /\ KeysAgree /\ StoreBounded

Limit == IF MAX_SESSIONS = 0 THEN 1 ELSE MAX_SESSIONS

LEMMA LimitType == Limit \in Nat \ {0} /\ MAX_SESSIONS <= Limit
BY StoreAssumption DEF Limit

\* The sessions in use are a finite set, being ids handed out.
LEMMA LiveFinite == StoreTypeOK => IsFiniteSet(envs) /\ Cardinality(envs) \in Nat
<1> SUFFICES ASSUME StoreTypeOK PROVE IsFiniteSet(envs) /\ Cardinality(envs) \in Nat
  OBVIOUS
<1>0. created \in Int /\ 1 \in Int
  BY StoreAssumption DEF StoreTypeOK
<1>1. IsFiniteSet(1..created)
  BY <1>0, FS_Interval
<1>2. IsFiniteSet(envs)
  BY <1>1, FS_Subset DEF StoreTypeOK
<1> QED BY <1>2, FS_CardinalityType

\* A nonempty set of naturals has a least element.
LEMMA LeastNat ==
  ASSUME NEW S, S \subseteq Nat, S # {}
  PROVE  \E m \in S : \A n \in S : m <= n
<1> DEFINE Below == {p \in Nat \X Nat : p[1] < p[2]}
<1>1. IsWellFoundedOn(Below, Nat)
  <2>1. Below = OpToRel(<, Nat)
    BY DEF OpToRel
  <2> QED BY <2>1, NatLessThanWellFounded
<1>2. PICK m \in S : \A n \in S : ~ (<<n, m>> \in Below)
  BY <1>1, WFMin
<1>3. ASSUME NEW n \in S PROVE m <= n
  <2>1. m \in Nat /\ n \in Nat /\ <<n, m>> \in Nat \X Nat
    OBVIOUS
  <2>2. ~ (n < m)
    BY <1>2, <2>1
  <2> QED BY <2>1, <2>2
<1> QED BY <1>3

\* Of a function with a nonempty set of naturals as keys and naturals as
\* values, Oldest picks a key, the first one with the least value.
LEMMA OldestIsKey ==
  ASSUME NEW f, f \in [DOMAIN f -> Nat], DOMAIN f \subseteq Nat, DOMAIN f # {}
  PROVE  /\ Oldest(f) \in DOMAIN f
         /\ \A r \in DOMAIN f : f[Oldest(f)] <= f[r]
<1> DEFINE Times == {f[s] : s \in DOMAIN f}
<1>1. PICK m \in Times : \A n \in Times : m <= n
  <2>1. Times \subseteq Nat /\ Times # {}
    OBVIOUS
  <2> HIDE DEF Times
  <2> QED BY <2>1, LeastNat
<1> DEFINE First == {s \in DOMAIN f : f[s] = m}
<1>2. PICK s \in First : \A r \in First : s <= r
  <2>1. First \subseteq Nat /\ First # {}
    BY <1>1
  <2> HIDE DEF First
  <2> QED BY <2>1, LeastNat
<1>3. s \in DOMAIN f /\ \A r \in DOMAIN f : f[s] < f[r] \/ (f[s] = f[r] /\ s <= r)
  <2> SUFFICES ASSUME NEW r \in DOMAIN f
               PROVE  f[s] < f[r] \/ (f[s] = f[r] /\ s <= r)
    BY <1>2
  <2>1. f[s] = m /\ m <= f[r] /\ f[s] \in Nat /\ f[r] \in Nat
    BY <1>1, <1>2
  <2>2. CASE f[r] = m
    BY <1>2, <2>1, <2>2
  <2>3. CASE f[r] # m
    BY <2>1, <2>3
  <2> QED BY <2>2, <2>3
<1>4. /\ Oldest(f) \in DOMAIN f
      /\ \A r \in DOMAIN f : f[Oldest(f)] < f[r] \/ (f[Oldest(f)] = f[r] /\ Oldest(f) <= r)
  BY <1>3 DEF Oldest
<1> QED BY <1>4

-----------------------------------------------------------------------------
(* The invariant holds at first and every method of the store keeps it.    *)

LEMMA StoreInitInv == StoreInit => StoreInv
<1> SUFFICES ASSUME StoreInit PROVE StoreInv
  OBVIOUS
<1>1. StoreTypeOK /\ KeysAgree
  BY StoreAssumption DEF StoreInit, StoreTypeOK, KeysAgree, Sids
<1>2. Cardinality(envs) = 0
  BY FS_EmptySet DEF StoreInit
<1>3. StoreBounded
  BY <1>2, StoreAssumption DEF StoreBounded
<1> QED BY <1>1, <1>3 DEF StoreInv

\* create(): what goes makes room for what comes.
LEMMA CreateKeepsInv == StoreInv /\ Create => StoreInv'
<1> SUFFICES ASSUME StoreInv, Create PROVE StoreInv'
  OBVIOUS
<1> DEFINE live == envs \ Stale
           kept == Without(last_used, Stale)
           out  == Displaced(live, kept)
<1>1. /\ created' = created + 1 /\ created' \in 1..MaxCreates /\ created \in Nat
      /\ clock' = clock /\ clock \in Nat
      /\ envs' = (live \ out) \cup {created'}
      /\ last_used' = [s \in (DOMAIN kept \ out) \cup {created'} |->
                         IF s = created' THEN clock ELSE last_used[s]]
      /\ touched' = [touched EXCEPT ![created'] = clock]
  BY StoreAssumption DEF StoreInv, StoreTypeOK, Create, NewSid
<1>2. DOMAIN kept = live /\ live \subseteq envs /\ envs \subseteq 1..created
  BY DEF Without, StoreInv, KeysAgree, StoreTypeOK
<1>3. kept \in [live -> Nat]
  <2>1. clock \in Nat /\ last_used \in [envs -> 0..clock]
    BY <1>1 DEF StoreInv, StoreTypeOK, KeysAgree
  <2>2. \A s \in live : last_used[s] \in Nat
    BY <1>2, <2>1
  <2>3. kept = [s \in live |-> last_used[s]]
    BY <1>2 DEF Without
  <2> HIDE DEF live, kept
  <2> QED BY <2>2, <2>3
<1>4. out \subseteq live
  <2> HIDE DEF kept, live
  <2>1. CASE DOMAIN kept # {}
    <3>1. Oldest(kept) \in DOMAIN kept
      <4>1. DOMAIN kept \subseteq Nat /\ kept \in [DOMAIN kept -> Nat]
        BY <1>1, <1>2, <1>3
      <4> QED BY <2>1, <4>1, OldestIsKey
    <3> QED BY <3>1, <1>2 DEF Displaced
  <2>2. CASE DOMAIN kept = {}
    BY <2>2 DEF Displaced
  <2> QED BY <2>1, <2>2
<1>5. StoreTypeOK'
  <2> HIDE DEF kept, live, out
  <2>1. created' \in 0..MaxCreates /\ clock' \in 0..MaxClock
    BY <1>1 DEF StoreInv, StoreTypeOK
  <2>2. envs' \subseteq 1..created'
    BY <1>1, <1>2, <1>4
  <2>3. last_used' \in [DOMAIN last_used' -> 0..clock']
    BY <1>1, <1>2, <1>4 DEF StoreInv, StoreTypeOK, KeysAgree
  <2>4. touched' \in [Sids -> 0..clock']
    <3>1. touched \in [Sids -> 0..clock] /\ clock \in 0..clock
      BY <1>1 DEF StoreInv, StoreTypeOK
    <3> QED BY <1>1, <3>1
  <2> QED BY <2>1, <2>2, <2>3, <2>4 DEF StoreTypeOK
<1>6. KeysAgree'
  BY <1>1, <1>2 DEF KeysAgree
<1>7. StoreBounded'
  <2>1. IsFiniteSet(envs) /\ Cardinality(envs) \in Nat /\ Cardinality(envs) <= Limit
    BY LiveFinite DEF StoreInv, StoreBounded, Limit
  <2>2. IsFiniteSet(live) /\ Cardinality(live) \in Nat /\ Cardinality(live) <= Limit
    BY <1>2, <2>1, FS_Subset, FS_CardinalityType, LimitType
  <2>3. IsFiniteSet(live \ out) /\ Cardinality(live \ out) \in Nat
        /\ Cardinality(live \ out) < Limit
    <3>1. CASE Cardinality(live) >= MAX_SESSIONS /\ live # {}
      <4>1. out = {Oldest(kept)} /\ Oldest(kept) \in live
        BY <1>2, <1>4, <3>1 DEF Displaced
      <4>2. IsFiniteSet(live \ {Oldest(kept)})
            /\ Cardinality(live \ {Oldest(kept)}) = Cardinality(live) - 1
        BY <2>2, <4>1, FS_RemoveElement
      <4>3. Cardinality(live) # 0
        BY <2>2, <3>1, FS_EmptySet
      <4>4. live \ out = live \ {Oldest(kept)}
        BY <4>1
      <4> HIDE DEF live, kept, out
      <4>5. Cardinality(live) - 1 \in Nat /\ Cardinality(live) - 1 < Limit
        BY <2>2, <4>3, LimitType
      <4> QED BY <4>2, <4>4, <4>5
    <3>2. CASE live = {}
      <4>1. live \ out = {}
        BY <3>2
      <4> QED BY <4>1, FS_EmptySet, LimitType
    <3>3. CASE ~ (Cardinality(live) >= MAX_SESSIONS)
      <4>1. out = {}
        BY <3>3 DEF Displaced
      <4>2. Cardinality(live) < MAX_SESSIONS
        BY <2>2, <3>3, StoreAssumption
      <4> QED BY <2>2, <4>1, <4>2, LimitType, StoreAssumption
    <3> QED BY <3>1, <3>2, <3>3
  <2>4. created' \notin live \ out
    BY <1>1, <1>2
  <2>5. Cardinality(envs') = Cardinality(live \ out) + 1
    BY <1>1, <2>3, <2>4, FS_AddElement
  <2> QED BY <2>3, <2>5, LimitType DEF StoreBounded, Limit
<1> QED BY <1>5, <1>6, <1>7 DEF StoreInv

\* get(): only times change.
LEMMA GetKeepsInv == ASSUME NEW sid, StoreInv, Get(sid) PROVE StoreInv'
<1>1. /\ sid \in envs /\ envs' = envs /\ created' = created /\ clock' = clock
      /\ DOMAIN last_used = envs /\ DOMAIN last_used' = envs
  BY DEF Get, Refreshed, StoreInv, KeysAgree
<1>2. StoreTypeOK'
  <2>1. /\ clock \in 0..clock /\ touched \in [Sids -> 0..clock]
        /\ last_used \in [envs -> 0..clock]
    BY <1>1, StoreAssumption DEF StoreInv, StoreTypeOK
  <2>2. touched' \in [Sids -> 0..clock'] /\ last_used' \in [DOMAIN last_used' -> 0..clock']
    BY <1>1, <2>1 DEF Get, Refreshed
  <2> QED BY <1>1, <2>2 DEF StoreInv, StoreTypeOK
<1>3. KeysAgree' /\ StoreBounded'
  BY <1>1 DEF StoreInv, KeysAgree, StoreBounded
<1> QED BY <1>2, <1>3 DEF StoreInv

\* delete(): one session less in both dictionaries, or nothing.
LEMMA DeleteKeepsInv == ASSUME NEW sid, StoreInv, Delete(sid) PROVE StoreInv'
<1>1. CASE sid \notin envs
  BY <1>1 DEF Delete, StoreInv, StoreTypeOK, KeysAgree, StoreBounded
<1>2. CASE sid \in envs
  <2>1. envs' = envs \ {sid} /\ last_used' = Without(last_used, {sid})
        /\ UNCHANGED <<created, clock, touched>>
    BY <1>2 DEF Delete, Forget
  <2>2. StoreTypeOK' /\ KeysAgree'
    BY <2>1 DEF Without, StoreInv, StoreTypeOK, KeysAgree
  <2>3. Cardinality(envs \ {sid}) = Cardinality(envs) - 1 /\ Cardinality(envs) \in Nat
    BY <1>2, LiveFinite, FS_RemoveElement DEF StoreInv
  <2>4. StoreBounded'
    BY <2>1, <2>3, StoreAssumption DEF StoreInv, StoreBounded
  <2> QED BY <2>2, <2>4 DEF StoreInv
<1> QED BY <1>1, <1>2

\* The clock only goes forward.
LEMMA TickKeepsInv == StoreInv /\ Tick => StoreInv'
<1> SUFFICES ASSUME StoreInv, Tick PROVE StoreInv'
  OBVIOUS
<1>1. StoreTypeOK'
  BY StoreAssumption DEF Tick, StoreInv, StoreTypeOK
<1>2. KeysAgree' /\ StoreBounded'
  BY DEF Tick, StoreInv, KeysAgree, StoreBounded
<1> QED BY <1>1, <1>2 DEF StoreInv

LEMMA StutterKeepsInv == StoreInv /\ UNCHANGED svars => StoreInv'
BY DEF StoreInv, StoreTypeOK, KeysAgree, StoreBounded, svars

LEMMA StoreStepInv == StoreInv /\ [StoreNext]_svars => StoreInv'
BY CreateKeepsInv, GetKeepsInv, DeleteKeepsInv, TickKeepsInv, StutterKeepsInv DEF StoreNext

\* Whatever calls reach the store, its types hold, both dictionaries hold
\* the same sessions, and there are never more than the limit.
THEOREM StoreSafe == StoreSpec => [](StoreTypeOK /\ KeysAgree /\ StoreBounded)
<1>1. StoreSpec => []StoreInv
  BY StoreInitInv, StoreStepInv, PTL DEF StoreSpec
<1> QED BY <1>1, PTL DEF StoreInv

-----------------------------------------------------------------------------
(* Evictions.                                                              *)

\* The timestamps of the store are the times its sessions were really used.
StampsAreTrue == \A s \in envs : last_used[s] = touched[s]

CauseInv == StoreInv /\ StampsAreTrue

LEMMA CauseInit == StoreInit => CauseInv
BY StoreInitInv DEF StoreInit, CauseInv, StampsAreTrue

\* Every method that notes a use notes it in last_used.
LEMMA CauseStep == CauseInv /\ [StoreNext]_svars => CauseInv'
<1> SUFFICES ASSUME CauseInv, [StoreNext]_svars PROVE StampsAreTrue'
  BY StoreStepInv DEF CauseInv
<1>1. /\ envs \subseteq 1..created /\ created \in Nat /\ created <= MaxCreates
      /\ touched \in [Sids -> 0..clock] /\ DOMAIN last_used = envs
  BY StoreAssumption DEF CauseInv, StoreInv, StoreTypeOK, KeysAgree
<1>2. envs \subseteq Sids
  BY <1>1, StoreAssumption DEF Sids
<1>3. CASE Create
  <2>1. /\ created' = created + 1 /\ created' \in Sids
        /\ \A s \in envs' : s = created' \/ s \in envs
        /\ touched' = [touched EXCEPT ![created'] = clock]
    BY <1>1, <1>3, StoreAssumption DEF Create, NewSid, Sids
  <2>2. last_used'[created'] = clock
    BY <1>3 DEF Create
  <2>3. \A s \in envs' : s # created' => s \in envs /\ last_used'[s] = last_used[s]
    <3> SUFFICES ASSUME NEW s \in envs', s # created'
                 PROVE  s \in envs /\ last_used'[s] = last_used[s]
      OBVIOUS
    <3>1. s \in (envs \ Stale) \ Displaced(envs \ Stale, Without(last_used, Stale))
      BY <1>3 DEF Create
    <3>2. DOMAIN Without(last_used, Stale) = envs \ Stale
      BY <1>1 DEF Without
    <3> QED BY <1>3, <3>1, <3>2 DEF Create
  <2> QED BY <1>1, <1>2, <2>1, <2>2, <2>3 DEF CauseInv, StampsAreTrue
<1>4. ASSUME NEW sid \in Sids, Get(sid) PROVE StampsAreTrue'
  BY <1>1, <1>2, <1>4 DEF Get, Refreshed, CauseInv, StampsAreTrue
<1>5. ASSUME NEW sid \in Sids, Delete(sid) PROVE StampsAreTrue'
  BY <1>1, <1>5 DEF Delete, Forget, Without, CauseInv, StampsAreTrue
<1>6. CASE Tick \/ UNCHANGED svars
  BY <1>6 DEF Tick, svars, CauseInv, StampsAreTrue
<1> QED BY <1>3, <1>4, <1>5, <1>6 DEF StoreNext

Expired == {s \in envs : clock - touched[s] > SESSION_TTL}

\* With true timestamps the stale sessions are the expired ones, and what is
\* displaced after them is the one left unused longest.
LEMMA CreateEvictsForCause ==
  ASSUME CauseInv, Create
  PROVE  LET gone == envs \ envs'
         IN  /\ Expired \subseteq gone
             /\ \A s, r \in gone \ Expired : s = r
             /\ \A s \in gone \ Expired :
                  /\ Cardinality(envs \ Expired) >= MAX_SESSIONS
                  /\ \A r \in envs \ Expired : touched[s] <= touched[r]
<1> DEFINE live == envs \ Expired
           kept == Without(last_used, Expired)
           out  == Displaced(live, kept)
<1>1. /\ envs \subseteq 1..created /\ created \in Nat /\ clock \in Nat
      /\ last_used \in [envs -> 0..clock] /\ DOMAIN last_used = envs
      /\ \A s \in envs : last_used[s] = touched[s]
  BY StoreAssumption DEF CauseInv, StampsAreTrue, StoreInv, StoreTypeOK, KeysAgree
<1>2. Stale = Expired
  BY <1>1 DEF Stale, Expired
<1>3. envs' = (live \ out) \cup {created + 1}
  BY <1>2 DEF Create, NewSid
<1>4. created + 1 \notin envs
  BY <1>1
<1>5. envs \ envs' = Expired \cup (live \cap out)
  BY <1>3, <1>4 DEF Expired
<1>6. /\ DOMAIN kept = live
      /\ \A s \in live : kept[s] = touched[s] /\ kept[s] \in Nat
      /\ kept \in [DOMAIN kept -> Nat] /\ DOMAIN kept \subseteq Nat
  <2>1. kept = [s \in live |-> last_used[s]]
    BY <1>1 DEF Without
  <2>2. \A s \in live : last_used[s] = touched[s] /\ last_used[s] \in Nat
    BY <1>1
  <2>3. live \subseteq Nat
    <3>1. 1..created \subseteq Nat /\ live \subseteq envs
      BY <1>1
    <3> HIDE DEF live
    <3> QED BY <1>1, <3>1
  <2> HIDE DEF live, kept
  <2> QED BY <2>1, <2>2, <2>3
<1>7. ASSUME NEW s \in out
      PROVE  /\ s = Oldest(kept) /\ Cardinality(live) >= MAX_SESSIONS
             /\ \A r \in live : kept[s] <= kept[r]
  <2> HIDE DEF live, kept
  <2>1. s = Oldest(kept) /\ Cardinality(live) >= MAX_SESSIONS /\ DOMAIN kept # {}
    BY <1>7 DEF Displaced
  <2>2. /\ Oldest(kept) \in DOMAIN kept
        /\ \A r \in DOMAIN kept : kept[Oldest(kept)] <= kept[r]
    BY <1>6, <2>1, OldestIsKey
  <2> QED BY <1>6, <2>1, <2>2
<1> HIDE DEF kept, out
<1>8. \A s \in (envs \ envs') \ Expired : s \in live /\ s \in out
  BY <1>5
<1> QED BY <1>5, <1>6, <1>7, <1>8

\* create() takes a session away only because it expired or because the store
\* was full, and then the one that was really left unused longest.
THEOREM EvictsForCause == StoreSpec => EvictedForCause
<1>1. CauseInv /\ [StoreNext]_svars =>
        [created' # created =>
           LET gone    == envs \ envs'
               expired == {s \in envs : clock - touched[s] > SESSION_TTL}
           IN  /\ expired \subseteq gone
               /\ \A s, r \in gone \ expired : s = r
               /\ \A s \in gone \ expired :
                    /\ Cardinality(envs \ expired) >= MAX_SESSIONS
                    /\ \A r \in envs \ expired : touched[s] <= touched[r]]_svars
  <2> SUFFICES ASSUME CauseInv, StoreNext, created' # created
               PROVE  LET gone    == envs \ envs'
                          expired == {s \in envs : clock - touched[s] > SESSION_TTL}
                      IN  /\ expired \subseteq gone
                          /\ \A s, r \in gone \ expired : s = r
                          /\ \A s \in gone \ expired :
                               /\ Cardinality(envs \ expired) >= MAX_SESSIONS
                               /\ \A r \in envs \ expired : touched[s] <= touched[r]
    BY DEF svars
  <2>1. Create
    BY DEF StoreNext, Get, Delete, Tick
  <2> QED BY <2>1, CreateEvictsForCause DEF Expired
<1> QED BY <1>1, CauseInit, CauseStep, PTL DEF StoreSpec, EvictedForCause

-----------------------------------------------------------------------------
(* The server (SessionServer).                                             *)

\* The types of the variables of the threads and clients, apart from the
\* store's, as functions of the highest id handed out.
ServerTypeOK ==
  /\ session_id \in [Clients -> 0..created]
  /\ waiting \in [Clients -> Threads \cup {None}]
  /\ pc \in [Threads -> {"idle", "create", "get", "default", "run", "delete", "reply"}]
  /\ call \in [Threads -> [client : Clients \cup {None}, sid : 0..created, new : BOOLEAN,
                           kind : {"reset", "step", "state", "delete", "none"}]]
  /\ reply \in [Threads -> {"none", "ok", "404", "500"}]
  /\ ready \subseteq 0..created
  /\ users \in [Objects -> SUBSET Clients]

\* A thread at work serves a client's call.
Serving == \A t \in Threads : pc[t] # "idle" => call[t].client \in Clients

\* Client c is connected to environment o: it ran on it, holds its id, or a
\* thread carries the id in a request of the client's.
Connected(c, o) ==
  \/ c \in users[o]
  \/ session_id[c] = o
  \/ \E t \in Threads : call[t].client = c /\ call[t].sid = o

\* No environment but the default one is connected to two clients, and none
\* that is still to be created was ever used.
Private ==
  /\ \A o \in Objects \ {0} : \A c, d \in Clients : Connected(c, o) /\ Connected(d, o) => c = d
  /\ \A o \in Objects : o > created => users[o] = {}

\* A reset that went well left the environment ready, and only a delete is
\* answered by the store alone.
ResetsReady ==
  /\ \A t \in Threads : reply[t] = "ok" /\ call[t].kind = "reset" => call[t].sid \in ready
  /\ \A t \in Threads : pc[t] = "delete" => call[t].kind = "delete"

ServerInv ==
  ServerTypeOK /\ Serving /\ Private /\ ResetsReady /\ HeldSessionIsReady

Inv == StoreInv /\ ServerInv

-----------------------------------------------------------------------------
(* To the store, the server is one more caller.                            *)

\* Ids in use are ids of the store.
LEMMA LiveAreSids == StoreTypeOK => envs \subseteq Sids
BY StoreAssumption DEF StoreTypeOK, Sids

\* Every step of the server is one call of the store, or none.
LEMMA StepIsStoreCall == StoreTypeOK /\ [Next]_vars => [StoreNext]_svars
<1> SUFFICES ASSUME StoreTypeOK, [Next]_vars PROVE [StoreNext]_svars
  OBVIOUS
<1>1. ASSUME NEW c \in Clients, NEW t \in Threads, NEW kind \in CallKinds, Send(c, t, kind)
      PROVE  UNCHANGED svars
  BY <1>1 DEF Send
<1>2. ASSUME NEW c \in Clients, GiveUp(c) PROVE UNCHANGED svars
  BY <1>2 DEF GiveUp
<1>3. ASSUME NEW t \in Threads, Serve(t) PROVE [StoreNext]_svars
  <2>1. CASE DoCreate(t)
    BY <2>1 DEF DoCreate, StoreNext
  <2>2. CASE DoGet(t)
    <3>1. CASE Get(call[t].sid)
      <4>1. call[t].sid \in Sids
        BY <3>1, LiveAreSids DEF Get
      <4> QED BY <3>1, <4>1 DEF StoreNext
    <3>2. CASE GetFails(call[t].sid)
      BY <3>2 DEF GetFails
    <3> QED BY <2>2, <3>1, <3>2 DEF DoGet
  <2>3. CASE DoDelete(t)
    <3>1. Delete(call[t].sid)
      BY <2>3 DEF DoDelete
    <3>2. CASE call[t].sid \in envs
      <4>1. call[t].sid \in Sids
        BY <3>2, LiveAreSids
      <4> QED BY <3>1, <4>1 DEF StoreNext
    <3>3. CASE call[t].sid \notin envs
      BY <3>1, <3>3 DEF Delete, svars
    <3> QED BY <3>2, <3>3
  <2>4. CASE DoDefault(t) \/ DoRun(t) \/ Reply(t)
    BY <2>4 DEF DoDefault, DoRun, Reply
  <2> QED BY <1>3, <2>1, <2>2, <2>3, <2>4 DEF Serve
<1>4. CASE Pass
  BY <1>4 DEF Pass, StoreNext
<1>5. CASE UNCHANGED vars
  BY <1>5 DEF vars
<1> QED BY <1>1, <1>2, <1>3, <1>4, <1>5 DEF Next

\* Ids are handed out one by one and only by create().
LEMMA CreatedGrows ==
  StoreTypeOK /\ [StoreNext]_svars => created \in Nat /\ created' \in Nat /\ created <= created'
<1> SUFFICES ASSUME StoreTypeOK, [StoreNext]_svars
             PROVE  created \in Nat /\ created' \in Nat /\ created <= created'
  OBVIOUS
<1>1. created \in Nat
  BY StoreAssumption DEF StoreTypeOK
<1>2. created' = created \/ created' = created + 1
  BY DEF StoreNext, Create, NewSid, Get, Delete, Tick, svars
<1> QED BY <1>1, <1>2

-----------------------------------------------------------------------------
(* Every step of a client or a thread keeps the server's invariant.        *)

LEMMA InitServerInv == Init => Inv
<1> SUFFICES ASSUME Init PROVE Inv
  OBVIOUS
<1>1. StoreInv
  BY StoreInitInv DEF Init
<1>2. ServerTypeOK
  BY StoreAssumption DEF Init, StoreInit, ServerTypeOK, NoCall, Objects
<1>3. Serving /\ ResetsReady /\ HeldSessionIsReady
  BY DEF Init, Serving, ResetsReady, HeldSessionIsReady, NoCall
<1>4. Private
  BY DEF Init, Private, Connected, NoCall, Objects
<1> QED BY <1>1, <1>2, <1>3, <1>4 DEF Inv, ServerInv

\* A request carries the id its client holds, so nobody is connected anew.
LEMMA SendKeeps ==
  ASSUME ServerInv, NEW c \in Clients, NEW t \in Threads, NEW kind \in CallKinds,
         Send(c, t, kind)
  PROVE  ServerInv'
<1> USE DEF ServerInv
<1>1. /\ UNCHANGED <<svars, session_id, evars>>
      /\ waiting' = [waiting EXCEPT ![c] = t]
      /\ call' = [call EXCEPT ![t] = [client |-> c, kind |-> kind, sid |-> session_id[c],
                                      new |-> session_id[c] = 0]]
      /\ pc' = [pc EXCEPT ![t] = FirstStep(kind, session_id[c])]
      /\ reply' = [reply EXCEPT ![t] = "none"]
  BY DEF Send
<1>2. kind \in {"reset", "step", "state", "delete"} /\ session_id[c] \in 0..created
  BY ServerAssumption DEF ServerTypeOK
<1>3. /\ FirstStep(kind, session_id[c]) \in {"create", "default", "delete", "get"}
      /\ FirstStep(kind, session_id[c]) = "delete" => kind = "delete"
  BY <1>2 DEF FirstStep
<1>4. ServerTypeOK'
  BY <1>1, <1>2, <1>3 DEF ServerTypeOK, svars, evars
<1>5. Serving'
  BY <1>1, <1>3 DEF Serving, ServerTypeOK
<1>6. Private'
  <2>1. ASSUME NEW d, NEW o, Connected(d, o)' PROVE Connected(d, o)
    BY <1>1, <2>1 DEF Connected, ServerTypeOK, evars
  <2> QED BY <1>1, <2>1 DEF Private, svars, evars, Objects
<1>7. ResetsReady' /\ HeldSessionIsReady'
  BY <1>1, <1>3 DEF ResetsReady, HeldSessionIsReady, ServerTypeOK, evars
<1> QED BY <1>4, <1>5, <1>6, <1>7

\* Giving up changes only who waits.
LEMMA GiveUpKeeps ==
  ASSUME ServerInv, NEW c \in Clients, GiveUp(c)
  PROVE  ServerInv'
<1> USE DEF ServerInv
<1>1. /\ UNCHANGED <<created, session_id, tvars, evars>>
      /\ waiting' = [waiting EXCEPT ![c] = None]
  BY DEF GiveUp, svars
<1>2. ServerTypeOK'
  BY <1>1 DEF ServerTypeOK, tvars, evars
<1>3. Serving' /\ ResetsReady' /\ HeldSessionIsReady'
  BY <1>1 DEF Serving, ResetsReady, HeldSessionIsReady, tvars, evars
<1>4. Private'
  BY <1>1 DEF Private, Connected, tvars, evars, Objects
<1> QED BY <1>2, <1>3, <1>4

\* A client takes the id of the request it is answered, or none.
LEMMA ReplyKeeps ==
  ASSUME StoreInv, ServerInv, NEW t \in Threads, Reply(t)
  PROVE  ServerInv'
<1> USE DEF ServerInv
<1> DEFINE c == call[t].client
<1>1. /\ UNCHANGED <<svars, evars>>
      /\ call' = [call EXCEPT ![t] = NoCall] /\ reply' = [reply EXCEPT ![t] = "none"]
      /\ pc[t] = "reply" /\ pc' = [pc EXCEPT ![t] = "idle"]
      /\ c \in Clients
  BY DEF Reply, Serving
<1>2. \/ session_id' = session_id /\ waiting' = waiting
      \/ /\ waiting' = [waiting EXCEPT ![c] = None]
         /\ session_id' = [session_id EXCEPT ![c] = SessionAfter(t, c)]
  BY DEF Reply, cvars
<1>3. \/ SessionAfter(t, c) = session_id[c]
      \/ SessionAfter(t, c) = 0
      \/ SessionAfter(t, c) = call[t].sid /\ call[t].sid \in ready
  BY DEF SessionAfter, ResetsReady
<1>4. ServerTypeOK'
  <2>1. SessionAfter(t, c) \in 0..created
    BY <1>1, <1>3, StoreAssumption DEF ServerTypeOK, StoreInv, StoreTypeOK
  <2>2. NoCall \in [client : Clients \cup {None}, sid : 0..created, new : BOOLEAN,
                    kind : {"reset", "step", "state", "delete", "none"}]
    BY StoreAssumption DEF NoCall, StoreInv, StoreTypeOK
  <2> QED BY <1>1, <1>2, <2>1, <2>2 DEF ServerTypeOK, svars, evars
<1>5. Serving' /\ ResetsReady'
  BY <1>1 DEF Serving, ResetsReady, ServerTypeOK, evars
<1>6. Private'
  <2>1. ASSUME NEW d \in Clients, NEW o \in Objects \ {0}, Connected(d, o)'
        PROVE  Connected(d, o)
    <3>1. 0 # o
      BY <2>1
    <3> QED BY <1>1, <1>2, <1>3, <2>1, <3>1 DEF Connected, ServerTypeOK, evars, NoCall
  <2> QED BY <1>1, <2>1 DEF Private, svars, evars, Objects
<1>7. HeldSessionIsReady'
  BY <1>1, <1>2, <1>3 DEF HeldSessionIsReady, ServerTypeOK, evars
<1> QED BY <1>4, <1>5, <1>6, <1>7

\* The new session's id was nobody's: only the request that asked for it
\* is connected to it.
LEMMA CreateKeeps ==
  ASSUME StoreInv, ServerInv, NEW t \in Threads, DoCreate(t)
  PROVE  ServerInv'
<1> USE DEF ServerInv
<1>1. /\ UNCHANGED <<cvars, evars>>
      /\ pc[t] = "create"
      /\ call' = [call EXCEPT ![t].sid = created']
      /\ pc' = [pc EXCEPT ![t] = "get"] /\ reply' = [reply EXCEPT ![t] = "none"]
  BY DEF DoCreate, Goto
<1>2. created \in Nat /\ created' = created + 1
  BY StoreAssumption DEF DoCreate, Create, NewSid, StoreInv, StoreTypeOK
<1>3. ServerTypeOK'
  <2>1. /\ 0..created \subseteq 0..created' /\ created' \in 0..created'
    BY <1>2
  <2>2. call' \in [Threads -> [client : Clients \cup {None}, sid : 0..created', new : BOOLEAN,
                               kind : {"reset", "step", "state", "delete", "none"}]]
    <3>1. call \in [Threads -> [client : Clients \cup {None}, sid : 0..created', new : BOOLEAN,
                               kind : {"reset", "step", "state", "delete", "none"}]]
      BY <2>1 DEF ServerTypeOK
    <3> QED BY <1>1, <2>1, <3>1
  <2>3. session_id' \in [Clients -> 0..created'] /\ ready' \subseteq 0..created'
    BY <1>1, <2>1 DEF ServerTypeOK, cvars, evars
  <2> QED BY <1>1, <2>2, <2>3 DEF ServerTypeOK, cvars, evars
<1>4. Serving' /\ ResetsReady' /\ HeldSessionIsReady'
  BY <1>1 DEF Serving, ResetsReady, HeldSessionIsReady, ServerTypeOK, cvars, evars
<1>5. Private'
  <2>1. ASSUME NEW d \in Clients, NEW o \in Objects \ {0}, o # created', Connected(d, o)'
        PROVE  Connected(d, o)
    BY <1>1, <2>1 DEF Connected, ServerTypeOK, cvars, evars
  <2>2. ASSUME NEW d \in Clients, NEW o \in Objects, o = created', Connected(d, o)'
        PROVE  d = call[t].client
    <3>1. users[o] = {} /\ session_id[d] # o
      BY <1>2, <2>2 DEF Private, ServerTypeOK
    <3>2. \A u \in Threads : call[u].sid # o
      BY <1>2, <2>2 DEF ServerTypeOK
    <3> QED BY <1>1, <2>2, <3>1, <3>2 DEF Connected, ServerTypeOK, cvars, evars
  <2>3. \A o \in Objects : o > created' => users'[o] = {}
    BY <1>1, <1>2, StoreAssumption DEF Private, evars, Objects
  <2>4. ASSUME NEW o \in Objects \ {0}, NEW a \in Clients, NEW b \in Clients,
               Connected(a, o)', Connected(b, o)'
        PROVE  a = b
    <3>1. CASE o = created'
      BY <2>2, <2>4, <3>1
    <3>2. CASE o # created'
      BY <2>1, <2>4, <3>2 DEF Private
    <3> QED BY <3>1, <3>2
  <2> QED BY <2>3, <2>4 DEF Private, Objects
<1> QED BY <1>3, <1>4, <1>5

\* Fetching, with or without success, connects nobody.
LEMMA GetKeeps ==
  ASSUME ServerInv, NEW t \in Threads, DoGet(t)
  PROVE  ServerInv'
<1> USE DEF ServerInv
<1>1. /\ UNCHANGED <<cvars, call, evars, created>>
      /\ pc[t] = "get"
      /\ \/ pc' = [pc EXCEPT ![t] = "run"] /\ reply' = [reply EXCEPT ![t] = "none"]
         \/ pc' = [pc EXCEPT ![t] = "reply"] /\ reply' = [reply EXCEPT ![t] = "404"]
  BY DEF DoGet, Get, GetFails, Goto, svars
<1>2. ServerTypeOK'
  BY <1>1 DEF ServerTypeOK, cvars, evars
<1>3. Serving' /\ ResetsReady' /\ HeldSessionIsReady'
  BY <1>1 DEF Serving, ResetsReady, HeldSessionIsReady, ServerTypeOK, cvars, evars
<1>4. Private'
  BY <1>1 DEF Private, Connected, cvars, evars, Objects
<1> QED BY <1>2, <1>3, <1>4

LEMMA DefaultKeeps ==
  ASSUME ServerInv, NEW t \in Threads, DoDefault(t)
  PROVE  ServerInv'
<1> USE DEF ServerInv
<1>1. /\ UNCHANGED <<cvars, call, evars, created>>
      /\ pc[t] = "default"
      /\ pc' = [pc EXCEPT ![t] = "run"] /\ reply' = [reply EXCEPT ![t] = "none"]
  BY DEF DoDefault, Goto, svars
<1>2. ServerTypeOK'
  BY <1>1 DEF ServerTypeOK, cvars, evars
<1>3. Serving' /\ ResetsReady' /\ HeldSessionIsReady'
  BY <1>1 DEF Serving, ResetsReady, HeldSessionIsReady, ServerTypeOK, cvars, evars
<1>4. Private'
  BY <1>1 DEF Private, Connected, cvars, evars, Objects
<1> QED BY <1>2, <1>3, <1>4

\* The environment runs for the client whose request names it.
LEMMA RunKeeps ==
  ASSUME StoreInv, ServerInv, NEW t \in Threads, DoRun(t)
  PROVE  ServerInv'
<1> USE DEF ServerInv
<1> DEFINE o == call[t].sid
           c == call[t].client
<1>1. /\ UNCHANGED <<svars, cvars, call>>
      /\ pc[t] = "run" /\ pc' = [pc EXCEPT ![t] = "reply"]
      /\ users' = [users EXCEPT ![o] = @ \cup {c}]
      /\ c \in Clients /\ o \in 0..created
  BY DEF DoRun, Goto, Serving, ServerTypeOK
<1>2. \/ call[t].kind = "reset" /\ ready' = ready \cup {o} /\ reply' = [reply EXCEPT ![t] = "ok"]
      \/ /\ call[t].kind # "reset" /\ ready' = ready
         /\ \/ reply' = [reply EXCEPT ![t] = "ok"]
            \/ reply' = [reply EXCEPT ![t] = "500"]
  BY DEF DoRun, Goto
<1>3. ServerTypeOK'
  <2>1. users' \in [Objects -> SUBSET Clients]
    BY <1>1 DEF ServerTypeOK
  <2> QED BY <1>1, <1>2, <2>1 DEF ServerTypeOK, svars, cvars
<1>4. Serving' /\ ResetsReady' /\ HeldSessionIsReady'
  BY <1>1, <1>2 DEF Serving, ResetsReady, HeldSessionIsReady, ServerTypeOK, cvars
<1>5. Private'
  <2>1. ASSUME NEW d \in Clients, NEW p \in Objects \ {0}, Connected(d, p)'
        PROVE  Connected(d, p)
    BY <1>1, <2>1 DEF Connected, ServerTypeOK, cvars
  <2>2. \A p \in Objects : p > created' => users'[p] = {}
    <3>1. created \in Nat /\ created' = created
      BY <1>1, StoreAssumption DEF StoreInv, StoreTypeOK, svars
    <3>2. \A p \in Objects : p > created => p # o /\ p \in Int
      BY <1>1, <3>1, StoreAssumption DEF Objects
    <3> QED BY <1>1, <3>1, <3>2 DEF Private, ServerTypeOK
  <2> QED BY <2>1, <2>2 DEF Private, Objects
<1> QED BY <1>3, <1>4, <1>5

LEMMA DeleteKeeps ==
  ASSUME ServerInv, NEW t \in Threads, DoDelete(t)
  PROVE  ServerInv'
<1> USE DEF ServerInv
<1>1. /\ UNCHANGED <<cvars, call, evars, created>>
      /\ pc[t] = "delete" /\ call[t].kind = "delete"
      /\ pc' = [pc EXCEPT ![t] = "reply"] /\ reply' = [reply EXCEPT ![t] = "ok"]
  BY DEF DoDelete, Delete, Goto, ResetsReady
<1>2. ServerTypeOK'
  BY <1>1 DEF ServerTypeOK, cvars, evars
<1>3. Serving' /\ ResetsReady' /\ HeldSessionIsReady'
  BY <1>1 DEF Serving, ResetsReady, HeldSessionIsReady, ServerTypeOK, cvars, evars
<1>4. Private'
  BY <1>1 DEF Private, Connected, cvars, evars, Objects
<1> QED BY <1>2, <1>3, <1>4

\* Steps of the clock and stuttering steps change nothing of the server.
LEMMA IdleKeeps ==
  ASSUME ServerInv, UNCHANGED <<cvars, tvars, evars, created>>
  PROVE  ServerInv'
BY DEF ServerInv, ServerTypeOK, Serving, Private, Connected, ResetsReady,
       HeldSessionIsReady, cvars, tvars, evars, Objects

LEMMA StepInv == Inv /\ [Next]_vars => Inv'
<1> SUFFICES ASSUME Inv, [Next]_vars PROVE Inv'
  OBVIOUS
<1>1. StoreInv'
  BY StepIsStoreCall, StoreStepInv DEF Inv, StoreInv
<1>2. ServerInv'
  <2>1. ASSUME NEW t \in Threads, Serve(t) PROVE ServerInv'
    BY <2>1, CreateKeeps, GetKeeps, DefaultKeeps, RunKeeps, DeleteKeeps, ReplyKeeps
       DEF Inv, Serve
  <2>2. CASE Pass \/ UNCHANGED vars
    BY <2>2, IdleKeeps DEF Inv, Pass, Tick, vars, svars
  <2> QED BY <2>1, <2>2, SendKeeps, GiveUpKeeps DEF Inv, Next
<1> QED BY <1>1, <1>2 DEF Inv

-----------------------------------------------------------------------------
(* The results.                                                            *)

\* The server's types hold, the store's among them.
THEOREM ServerTypes == Spec => []TypeOK
<1>1. Inv => TypeOK
  BY DEF Inv, StoreInv, ServerInv, ServerTypeOK, TypeOK
<1> QED BY <1>1, InitServerInv, StepInv, PTL DEF Spec

\* However requests of however many clients overlap, whatever is evicted or
\* timed out in between, no environment runs calls of two clients.
THEOREM Privacy == Spec => []SessionsArePrivate
<1>1. Inv => SessionsArePrivate
  BY DEF Inv, ServerInv, ServerTypeOK, Private, Connected, SessionsArePrivate, Objects
<1> QED BY <1>1, InitServerInv, StepInv, PTL DEF Spec

\* The session id a client holds always names an environment that was reset.
THEOREM HeldReady == Spec => []HeldSessionIsReady
<1>1. Inv => HeldSessionIsReady
  BY DEF Inv, ServerInv
<1> QED BY <1>1, InitServerInv, StepInv, PTL DEF Spec

\* Under the server the store behaves as the store alone does, so both of
\* its dictionaries go on holding the same sessions, within the limit, and
\* it takes sessions away only for cause.
THEOREM ServerUsesStore ==
  Spec => StoreSpec /\ [](KeysAgree /\ StoreBounded) /\ EvictedForCause
<1>1. Init => StoreInit
  BY DEF Init
<1>2. Inv /\ [Next]_vars => [StoreNext]_svars
  BY StepIsStoreCall DEF Inv, StoreInv
<1>3. Inv => KeysAgree /\ StoreBounded
  BY DEF Inv, StoreInv
<1>4. Spec => StoreSpec /\ [](KeysAgree /\ StoreBounded)
  BY <1>1, <1>2, <1>3, InitServerInv, StepInv, PTL DEF Spec, StoreSpec
<1> QED BY <1>4, EvictsForCause
=============================================================================
