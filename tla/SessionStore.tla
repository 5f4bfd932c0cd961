---------------------------- MODULE SessionStore ----------------------------
(***************************************************************************)
(* _SessionStore: the two dictionaries behind the HTTP API, environments   *)
(* by session id and the time each was last used.  Every method holds the  *)
(* store's lock from entry to return, so each is one action.  A session id *)
(* is a number handed out once, as uuid4 is; an environment object is      *)
(* known by the id it was created under.                                   *)
(***************************************************************************)
EXTENDS Integers, FiniteSets

CONSTANTS
  MAX_SESSIONS,    \* ARG_MAX_SESSIONS, 256
  SESSION_TTL,     \* ARG_SESSION_TTL_S, 1800
  MaxCreates,      \* bound: sessions ever created
  MaxClock         \* bound: the time

ASSUME StoreAssumption ==
  /\ MAX_SESSIONS \in Nat /\ SESSION_TTL \in Nat
  /\ MaxCreates \in Nat /\ MaxClock \in Nat

VARIABLES
  envs,         \* keys of _envs
  last_used,    \* _last_used, a function on its keys
  created,      \* sessions created so far: the next id is created + 1
  clock,        \* time.time()
  touched       \* history: when each session was really created or fetched

svars == <<envs, last_used, created, clock, touched>>

Sids == 1..MaxCreates

StoreInit ==
  /\ envs = {} /\ last_used = [s \in {} |-> 0]
  /\ created = 0 /\ clock = 0
  /\ touched = [s \in Sids |-> 0]

Without(f, S) == [s \in DOMAIN f \ S |-> f[s]]

Stale == {s \in DOMAIN last_used : clock - last_used[s] > SESSION_TTL}

\* min() over the items: the first inserted of the least recently used.  Ids
\* are inserted in the order they are handed out and never again.
Oldest(f) ==
  CHOOSE s \in DOMAIN f : \A r \in DOMAIN f : f[s] < f[r] \/ (f[s] = f[r] /\ s <= r)

Displaced(live, f) ==
  IF Cardinality(live) >= MAX_SESSIONS /\ DOMAIN f # {} THEN {Oldest(f)} ELSE {}

\* Mutant: ids are reused once sessions have gone.
NewSid_ByCount == Cardinality(envs) + 1

NewSid == created + 1

\* create(): expired sessions go first, then, if the store is still full,
\* the one used longest ago, then the new one is entered.
Create ==
  /\ created < MaxCreates
  /\ LET sid  == NewSid
         live == envs \ Stale
         kept == Without(last_used, Stale)
         out  == Displaced(live, kept)
     IN  /\ envs' = (live \ out) \cup {sid}
         /\ last_used' = [s \in (DOMAIN kept \ out) \cup {sid} |->
                            IF s = sid THEN clock ELSE last_used[s]]
         /\ created' = sid
         /\ touched' = [touched EXCEPT ![sid] = clock]
  /\ UNCHANGED clock

\* Mutant: fetching a session does not count as using it.
Refreshed_Not(sid) == last_used

Refreshed(sid) == [last_used EXCEPT ![sid] = clock]

\* get() of a session that is there: its age is not looked at.
Get(sid) ==
  /\ sid \in envs
  /\ last_used' = Refreshed(sid)
  /\ touched' = [touched EXCEPT ![sid] = clock]
  /\ UNCHANGED <<envs, created, clock>>

GetFails(sid) == sid \notin envs /\ UNCHANGED svars

\* Mutant: the environment goes, its timestamp stays.
Forget_EnvOnly(sid) == envs' = envs \ {sid} /\ last_used' = last_used

Forget(sid) == envs' = envs \ {sid} /\ last_used' = Without(last_used, {sid})

\* delete(); an unknown id is answered and changes nothing.
Delete(sid) ==
  /\ IF sid \in envs THEN Forget(sid) ELSE UNCHANGED <<envs, last_used>>
  /\ UNCHANGED <<created, clock, touched>>

Tick ==
  /\ clock < MaxClock
  /\ clock' = clock + 1
  /\ UNCHANGED <<envs, last_used, created, touched>>

StoreNext == Create \/ (\E sid \in Sids : Get(sid) \/ Delete(sid)) \/ Tick

StoreSpec == StoreInit /\ [][StoreNext]_svars

-----------------------------------------------------------------------------
(* Properties.                                                             *)

\* Types; ids in use were handed out, and no timestamp lies ahead.
StoreTypeOK ==
  /\ created \in 0..MaxCreates /\ clock \in 0..MaxClock
  /\ envs \subseteq 1..created
  /\ last_used \in [DOMAIN last_used -> 0..clock]
  /\ touched \in [Sids -> 0..clock]

\* Between any two calls both dictionaries hold the same sessions: every
\* method updates the two by separate statements, and the evictions delete
\* from one what they found in the other.
KeysAgree == DOMAIN last_used = envs

\* Memory is bounded: never more than MAX_SESSIONS environments, except that
\* a limit of 0 still lets one in.
StoreBounded == Cardinality(envs) <= (IF MAX_SESSIONS = 0 THEN 1 ELSE MAX_SESSIONS)

\* create() takes a session away only for cause: it was really not used for
\* longer than the TTL, or the store was full and no other session had been
\* left unused for longer; and at most one goes for the latter cause.
EvictedForCause ==
  [][ created' # created =>
        LET gone    == envs \ envs'
            expired == {s \in envs : clock - touched[s] > SESSION_TTL}
        IN  /\ expired \subseteq gone
            /\ \A s, r \in gone \ expired : s = r
            /\ \A s \in gone \ expired :
                 /\ Cardinality(envs \ expired) >= MAX_SESSIONS
                 /\ \A r \in envs \ expired : touched[s] <= touched[r] ]_svars
=============================================================================
