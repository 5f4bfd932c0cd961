--------------------------- MODULE SessionServer ---------------------------
(***************************************************************************)
(* The HTTP server of app.py and the clients of client.py on top of the    *)
(* session store.  A request runs in a thread of the server's pool; each   *)
(* store call it makes is atomic, and between two of them any other        *)
(* request may run.  A client waits for one reply at a time, but when its  *)
(* timeout expires the request runs on without it.  An environment call is *)
(* one action here.                                                        *)
(***************************************************************************)
EXTENDS SessionStore

CONSTANTS
  Clients,          \* AdversarialReasoningClient objects
  LegacyClients,    \* of these, clients that never send a session id
  Threads,          \* threads of the server's pool
  CallKinds,        \* the calls the clients make
  None

ASSUME ServerAssumption ==
  /\ LegacyClients \subseteq Clients
  /\ CallKinds \subseteq {"reset", "step", "state", "delete"}
  /\ None \notin Threads

VARIABLES
  session_id,    \* client -> its session_id, 0 for None
  waiting,       \* client -> the thread whose reply it waits for
  pc,            \* thread -> what it does next
  call,          \* thread -> the request it serves
  reply,         \* thread -> how the request went
  ready,         \* environments that were reset; 0 is the default one
  users          \* history: environment -> clients whose calls ran on it

cvars == <<session_id, waiting>>
tvars == <<pc, call, reply>>
evars == <<ready, users>>
vars  == <<svars, cvars, tvars, evars>>

Objects == 0..MaxCreates
NoCall  == [client |-> None, kind |-> "none", sid |-> 0, new |-> FALSE]

Init ==
  /\ StoreInit
  /\ session_id = [c \in Clients |-> 0]
  /\ waiting = [c \in Clients |-> None]
  /\ pc = [t \in Threads |-> "idle"]
  /\ call = [t \in Threads |-> NoCall]
  /\ reply = [t \in Threads |-> "none"]
  /\ ready = {}
  /\ users = [o \in Objects |-> {}]

-----------------------------------------------------------------------------
(* Clients.                                                                *)

FirstStep(kind, sid) ==
  CASE kind = "reset" /\ sid = 0 -> "create"
    [] kind \in {"step", "state"} /\ sid = 0 -> "default"
    [] kind = "delete" -> "delete"
    [] OTHER -> "get"

\* Ids left under the bound on sessions, so that no request is cut short.
IdsLeft == created + Cardinality({t \in Threads : pc[t] = "create"}) < MaxCreates

\* end_session without a session returns at once.
Send(c, t, kind) ==
  /\ waiting[c] = None /\ pc[t] = "idle"
  /\ kind = "delete" => session_id[c] # 0
  /\ FirstStep(kind, session_id[c]) = "create" => IdsLeft
  /\ waiting' = [waiting EXCEPT ![c] = t]
  /\ call' = [call EXCEPT ![t] = [client |-> c, kind |-> kind, sid |-> session_id[c],
                                  new |-> session_id[c] = 0]]
  /\ pc' = [pc EXCEPT ![t] = FirstStep(kind, session_id[c])]
  /\ reply' = [reply EXCEPT ![t] = "none"]
  /\ UNCHANGED <<svars, session_id, evars>>

\* httpx gives up after its timeout; the request is not withdrawn, and
\* session_id stays what it was.
GiveUp(c) ==
  /\ waiting[c] # None
  /\ waiting' = [waiting EXCEPT ![c] = None]
  /\ UNCHANGED <<svars, session_id, tvars, evars>>

\* Mutant: the id is taken before the status is looked at.
SessionAfter_AnyStatus(t, c) ==
  IF call[t].kind = "reset" /\ c \notin LegacyClients THEN call[t].sid ELSE session_id[c]

\* raise_for_status comes before session_id is touched, so an error of any
\* kind leaves it alone.
SessionAfter(t, c) ==
  CASE reply[t] = "ok" /\ call[t].kind = "reset" /\ c \notin LegacyClients -> call[t].sid
    [] reply[t] = "ok" /\ call[t].kind = "delete" -> 0
    [] OTHER -> session_id[c]

Reply(t) ==
  /\ pc[t] = "reply"
  /\ pc' = [pc EXCEPT ![t] = "idle"]
  /\ LET c == call[t].client
     IN  IF waiting[c] = t
         THEN /\ waiting' = [waiting EXCEPT ![c] = None]
              /\ session_id' = [session_id EXCEPT ![c] = SessionAfter(t, c)]
         ELSE UNCHANGED cvars
  /\ call' = [call EXCEPT ![t] = NoCall]
  /\ reply' = [reply EXCEPT ![t] = "none"]
  /\ UNCHANGED <<svars, evars>>

-----------------------------------------------------------------------------
(* The request handlers, one store or environment call per action.         *)

Goto(t, where, answer) ==
  /\ pc' = [pc EXCEPT ![t] = where]
  /\ reply' = [reply EXCEPT ![t] = answer]

\* reset() without an id: create, and fetch what was created in a second call.
DoCreate(t) ==
  /\ pc[t] = "create"
  /\ Create
  /\ call' = [call EXCEPT ![t].sid = created']
  /\ Goto(t, "get", "none")
  /\ UNCHANGED <<cvars, evars>>

DoGet(t) ==
  /\ pc[t] = "get"
  /\ \/ Get(call[t].sid) /\ Goto(t, "run", "none")
     \/ GetFails(call[t].sid) /\ Goto(t, "reply", "404")
  /\ UNCHANGED <<cvars, call, evars>>

\* step() and state() without an id: nothing ever resets the default environment here,
\* reset() without an id having made a session of its own.
DoDefault(t) ==
  /\ pc[t] = "default"
  /\ Goto(t, "run", "none")
  /\ UNCHANGED <<svars, cvars, call, evars>>

\* The call on the environment the thread holds, evicted meanwhile or not;
\* state() may be asked of an environment that was never reset.
DoRun(t) ==
  /\ pc[t] = "run"
  /\ LET o == call[t].sid
     IN  /\ users' = [users EXCEPT ![o] = @ \cup {call[t].client}]
         /\ IF call[t].kind = "reset"
            THEN ready' = ready \cup {o} /\ Goto(t, "reply", "ok")
            ELSE /\ UNCHANGED ready
                 /\ Goto(t, "reply", IF call[t].kind = "state" \/ o \in ready THEN "ok" ELSE "500")
  /\ UNCHANGED <<svars, cvars, call>>

DoDelete(t) ==
  /\ pc[t] = "delete"
  /\ Delete(call[t].sid)
  /\ Goto(t, "reply", "ok")
  /\ UNCHANGED <<cvars, call, evars>>

Pass == Tick /\ UNCHANGED <<cvars, tvars, evars>>

Serve(t) == DoCreate(t) \/ DoGet(t) \/ DoDefault(t) \/ DoRun(t) \/ DoDelete(t) \/ Reply(t)

Next ==
  \/ \E c \in Clients, t \in Threads, kind \in CallKinds : Send(c, t, kind)
  \/ \E c \in Clients : GiveUp(c)
  \/ \E t \in Threads : Serve(t)
  \/ Pass

Spec == Init /\ [][Next]_vars

\* The pool runs every request to its end, and a client that needs a session
\* keeps asking for one whenever it is not waiting.
Persistent ==
  /\ \A t \in Threads : WF_vars(Serve(t))
  /\ \A c \in Clients : SF_vars(\E t \in Threads : Send(c, t, "reset"))

LiveSpec == Spec /\ Persistent
-----------------------------------------------------------------------------
(* Properties.                                                             *)

TypeOK ==
  /\ StoreTypeOK
  /\ session_id \in [Clients -> 0..created]
  /\ waiting \in [Clients -> Threads \cup {None}]
  /\ pc \in [Threads -> {"idle", "create", "get", "default", "run", "delete", "reply"}]
  /\ call \in [Threads -> [client : Clients \cup {None}, sid : 0..created, new : BOOLEAN,
                           kind : {"reset", "step", "state", "delete", "none"}]]
  /\ reply \in [Threads -> {"none", "ok", "404", "500"}]
  /\ ready \subseteq 0..created
  /\ users \in [Objects -> SUBSET Clients]

\* No environment ever runs calls of two clients, whatever requests overlap
\* and whatever is evicted in between (app.py:3-6: rollouts must not share
\* env state).
SessionsArePrivate ==
  \A o \in Objects \ {0} : \A c, d \in users[o] : c = d

\* The id a client holds names an environment that was reset, so its next
\* step cannot run into "Call reset() before step()".
HeldSessionIsReady == \A c \in Clients : session_id[c] # 0 => session_id[c] \in ready

\* app.py:104: "If omitted, a new session is created": such a reset is not
\* refused for want of a session.
ResetNeverRefused ==
  \A t \in Threads : call[t].kind = "reset" /\ call[t].new => reply[t] # "404"

\* app.py:113: a step without a session id "uses default env (legacy)": it
\* works for a client that has called reset the same way.
LegacyStepServed ==
  \A t \in Threads :
    (call[t].client \in LegacyClients /\ reply[t] = "500") =>
      \A o \in Objects \ {0} : call[t].client \notin users[o]

\* client.py:3-5: the client threads the id through its calls "so callers
\* don't need to manage it": one that keeps calling reset does not stay with
\* an id the server no longer knows.
StaleIdIsReplaced ==
  \A c \in Clients : session_id[c] # 0 /\ session_id[c] \notin envs
                      ~> session_id[c] = 0 \/ session_id[c] \in envs

\* app.py:6: "The server also evicts idle sessions on a TTL": a session left
\* unused for longer than the TTL is not served again.
ExpiredStaysUnused ==
  [][ \A s \in envs : clock - touched[s] > SESSION_TTL => touched'[s] = touched[s] ]_vars
=============================================================================
