\* Two clients, two threads, room for two of three sessions: requests overlap,
\* sessions expire, are displaced and deleted.
SPECIFICATION Spec
CONSTANTS
  MAX_SESSIONS = 2
  SESSION_TTL = 1
  MaxCreates = 3
  MaxClock = 2
  Clients = {c1, c2}
  LegacyClients = {}
  Threads = {t1, t2}
  CallKinds = {"reset", "step", "delete"}
  None = None
  c1 = c1
  c2 = c2
  t1 = t1
  t2 = t2
SYMMETRY ClientsAndThreads
INVARIANTS KeysAgree SessionsArePrivate HeldSessionIsReady
PROPERTY EvictedForCause
\* The bounds on sessions and time end every behaviour.
CHECK_DEADLOCK FALSE
