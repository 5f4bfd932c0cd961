\* A client whose session was displaced.
SPECIFICATION LiveSpec
CONSTANTS
  MAX_SESSIONS = 1
  SESSION_TTL = 1
  MaxCreates = 2
  MaxClock = 0
  Clients = {c1, c2}
  LegacyClients = {}
  Threads = {t1, t2}
  CallKinds = {"reset"}
  None = None
  c1 = c1
  c2 = c2
  t1 = t1
  t2 = t2
PROPERTY StaleIdIsReplaced
\* The bounds on sessions and time end every behaviour.
CHECK_DEADLOCK FALSE
