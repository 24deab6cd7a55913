\* Two clients, one capture id and one ordinary entry of two values: the
\* smallest document in which an update can be lost and a capture id reused.
\* MaxTries is the code's own 4.
CONSTANTS
  Clients = {app, worker}
  Keys = {cap, pref}
  Captures = {cap}
  Values = {v1, v2}
  NoValue = NoValue
  MaxTries = 4
SPECIFICATION FairSpec
INVARIANTS WritesEditTheHead
PROPERTIES OneEditPerCommit CapturesImmutable ImplementsLedger CallsEnd
