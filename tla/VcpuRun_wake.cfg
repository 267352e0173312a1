SPECIFICATION FairSpec
CONSTANTS
  Vectors <- MCVectors
  Senders = {s1}
  Reasons = {r1}
INVARIANTS ApicvConsistent SleepIsSafe GuestIsTold
PROPERTIES Taken
