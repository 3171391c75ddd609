\* Two calls share a pool of two connections; the runs share a key.
SPECIFICATION Spec
CONSTANTS
  r1 = r1
  r2 = r2
  c1 = c1
  c2 = c2
  c3 = c3
  s1 = s1
  s2 = s2
  s3 = s3
  Runs = {r1, r2}
  Calls = {c1, c2, c3}
  Sessions = {s1, s2, s3}
  Keys = {1, 2}
  MaxHeld = 3
  LockKey <- SameKey
  Pool <- TwoShare
INVARIANTS  OthersKeptOut
PROPERTIES KeepsContract
