\* The promise chain: three callers compete for two runs (no symmetry, which
\* would be unsound for the liveness property).
SPECIFICATION FairSpec
CONSTANTS
  r1 = r1
  r2 = r2
  c1 = c1
  c2 = c2
  c3 = c3
  Runs = {r1, r2}
  Calls = {c1, c2, c3}
PROPERTIES ImplementsContract EveryCallSettles
