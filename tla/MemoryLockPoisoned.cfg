\* A section that rejects: what becomes of the calls chained behind it.
SPECIFICATION Spec
CONSTANTS
  r1 = r1
  r2 = r2
  c1 = c1
  c2 = c2
  c3 = c3
  Runs = {r1}
  Calls = {c1, c2}
PROPERTIES EveryCallRuns
