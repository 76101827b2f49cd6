\* Two requests with one operation id, three retries, any number of crashes.
CONSTANTS
  None = None
  Callers = {c1, c2}
  Price = 1
  MaxGeneration = 3
SPECIFICATION Spec
INVARIANT
  ReplayedNotRegenerated
