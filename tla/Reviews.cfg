SPECIFICATION ReviewSpec
CONSTANTS
  Requests = {x1, x2}
  MaxCommits = 2
  MaxRows = 2
INVARIANTS HitIsCurrent FallbackNotCached
