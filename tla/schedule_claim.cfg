SPECIFICATION FairSpec
CONSTANTS
  t1 = t1  t2 = t2
  Ticks = {t1, t2}
  Rules <- TwoRules
  Occurrences <- TwoRhythms
  Horizon = 3
  MaxEdits = 2
  MaxFaults = 1
INVARIANTS FiresOnce ClaimsAccounted
PROPERTIES DueIsClaimed
