CONSTANTS
  e1 = e1  e2 = e2
  Edits = {e1, e2}
  Watched <- Views
  Acts <- MCActs
  MaxFaults = 2
SPECIFICATION FairSpec
 
PROPERTIES RefreshEnds PolledViewsConverge
