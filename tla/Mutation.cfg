CONSTANTS
  a0 = a0
  a1 = a1
  absent = absent
  stray = stray
  N = 3
  Pre <- MCPre
  Post <- MCPost
  Images = {a0, a1, absent, stray}
  MaxWrites = 1
  MaxFailures = 2
SPECIFICATION FairSpec
 
PROPERTIES    UnfinishedPlanCompletes
