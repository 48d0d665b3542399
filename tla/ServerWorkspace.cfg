SPECIFICATION FairSpec
CONSTANTS
  Servers = {s1, s2}
  Directories <- TwoDirectories
  Root = "."
  Names = {n1}
  Flows = {f1, f2}
  MaxClicks = 4
  MaxErrors = 1
  None = None
INVARIANTS
  TypeOK
  ConsoleIsSelected
  FilesFollowGlobals
  OneInterval
  
  FileActionsStayHome
 
CHECK_DEADLOCK FALSE
