SPECIFICATION Spec
CONSTANTS
  r1 = r1
  r2 = r2
  r3 = r3
  p1 = p1
  a1 = a1
  P = P
  Q = Q
  Gone = Gone
  Deploy = Deploy
  Free = Free
  Boards <- MCBoards
  Ports <- MCPorts
  Runs <- TwoRuns
  Probes <- MCProbes
  Admins <- MCAdmins
  Alone <- MCAlone
  BoardsOf <- TwoBoardsOf
  BoardOf <- MCBoardOf
PROPERTIES InstallEndsNoRun
