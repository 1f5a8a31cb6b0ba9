SPECIFICATION FairSpec
CONSTANTS
  Turns = {t1, t2}
  Interrupts = {i1}
  None = None
  QuietAutonomous = TRUE
  MaxFaults = 1
CHECK_DEADLOCK FALSE
INVARIANTS
  BusyWhileSessionWorks
  SuccessIsMapped
PROPERTIES
  AnswersComeFirst
  EverythingEnds
