SPECIFICATION FairSpec
CONSTANTS
  Polls = 10
  AutoSteps = 4
PROPERTIES BootCompletes SupervisorServes
