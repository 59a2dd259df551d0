SPECIFICATION FairSpec
PROPERTIES
  SleepersWake
  SleepEnds
  PipelineEnds
  ConsoleFlows
CHECK_DEADLOCK FALSE
