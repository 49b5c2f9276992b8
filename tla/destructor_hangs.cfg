SPECIFICATION FairSpec
CONSTANTS
  query = query
  update = update
  switch = switch
  Requests <- MCRequests
  UpdatingRequests <- MCUpdating
  SwitchRequests <- MCSwitch
  FrameItem = frame
  StopItem = stopWorker
  StepItem = step
  NoItem = none
  StepCounts <- MCStepCounts
  StepModulus = 4
  Commands <- AllCommands
  MaxItems = 3
  MaxSteps = 4
PROPERTY
  DestructorReturns
CHECK_DEADLOCK FALSE
