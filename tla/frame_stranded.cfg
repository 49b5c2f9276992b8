SPECIFICATION Spec
CONSTANTS
  query = query
  update = update
  switch = switch
  Requests <- MCRequests
  UpdatingRequests <- MCUpdating
  SwitchRequests <- MCSwitch
  FrameItem = frame
  StopItem = stopWorker
  StepItem = step
  NoItem = none
  StepCounts <- MCStepCounts
  StepModulus = 8
  Commands <- StartAndStop
  MaxItems = 3
  MaxSteps = 3
INVARIANT
  ItemsAreWork
CHECK_DEADLOCK FALSE
