SPECIFICATION Spec
CONSTANTS
  query = query
  update = update
  switch = switch
  Requests <- MCRequests
  UpdatingRequests <- MCUpdating
  SwitchRequests <- MCSwitch
  FrameItem = frame
  StopItem = stopWorker
  StepItem = step
  NoItem = none
  StepCounts <- MCStepCounts
  StepModulus = 4
  Commands <- StartOnly
  MaxItems = 3
  MaxSteps = 5
PROPERTY
  StepsIncrease
CHECK_DEADLOCK FALSE
