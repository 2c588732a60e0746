\* Fingers compete for two slots, every button, and a rack swipe that yields.
CONSTANTS
  MaxReport = 2
  Width = 7
  Height = 12
  Finger = {0, 1, 2}
  PanelPoint <- MCPanelPoint
  ButtonSamples <- MCButtons
  StickSamples = {0, 100, 128, 200}
  PlayAt <- MCPlayAt
  StopAt <- MCStopAt
  MachineAt <- MCMachineAt
  MachineFocus <- MCMachineFocus
  FocusStep = 4
  DragStep = 3
  RepeatDelay = 2
  RepeatEvery = 2
  RackX = 1
  RackCenterY = 6
  RackMinY = 1
  RackMaxY = 11
SPECIFICATION MCSpec
INVARIANTS SlotsFollowGlass IInv PointersLegal
PROPERTIES FingerKeepsPointer LiftedFingersReleased TapsReleased RackFollowsStick
