SPECIFICATION Spec
CONSTANTS
  Presentations <- MCPresentations
  MaxValue = 2097152
  MaxPending = 2
INVARIANTS
  TypeOK
  ProgressTrue
  FragmentsAgree
  AddressReopens
  AutoSlideExact
  OverviewLeavesNothing
  EnabledControlsWork
  PrevUndoesNext
PROPERTY AutoRuns
