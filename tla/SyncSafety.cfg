SPECIFICATION Spec
CONSTANTS
  Edit = {e1, e2}
  Device = {a, b}
  MaxUpdates = 3
  MaxStates = 3
  FaultKinds = {"update", "fail", "crash"}
  MaxFaults = 1
SYMMETRY Symmetry
CHECK_DEADLOCK FALSE
INVARIANTS StateHoldsWhatItCovers TailIsStored SyncedMeansSame
PROPERTY ImplementsSharedDocument
