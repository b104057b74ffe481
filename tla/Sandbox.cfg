\* Two handles and one VM, with auto-resume.
SPECIFICATION Spec
CONSTANTS
  h1 = h1
  h2 = h2
  v1 = v1
  NoVm = NoVm
  Handle <- TwoHandles
  Vm <- OneVm
  AutoResume = TRUE
SYMMETRY HandlesAlike
INVARIANTS
  ReportsAreTrue
  LeaksAreAccounted
  KeepaliveWakesAtMostOnce
PROPERTIES
  LifecycleImplemented
\* Every VM may end and every handle be dropped: the system may stop.
CHECK_DEADLOCK FALSE
