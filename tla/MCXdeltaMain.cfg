SPECIFICATION Spec
CONSTANTS
  Jobs <- MCJobs
  XD3_ALLOCSIZE = 2
  WindowLength = 3
  Names = {"out", "default"}
INVARIANT SuccessIsComplete
PROPERTIES Exits GrowsByWindows
