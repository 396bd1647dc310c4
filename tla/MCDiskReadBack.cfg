CONSTANTS
  MaxLogicals = 3
  Align = 4
  Word = 65536
  MaxPasses = 16
  Page = 2
  Unit = 4
  Ptrs = 2
  RefsPerBlock = 4
  Buf = 2
  MaxFaults = 1
  MaxRetries = 1
  RealignSchemes = {"gpt"}
  Jobs <- WriteJobs
SPECIFICATION Spec
INVARIANT ReadBackWorks
CHECK_DEADLOCK FALSE
