\* The loader run by hand, without the script that holds the CPU in reset.
SPECIFICATION Spec
CONSTANTS
  Scripted = FALSE
  MaxGlitches = 0
  Jobs <- LoaderJobs
  Files <- LoaderFiles
CHECK_DEADLOCK FALSE
INVARIANT CpuIsDisabled
