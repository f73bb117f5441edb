SPECIFICATION Spec
CONSTANTS
    Scenarios <- ShortScenarios
    Spectra <- MCSpectra
    LENGTH = 1000
    INT_MAX = 32767
CHECK_DEADLOCK FALSE
INVARIANT ReportedLongEnough
