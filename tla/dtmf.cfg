SPECIFICATION Spec
CONSTANTS
    Scenarios <- MCScenarios
    Spectra <- MCSpectra
    LENGTH = 1000
    INT_MAX = 32767
CHECK_DEADLOCK FALSE
INVARIANTS OptionsAsGiven EventsAreTones EventsSeparate LoneTonesReported RoundTrip
