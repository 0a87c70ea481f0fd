SPECIFICATION Spec
CONSTANTS
    None = None
    NewestFirst = FALSE
    MaxRuns = 2
    MaxReruns = 1
    MaxByHand = 1
INVARIANTS
    TypeOK
    SiteShowsAPassedPush
    
    AlertsOfEndedAttempts
    AlertsOfOwnRef
PROPERTIES
    SiteNeverGoesBack
    LastPassIsShown
\* Everything may have ended: no runs, re-runs or dispatches left.
CHECK_DEADLOCK FALSE
