SPECIFICATION Spec
CONSTANTS
    None = None
    first = first
    second = second
    Runs <- MCRuns
    Commits <- MCCommits
    Commit <- MCCommit
    CaseSet <- MCCaseSet
    Tolerated <- MCTolerated
    Cases = 1
    MaxTools = 4
SYMMETRY Attempts
INVARIANTS
    TypeOK
    AdmissionIsOfThatRun
    PackageIsOfThatRun
    NothingFailingAttested
    FilesDescribeEachOther
    PassingRunNeverRejected
CHECK_DEADLOCK FALSE
