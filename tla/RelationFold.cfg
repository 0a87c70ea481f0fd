SPECIFICATION Spec
CONSTANTS
    None = None
    Scenes <- MCScenes
INVARIANTS
    TypeOK
    PathCompleteJustified
    AuthorityBindingJustified
    UnboundMutationNeverHidden
    SelfCheckPasses
    FoldedFromOneMoment
    UncheckedOnlyAfterKill
PROPERTY GatesNeverFlip
