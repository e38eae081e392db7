CONSTANTS
    MaxTasks      <- MCMaxTasks
    MaxGeneration <- MCMaxGeneration

SPECIFICATION FairSpec

INVARIANTS
    OneEntryReadPending
    InFlightIsCancellable

PROPERTIES
    ImplementsAsyncWork
    CancelledWorkSettles
    UndisplacedAnswersLand
