CONSTANTS
    MaxTasks      <- MCMaxTasks
    MaxGeneration <- MCMaxGeneration

SPECIFICATION FairSpecRunner

INVARIANTS
    SpinnerHasAReason
    NoLostTicker

PROPERTIES
    EscStopsTheIndicator
    IndicatorGoesOutForGood
