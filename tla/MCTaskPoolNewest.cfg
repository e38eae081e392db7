CONSTANTS
    MaxTasks      <- MCMaxTasks
    MaxGeneration <- MCMaxGeneration

SPECIFICATION Spec

PROPERTY NewestEntryReadSurvives
