CONSTANTS
    Tasks <- MCTasks
    MaxThreads = 2
SPECIFICATION Spec
INVARIANT FileSound
PROPERTY DownloadEnds
