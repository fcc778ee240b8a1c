SPECIFICATION Spec
CONSTANTS
    Files <- SomeFiles
    Tails <- SomeTails
    MaxLines = 5
    Offsets <- SomeOffsets
    Limits <- SomeLimits
    MaxLimit = 2
    MaxOutput = 4
INVARIANT ContinuesAfterWhatWasShown
