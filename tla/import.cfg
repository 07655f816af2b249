SPECIFICATION ImportSpec
CONSTANTS
    Codes <- ImportCodes
    Spellings <- ImportSpellings
    StartTimes = {0, 7}
    SamplingRates = {0, 3, 10}
    SampleCounts = {0, 1, 3}
    Files <- ImportFiles
    Capitals <- ImportCapitals
    Records <- ImportRecords
    MaxBuffers = 1
INVARIANTS
    EndTimeFresh
    ArrivesIntact
    NoUndefined
    AcceptedLinesRequested
