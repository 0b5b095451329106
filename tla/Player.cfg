SPECIFICATION PlayerSpec
CONSTANTS
    Keys = {"W", "S"}
    Headings = {"north", "south"}
    Step <- BackAndForth
    SpawnPosition = 5
    Threshold = 3
    MaxInputs = 2
    MaxLives = 2
CHECK_DEADLOCK FALSE
INVARIANTS
    DisplayTracksPrediction
    PredictionIsServers
