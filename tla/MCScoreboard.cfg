SPECIFICATION BoardSpec
CONSTANTS
    Users = {1, 2, 3}
    Challenges = {1, 2}
    Times = {0, 1, 2}
    EndEnabled = TRUE
    EndAt = 2
    MaxAnswers = 3
INVARIANTS
    ScoreIsReference
