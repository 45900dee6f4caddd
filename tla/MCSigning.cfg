CONSTANTS
    Values = {1, 2}
    Docs <- Submitted
    Secrets = {s1, s2, Unset}
    Unset = Unset
    MaxRows = 1
    Nothing = Nothing
SPECIFICATION Spec
INVARIANTS
    RefusedExactly
    ReverifiedExactly
    DecayShows
    SignedAsParsed
CHECK_DEADLOCK FALSE
