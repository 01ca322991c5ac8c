CONSTANTS
    Calls = {c1, c2, c3, c4}
    Threshold = 2
    MaxResets = 1
SPECIFICATION FairSpec
INVARIANTS StateMatchesErrors NoNewCallsWhileOpen ErrorsAreBypassed
PROPERTIES ClosesOnlyByLateError EveryCallReturns
