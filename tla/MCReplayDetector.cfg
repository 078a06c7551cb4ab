SPECIFICATION FairSpec
CONSTANTS
    Requests = {r1, r2}
    Nonces = {n1}
    Window = 1
    ClockSkew = 1
    MaxTime = 3
    MaxStamp = 2
INVARIANTS
    NewUnlessForgotten
    ForgottenWhenStale
PROPERTIES
    ReplayHasOriginal
    ExpiredForgotten
