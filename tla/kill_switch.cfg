SPECIFICATION Spec
CONSTANTS
    poll = poll
    stream = stream
    operator = operator
    Actors = {poll, stream, operator}
    FsMayFail = TRUE
SYMMETRY ActorSymmetry
INVARIANTS
    CheckSound
    ArmReachesBoth
    ArmOutlivesEarlierClear
