SPECIFICATION Spec
CONSTANTS
    Endpoints = {e1, e2}
    Streams = {"traffic", "connections"}
    TunAtStart = {e2}
    Lists = {"proxies"}
    MaxEvents = 2
INVARIANTS
    Safety
    NothingOldIsShown
PROPERTIES
    TunChangeEnds
    StreamsReturn
    ConnectsAgain
