SPECIFICATION Spec
CONSTANTS
    Endpoints = {e1}
    Streams = {"traffic"}
    TunAtStart = {}
    Lists = {"proxies"}
    MaxEvents = 1
PROPERTY ConfigArrives
