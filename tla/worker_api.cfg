SPECIFICATION Spec
CONSTANTS
    j1 = j1
    j2 = j2
    h1 = h1
    h2 = h2
    Jobs = {j1}
    Hashes = {h1, h2}
    JobKind <- AllMagnets
    JobHash <- OwnHash
    Callers = {1}
    Api = {"cancel", "stopseed"}
    UsenetOutcomes = {}
    TorrentOutcomes = {"complete"}
    MayStop = TRUE
    MaxDls = 2
    MaxCrashes = 0
INVARIANTS
    RegisteredIsOpen
PROPERTIES
    CompletedNotRequeued
