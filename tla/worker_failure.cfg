SPECIFICATION Spec
CONSTANTS
    j1 = j1
    j2 = j2
    h1 = h1
    h2 = h2
    Jobs = {j1}
    Hashes = {h1, h2}
    JobKind <- AllUsenet
    JobHash <- OwnHash
    Callers = {}
    Api = {}
    UsenetOutcomes = {"fail"}
    TorrentOutcomes = {}
    MayStop = FALSE
    MaxDls = 2
    MaxCrashes = 0
INVARIANTS
    NoPanic
