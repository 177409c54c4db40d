SPECIFICATION Spec
CONSTANTS
    j1 = j1
    j2 = j2
    h1 = h1
    h2 = h2
    Jobs = {j1, j2}
    Hashes = {h1, h2}
    JobKind <- MagnetAndHash
    JobHash <- SharedHash
    Callers = {}
    Api = {}
    UsenetOutcomes = {}
    TorrentOutcomes = {"complete", "error"}
    MayStop = FALSE
    MaxDls = 2
    MaxCrashes = 1
INVARIANTS
    TypeOK
    SeedingWasDownloaded
