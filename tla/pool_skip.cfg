SPECIFICATION WorkerPoolSpec
CONSTANTS
    j1 = j1
    j2 = j2
    h1 = h1
    h2 = h2
    Jobs = {j1, j2}
    Hashes = {h1, h2}
    JobKind <- EmptyAndUsenet
    JobHash <- OwnHash
    Callers = {}
    Api = {}
    UsenetOutcomes = {"nil", "fail"}
    TorrentOutcomes = {}
    MayStop = FALSE
    MaxDls = 2
    MaxCrashes = 1
    m1 = m1
    m2 = m2
    m3 = m3
    title = title
    Movies <- MCMovies
    Titles <- MCTitles
    TitleOf <- MCTitleOf
    ByHand <- MCByHand
CHECK_DEADLOCK FALSE
INVARIANT SkippedForAnother
