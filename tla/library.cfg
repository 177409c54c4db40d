SPECIFICATION LibrarySpec
CONSTANTS
    i1 = i1
    i2 = i2
    r1 = r1
    r2 = r2
    j1 = j1
    j2 = j2
    m1 = m1
    m2 = m2
    Items <- MCItems
    ByUser <- MCByUser
    Releases <- MCReleases
    Unnamed <- MCUnnamed
    Matches <- MCMatches
    FeedLength = 2
    MaxFaults = 1
    Indexers = {i1, i2}
    Results = {r1, r2}
    ChannelCap = 1
    Grabs = {j1, j2}
    Segments <- MCSegments
    Servers = 2
    Missing <- MCMissing
    Dotted <- MCDotted
    Plain <- MCPlain
    MaxAttempts = 1
    Jobs = {j1, j2}
    Movies <- MCMovies
    MovieOf <- MCMovieOf
    Layouts <- MCLayouts
    Torrents = {}
    Tmdb <- MCTmdb
    Target <- MCTarget
    Parts = 2
    Faulty <- MCFaulty
    Leftovers <- MCLeftovers
    ConfigRoots <- MCConfigRoots
    DbRoots <- MCDbRoots
    Keys = {1, 2}
    Movers = {1, 2}
    Stored <- MCStored
    Chunks = 2
    Callers = {1, 2, 3}
    Tables = {"movies", "shows"}
    MaxOpens = 2
CHECK_DEADLOCK FALSE
INVARIANTS
    Types WrittenAsAsked CompleteTellsAll OnceForEachLoop LastItemIsHandled
    LibraryFileIsWhole FinishedIsKept MoveKeepsContent HandlesAreOfTheCore OneHandle
