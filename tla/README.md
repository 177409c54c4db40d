# A TLA+ model of mediarr

mediarr finds, downloads and organizes media: users add movies and series, searches and feeds find
releases, a download worker fetches them by BitTorrent or Usenet, and an organizer puts the files
into the library.  This directory specifies the parts of it where goroutines share state, checks
them with TLC on small instances, and proves the central safety properties with TLAPS for every
value of the constants.  Paths below are relative to `src/`.

`main.go` wires only the configuration and the database; the managers are built by packages and
tests.  The modules therefore model each component with the callers its exported methods allow.

1. [Inventory](#1-inventory)
2. [Modules](#2-modules-and-the-code-they-model)
3. [Runs](#3-runs-what-is-checked-and-what-it-shows)
4. [Proofs](#4-proofs)
5. [Where code and text disagree](#5-where-the-code-and-its-texts-disagree)
6. [Not modelled](#6-what-is-left-out)
7. [Plan](#7-plan)

## 1. Inventory

| Component | State | Operations and threads | What makes it correct |
|---|---|---|---|
| **Download worker and manager** (`download/worker.go`, `manager.go`) | `activeJobs` under `w.mu`; rows of the downloads table; a context | one polling loop; per download a provider and a waiter goroutine; an organizer goroutine; Add, Pause, Resume, Cancel, StopSeeding, Stop | every entry of `activeJobs` is removed by somebody; a row's status is earned; a finished download is not fetched again; queued jobs start |
| **Piece manager** (`download/torrent/piece_manager.go`) | piece states, data, availability counts under `pm.mu` | calls of the sessions | counts match the peers; verified data is right and stays |
| **Peer sessions** (`download/torrent/torrent.go`) | `Peers`, `FileWrites` | a goroutine per connection | what a peer announced is forgotten with it; a verified piece is right and stays |
| **Torrent client** (`client.go`, `extensions.go`) | `torrents` under `c.mu`; goroutines per torrent and per connection | add, remove, close; peer search; sessions out and in | a torrent is closed once; a magnet finds its peers if a tracker can be reached |
| **Tracker client** (`tracker/client.go` of the torrent client) | a socket per announce | HTTP and UDP announces, three attempts | one exchange that gets through is enough |
| **Peer wire protocol** (`peer/conn.go`) | bytes on a connection | handshake, read and write messages | two sides agree on a handshake; messages arrive as they were sent |
| **Usenet client** (`usenet/*.go`) | one NNTP connection for all jobs, the next server, open files | one download per job, retries of a segment | answers belong to commands; a segment is what was asked for |
| **Task manager** (`tasks/manager.go`) | `running`, `progress`, a kill channel, a done channel | NewTask (three goroutines per task), Kill, Shutdown, SetProgress | only named tasks are killed; a Kill returns because a task ended; ended tasks are cleaned up |
| **Indexer rate limiter** (`indexer/ratelimit.go`) | last request, backoff, failures, cooldown | Wait, Allow, RecordSuccess, RecordFailure | backoff follows failures; waits end |
| **Search manager, search websocket** (`search/*.go`) | sessions, the result channel and keys of a session, its connection | a goroutine per indexer, the session's own | one writer per connection; completion is announced when all have answered |
| **Automation, watchlist monitor, RSS client** (`automation/manager.go`, `monitor/watchlist.go`, `rss/client.go`) | rows of movies and watchlist; feed state; searches of the last six hours | RSS loop, search loop, user searches | one download per movie, shared by its users; no second download of an item; no release passed over |
| **Organizer and streaming** (`download/worker.go`, `organize/file_organizer.go`, `server/handlers.go`) | files and their hard links; rows of movies | organize after a download, clean-up, streaming, deletion | a library file is one whole download; clean-up leaves what is needed |
| **Storage manager** (`storage/manager.go`) | backends per location | Initialize, add and get backends, MoveFile, Close | a move loses nothing |
| **Database** (`db/db.go`) | the core and a handle per table, lazily | a getter per table, Close | handles are of the core in use; one handle per table |
| **Websocket hub** (`server/ws.go`) | `clients`, their channels | Run loop, two pumps per client | channels closed once; no message skipped; goroutines end |
| **Private trackers** (`tracker/*.go`) | trackers with their configuration and session; transfer counts | logins, tests, replacing a tracker; reports, sessions of seeding, queries | a session is the account's; counts are the tracker's, nothing twice |
| **HTTP server, login** (`server/*.go`, `auth/oidc.go`) | users and their keys, cookies, settings with versions | handlers | one account per subject; who is an administrator; "updated" means written |
| **The rest** | DHT, torrent rate limiter, bencode, metainfo, indexer clients, cache, AI, subtitles, configuration | see section 6 | see section 6 |

How they interact: handlers insert rows and start searches; automation asks the indexers (through the
rate limiter) and calls the worker's AddDownload; the loop starts downloads, which drive the torrent or
usenet client; the torrent's sessions share its piece manager; the waiter starts the organizer, which
updates media rows that handlers and automation read.  The RSS and search loops read the watchlist, add jobs
and mark items.  Usenet jobs share one client, organizers one library, and every component the lazily opened
tables.  Apart from `activeJobs`, maps and channels,
everything goes through table rows that are read, changed and written whole, with no lock in between.

`PROJECT.json` lists 40 hazards, each at its line; 32 have a property, the other eight say why none does.

## 2. Modules and the code they model

A definition named as the replacement in a mutant is a fault of the definition after it; no action
uses it.  Code lines for every definition are in `PROJECT.json` under `map`.

### DownloadWorker

`rows` is the downloads table, `active` is `Worker.activeJobs`, `dl` are the `activeDownload` objects
(with their provider goroutine), `registry`, `tstate`, `closed`, `clientShut` are what the worker sees of
the torrent client, `th` is one program counter per goroutine (loop, waiter and organizer of each
object, API callers), `todo` is the slice the loop iterates over.  `stopping`, `up` are the worker's
context and the process; `okJobs`, `linked`, `panicked`, `crashes` record history.

One critical section, or one table call, is one action.  `startDownload` is `AlreadyActive` / `NotLinked` /
`Link`, `Store`, `RowGet`, `RowPut`, `Spawn`; the unlock at line 238 between the check and the store is
there.  Every row update is `RowGet` then `RowPut`, and what was written in between is overwritten.
`SelectDone` and `SelectCancelled` are the two ready branches of the waiter's select.
`RemoveFinds` and `RemoveCloses` are the two critical sections of `Client.RemoveTorrent`.
`Stop`, `ClientClose`, `Exit` are Manager.Stop; `Crash` ends the process anywhere and `Restart` starts it on
the rows that are left.

Abstractions: progress numbers, file moves, error texts.  A linked job keeps the `err` of the download
it links to as it was at the link.  Ids of deleted jobs are not reused.

### PieceManager and TorrentPeers

`PieceManager` has one action per method; it is a specification of its own (`PMSpec`).
`TorrentPeers` EXTENDS it with the sessions that call it: `AddPeer`, `GetsBlock` ... `Verify`, `WritePiece`
are the unlocked steps between `StoreBlock`, `BlocksGot`, `VerifyPiece` and `WritePiece`.  Sessions refine
the piece manager: `Spec => PMSpec` is proved (`SessionsUsePieceManager`).
`data[p]` is the sequence of stored blocks, each with its number and whether its bytes are right; a hash
matches exactly the right blocks in order, which is what SHA-1 stands for.  `size[p]` is the length that
`VerifyPiece` compares.
Peers are the environment and send any frames at any time.  A message of this module is what `ReadMessage` makes of a
frame, which lacks its last byte (see PeerWire): an unchoke or a whole block is only read from a peer whose frames
announce a byte more than the protocol says, and a frame without payload ends the program (`Panics`).  The torrent has its metadata, and the metadata is well formed.
`BlocksGot`, read without the lock, is read atomically.  Only connections that run `ProcessPeer` are modelled
(`handleInbound`, `Torrent.connectToPeer`).

### PeerWire

One connection byte for byte, dialled or accepted: `inBytes` and `outBytes` are what is on its way, `here` and `there` the
steps of the two sides.  A byte of a handshake only says which field it is of.  The other side is a client of BEP 3, a
second process of this program, or a mirror that copies this program's layout and answers it.  `wrote` and `heard` are the
messages that were written and that ReadMessage returned.

### TrackerAnnounce

`downloadMetadata` asking the trackers of a link in turn, three times, over HTTP, or over UDP with datagrams that are lost,
delayed or delivered twice (`requests`, `answers`).  `failed` counts the announces the network spoiled.  A tracker that
compares the connect's constant with BEP 15's never answers (`"strict"`): the code sends another one, in the other byte order.

### TaskManager

Per task `fn`, `cleaner`, `watcher` are its three goroutines; `killChan` and `killDone` are the two shared
channels; `call` holds the callers.  Kill is `Kill`, `KillLooks`, `KillSends`, `KillReturns`; Shutdown snapshots
`running` and walks it.  SetProgress may come at any time, for any id.  A caller calls once, and a task is started once, as its uuid is fresh.

### IndexerRateLimiter

The limiter of one indexer with the goroutines that use it.  Times are relative to now; ages stop at
`MaxBackoff` and failures at `FailureCap`, beyond which no guard tells values apart.  Wait sleeps without
the lock and does not look again.  `Automatic` searchers skip an indexer in cooldown, `Cancellable` ones may
give up.  `Reset` is an action; `SearchLimiter.Reset` has no caller.

### WSHub

`clients`, `send`, `closes`, `reader`, `writer`: the hub's map, channels, and both pumps.  Messages are
numbered, so the broadcast channel is an interval.  The send to one client depends on its own channel
only, so one broadcast is one step.  Pings and deadlines are part of `ConnFails`.

### MoviePool

The pool of movies users share.  `ChooseStatus` and `Insert` are `handleAddMedia`; the search of
`searchForItem` is `LookForAvailable`, `LookForOthers`, then `Download` or `FindNothing`, in separate reads of the
table; `organizeMovie` is `Organize` (its filter), then `UpdateRow` for each row, or `OrganizeFails`.  A row is
searched when it is added and once more by hand (`handleTriggerSearch`).
A link (update of the searched row) is one step with its filter: rows never leave Available, so a later
write of the same status changes nothing.  Deleting a row is not modelled.

### Acquisition

`rssLoop` and `searchLoop` with the watchlist `watch`, the downloads table `jobs`, the feed and what the RSS client
remembers of it (`lastItem`), and the deduplicator (`searched`, `remembered`: two rounds, as its window is the
ticker's period).  Either loop starts a download, then marks the item; users add and remove items; the process may
end at any step, and a mark may fail, which nothing looks at (`MaxFaults` bounds both).  `unmarked` counts the downloads
whose mark was never made.  Items that a user adds have neither
media type nor id (`ByUser`), so they share one key of the deduplicator; an item without a GUID counts as the empty
`LastItem` (`Unnamed`).  Searching for one movie is MoviePool's.

### SearchHub

One session over the websocket: `main` is its own goroutine, `asked` those of the indexers, `channel` and `seen`
what it collects, `saying` who is writing to the connection.  Two writers at a time garble the frames or
panic, as gorilla's connection does (`mixed`, `crash`).  `http` is the search over HTTP with its four
handlers; its nil context fails every indexer.

### UsenetClient

`client` is the connection every job sends on, `wire` the lines the servers have sent and nobody has read, `on` the
connection a job waits on.  Reading an answer takes no lock, so two jobs that wait on one connection race for
its lines; an article's line that starts with a dot is doubled by the server and not undone by the client;
an error line is written in the place of the segment, and a line of less than three bytes ends the process (`ReadPanics`).  `crossed` records the connections on which that can have happened.

### MediaFiles

Inodes and the paths that name them.  A usenet job opens its file for append and writes its parts; the organizer
removes the destination, links, renames or copies, cleans up and updates the row; `handleStreamFile` follows the
row and `handleDeleteMedia` removes.  A hard link makes later writes to the download visible in the library.
A part the server lacks or the disk has no room for (`Faulty`) may be right, wrong or missing, and the download goes on.
A clean-up removes what is empty in the directory and what is named like a left-over (`Leftovers`), any part of it, as a
removal may fail.  `wrote` is what a job has written, `swept` are files a clean-up found empty, `beaten` the jobs that
found their target taken: those make rows available without a path.
`shared` are the inodes that two downloads made use of under one name (the second appended to what the first left,
or its organizer took it), and the copies made of them; `overlapped` the targets two organizers both found free.

### StorageManager

`Initialize`, the get and the creation of backends in two critical sections, `MoveFile` by read, write and
delete with each step failing or slow (a source that cannot be deleted stays, and the move succeeds), and `Close`.  All locations of the configuration have id zero.

### DbTables

The getter of a table: handle, core (opened when there is none), handle from core, each under the lock and nothing
in between; and `Close`.  All eighteen getters are alike, and one stands for them.

### TorrentClient

Torrents of one magnet link that is added, removed and added again: the search for peers, goroutines of outbound and
inbound connections, and `RemoveTorrent`, which closes the torrent and waits for its goroutines while it holds
`c.mu`.  That a torrent never gets its metadata is a fact of the code, not an abstraction: the DHT
decodes no packet and no extended message gets through the framing of `peer/conn.go`.
DownloadWorker sees of this module whether a torrent is registered and closed.

### Accounts and Settings

`Accounts` is the callback of an OIDC login in its two calls of the users table, logout, a restart with another
configuration, and `getCurrentUser`, which decides who a request is from (`identity`).  Whether the embedded database refuses
a second row of one subject is left open (`unique`); `overlapped` are the subjects two callbacks at a time had no account of.
`Settings` is a patch of several keys, each looked up and then updated or inserted, and the rollback to a version of a key.
`refused` and `broken` are the writes that did not happen; the handler only logs them.

### TrackerSessions and TrackerStats

Logins of the five kinds of trackers: each reads the configuration, asks the server without a lock and writes its cookie
or key into the configuration that is there by then.  `session` is what a tracker was last marked as; a
credential is the account it is for, and what a request sends is `Sent`.  TrackerStats is the cache of
transfer counts, with one entry per info hash however many trackers ask for it.

### EventFeed

What the hub promises, for any implementation: events pass on to all members in order, without a gap, and one who
leaves hears nothing of what came later.  `WSHub` implements it, with `passed <- handled`, `due` the last
message put into a client's channel, and `heard` the last its writePump took (`KeepsFeed`).  The other
refinement is PieceManager by TorrentPeers.

### MC modules

`MCDownloadWorker`, `MCTorrentPeers`, `MCPeerWire`, `MCTaskManager` give the constants values.  The others put components that
share nothing into one run: a behaviour is one of a single component, named by `turn`, with the others at
rest.  At rest nothing a component is fair to is enabled, so the fairness of all can be conjoined.

* `MCWorkerPool`: the worker, or the pool of movies.
* `MCTorrents`: the peers, one tracker of any kind, two trackers of RED, or the counts.
* `MCServices`: the hub, the limiter, the torrent client, its announces, a connection, accounts, or settings.
* `MCLibrary`: acquisition, search, usenet, files, storage, or tables.

## 3. Runs: what is checked and what it shows

| Run | Instance | Checks |
|---|---|---|
| `worker_api` | one magnet job, a caller of Cancel and StopSeeding, Stop | `RegisteredIsOpen`, `CompletedNotRequeued` |
| `worker_resume` | one usenet job that ends well (a failure ends the process), Pause, Resume and Cancel | `NoLeakedEntry` |
| `worker_shared` | two jobs of one info hash, one crash | `TypeOK`, `SeedingWasDownloaded` |
| `worker_live` | an empty and a usenet job, one crash, fair; three users add one movie, one searches by hand | `EntryReleased`, `QueuedIsStarted`, `AvailableIsEarned`, `FirstDownloadIsAlone`, `DownloadIsShared` |
| `worker_failure` | one usenet job that fails | `NoPanic` is violated |
| `torrent_peers` | three connections on two addresses, arbitrary peers, one piece with a short block, two files; trackers of five kinds, two accounts, two callers; a torrent on two trackers | `Types`, `CountsMatch`, `VerifiedIntact`, `VerifiedStays`, `SessionsAreOwn`, `CountsAreOwn` |
| `wire_frames` | one connection, messages without payload, of four bytes and of nine | `MessagesArrive` is violated |
| `tasks` | two tasks (one deaf to its context), one Kill, Shutdown | `ReturnsArePaidFor`, `EndedIsReleased`, `LoneKillReturns` |
| `services` | two clients, channels of two, four messages; three searchers; two removers of two torrents with a session out and one in; five trackers of four kinds; a connection; two browsers and subjects; three requests on two settings | `Types`, `BackoffFollowsFailures`, `WaitEnds`, `ChannelsCloseOnce`, `KeepsFeed`, `GoneIsReleased`, `ClosedTwiceByTwo`, `OneExchangeIsEnough`, `OnlyMirrorsTalk`, `OneAccountEach`, `UpdatedIsWritten` |
| `limiter_spacing` | as `services` | `SpacedRequests` is violated |
| `library` | two items and two releases, one crash or failed mark; two indexers and results; two usenet jobs on two servers; two movies of one TMDB id; two moves over three locations; three callers of two tables | `Types`, `OnceForEachLoop`, `LastItemIsHandled`, `CompleteTellsAll`, `WrittenAsAsked`, `LibraryFileIsWhole`, `FinishedIsKept`, `MoveKeepsContent`, `HandlesAreOfTheCore`, `OneHandle` |
| `pool_skip` | as `worker_live` | `SkippedForAnother` is violated |

What the passing runs show:

* **Worker.**  However the loop, waiters and callers interleave, an entry of `activeJobs` has a goroutine
  that takes it out (an entry without one would block its job for good), a torrent in the client's map is
  open, a completed row does not go back to the queue, and `seeding` stems from a download that ended
  without error or from a link.  Under fair scheduling a queued job is started and an entry released, also
  after a crash and next to a job that polls a torrent it never gets.
* **Torrent.**  Counts equal the number of peers that have a piece, through any order of bitfields, haves
  and disconnects; verified data starts with the right blocks and stays so although late blocks are
  appended.
* **Tasks.**  No Kill comes back for nothing: as many tasks have ended as Kills took a token.  An ended task leaves the
  map, and the leftover tokens of others do not hold it up.  Kill may hang: a watcher drops an
  id that is not its own, and a Kill takes another's token.  `LoneKillReturns` says what holds: a
  single caller who kills a single task that obeys its context.
* **Services.**  The backoff is the interval doubled per failure; a wait ends.  A client's channel is closed
  once although eviction and unregistering race, an attached client misses no message, and both pumps of a
  client that went away end.  A second close of a torrent, which panics, takes a second caller that had found the torrent before.
  A magnet stays without peers only if each tracker that would have named one was failed by the network three times.
  No client of BEP 3 and no second process of this program gets past the handshake, whoever dials.  A subject has two accounts
  only if two first logins overlapped, and what a patch called "updated" has not written failed by itself or was inserted
  by another request.
* **Movie pool.**  Rows become available only with a download of their title; up to searches by hand,
  unlocked reads of the others' rows are enough to keep a second download from starting before one has
  been organized; and a download serves every row that waits for it.

* **Acquisition.**  A loop downloads an item again only if the mark failed or the process ended before it; the two
  loops do not see each other, and each may download it once.  The release the feed check stops at has been
  handled: only releases older than it, and those without GUID, are passed over.
* **Search.**  Completion comes last and counts every key some indexer found, once, although
  two indexers may write to the connection at the same time.
* **Usenet.**  Until two jobs have waited on a connection or it has cut an answer short, what is written is the
  segment that was asked for, through retries and replacements of the connection by other jobs.
* **Files.**  At the path of an available movie is all that one download has written but for two causes: two downloads of
  one name, which use one file (the second appends, through a hard link even to the library's), and two organizers that both
  found the target free.  A movie is available without a path when its organizer found the target taken, also by a copy that
  failed half-way.  What a finished download has written is never lost, except to a clean-up that takes its name for a
  left-over or finds its file empty, or by those two causes.
* **Storage, tables.**  A move loses a file only when it was told to write where the file was or shared a place with
  another.  A handle of a closed core can only come from a getter that Close overtook; a core's table has
  one handle.
* **Trackers.**  A tracker is logged in as the account it is configured for unless the configuration
  changed during a login.  Nothing is counted twice; counts are complete unless the torrent is on a second tracker or a
  query stored its empty entry over a report.

An exception in a property (`shared`, `overlapped`, `beaten`, `swept`, `late`,
`overtaken`, `overwritten`, `crossed`, `unmarked`, `broken`, `refused`) is a
history variable that names one cause: the property says that it is the only one, and TLC reaches states with it.

**Bounds.**  `MaxDls` limits `activeDownload` objects of a process lifetime; NextQueued and ResumeDownload are
guarded by it (`BoundLeft`), and a pass of the loop leaves out the rest of its queue when none is left.  Two
objects let a job be started twice, which is what the hazards at worker.go:238 and :404 need.
`MaxCrashes` is at most one: a crash resets everything but the rows, so a second adds no new kind of
state.  `MaxStored` limits blocks stored in a piece; three, for a piece of two blocks, allow a duplicate before and after
verification.  Capacities of channels are 1 or 2 instead of 10 and 256: full, empty and half
full channels all occur.  `MaxMessages` is twice `SendCap`, enough to fill and evict.  Three rows of a title are
needed for two searches that skip while a third goes on.
In `library` two of everything that can meet (`Items`, `Results`, `Grabs`, `Jobs`, `Movers`), a result channel of one place,
which blocks the indexers, two parts or chunks, so that a writer can be interrupted in the middle, two servers,
the first of which a job leaves, and one attempt of each job.  A feed of two releases holds an old and a new one.  Three callers
with `MaxOpens` two: one opens, one is overtaken by Close, one opens again.
In `services` `MaxTorrents` two is a torrent and the one added after its removal, `MaxPeers` and `MaxSessions` one make a full
list and a refused session; `MaxWritten` two messages let the first disturb the second, `MaxKeys` three accounts are two of one
subject and one of another, `MaxUpdates` four writes of a key with one version kept let a version a rollback has chosen go, and the
last of the five trackers refuses; `MaxBackoff` five is reached after three failures from `MinInterval` one.
In `torrent_peers` all five kinds of tracker run with one tracker and two callers, which race for it, and two trackers of one
kind with one caller, who walks them; `MaxReports` two tells a lost report from a doubled one.

**Deadlock** is checked in the worker's runs, where a stopped process can be started again.  It is off
(`CHECK_DEADLOCK FALSE`) where a component may come to rest: all peers gone, all tasks ended, all messages
of the bound sent, all rows available, all downloads and moves done.

**Fairness** (used by `worker_live`, `tasks`, `services`) is weak fairness of goroutines that the Go
scheduler runs when they are ready: the loop (its ticker fires), threads, providers, waiters, cleaners, watchers,
Run, pumps, searches, sleeping searchers (time passes).  Usenet downloads end one way or another, and downloads of the pool
end in the organizer or fail.  Nothing is assumed of
users, peers, torrents, crashes or task functions that ignore their context.

Every property of a passing run has a mutant in `PROJECT.json`: a plausible bug in one mapped definition that
the run finds.

## 4. Proofs

Every safety property of a passing run, invariant or action property, and both refinements are theorems,
for every value of the constants that satisfies the assumption named in the component's module (below, with
what it says beyond the constants' types).  TLC evaluates the assumptions in the runs.

| Assumption | Says |
|---|---|
| `JobsAssumption`, `EnvAssumption`, `BoundAssumption` (worker) | a job has a kind and a hash, `NoHash` and `NoJob` are neither; which calls and endings may occur |
| `SizeAssumption`, `TotalAssumption` (pieces) | blocks, pieces and the torrent have bytes; there is a file, and files may be empty; the torrent is as long as its files together; finitely many addresses |
| `ConnsAssumption` (sessions of peers) | a connection has an address, a torrent may have a peer |
| `WireAssumption` | a message has a type and a payload |
| `TrackersAssumption` of TrackerAnnounce | each tracker of a link has one of the kinds |
| `AccountsAssumption`, `SettingsAssumption` | a subject has an address of mail; a version is kept; patches set settings to values |
| `TrackersAssumption` of TrackerSessions, `StatsAssumption` | a configuration has one of the kinds; bounds are numbers |
| `TasksAssumption` | finitely many tasks and killers, `"shutdown"` is no killer's name, the kill channel has a place |
| `PoolAssumption` | a movie has a title; rows searched by hand are movies |
| `HubAssumption` | the channels have places |
| `SearchAssumption` | finitely many indexers, the session is none of them, the channel has a place |
| `DbAssumption` | there is a table, and the database may be opened |
| `ClientAssumption` | a torrent may have peers and sessions; the caller that is not bound is no remover |
| `LimiterAssumption` | the minimum interval is positive and at most the maximum backoff; failures are counted up to a number whose doubling reaches that maximum, so that more would change nothing; a searcher that can be cancelled is not an automatic one |
| `UsenetAssumption` | an NZB has a file, a file has a segment, there is a server and an attempt |
| `StorageAssumption` | a location is configured, no row of the database has its id 0; a file has a chunk; finitely many files at the start, each in one place |
| `MediaFilesAssumption` | a job has a movie, its download has parts; the name of a download is not that of a movie's target, nor is the empty path |
| `AcquisitionAssumption` | the feed has a length; the names of rssLoop's steps are not those of items |

TLC checked each inductive invariant below as an invariant before it was proved.  The module comments of the
proof modules tell the argument in brief.

* **`DownloadWorker_proofs`** proves `TypeCorrect`.  `TypeOK` is not inductive: `ThreadsInv` restricts each
  kind of thread to its phases (what a waiter, organizer, loop or caller can be doing) and links what it
  knows of an object to the object's job; `ObjectsInv` says which objects are free, `EntriesInv` that an entry's object
  is of its job.  `TypeInv` is their conjunction.  One lemma per group of actions.
  `EntriesAreOwned`: `OwnersInv` says that the entry's
  object is being started by some thread or has a live waiter; `OwnerMoves` is what almost every thread step
  satisfies, and Store, Spawn, Cleanup and row steps are treated singly.  `SeedingIsEarned`: `SeedInv`
  adds that a thread about to write `seeding`, and an object whose result is nil, belong to a job that has
  earned it.  `RegistryIsOpen`: a torrent is registered and closed under its
  creator's hash (`HashesInv`), one thread starts an object and its provider begins once (`StartersInv`), so what it
  registers is new; a thread between the two critical sections of RemoveTorrent holds a torrent of the hash (`ClosersInv`).
  `CompletedStaysOut` has a hypothesis of its own, that nobody calls Resume (`"resume" \notin Api`): a resumed
  download that is cancelled by Stop is queued again, completed or not.  Then the loop alone starts downloads, and only of a
  job nobody is busy with (`StartsFree`, `OneBusy`), so a job's completion stamp and its requeueing are
  never both on their way, and a stale copy that says "queued" is held by the loop at most, of a job that is not completed
  and stays so until it is written (`CopiesInv`).  One lemma per kind of write.
* **`Torrents_proofs`**, on what `MCTorrents` composes.  Sessions of peers: the refinement `SessionsUsePieceManager` and, through
  `PMInv` (of PieceManager) and `SessInv` (of the sessions), `CountsAreRight`, `VerifiedDataIsIntact`,
  `VerifiedIsFinal`, `AvailabilityIsForgotten`.  `CountsMatch` needs that counts are numbers of finite sets; that the
  decrement's clamp at zero never loses a count follows from it.  `TorrentTyped`: no file is counted beyond its length
  (`WithinLength`), for which the recursion of `WriteLen` over the files is followed.
  Trackers: `SessionsOwn`, because what a login has in hand is of the tracker's account as long as the configuration it read is
  there (`HeldIsOwn`), and a tracker no stale login wrote to holds its own credentials (`ObjectsOwn`).  Counts: `CountsOwn`, from
  `NothingTwice` (an entry counts no report twice) and `AllCounted` (on a hash of one tracker whoever is about to store
  an empty entry found none and nobody wrote since).  `TorrentsTyped` joins the types.
* **`TaskManager_proofs`**: `TaskTypes`, `KillsAreAskedFor`, `TokensArePaid`.  The invariant adds that ids in the kill
  channel are named and a token that is taken or left belongs to a cleaner that is over.
* **`MoviePool_proofs`**: `FirstIsNotDoubled`, `AvailabilityIsEarned`, `PoolTypes`.  Why there is no second download:
  while no download of a title was organized, no row of it is available (`ChoiceIsEarned`), so the row of
  a search that got past the others' rows is still queued (`RowsAreThere`) and visible to a later search
  (`SecondSeesFirst`), unless both are of one row, one of them by hand.
* **`Services_proofs`**, on what `MCServices` composes.  The hub: `HubDoesNotPanic`, `ClientsMissNothing` (an invariant that
  makes the refinement go through) and `HubKeepsFeed`, the refinement of EventFeed: each step of the hub is one of the feed or
  leaves it alone; `Fresh` says that a connection that has not registered has an unused channel.  The limiter: `BackoffFollows`,
  from lemmas on `Doubled`, the recursive function of the doublings.  The torrent client: `ClientTypes`, `SecondCloseIsOvertaken`;
  a torrent that is closed has a closer, is no longer registered, and who found it did so before.
  Announces: `EachTrackerHadItsChances`; every tracker before the one being asked was failed once per attempt.  The wire:
  `HandshakesDoNotMeet`; the bytes of either layout, cut and padded as they may be, never pass for the other's.  Accounts:
  `OnlyOverlapsDuplicate`, `NobodyIsAdmin`; a login that found no account excludes one until another overlaps it.
  Settings: `PatchesAreWhole`; a key a patch is done with was written, failed, or is there by another's insert.  `ServicesTyped`
  joins the types.
* **`Library_proofs`**.  Search: `SearchTypes`, `SearchIsComplete`, `OneIndexerTakesTurns`; `NothingLost` follows a result
  from an indexer's answer through the channel to `seen`; `ClosedInv` says that the channel closes only when all
  goroutines are done, `LastInv` that nothing is said after completion; `TurnsInv` is the order of the announcement, the
  indexer's message and its results when one indexer is enabled.  Tables: `TablesAreTyped`, `HandlesFollowTheCore`,
  `TablesAreMadeOnce`; `NoneMadeYet`: of a core that is in use and a table without handle none has been made; `CoreInv` ties the
  numbers of cores to the opens.  Acquisition: `OncePerLoop`, `LastItemHandled`; an item a loop may still see as wanted, in the
  table or in the list it read, has no job of this loop but those a crash left unmarked (`RssOnce`, `SearchOnce`), and
  `RoundsHold` says what a round has in its hands.
* **`Files_proofs`**.  Usenet: `SegmentsAreOwn`; on a connection that is up and not crossed one job waits at most and what is
  left to read is its answer (`WireOwn`), and a job is at a segment of its NZB (`AtSegment`).  Storage: `MovedIsKept`; as long as no two
  movers share a place, a file is whole at its source until it is whole at its target (`MovesHold`), and a file has one place
  (`OnePlace`).  Media: `LibraryIsWhole`, `FinishedKept`; an inode that is not shared is written by one job (`SoleWriter`) and has the
  parts that job has written (`OwnParts`), the job's name is of its inode until it is organized (`OwnName`) and there unless a
  clean-up took it (`NoneLost`), inodes of downloads and of the library differ on two devices (`TwoDevices`), and of the
  organizers of a target that is not overlapped one at most fills it (`TargetHolds`).  `LibraryTyped` joins the types of `MCLibrary`.
* **`LeastNumber`** has one lemma, `LeastNat`: a set of numbers that is not empty has a least member.

**Recursion.**  The library's induction theorems cannot be used with these provers, but a least counterexample can:
a recursive function that first goes wrong at n was right at n - 1.  `LeastNat` gives that n for what the proofs need of
`NewItems`, `FirstUp`, `Doubled` and `WriteLen`.  Powers are opaque to the provers, which is why the limiter's
reference is the recursive `Doubled`.

**What the proofs found.**  `LibraryFileIsWhole` once had an exception for appended files only.  It held in its run, of two
jobs, and no inductive invariant was to be found: with three jobs of one name, one organizer moves the shared file away, the third job
opens a fresh one under the name, and the organizer of the second takes that for its own before it is whole.  Code and
model agree on it, the property was too strong; `shared` names the cause, two downloads of one name.  The inductive invariant was
checked with three jobs too.

**Only model-checked:** liveness (`EntryReleased`, `QueuedIsStarted`, `EndedIsReleased`, `LoneKillReturns`, `WaitEnds`,
`GoneIsReleased`, `DownloadIsShared`), which the prover does not do; `CompletedNotRequeued` has its theorem
under the hypothesis above, which its run satisfies.

## 5. Where the code and its texts disagree

Four runs expect a violation, each with the line it contradicts in `PROJECT.json`:

* `worker_failure`: recording the error of a failed download dereferences a nil error (worker.go:417-421).
* `wire_frames`: ReadMessage takes a byte less than the frame has: it returns a message that was not sent, reads its last byte as the
  next length, and panics on a message without payload.
* `limiter_spacing`: the minimum interval is only the first backoff; successful requests are not spaced.
* `pool_skip`: a search is skipped "already being downloaded by another user" for any queued row, so users who
  add a movie together all skip and nobody downloads it.

Behaviours the models contain and for which no text of the repository promises otherwise: Pause does not
stop the download and its completion overwrites Paused; a job left Downloading by a crash is not taken up
again; a linked job does not learn that the other download failed; Kill may hang; two enabled indexers may write to a search's
connection at once; usenet jobs that share a connection may read each other's lines; a second download of a release appends to the
library's file; a getter that Close overtakes reopens the database; a failed copy makes a later organizer report a movie as available without a
path; a clean-up deletes finished downloads whose names look like samples; with OIDC nobody is ever an administrator (`NobodyIsAdmin`), so
its settings are out of reach; two programs of this kind cannot talk to each other (`OnlyMirrorsTalk`); trackers that check the
connect of BEP 15 never answer; a query for a tracker's counts may wipe them.

Facts found while reading that shape the models: the deduplicator's key is built from the media id, which is zero in every
row the handlers write, so one such item is searched per window (automation/manager.go:248); no episode row has
status Missing, so the search for episodes and OrganizeEpisode have nothing to do; organizeJob hands the organizer a
directory for a torrent, which it refuses; newznab and torznab give one struct tag twice, so their parser rejects every answer,
and an indexer is modelled as its interface promises.

## 6. What is left out

| Component | Reason |
|---|---|
| DHT | inert: nothing gives it a node, and it decodes no packet |
| Metadata exchange, `StartDownloading`, announces, seeding | unreachable: no handshake and no extended message passes `peer/conn.go` |
| Bencode, metainfo, scrapes, newznab, torznab, RSS parser, yEnc decoding, names, templates | conversion of data, with no state shared between threads |
| Torrent rate limiter, `ResetPiece`, `SearchLimiter.Reset`, `AddFeed`, `RemoveFeed`, storage preferences, the global search cache | no caller |
| Recursive read locks of `RarestPiece` and `Progress` | a writer between the two is a matter of Go's lock, not of the methods' order |
| Storage verifier | skips every row: none has a location |
| Storage backends, cache | I/O under one lock |
| The exchange with the OIDC provider, configuration, AI, subtitles, handlers that only read or are stubs | HTTP to others, no state that goroutines race for |
| Answers to requests of the private trackers | HTML and JSON |

## 7. Plan

Done: every component whose goroutines share state, with the compositions of section 2, and a theorem for every
safety property (section 4).  What is left, in this order:

1. The steps that liveness rests on and that are within the prover's reach: for `GoneIsReleased`, that a thread
   that waits is waiting for one that can move.
2. The refinement of the movie pool's promise (a title is downloaded for all who wait) as an abstract specification.
3. The series and episodes of `organize/file_organizer.go`, once some code makes rows for them.
