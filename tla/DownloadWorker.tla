--------------------------- MODULE DownloadWorker ---------------------------
(***************************************************************************)
(* The download worker (download/worker.go) and the manager that owns it   *)
(* (download/manager.go): the polling loop, the two goroutines that each   *)
(* started download gets (its provider, and the waiter that acts on its    *)
(* end), the goroutine that organizes a finished download, and callers of  *)
(* Pause, Resume, Cancel and StopSeeding.                                  *)
(*                                                                         *)
(* They share the activeJobs map (under w.mu), the rows of the downloads   *)
(* table and the registry of the torrent client.  The code never holds a   *)
(* lock across a read and the write that depends on it, so one critical    *)
(* section or one table call is one action.  A row is always rewritten by  *)
(* Get and then Update of the whole row: "get" and "put" are two steps,    *)
(* and what happened in between is overwritten.                            *)
(*                                                                         *)
(* A definition that PROJECT.json lists as the "as" of a mutant is a fault *)
(* of the definition below it; no action uses it.                          *)
(***************************************************************************)
EXTENDS Naturals, FiniteSets

CONSTANTS
    Jobs, Hashes,     \* ids of download jobs; info hashes
    JobKind,          \* what a job carries: see Kinds
    JobHash,          \* the info hash of a job
    Callers, Api,     \* threads that call the manager, and the calls they make
    UsenetOutcomes,   \* how a usenet download can end
    TorrentOutcomes,  \* the final states a torrent can report
    MayStop,          \* does Manager.Stop get called?
    MaxDls,           \* bound: activeDownload objects of one process lifetime
    MaxCrashes        \* bound: kills of the process

Kinds == {"magnet", "hash", "empty", "usenet"}
ApiCalls == {"pause", "resume", "cancel", "stopseed"}
Results == {"nil", "fail"}
NoHash == "nohash"
NoJob == "nojob"

ASSUME JobsAssumption ==
    /\ JobKind \in [Jobs -> Kinds] /\ JobHash \in [Jobs -> Hashes]
    /\ NoHash \notin Hashes /\ NoJob \notin Jobs
ASSUME EnvAssumption ==
    /\ Api \subseteq ApiCalls /\ MayStop \in BOOLEAN
    /\ UsenetOutcomes \subseteq Results /\ TorrentOutcomes \subseteq {"complete", "error"}
ASSUME BoundAssumption == MaxDls \in Nat /\ MaxCrashes \in Nat

Dls == 1..MaxDls
NoDl == 0

\* One thread per goroutine: the loop, the callers, and a waiter and an
\* organizer for each activeDownload object.
Loop == <<"loop", 0>>
Waiter(i) == <<"wait", i>>
Organizer(i) == <<"org", i>>
Caller(c) == <<"call", c>>
Spawned == {"wait", "org"} \X Dls
Threads == {Loop} \cup Spawned \cup ({"call"} \X Callers)

VARIABLES
    rows,        \* the downloads table
    active,      \* Worker.activeJobs: the object registered for a job
    dl,          \* the activeDownload objects, each with its provider goroutine
    registry,    \* Client.torrents: info hash -> torrent (named by its creator)
    tstate,      \* what GetStatus of a torrent reports
    closed,      \* torrents whose closeCh is closed
    clientShut,  \* Client.Close ran: the torrents map is nil
    th,          \* the local state of each thread
    todo,        \* what is left of the slice the loop iterates over
    stopping,    \* w.ctx is cancelled
    up,          \* the process runs
    panicked,    \* history: a goroutine panicked
    crashes,     \* kills so far
    okJobs,      \* history: jobs whose own provider returned nil
    linked       \* history: jobs linked to another job's download

torrentVars == <<registry, tstate, closed, clientShut>>
procVars == <<stopping, up, panicked, crashes>>
histVars == <<okJobs, linked>>
vars == <<rows, active, dl, torrentVars, th, todo, procVars, histVars>>

\* "none": not inserted yet; "deleted": the row is gone, and its id is not reused.
Status == {"none", "queued", "downloading", "seeding", "paused", "failed", "deleted"}
Row == [status : Status, completed : BOOLEAN]
NoRow == [status |-> "none", completed |-> FALSE]
GoneRow == [status |-> "deleted", completed |-> FALSE]
Present(r) == r.status \notin {"none", "deleted"}

\* owner = NoDl: the object has its own provider; otherwise it is linked and
\* waits on the done channel of the object owner.  err is the field the
\* provider sets; told is the err the waiter of a linked object was started
\* with.  prov is the provider goroutine; when it has "ended", done is closed.
Dl == [job : Jobs \cup {NoJob}, owner : Dls \cup {NoDl}, err : Results, told : Results,
       hash : Hashes \cup {NoHash}, tor : Dls \cup {NoDl},
       prov : {"off", "begin", "poll", "fetch", "ended"}]
FreeDl == [job |-> NoJob, owner |-> NoDl, err |-> "nil", told |-> "nil",
           hash |-> NoHash, tor |-> NoDl, prov |-> "off"]

\* A thread: its next step, the operation that belongs to, the job and the
\* activeDownload it works on, the torrent RemoveTorrent looked up, and the
\* row a table.Get returned.
Steps == {"off", "idle", "queue", "report", "claim", "store", "get", "put", "spawn", "cleanup",
          "select", "completion", "cancellation", "organize", "lookup", "close", "resume", "delete"}
Ops == {"none", "start", "progress", "seeding", "stamp", "failed", "errmsg", "requeue",
        "paused", "organized", "cancel", "stopseed"}
Thread == [at : Steps, op : Ops, job : Jobs \cup {NoJob}, cur : Dls \cup {NoDl},
           tor : Dls \cup {NoDl}, copy : Row]
Blank == [at |-> "off", op |-> "none", job |-> NoJob, cur |-> NoDl, tor |-> NoDl, copy |-> NoRow]

TypeOK ==
    /\ rows \in [Jobs -> Row]
    /\ active \in [Jobs -> Dls \cup {NoDl}]
    /\ dl \in [Dls -> Dl]
    /\ registry \in [Hashes -> Dls \cup {NoDl}]
    /\ tstate \in [Dls -> {"working", "complete", "error"}]
    /\ closed \in SUBSET Dls /\ clientShut \in BOOLEAN
    /\ th \in [Threads -> Thread]
    /\ todo \in SUBSET Jobs
    /\ stopping \in BOOLEAN /\ up \in BOOLEAN /\ panicked \in BOOLEAN
    /\ crashes \in 0..MaxCrashes
    /\ okJobs \in SUBSET Jobs /\ linked \in SUBSET Jobs
-----------------------------------------------------------------------------
ThreadsAtStart == [p \in Threads |-> IF p \in Spawned THEN Blank ELSE [Blank EXCEPT !.at = "idle"]]

Init ==
    /\ rows = [j \in Jobs |-> NoRow]
    /\ active = [j \in Jobs |-> NoDl] /\ dl = [i \in Dls |-> FreeDl]
    /\ registry = [h \in Hashes |-> NoDl] /\ tstate = [i \in Dls |-> "working"]
    /\ closed = {} /\ clientShut = FALSE
    /\ th = ThreadsAtStart /\ todo = {}
    /\ stopping = FALSE /\ up = TRUE /\ panicked = FALSE /\ crashes = 0
    /\ okJobs = {} /\ linked = {}

\* The process ends: its memory is gone, the rows stay on disk.
Down ==
    /\ up' = FALSE
    /\ active' = [j \in Jobs |-> NoDl] /\ dl' = [i \in Dls |-> FreeDl]
    /\ registry' = [h \in Hashes |-> NoDl] /\ tstate' = [i \in Dls |-> "working"]
    /\ closed' = {} /\ clientShut' = FALSE
    /\ th' = ThreadsAtStart /\ todo' = {} /\ stopping' = FALSE
    /\ UNCHANGED <<rows, histVars>>

\* A panic in any goroutine ends the process.
Panic == Down /\ panicked' = TRUE /\ UNCHANGED crashes

\* Frames: the step changes nothing but threads, or threads and downloads.
OnlyThreads == UNCHANGED <<rows, active, dl, torrentVars, todo, procVars, histVars>>
OnlyDls == UNCHANGED <<rows, active, torrentVars, th, todo, procVars, linked>>

Goto(p, s) == th' = [th EXCEPT ![p].at = s]
Leave(p, s) == th' = [th EXCEPT ![p] = [Blank EXCEPT !.at = s]]

\* Where startDownload returns to: processQueue, or the caller of Resume.
Back(p) == IF p = Loop THEN "queue" ELSE "idle"
\* Where cleanupJob returns to: the waiter is done after it.
Rest(p) == IF p \in Spawned THEN "off" ELSE Back(p)
-----------------------------------------------------------------------------
\* Manager.AddDownload: the row is inserted with the zero status, queued.
AddDownload(j) ==
    /\ rows[j].status = "none"
    /\ rows' = [rows EXCEPT ![j].status = "queued"]
    /\ UNCHANGED <<active, dl, torrentVars, th, todo, procVars, histVars>>

\* The bound on objects: starts already under way may still need one each.
Unused == {i \in Dls : dl[i] = FreeDl}
InClaim == {p \in Threads : th[p].at \in {"resume", "claim", "store"}}
BoundLeft == Cardinality(Unused) > Cardinality(InClaim)

\* The ticker fires: processQueue reads the queued jobs.
Tick ==
    /\ th[Loop].at = "idle"
    /\ todo' = {j \in Jobs : rows[j].status = "queued"}
    /\ Goto(Loop, "queue")
    /\ UNCHANGED <<rows, active, dl, torrentVars, procVars, histVars>>

\* The loop takes the next job of the slice it read.
NextQueued(j) ==
    /\ th[Loop].at = "queue" /\ j \in todo /\ BoundLeft
    /\ todo' = todo \ {j}
    /\ th' = [th EXCEPT ![Loop].at = "claim", ![Loop].op = "start", ![Loop].job = j]
    /\ UNCHANGED <<rows, active, dl, torrentVars, procVars, histVars>>

\* updateProgress copies the active jobs, then rewrites their rows one by one.
SnapshotActive ==
    /\ th[Loop].at = "queue" /\ (todo = {} \/ ~BoundLeft)
    /\ todo' = {j \in Jobs : active[j] # NoDl}
    /\ Goto(Loop, "report")
    /\ UNCHANGED <<rows, active, dl, torrentVars, procVars, histVars>>

ReportProgress(j) ==
    /\ th[Loop].at = "report" /\ j \in todo
    /\ todo' = todo \ {j}
    /\ th' = [th EXCEPT ![Loop].at = "get", ![Loop].op = "progress", ![Loop].job = j]
    /\ UNCHANGED <<rows, active, dl, torrentVars, procVars, histVars>>

PassDone == th[Loop].at = "report" /\ todo = {} /\ Leave(Loop, "idle") /\ OnlyThreads

\* run() sees w.ctx.Done.
LoopExit == th[Loop].at = "idle" /\ stopping /\ Leave(Loop, "off") /\ OnlyThreads
-----------------------------------------------------------------------------
\* startDownload, first critical section: leave if the job is active, link to
\* an active download of the same info hash, or go on to create an object.
HasInfoHash(j) == JobKind[j] \in {"magnet", "hash"}
Linkable(j) ==
    {i \in Dls : /\ HasInfoHash(j) /\ (\E k \in Jobs : active[k] = i)
                 /\ dl[i].tor # NoDl /\ dl[i].hash = JobHash[j]}
DoneOf(i) == IF dl[i].owner = NoDl THEN i ELSE dl[i].owner

AlreadyActive(p) ==
    th[p].at = "claim" /\ active[th[p].job] # NoDl /\ Leave(p, Back(p)) /\ OnlyThreads

NotLinked(p) ==
    /\ th[p].at = "claim" /\ active[th[p].job] = NoDl /\ Linkable(th[p].job) = {}
    /\ Goto(p, "store") /\ OnlyThreads

\* The object n is filled in and becomes the job's entry.
Register(p, n, object) ==
    /\ n \in Unused /\ \A k \in Unused : n <= k
    /\ dl' = [dl EXCEPT ![n] = object]
    /\ active' = [active EXCEPT ![th[p].job] = n]
    /\ th' = [th EXCEPT ![p].at = "get", ![p].cur = n]
    /\ UNCHANGED <<rows, torrentVars, todo, procVars, okJobs>>

Link(p, n) ==
    /\ th[p].at = "claim" /\ active[th[p].job] = NoDl
    /\ linked' = linked \cup {th[p].job}
    /\ \E i \in Linkable(th[p].job) :
         Register(p, n, [FreeDl EXCEPT !.job = th[p].job, !.owner = DoneOf(i), !.told = dl[i].err,
                                       !.hash = dl[i].hash, !.tor = dl[i].tor])

\* startDownload, second critical section: the check is not repeated.
Store(p, n) ==
    /\ th[p].at = "store"
    /\ Register(p, n, [FreeDl EXCEPT !.job = th[p].job])
    /\ UNCHANGED linked

\* The goroutines of the object are started.
Spawn(p) ==
    LET i == th[p].cur
    IN  /\ th[p].at = "spawn"
        /\ dl' = [dl EXCEPT ![i].prov = IF dl[i].owner = NoDl THEN "begin" ELSE @]
        /\ th' = [th EXCEPT ![p] = [Blank EXCEPT !.at = Back(p)],
                            ![Waiter(i)] = [Blank EXCEPT !.at = "select", !.job = dl[i].job,
                                                         !.cur = i]]
        /\ UNCHANGED <<rows, active, torrentVars, todo, procVars, histVars>>

\* cleanupJob: the entry of the job goes, whichever object it holds.
Cleanup(p) ==
    /\ th[p].at = "cleanup"
    /\ active' = [active EXCEPT ![th[p].job] = NoDl]
    /\ IF th[p].op = "cancel" THEN Goto(p, "delete") ELSE Leave(p, Rest(p))
    /\ UNCHANGED <<rows, dl, torrentVars, todo, procVars, histVars>>
-----------------------------------------------------------------------------
\* Every update of a row is table.Get, a change of the struct, table.Update.
StatusUnchanged == [start |-> "queued", seeding |-> "seeding", failed |-> "failed",
                    requeue |-> "queued", paused |-> "paused"]
StatusUnknown == [start |-> "started", seeding |-> "seeding", failed |-> "failed",
                  requeue |-> "queued", paused |-> "paused"]
StatusSet == [start |-> "downloading", seeding |-> "seeding", failed |-> "failed",
              requeue |-> "queued", paused |-> "paused"]
Written(o, r) ==
    IF o \in DOMAIN StatusSet THEN [r EXCEPT !.status = StatusSet[o]]
    ELSE IF o = "stamp" THEN [r EXCEPT !.completed = TRUE] ELSE r

\* startDownload goes on if the row was updated; a linked start does not look.
AfterStart(p, ok) == IF ok \/ dl[th[p].cur].owner # NoDl THEN "spawn" ELSE "cleanup"

\* handleCompletion ends with cleanupJob, and the waiter with it.
StampKeepsEntry(p) == <<"off", "none">>
StampThenRequeue(p) == IF stopping THEN <<"get", "requeue">> ELSE <<"cleanup", "stamp">>
AfterStamp(p) == <<"cleanup", "stamp">>

\* The step and the operation that follow: ok says the row was there.
AfterRow(p, ok) ==
    LET o == th[p].op
    IN  CASE o = "start"     -> <<AfterStart(p, ok), o>>
          [] o = "progress"  -> <<"report", "none">>
          [] o = "seeding"   -> <<"get", "stamp">>
          [] o = "stamp"     -> AfterStamp(p)
          [] o = "failed"    -> <<"get", "errmsg">>
          [] o = "paused"    -> <<"idle", "none">>
          [] o = "organized" -> <<"off", "none">>
          [] OTHER           -> <<"cleanup", o>>

Continue(p, next) ==
    IF next[1] \in {"idle", "off"} THEN [Blank EXCEPT !.at = next[1]]
    ELSE [th[p] EXCEPT !.at = next[1], !.op = next[2], !.copy = NoRow]

RowMissing(p) ==
    /\ th[p].at = "get" /\ ~Present(rows[th[p].job])
    /\ th' = [th EXCEPT ![p] = Continue(p, AfterRow(p, FALSE))] /\ OnlyThreads

RowGet(p) ==
    /\ th[p].at = "get" /\ Present(rows[th[p].job]) /\ th[p].op # "errmsg"
    /\ th' = [th EXCEPT ![p].at = "put", ![p].copy = rows[th[p].job]] /\ OnlyThreads

\* handleCompletion of a failure: err is shadowed by the nil of w.db.Downloads,
\* so job.ErrorMsg = err.Error() dereferences nil.
ErrorMsgPanics(p) ==
    th[p].at = "get" /\ Present(rows[th[p].job]) /\ th[p].op = "errmsg" /\ Panic

\* Update fails when the row was deleted after Get.  The completion stamp also
\* starts the organizer, whether or not its Update succeeded.
RowPut(p) ==
    LET ok == Present(rows[th[p].job])
        next == Continue(p, AfterRow(p, ok))
        o == Organizer(p[2])
    IN  /\ th[p].at = "put"
        /\ rows' = IF ok THEN [rows EXCEPT ![th[p].job] = Written(th[p].op, th[p].copy)] ELSE rows
        /\ th' = IF th[p].op = "stamp"
                 THEN [th EXCEPT ![p] = next, ![o] = [Blank EXCEPT !.at = "organize",
                                                      !.job = th[p].job, !.cur = th[p].cur]]
                 ELSE [th EXCEPT ![p] = next]
        /\ UNCHANGED <<active, dl, torrentVars, todo, procVars, histVars>>
-----------------------------------------------------------------------------
\* The provider returns: err is set, then done is closed.
EndProvider(i, result) ==
    /\ dl' = [dl EXCEPT ![i].prov = "ended", ![i].err = result]
    /\ okJobs' = IF result = "nil" THEN okJobs \cup {dl[i].job} ELSE okJobs

\* processTorrentDownload up to its polling loop.
AddMagnet(i) ==
    LET h == JobHash[dl[i].job]
        t == IF registry[h] # NoDl THEN registry[h] ELSE i
    IN  /\ dl[i].prov = "begin" /\ JobKind[dl[i].job] = "magnet" /\ ~clientShut
        /\ registry' = [registry EXCEPT ![h] = t]
        /\ dl' = [dl EXCEPT ![i].hash = h, ![i].tor = t, ![i].prov = "poll"]
        /\ UNCHANGED <<rows, active, tstate, closed, clientShut, th, todo, procVars, histVars>>

\* After Client.Close the torrents map is nil and the insertion panics.
AddMagnetAfterClose(i) ==
    dl[i].prov = "begin" /\ JobKind[dl[i].job] = "magnet" /\ clientShut /\ Panic

GetTorrent(i) ==
    LET h == JobHash[dl[i].job]
    IN  /\ dl[i].prov = "begin" /\ JobKind[dl[i].job] = "hash"
        /\ dl' = IF registry[h] = NoDl
                 THEN [dl EXCEPT ![i].hash = h, ![i].prov = "ended", ![i].err = "fail"]
                 ELSE [dl EXCEPT ![i].hash = h, ![i].prov = "poll", ![i].tor = registry[h]]
        /\ UNCHANGED okJobs /\ OnlyDls

\* With neither a magnet nor an info hash it polls with a nil torrent.
NoTorrent(i) ==
    /\ dl[i].prov = "begin" /\ JobKind[dl[i].job] = "empty"
    /\ dl' = [dl EXCEPT ![i].prov = "poll"] /\ UNCHANGED okJobs /\ OnlyDls

PollEnds(i) ==
    /\ dl[i].prov = "poll" /\ dl[i].tor # NoDl
    /\ \/ tstate[dl[i].tor] = "complete" /\ EndProvider(i, "nil")
       \/ tstate[dl[i].tor] = "error" /\ EndProvider(i, "fail")
    /\ OnlyDls

PollCancelled(i) == dl[i].prov = "poll" /\ stopping /\ EndProvider(i, "fail") /\ OnlyDls

\* processUsenetDownload: it does not look at the context.
UsenetBegin(i) ==
    /\ dl[i].prov = "begin" /\ JobKind[dl[i].job] = "usenet"
    /\ dl' = [dl EXCEPT ![i].prov = "fetch"] /\ UNCHANGED okJobs /\ OnlyDls

UsenetEnds(i) ==
    dl[i].prov = "fetch" /\ (\E result \in UsenetOutcomes : EndProvider(i, result)) /\ OnlyDls

\* The torrent client works on its own.
Registered == {t \in Dls : \E h \in Hashes : registry[h] = t}
TorrentReports(t) ==
    /\ t \in Registered /\ tstate[t] = "working"
    /\ \E s \in TorrentOutcomes : tstate' = [tstate EXCEPT ![t] = s]
    /\ UNCHANGED <<rows, active, dl, registry, closed, clientShut, th, todo, procVars, histVars>>
-----------------------------------------------------------------------------
\* The waiter's select: when done is closed and the context is cancelled, either
\* branch may be taken.
ResultFor(i) == IF dl[i].owner = NoDl THEN dl[i].err ELSE dl[i].told

DoneFromStart(i) == dl[DoneOf(i)].prov # "off"
DoneClosed(i) == dl[DoneOf(i)].prov = "ended"

SelectDone(i) ==
    /\ th[Waiter(i)].at = "select" /\ DoneClosed(i)
    /\ th' = [th EXCEPT ![Waiter(i)].at = "completion",
                        ![Waiter(i)].op = IF ResultFor(i) = "nil" THEN "seeding" ELSE "failed"]
    /\ OnlyThreads

SelectCancelled(i) ==
    /\ th[Waiter(i)].at = "select" /\ stopping
    /\ th' = [th EXCEPT ![Waiter(i)].at = "cancellation", ![Waiter(i)].op = "requeue"]
    /\ OnlyThreads

\* handleCompletion and handleCancellation look the job up again: they do
\* nothing if it is no longer active, and work on whatever object is there now.
NoLongerActive(w) ==
    /\ th[w].at \in {"completion", "cancellation"} /\ active[th[w].job] = NoDl
    /\ Leave(w, "off") /\ OnlyThreads

HandleEnd(w) ==
    LET i == active[th[w].job]
        next == IF th[w].at = "cancellation" /\ dl[i].hash # NoHash THEN "lookup" ELSE "get"
    IN  /\ th[w].at \in {"completion", "cancellation"} /\ i # NoDl
        /\ th' = [th EXCEPT ![w].at = next, ![w].cur = i] /\ OnlyThreads

\* organizeJob: the organizer fails or has nothing to do for a torrent, or it
\* succeeds and a torrent is removed from the client; then the row is touched.
Organize(o) ==
    /\ th[o].at = "organize"
    /\ \E next \in {"get"} \cup (IF dl[th[o].cur].tor # NoDl THEN {"lookup"} ELSE {}) :
         th' = [th EXCEPT ![o].at = next, ![o].op = "organized"]
    /\ OnlyThreads

\* The storage path is not known.
NothingToOrganize(o) == th[o].at = "organize" /\ Leave(o, "off") /\ OnlyThreads
-----------------------------------------------------------------------------
\* Client.RemoveTorrent: the lookup and the removal are two critical sections.
AfterRemove(p) ==
    IF th[p].op = "stopseed" THEN Leave(p, "idle")
    ELSE Goto(p, IF th[p].op = "cancel" THEN "cleanup" ELSE "get")

RemoveFinds(p) ==
    LET t == registry[dl[th[p].cur].hash]
    IN  /\ th[p].at = "lookup" /\ t # NoDl
        /\ th' = [th EXCEPT ![p].at = "close", ![p].tor = t] /\ OnlyThreads

RemoveMisses(p) ==
    /\ th[p].at = "lookup" /\ registry[dl[th[p].cur].hash] = NoDl
    /\ AfterRemove(p) /\ OnlyThreads

StillRegistered(h) == registry
Unregistered(h) == [registry EXCEPT ![h] = NoDl]

RemoveCloses(p) ==
    /\ th[p].at = "close" /\ th[p].tor \notin closed
    /\ closed' = closed \cup {th[p].tor}
    /\ registry' = Unregistered(dl[th[p].cur].hash)
    /\ AfterRemove(p)
    /\ UNCHANGED <<rows, active, dl, tstate, clientShut, todo, procVars, histVars>>

\* Torrent.Close closes closeCh: a second call panics.
CloseAgainPanics(p) == th[p].at = "close" /\ th[p].tor \in closed /\ Panic
-----------------------------------------------------------------------------
\* The manager's API.  PauseDownload cancels a context nobody uses, and sets the
\* status; CancelDownload removes torrent, entry and row, in this order.
Call(c, j, i, step, o) ==
    /\ th[Caller(c)].at = "idle"
    /\ th' = [th EXCEPT ![Caller(c)] = [Blank EXCEPT !.at = step, !.op = o, !.job = j, !.cur = i]]
    /\ OnlyThreads

HasHash(i) == i # NoDl /\ dl[i].hash # NoHash

PauseDownload(c, j) ==
    "pause" \in Api /\ active[j] # NoDl /\ Call(c, j, active[j], "get", "paused")

CancelDownload(c, j) ==
    /\ "cancel" \in Api /\ Present(rows[j])
    /\ Call(c, j, active[j], IF HasHash(active[j]) THEN "lookup" ELSE "cleanup", "cancel")

StopSeeding(c, j) ==
    "stopseed" \in Api /\ HasHash(active[j]) /\ Call(c, j, active[j], "lookup", "stopseed")

\* ResumeDownload reads the row, then looks whether the job is active.
ResumeDownload(c, j) ==
    "resume" \in Api /\ Present(rows[j]) /\ BoundLeft /\ Call(c, j, NoDl, "resume", "start")

ResumeCheck(p) ==
    /\ th[p].at = "resume"
    /\ IF active[th[p].job] # NoDl THEN Leave(p, "idle") ELSE Goto(p, "claim")
    /\ OnlyThreads

DeleteRow(p) ==
    /\ th[p].at = "delete"
    /\ rows' = [rows EXCEPT ![th[p].job] = IF Present(@) THEN GoneRow ELSE @]
    /\ Leave(p, "idle")
    /\ UNCHANGED <<active, dl, torrentVars, todo, procVars, histVars>>
-----------------------------------------------------------------------------
\* Manager.Stop: Worker.Stop cancels the context and waits for the loop only;
\* then Client.Close closes every torrent.  The process may end right after.
Stop ==
    /\ MayStop /\ ~stopping /\ stopping' = TRUE
    /\ UNCHANGED <<rows, active, dl, torrentVars, th, todo, up, panicked, crashes, histVars>>

ClientClose ==
    /\ stopping /\ th[Loop].at = "off" /\ ~clientShut
    /\ closed' = closed \cup Registered
    /\ registry' = [h \in Hashes |-> NoDl] /\ clientShut' = TRUE
    /\ UNCHANGED <<rows, active, dl, tstate, th, todo, procVars, histVars>>

Exit == clientShut /\ Down /\ UNCHANGED <<panicked, crashes>>

Crash == crashes < MaxCrashes /\ crashes' = crashes + 1 /\ Down /\ UNCHANGED panicked

Restart ==
    /\ ~up /\ up' = TRUE
    /\ UNCHANGED <<rows, active, dl, torrentVars, th, todo, stopping, panicked, crashes, histVars>>
-----------------------------------------------------------------------------
LoopStep ==
    \/ Tick \/ SnapshotActive \/ PassDone \/ LoopExit
    \/ \E j \in Jobs : NextQueued(j) \/ ReportProgress(j)

ThreadStep(p) ==
    \/ AlreadyActive(p) \/ NotLinked(p) \/ Spawn(p) \/ Cleanup(p)
    \/ \E n \in Dls : Link(p, n) \/ Store(p, n)
    \/ RowMissing(p) \/ RowGet(p) \/ ErrorMsgPanics(p) \/ RowPut(p)
    \/ RemoveFinds(p) \/ RemoveMisses(p) \/ RemoveCloses(p) \/ CloseAgainPanics(p)
    \/ NoLongerActive(p) \/ HandleEnd(p) \/ Organize(p) \/ NothingToOrganize(p)
    \/ ResumeCheck(p) \/ DeleteRow(p)

ProviderStep(i) ==
    \/ AddMagnet(i) \/ AddMagnetAfterClose(i) \/ GetTorrent(i) \/ NoTorrent(i)
    \/ PollEnds(i) \/ PollCancelled(i) \/ UsenetBegin(i) \/ UsenetEnds(i)

WaiterSelect(i) == SelectDone(i) \/ SelectCancelled(i)

ApiCall(c, j) ==
    PauseDownload(c, j) \/ CancelDownload(c, j) \/ StopSeeding(c, j) \/ ResumeDownload(c, j)

Running ==
    \/ \E j \in Jobs : AddDownload(j)
    \/ LoopStep
    \/ \E p \in Threads : ThreadStep(p)
    \/ \E i \in Dls : ProviderStep(i) \/ TorrentReports(i) \/ WaiterSelect(i)
    \/ \E c \in Callers, j \in Jobs : ApiCall(c, j)
    \/ Stop \/ ClientClose \/ Exit \/ Crash

Next == (up /\ Running) \/ Restart

Spec == Init /\ [][Next]_vars

\* Goroutines are scheduled fairly, the ticker keeps firing, and a usenet
\* download ends one way or the other.
Fairness ==
    /\ WF_vars(up /\ LoopStep)
    /\ \A p \in Threads : WF_vars(up /\ ThreadStep(p))
    /\ \A i \in Dls : WF_vars(up /\ ProviderStep(i)) /\ WF_vars(up /\ WaiterSelect(i))
FairSpec == Spec /\ Fairness
-----------------------------------------------------------------------------
\* An entry of activeJobs always has a goroutine that will take it out: the one
\* that is still starting the object, or the waiter of the object.  An entry
\* nobody owns would keep its job from ever being started again (startDownload
\* and ResumeDownload return early while the entry exists).
Starting(i) ==
    \E p \in Threads : /\ th[p].cur = i /\ th[p].op = "start"
                       /\ th[p].at \in {"get", "put", "spawn", "cleanup"}
Waiting(i) == th[Waiter(i)].at # "off"
NoLeakedEntry ==
    \A j \in Jobs : active[j] # NoDl =>
        /\ dl[active[j]].job = j
        /\ Starting(active[j]) \/ Waiting(active[j])

\* A row says seeding only if the job's own download ended without error, or
\* the job was linked to another job's download.
SeedingWasDownloaded ==
    \A j \in Jobs : rows[j].status = "seeding" => j \in okJobs \cup linked

\* The registry of the torrent client never holds a torrent that is closed.
RegisteredIsOpen == \A h \in Hashes : registry[h] \notin closed

\* A completed download is not put back into the queue (it would be fetched and
\* organized a second time): completion and cancellation of a job exclude each
\* other although the waiter's select may find both channels ready.
CompletedNotRequeued ==
    [][\A j \in Jobs : rows[j].completed => rows'[j].status # "queued"]_vars

\* No goroutine panics.
NoPanic == ~panicked

\* Once a provider has ended, the entry that holds its object is taken out of
\* activeJobs (or the process ends, which empties it), so the job's state is
\* decided by its row again.
EntryReleased ==
    \A i \in Dls : dl[i].prov = "ended" ~> \A j \in Jobs : active[j] # i

\* A queued job does not stay queued while the process runs.
QueuedIsStarted ==
    \A j \in Jobs : rows[j].status = "queued" ~> rows[j].status # "queued" \/ ~up
=============================================================================
