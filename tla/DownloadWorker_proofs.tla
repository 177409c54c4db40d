------------------------ MODULE DownloadWorker_proofs ------------------------
(***************************************************************************)
(* Proofs about DownloadWorker, for every set of jobs, callers and API     *)
(* calls, every assignment of kinds and hashes, and any bound: its types,  *)
(* that every entry has an owner, that seeding is earned, that the         *)
(* registry of the torrent client is open, and that a completed download   *)
(* is not queued again where nobody resumes downloads.                     *)
(***************************************************************************)
EXTENDS DownloadWorker, TLAPS

\* What the code a thread runs allows: which operation goes with which step.
WaiterPhase(t) ==
    \/ t.at \in {"off", "select"}
    \/ t.at = "completion" /\ t.op \in {"seeding", "failed"}
    \/ t.at = "cancellation" /\ t.op = "requeue"
    \/ t.at \in {"lookup", "close"} /\ t.op = "requeue"
    \/ t.at \in {"get", "put"} /\ t.op \in {"seeding", "stamp", "failed", "errmsg", "requeue"}
    \/ t.at = "cleanup" /\ t.op \in {"stamp", "errmsg", "requeue"}
OrganizerPhase(t) ==
    \/ t.at \in {"off", "organize"}
    \/ t.at \in {"lookup", "close", "get", "put"} /\ t.op = "organized"
LoopPhase(t) ==
    \/ t.at \in {"off", "idle", "queue", "report"}
    \/ t.at \in {"claim", "store", "spawn", "cleanup"} /\ t.op = "start"
    \/ t.at \in {"get", "put"} /\ t.op \in {"start", "progress"}
CallerPhase(t) ==
    \/ t.at = "idle"
    \/ t.at \in {"resume", "claim", "store", "spawn"} /\ t.op = "start"
    \/ t.at \in {"get", "put"} /\ t.op \in {"start", "paused"}
    \/ t.at = "cleanup" /\ t.op \in {"start", "cancel"}
    \/ t.at \in {"lookup", "close"} /\ t.op \in {"cancel", "stopseed"}
    \/ t.at = "delete" /\ t.op = "cancel"
Phase(p, t) ==
    /\ p[1] = "wait" => WaiterPhase(t)
    /\ p[1] = "org" => OrganizerPhase(t)
    /\ p[1] = "loop" => LoopPhase(t)
    /\ p[1] = "call" => CallerPhase(t)

\* A thread that is inside a function knows its job; one that starts an object,
\* waits or organizes, or removes a torrent, knows its object; one that starts
\* an object works for the object's job, and so does the object's waiter.
IsStarting(t) == t.op = "start" /\ t.at \in {"get", "put", "spawn", "cleanup"}
Knows(p, t) ==
    /\ t.at \notin {"off", "idle", "queue", "report"} => t.job \in Jobs
    /\ IsStarting(t) => t.cur \in Dls /\ dl[t.cur].job = t.job
    /\ p \in Spawned /\ t.at # "off" => t.cur \in Dls
    /\ p[1] = "wait" /\ t.at # "off" => dl[p[2]].job = t.job
    /\ t.at \in {"lookup", "close"} => t.cur \in Dls /\ dl[t.cur].hash \in Hashes
    /\ t.at = "close" => t.tor \in Dls
ThreadsInv == \A p \in Threads : Phase(p, th[p]) /\ Knows(p, th[p])

\* An object that has a provider has a job, and one with a torrent has its hash.
ObjectsInv ==
    \A i \in Dls :
        /\ dl[i].prov # "off" => dl[i].job \in Jobs
        /\ dl[i].tor # NoDl => dl[i].hash \in Hashes
        /\ dl[i] = FreeDl \/ dl[i].job \in Jobs

\* The entry of a job holds an object that was filled in for that job.
EntriesInv == \A j \in Jobs : active[j] # NoDl => dl[active[j]].job = j

TypeInv == TypeOK /\ ThreadsInv /\ ObjectsInv /\ EntriesInv
-----------------------------------------------------------------------------
\* The names of the threads tell them apart.
LEMMA ThreadNames ==
    /\ Loop \in Threads /\ Loop[1] = "loop" /\ Loop \notin Spawned
    /\ \A i \in Dls : Waiter(i) \in Threads /\ Waiter(i) \in Spawned /\ Waiter(i)[1] = "wait"
                      /\ Waiter(i)[2] = i
    /\ \A i \in Dls : Organizer(i) \in Threads /\ Organizer(i) \in Spawned /\ Organizer(i)[1] = "org"
    /\ \A c \in Callers : Caller(c) \in Threads /\ Caller(c)[1] = "call" /\ Caller(c) \notin Spawned
    /\ \A p \in Threads : p[1] \in {"loop", "wait", "org", "call"}
    /\ \A p \in Threads : p[1] \in {"wait", "org"} <=> p \in Spawned
    /\ \A p \in Threads : p[1] = "wait" => p = Waiter(p[2]) /\ p[2] \in Dls
    /\ \A p \in Threads : p[1] = "loop" => p = Loop
    /\ \A i, k \in Dls : Waiter(i) # Organizer(k) /\ (Waiter(i) = Waiter(k) => i = k)
  BY DEF Loop, Waiter, Organizer, Caller, Threads, Spawned

LEMMA Constants ==
    /\ NoDl \notin Dls /\ NoJob \notin Jobs /\ NoHash \notin Hashes
    /\ NoRow \in Row /\ GoneRow \in Row
    /\ FreeDl \in Dl /\ FreeDl.job = NoJob /\ FreeDl.hash = NoHash /\ FreeDl.tor = NoDl
    /\ FreeDl.prov = "off" /\ FreeDl.owner = NoDl
    /\ Blank \in Thread
  <1>1. NoDl \notin Dls /\ NoJob \notin Jobs /\ NoHash \notin Hashes
    BY JobsAssumption, BoundAssumption DEF NoDl, Dls
  <1>2. NoRow \in Row /\ GoneRow \in Row
    BY DEF NoRow, GoneRow, Row, Status
  <1>3. FreeDl \in Dl /\ FreeDl.job = NoJob /\ FreeDl.hash = NoHash /\ FreeDl.tor = NoDl
    BY DEF FreeDl, Dl, Results
  <1>4. FreeDl.prov = "off" /\ FreeDl.owner = NoDl
    BY DEF FreeDl
  <1>5. Blank \in Thread
    BY <1>2 DEF Blank, Thread, Steps, Ops
  <1>6. QED
    BY <1>1, <1>2, <1>3, <1>4, <1>5

LEMMA Blanks ==
    ASSUME NEW s \in Steps
    PROVE  /\ [Blank EXCEPT !.at = s] \in Thread /\ [Blank EXCEPT !.at = s].at = s
           /\ [Blank EXCEPT !.at = s].op = "none"
  BY Constants DEF Blank, Thread

LEMMA BlankThreads ==
    /\ ThreadsAtStart \in [Threads -> Thread]
    /\ \A p \in Threads : Phase(p, ThreadsAtStart[p]) /\ Knows(p, ThreadsAtStart[p])
  <1>1. ThreadsAtStart \in [Threads -> Thread]
    BY Constants, Blanks DEF ThreadsAtStart, Steps
  <1>2. ASSUME NEW p \in Threads PROVE Phase(p, ThreadsAtStart[p]) /\ Knows(p, ThreadsAtStart[p])
    <2>1. CASE p \in Spawned
      BY <2>1, ThreadNames DEF ThreadsAtStart, Blank, Phase, WaiterPhase, OrganizerPhase, Knows,
         IsStarting
    <2>2. CASE p \notin Spawned
      BY <2>2, ThreadNames, Blanks DEF ThreadsAtStart, Steps, Phase, LoopPhase, CallerPhase, Knows,
         IsStarting
    <2>3. QED
      BY <2>1, <2>2
  <1>3. QED
    BY <1>1, <1>2

LEMMA InitTypeInv == Init => TypeInv
  <1> SUFFICES ASSUME Init PROVE TypeInv
    OBVIOUS
  <1>1. TypeOK
    <2>1. rows \in [Jobs -> Row] /\ dl \in [Dls -> Dl] /\ th \in [Threads -> Thread]
      BY Constants, BlankThreads DEF Init
    <2>2. active \in [Jobs -> Dls \cup {NoDl}] /\ registry \in [Hashes -> Dls \cup {NoDl}]
      BY DEF Init
    <2>3. tstate \in [Dls -> {"working", "complete", "error"}]
      BY DEF Init
    <2>4. crashes \in 0..MaxCrashes
      BY BoundAssumption DEF Init
    <2>5. QED
      BY <2>1, <2>2, <2>3, <2>4 DEF Init, TypeOK
  <1>2. ThreadsInv
    BY BlankThreads DEF Init, ThreadsInv
  <1>3. ObjectsInv /\ EntriesInv
    BY Constants DEF Init, ObjectsInv, EntriesInv
  <1>4. QED
    BY <1>1, <1>2, <1>3 DEF TypeInv
-----------------------------------------------------------------------------
\* The process ends: what it knew is blank again.
LEMMA DownTypeInv ==
    ASSUME TypeInv, Down, panicked' \in BOOLEAN, crashes' \in 0..MaxCrashes
    PROVE  TypeInv'
  <1>1. rows' \in [Jobs -> Row] /\ okJobs' \in SUBSET Jobs /\ linked' \in SUBSET Jobs
    BY DEF TypeInv, TypeOK, Down, histVars
  <1>2. dl' \in [Dls -> Dl] /\ th' \in [Threads -> Thread]
    BY Constants, BlankThreads DEF Down
  <1>3. active' \in [Jobs -> Dls \cup {NoDl}] /\ registry' \in [Hashes -> Dls \cup {NoDl}]
    BY DEF Down
  <1>4. tstate' \in [Dls -> {"working", "complete", "error"}]
    BY DEF Down
  <1>5. TypeOK'
    BY <1>1, <1>2, <1>3, <1>4 DEF Down, TypeOK
  <1>6. ThreadsInv'
    <2> SUFFICES ASSUME NEW p \in Threads PROVE Phase(p, th'[p]) /\ Knows(p, th[p])'
      BY DEF ThreadsInv
    <2>1. th'[p] = ThreadsAtStart[p]
      BY DEF Down
    <2>2. p \in Spawned => th'[p] = Blank
      BY <2>1 DEF ThreadsAtStart
    <2>3. p \notin Spawned => th'[p] = [Blank EXCEPT !.at = "idle"]
      BY <2>1 DEF ThreadsAtStart
    <2>4. Knows(p, th[p])'
      BY <2>2, <2>3, Blanks, ThreadNames DEF Knows, IsStarting, Blank, Steps
    <2>5. QED
      BY <2>1, <2>4, BlankThreads
  <1>7. ObjectsInv' /\ EntriesInv'
    BY Constants DEF Down, ObjectsInv, EntriesInv
  <1>8. QED
    BY <1>5, <1>6, <1>7 DEF TypeInv

\* What a thread knows stays true while objects only gain.
ObjectsGain ==
    /\ dl' \in [Dls -> Dl]
    /\ \A i \in Dls :
         /\ dl[i].hash \in Hashes => dl'[i].hash \in Hashes
         /\ dl[i].job \in Jobs => dl'[i].job = dl[i].job

LEMMA ThreadsKeep ==
    ASSUME TypeInv, ObjectsGain, NEW q \in Threads, th'[q] = th[q]
    PROVE  Phase(q, th'[q]) /\ Knows(q, th[q])'
  <1>1. Phase(q, th[q]) /\ Knows(q, th[q])
    BY DEF TypeInv, ThreadsInv
  <1>2. q[1] = "wait" => q[2] \in Dls
    BY ThreadNames
  <1>3. th[q] \in Thread /\ (th[q].at \notin {"off", "idle", "queue", "report"} => th[q].job \in Jobs)
    BY <1>1 DEF TypeInv, TypeOK, Knows
  <1>4. IsStarting(th[q]) => th[q].job \in Jobs
    BY <1>3 DEF IsStarting
  <1>5. q[1] = "wait" /\ th[q].at # "off" => th[q].job \in Jobs
    BY <1>3, <1>1 DEF Phase, WaiterPhase
  <1>6. Knows(q, th[q])'
    <2>1. IsStarting(th[q]) => th[q].cur \in Dls /\ dl'[th[q].cur].job = th[q].job
      BY <1>1, <1>4 DEF Knows, ObjectsGain
    <2>2. q[1] = "wait" /\ th[q].at # "off" => dl'[q[2]].job = th[q].job
      BY <1>1, <1>2, <1>5 DEF Knows, ObjectsGain
    <2>3. th[q].at \in {"lookup", "close"} => th[q].cur \in Dls /\ dl'[th[q].cur].hash \in Hashes
      BY <1>1 DEF Knows, ObjectsGain
    <2>4. QED
      BY <1>1, <2>1, <2>2, <2>3 DEF Knows, IsStarting
  <1>7. QED
    BY <1>1, <1>6

LEMMA OneThreadMoves ==
    ASSUME TypeInv, ObjectsGain, NEW p \in Threads, NEW t \in Thread,
           th' = [th EXCEPT ![p] = t], Phase(p, t), Knows(p, t)'
    PROVE  th' \in [Threads -> Thread] /\ ThreadsInv'
  <1>1. th' \in [Threads -> Thread]
    BY DEF TypeInv, TypeOK
  <1>2. ASSUME NEW q \in Threads PROVE Phase(q, th'[q]) /\ Knows(q, th[q])'
    <2>1. CASE q = p
      <3>1. th'[p] = t
        BY DEF TypeInv, TypeOK
      <3>2. QED
        BY <2>1, <3>1 DEF Knows, IsStarting
    <2>2. CASE q # p
      BY <2>2, ThreadsKeep DEF TypeInv, TypeOK
    <2>3. QED
      BY <2>1, <2>2
  <1>3. QED
    BY <1>1, <1>2 DEF ThreadsInv

\* A step that changes one thread, no object, and removes entries at most.
Tame ==
    /\ UNCHANGED <<dl, tstate, clientShut, procVars, histVars>>
    /\ rows' \in [Jobs -> Row]
    /\ active' \in [Jobs -> Dls \cup {NoDl}]
    /\ \A j \in Jobs : active'[j] \in {active[j], NoDl}
    /\ registry' \in [Hashes -> Dls \cup {NoDl}] /\ closed' \in SUBSET Dls
    /\ todo' \in SUBSET Jobs

LEMMA OneThreadStep ==
    ASSUME TypeInv, Tame, NEW p \in Threads, NEW t \in Thread,
           th' = [th EXCEPT ![p] = t], Phase(p, t), Knows(p, t)
    PROVE  TypeInv'
  <1>1. ObjectsGain /\ dl' = dl
    BY DEF ObjectsGain, Tame, TypeInv, TypeOK
  <1>2. Knows(p, t)'
    BY <1>1 DEF Knows, IsStarting
  <1>3. th' \in [Threads -> Thread] /\ ThreadsInv'
    BY <1>1, <1>2, OneThreadMoves
  <1>4. TypeOK'
    BY <1>3 DEF TypeInv, TypeOK, Tame, procVars, histVars
  <1>5. ObjectsInv' /\ EntriesInv'
    BY <1>1 DEF TypeInv, TypeOK, ObjectsInv, EntriesInv, Tame
  <1>6. QED
    BY <1>3, <1>4, <1>5 DEF TypeInv

LEMMA TameThreads == ASSUME TypeInv, OnlyThreads PROVE Tame
  BY DEF TypeInv, TypeOK, OnlyThreads, Tame, torrentVars, procVars, histVars

LEMMA TameTodo ==
    ASSUME TypeInv, UNCHANGED <<rows, active, dl, torrentVars, procVars, histVars>>,
           todo' \in SUBSET Jobs
    PROVE  Tame
  BY DEF TypeInv, TypeOK, Tame, torrentVars, procVars, histVars

\* A thread returns to where it waits for work.
LEMMA Leaves ==
    ASSUME TypeInv, Tame, NEW p \in Threads, NEW s, Leave(p, s),
           p \in Spawned => s = "off", s \in {"off", "idle", "queue"},
           p = Loop \/ s \in {"off", "idle"}, s = "off" => p \in Spawned \/ p = Loop
    PROVE  TypeInv'
  <1> DEFINE t == [Blank EXCEPT !.at = s]
  <1>1. t \in Thread /\ t.at = s /\ t.op = "none"
    BY Blanks DEF Steps
  <1>2. Phase(p, t)
    BY <1>1, ThreadNames DEF Phase, WaiterPhase, OrganizerPhase, LoopPhase, CallerPhase
  <1>3. Knows(p, t)
    BY <1>1, ThreadNames DEF Knows, IsStarting
  <1> HIDE DEF t
  <1>4. th' = [th EXCEPT ![p] = t]
    BY DEF Leave, t
  <1>5. QED
    BY <1>1, <1>2, <1>3, <1>4, OneThreadStep
-----------------------------------------------------------------------------
LEMMA LoopTyped == TypeInv => th[Loop] \in Thread
  BY ThreadNames DEF TypeInv, TypeOK

LEMMA LoopSteps == ASSUME TypeInv, LoopStep PROVE TypeInv'
  <1>1. CASE Tick
    <2> DEFINE t == [th[Loop] EXCEPT !.at = "queue"]
    <2>1. Tame
      BY <1>1, TameTodo DEF Tick
    <2>0. th[Loop] \in Thread /\ "queue" \in Steps
      BY LoopTyped DEF Steps
    <2>2. t \in Thread /\ t.at = "queue"
      BY <2>0 DEF Thread
    <2>3. Phase(Loop, t) /\ Knows(Loop, t)
      BY <2>2, ThreadNames DEF Phase, LoopPhase, Knows, IsStarting
    <2>4. th' = [th EXCEPT ![Loop] = t]
      BY <1>1 DEF Tick, Goto
    <2> HIDE DEF t
    <2>5. QED
      BY <2>1, <2>2, <2>3, <2>4, ThreadNames, OneThreadStep
  <1>2. CASE SnapshotActive
    <2> DEFINE t == [th[Loop] EXCEPT !.at = "report"]
    <2>1. Tame
      BY <1>2, TameTodo DEF SnapshotActive
    <2>0. th[Loop] \in Thread /\ "report" \in Steps
      BY LoopTyped DEF Steps
    <2>2. t \in Thread /\ t.at = "report"
      BY <2>0 DEF Thread
    <2>3. Phase(Loop, t) /\ Knows(Loop, t)
      BY <2>2, ThreadNames DEF Phase, LoopPhase, Knows, IsStarting
    <2>4. th' = [th EXCEPT ![Loop] = t]
      BY <1>2 DEF SnapshotActive, Goto
    <2> HIDE DEF t
    <2>5. QED
      BY <2>1, <2>2, <2>3, <2>4, ThreadNames, OneThreadStep
  <1>3. CASE PassDone
    BY <1>3, Leaves, TameThreads, ThreadNames DEF PassDone
  <1>4. CASE LoopExit
    BY <1>4, Leaves, TameThreads, ThreadNames DEF LoopExit
  <1>5. ASSUME NEW j \in Jobs, NextQueued(j) PROVE TypeInv'
    <2> DEFINE t == [th[Loop] EXCEPT !.at = "claim", !.op = "start", !.job = j]
    <2>1. Tame
      BY <1>5, TameTodo DEF NextQueued, TypeInv, TypeOK
    <2>0. th[Loop] \in Thread /\ "claim" \in Steps /\ "start" \in Ops
      BY LoopTyped DEF Steps, Ops
    <2>2. t \in Thread /\ t.at = "claim" /\ t.op = "start" /\ t.job = j
      BY <2>0 DEF Thread
    <2>3. Phase(Loop, t) /\ Knows(Loop, t)
      BY <2>2, ThreadNames DEF Phase, LoopPhase, Knows, IsStarting
    <2>4. th' = [th EXCEPT ![Loop] = t]
      BY <1>5, ThreadNames DEF NextQueued, TypeInv, TypeOK, Thread
    <2> HIDE DEF t
    <2>5. QED
      BY <2>1, <2>2, <2>3, <2>4, ThreadNames, OneThreadStep
  <1>6. ASSUME NEW j \in Jobs, ReportProgress(j) PROVE TypeInv'
    <2> DEFINE t == [th[Loop] EXCEPT !.at = "get", !.op = "progress", !.job = j]
    <2>1. Tame
      BY <1>6, TameTodo DEF ReportProgress, TypeInv, TypeOK
    <2>0. th[Loop] \in Thread /\ "get" \in Steps /\ "progress" \in Ops
      BY LoopTyped DEF Steps, Ops
    <2>2. t \in Thread /\ t.at = "get" /\ t.op = "progress" /\ t.job = j
      BY <2>0 DEF Thread
    <2>3. Phase(Loop, t) /\ Knows(Loop, t)
      BY <2>2, ThreadNames DEF Phase, LoopPhase, Knows, IsStarting
    <2>4. th' = [th EXCEPT ![Loop] = t]
      BY <1>6, ThreadNames DEF ReportProgress, TypeInv, TypeOK, Thread
    <2> HIDE DEF t
    <2>5. QED
      BY <2>1, <2>2, <2>3, <2>4, ThreadNames, OneThreadStep
  <1>7. QED
    BY <1>1, <1>2, <1>3, <1>4, <1>5, <1>6 DEF LoopStep
-----------------------------------------------------------------------------
\* Which goroutines can be inside which function.
LEMMA WhoIsWhere ==
    ASSUME TypeInv, NEW p \in Threads
    PROVE  /\ th[p] \in Thread /\ Phase(p, th[p]) /\ Knows(p, th[p])
           /\ th[p].at \in {"claim", "store", "spawn"} => p \notin Spawned /\ th[p].op = "start"
           /\ th[p].at = "resume" => p[1] = "call" /\ th[p].op = "start"
           /\ th[p].at = "delete" => p[1] = "call"
           /\ th[p].at \in {"select", "completion", "cancellation"} => p[1] = "wait"
           /\ th[p].at = "organize" => p[1] = "org"
           /\ th[p].op = "stamp" /\ th[p].at \in {"get", "put"} => p[1] = "wait"
  BY ThreadNames DEF TypeInv, TypeOK, ThreadsInv, Phase, WaiterPhase, OrganizerPhase, LoopPhase,
     CallerPhase

LEMMA Backs ==
    ASSUME NEW p \in Threads
    PROVE  /\ p \notin Spawned => /\ Back(p) \in {"queue", "idle"}
                                  /\ p = Loop \/ Back(p) = "idle"
           /\ p \in Spawned => Rest(p) = "off"
           /\ p \notin Spawned => Rest(p) = Back(p)
  BY ThreadNames DEF Back, Rest

\* startDownload and Resume up to the creation of the object.
LEMMA ClaimSteps ==
    ASSUME TypeInv, NEW p \in Threads, AlreadyActive(p) \/ NotLinked(p) \/ ResumeCheck(p)
    PROVE  TypeInv'
  <1>0. th[p] \in Thread /\ Phase(p, th[p]) /\ Knows(p, th[p])
    BY WhoIsWhere
  <1>1. CASE AlreadyActive(p)
    <2>1. p \notin Spawned /\ Leave(p, Back(p)) /\ Tame
      BY <1>1, WhoIsWhere, TameThreads DEF AlreadyActive
    <2>2. QED
      BY <2>1, Backs, Leaves
  <1>2. CASE NotLinked(p)
    <2> DEFINE t == [th[p] EXCEPT !.at = "store"]
    <2>0. "store" \in Steps /\ th[p].at = "claim" /\ p \notin Spawned /\ th[p].op = "start"
      BY <1>2, WhoIsWhere DEF Steps, NotLinked
    <2>1. t \in Thread /\ t.at = "store" /\ t.op = "start" /\ t.job = th[p].job
      BY <1>0, <2>0 DEF Thread
    <2>2. Phase(p, t) /\ Knows(p, t)
      BY <1>0, <2>0, <2>1, ThreadNames DEF Phase, LoopPhase, CallerPhase, Knows, IsStarting
    <2>3. Tame /\ th' = [th EXCEPT ![p] = t]
      BY <1>2, TameThreads DEF NotLinked, Goto
    <2> HIDE DEF t
    <2>4. QED
      BY <2>1, <2>2, <2>3, OneThreadStep
  <1>3. CASE ResumeCheck(p)
    <2>0. "claim" \in Steps /\ th[p].at = "resume" /\ p[1] = "call" /\ th[p].op = "start" /\ Tame
      BY <1>3, WhoIsWhere, TameThreads DEF Steps, ResumeCheck
    <2>1. CASE Leave(p, "idle")
      BY <2>0, <2>1, ThreadNames, Leaves
    <2>2. CASE Goto(p, "claim")
      <3> DEFINE t == [th[p] EXCEPT !.at = "claim"]
      <3>1. t \in Thread /\ t.at = "claim" /\ t.op = "start" /\ t.job = th[p].job
        BY <1>0, <2>0 DEF Thread
      <3>2. Phase(p, t) /\ Knows(p, t)
        BY <1>0, <2>0, <3>1, ThreadNames DEF Phase, CallerPhase, Knows, IsStarting
      <3>3. th' = [th EXCEPT ![p] = t]
        BY <2>2 DEF Goto
      <3> HIDE DEF t
      <3>4. QED
        BY <2>0, <3>1, <3>2, <3>3, OneThreadStep
    <2>3. QED
      BY <1>3, <2>1, <2>2 DEF ResumeCheck
  <1>4. QED
    BY <1>1, <1>2, <1>3

\* cleanupJob, and the deletion of the row that follows it in Cancel.
LEMMA CleanupSteps ==
    ASSUME TypeInv, NEW p \in Threads, Cleanup(p) \/ DeleteRow(p)
    PROVE  TypeInv'
  <1>0. th[p] \in Thread /\ Phase(p, th[p]) /\ Knows(p, th[p])
    BY WhoIsWhere
  <1>1. CASE Cleanup(p)
    <2>1. Tame
      BY <1>1 DEF Cleanup, Tame, TypeInv, TypeOK, torrentVars, procVars, histVars
    <2>2. CASE th[p].op = "cancel"
      <3> DEFINE t == [th[p] EXCEPT !.at = "delete"]
      <3>0. "delete" \in Steps /\ p[1] = "call"
        BY <1>0, <1>1, <2>2, ThreadNames
        DEF Steps, Cleanup, Phase, WaiterPhase, OrganizerPhase, LoopPhase
      <3>1. t \in Thread /\ t.at = "delete" /\ t.op = "cancel" /\ t.job = th[p].job
        BY <1>0, <2>2, <3>0 DEF Thread
      <3>2. Phase(p, t) /\ Knows(p, t)
        BY <1>0, <1>1, <3>0, <3>1, ThreadNames DEF Phase, CallerPhase, Knows, IsStarting, Cleanup
      <3>3. th' = [th EXCEPT ![p] = t]
        BY <1>1, <2>2 DEF Cleanup, Goto
      <3> HIDE DEF t
      <3>4. QED
        BY <2>1, <3>1, <3>2, <3>3, OneThreadStep
    <2>3. CASE th[p].op # "cancel"
      <3>1. Leave(p, Rest(p))
        BY <1>1, <2>3 DEF Cleanup
      <3>2. QED
        BY <2>1, <3>1, Backs, Leaves
    <2>4. QED
      BY <2>2, <2>3
  <1>2. CASE DeleteRow(p)
    <2>1. Tame
      BY <1>2, Constants DEF DeleteRow, Tame, TypeInv, TypeOK, torrentVars, procVars, histVars
    <2>2. p[1] = "call" /\ Leave(p, "idle")
      BY <1>2, WhoIsWhere DEF DeleteRow
    <2>3. QED
      BY <2>1, <2>2, ThreadNames, Leaves
  <1>3. QED
    BY <1>1, <1>2
-----------------------------------------------------------------------------
\* Client.RemoveTorrent.
LEMMA AfterRemoves ==
    ASSUME TypeInv, Tame, NEW p \in Threads, th[p].at \in {"lookup", "close"}, AfterRemove(p)
    PROVE  TypeInv'
  <1>0. th[p] \in Thread /\ Phase(p, th[p]) /\ Knows(p, th[p])
    BY WhoIsWhere
  <1>1. CASE th[p].op = "stopseed"
    <2>1. p[1] = "call" /\ Leave(p, "idle")
      BY <1>0, <1>1, ThreadNames DEF AfterRemove, Phase, WaiterPhase, OrganizerPhase, LoopPhase
    <2>2. QED
      BY <2>1, ThreadNames, Leaves
  <1>2. CASE th[p].op = "cancel"
    <2> DEFINE t == [th[p] EXCEPT !.at = "cleanup"]
    <2>0. "cleanup" \in Steps /\ p[1] = "call"
      BY <1>0, <1>2, ThreadNames DEF Steps, Phase, WaiterPhase, OrganizerPhase, LoopPhase
    <2>1. t \in Thread /\ t.at = "cleanup" /\ t.op = "cancel" /\ t.job = th[p].job
      BY <1>0, <1>2, <2>0 DEF Thread
    <2>2. Phase(p, t) /\ Knows(p, t)
      BY <1>0, <2>0, <2>1, ThreadNames DEF Phase, CallerPhase, Knows, IsStarting
    <2>3. th' = [th EXCEPT ![p] = t]
      BY <1>2 DEF AfterRemove, Goto
    <2> HIDE DEF t
    <2>4. QED
      BY <2>1, <2>2, <2>3, OneThreadStep
  <1>3. CASE th[p].op \notin {"stopseed", "cancel"}
    <2> DEFINE t == [th[p] EXCEPT !.at = "get"]
    <2>0. "get" \in Steps /\ p \in Spawned /\ th[p].op \in {"requeue", "organized"}
          /\ (th[p].op = "requeue" => p[1] = "wait") /\ (th[p].op = "organized" => p[1] = "org")
      BY <1>0, <1>3, ThreadNames
      DEF Steps, Phase, WaiterPhase, OrganizerPhase, LoopPhase, CallerPhase
    <2>1. t \in Thread /\ t.at = "get" /\ t.op = th[p].op /\ t.job = th[p].job /\ t.cur = th[p].cur
      BY <1>0, <2>0 DEF Thread
    <2>2. Phase(p, t)
      BY <1>0, <2>0, <2>1, ThreadNames DEF Phase, WaiterPhase, OrganizerPhase
    <2>3. Knows(p, t)
      BY <1>0, <2>0, <2>1 DEF Knows, IsStarting
    <2>4. th' = [th EXCEPT ![p] = t]
      BY <1>3 DEF AfterRemove, Goto
    <2> HIDE DEF t
    <2>5. QED
      BY <2>1, <2>2, <2>3, <2>4, OneThreadStep
  <1>4. QED
    BY <1>1, <1>2, <1>3

LEMMA RemoveSteps ==
    ASSUME TypeInv, NEW p \in Threads, RemoveFinds(p) \/ RemoveMisses(p) \/ RemoveCloses(p)
    PROVE  TypeInv'
  <1>0. th[p] \in Thread /\ Phase(p, th[p]) /\ Knows(p, th[p])
    BY WhoIsWhere
  <1>1. CASE RemoveFinds(p)
    <2> DEFINE r == registry[dl[th[p].cur].hash]
               t == [th[p] EXCEPT !.at = "close", !.tor = r]
    <2>0. "close" \in Steps /\ r \in Dls /\ th[p].at = "lookup" /\ th' = [th EXCEPT ![p] = t] /\ Tame
      BY <1>0, <1>1, TameThreads DEF Steps, RemoveFinds, Knows, TypeInv, TypeOK, Thread
    <2> HIDE DEF r
    <2>1. t \in Thread /\ t.at = "close" /\ t.op = th[p].op /\ t.job = th[p].job /\ t.cur = th[p].cur
          /\ t.tor = r
      BY <1>0, <2>0 DEF Thread
    <2>2. Phase(p, t)
      BY <1>0, <2>0, <2>1, ThreadNames DEF Phase, WaiterPhase, OrganizerPhase, LoopPhase, CallerPhase
    <2>3. Knows(p, t)
      BY <1>0, <2>0, <2>1 DEF Knows, IsStarting
    <2> HIDE DEF t
    <2>4. QED
      BY <2>0, <2>1, <2>2, <2>3, OneThreadStep
  <1>2. CASE RemoveMisses(p)
    BY <1>2, TameThreads, AfterRemoves DEF RemoveMisses
  <1>3. CASE RemoveCloses(p)
    <2>1. Tame
      BY <1>0, <1>3 DEF RemoveCloses, Unregistered, Knows, Tame, TypeInv, TypeOK, procVars, histVars
    <2>2. QED
      BY <1>3, <2>1, AfterRemoves DEF RemoveCloses
  <1>4. QED
    BY <1>1, <1>2, <1>3

\* The waiter's select and the handlers it leads to.
LEMMA EndSteps ==
    ASSUME TypeInv, NEW p \in Threads,
           NoLongerActive(p) \/ HandleEnd(p) \/ \E i \in Dls : p = Waiter(i) /\ WaiterSelect(i)
    PROVE  TypeInv'
  <1>0. th[p] \in Thread /\ Phase(p, th[p]) /\ Knows(p, th[p])
    BY WhoIsWhere
  <1>1. CASE NoLongerActive(p)
    BY <1>1, WhoIsWhere, ThreadNames, TameThreads, Leaves DEF NoLongerActive
  <1>2. CASE HandleEnd(p)
    <2> DEFINE i == active[th[p].job]
               s == IF th[p].at = "cancellation" /\ dl[i].hash # NoHash THEN "lookup" ELSE "get"
               t == [th[p] EXCEPT !.at = s, !.cur = i]
    <2>0. s \in Steps /\ p[1] = "wait" /\ i \in Dls /\ th' = [th EXCEPT ![p] = t] /\ Tame
          /\ th[p].job \in Jobs
      BY <1>0, <1>2, WhoIsWhere, TameThreads DEF Steps, HandleEnd, Knows, TypeInv, TypeOK, Thread
    <2>1. s = "lookup" => dl[i].hash \in Hashes /\ th[p].op = "requeue"
      BY <1>0, <1>2, <2>0 DEF Phase, WaiterPhase, TypeInv, TypeOK, Dl, HandleEnd
    <2>2. th[p].op \in {"seeding", "failed", "requeue"} /\ th[p].at # "off"
      BY <1>0, <1>2, <2>0 DEF Phase, WaiterPhase, HandleEnd
    <2>3. s \in {"lookup", "get"}
      OBVIOUS
    <2> HIDE DEF i, s
    <2>4. t \in Thread /\ t.at = s /\ t.op = th[p].op /\ t.job = th[p].job /\ t.cur = i
      BY <1>0, <2>0 DEF Thread
    <2>5. Phase(p, t)
      BY <2>0, <2>1, <2>2, <2>3, <2>4 DEF Phase, WaiterPhase
    <2>6. Knows(p, t)
      BY <1>0, <2>0, <2>1, <2>2, <2>3, <2>4 DEF Knows, IsStarting
    <2> HIDE DEF t
    <2>7. QED
      BY <2>0, <2>4, <2>5, <2>6, OneThreadStep
  <1>3. ASSUME NEW i \in Dls, p = Waiter(i), WaiterSelect(i) PROVE TypeInv'
    <2>1. PICK s \in {"completion", "cancellation"}, o \in {"seeding", "failed", "requeue"} :
             /\ th' = [th EXCEPT ![p].at = s, ![p].op = o] /\ OnlyThreads
             /\ s = "cancellation" <=> o = "requeue"
      BY <1>3 DEF WaiterSelect, SelectDone, SelectCancelled
    <2> DEFINE t == [th[p] EXCEPT !.at = s, !.op = o]
    <2>2. s \in Steps /\ o \in Ops /\ th[p].at = "select" /\ p[1] = "wait" /\ Tame
      BY <1>3, <2>1, ThreadNames, TameThreads
      DEF Steps, Ops, WaiterSelect, SelectDone, SelectCancelled
    <2>3. t \in Thread /\ t.at = s /\ t.op = o /\ t.job = th[p].job /\ t.cur = th[p].cur
      BY <1>0, <2>2 DEF Thread
    <2>4. Phase(p, t) /\ Knows(p, t)
      BY <1>0, <2>1, <2>2, <2>3 DEF Phase, WaiterPhase, Knows, IsStarting
    <2>5. th' = [th EXCEPT ![p] = t]
      BY <1>0, <2>1 DEF TypeInv, TypeOK, Thread
    <2> HIDE DEF t
    <2>6. QED
      BY <2>2, <2>3, <2>4, <2>5, OneThreadStep
  <1>4. QED
    BY <1>1, <1>2, <1>3

\* organizeJob.
LEMMA OrganizeSteps ==
    ASSUME TypeInv, NEW p \in Threads, Organize(p) \/ NothingToOrganize(p)
    PROVE  TypeInv'
  <1>0. th[p] \in Thread /\ Phase(p, th[p]) /\ Knows(p, th[p])
    BY WhoIsWhere
  <1>1. CASE NothingToOrganize(p)
    BY <1>1, WhoIsWhere, ThreadNames, TameThreads, Leaves DEF NothingToOrganize
  <1>2. CASE Organize(p)
    <2>1. PICK s \in {"get", "lookup"} :
             /\ th' = [th EXCEPT ![p].at = s, ![p].op = "organized"] /\ OnlyThreads
             /\ s = "lookup" => dl[th[p].cur].tor # NoDl
      BY <1>2 DEF Organize
    <2> DEFINE t == [th[p] EXCEPT !.at = s, !.op = "organized"]
    <2>2. s \in Steps /\ "organized" \in Ops /\ th[p].at = "organize" /\ p[1] = "org" /\ Tame
      BY <1>2, <2>1, WhoIsWhere, TameThreads DEF Steps, Ops, Organize
    <2>3. t \in Thread /\ t.at = s /\ t.op = "organized" /\ t.job = th[p].job /\ t.cur = th[p].cur
      BY <1>0, <2>2 DEF Thread
    <2>4. th[p].cur \in Dls /\ (s = "lookup" => dl[th[p].cur].hash \in Hashes)
      BY <1>0, <2>1, <2>2, ThreadNames DEF Knows, TypeInv, ObjectsInv
    <2>5. Phase(p, t) /\ Knows(p, t)
      BY <1>0, <2>1, <2>2, <2>3, <2>4 DEF Phase, OrganizerPhase, Knows, IsStarting
    <2>6. th' = [th EXCEPT ![p] = t]
      BY <1>0, <2>1 DEF TypeInv, TypeOK, Thread
    <2> HIDE DEF t
    <2>7. QED
      BY <2>2, <2>3, <2>5, <2>6, OneThreadStep
  <1>3. QED
    BY <1>1, <1>2
-----------------------------------------------------------------------------
\* Get and Update of a row.
LEMMA RowOps ==
    ASSUME TypeInv, NEW p \in Threads, th[p].at \in {"get", "put"}
    PROVE  /\ th[p].job \in Jobs
           /\ th[p].op \in {"start", "progress", "seeding", "stamp", "failed", "errmsg", "requeue",
                            "paused", "organized"}
           /\ th[p].op \in {"seeding", "stamp", "failed", "errmsg", "requeue"} => p[1] = "wait"
           /\ th[p].op = "start" => p \notin Spawned
           /\ th[p].op = "progress" => p = Loop
           /\ th[p].op = "paused" => p[1] = "call"
           /\ th[p].op = "organized" => p[1] = "org"
  BY WhoIsWhere, ThreadNames
  DEF Phase, WaiterPhase, OrganizerPhase, LoopPhase, CallerPhase, Knows

LEMMA AfterRows ==
    ASSUME TypeInv, NEW p \in Threads, th[p].at \in {"get", "put"}, NEW ok \in BOOLEAN
    PROVE  LET n == AfterRow(p, ok)
               t == Continue(p, n)
           IN  t \in Thread /\ Phase(p, t) /\ Knows(p, t)
  <1> DEFINE n == AfterRow(p, ok)
             t == Continue(p, n)
             m == [th[p] EXCEPT !.at = n[1], !.op = n[2], !.copy = NoRow]
  <1>0. th[p] \in Thread /\ Phase(p, th[p]) /\ Knows(p, th[p])
    BY WhoIsWhere
  <1>1. CASE th[p].op \in {"paused", "organized"}
    <2>1. n[1] = IF th[p].op = "paused" THEN "idle" ELSE "off"
      BY <1>1 DEF AfterRow
    <2>2. t = [Blank EXCEPT !.at = n[1]] /\ n[1] \in Steps
      BY <1>1, <2>1 DEF Continue, Steps
    <2>3. t \in Thread /\ t.at = n[1] /\ t.op = "none"
      BY <2>2, Blanks
    <2>4. Phase(p, t)
      BY <1>1, <2>1, <2>3, RowOps, ThreadNames DEF Phase, OrganizerPhase, CallerPhase
    <2>5. Knows(p, t)
      BY <1>1, <2>1, <2>3, RowOps, ThreadNames DEF Knows, IsStarting
    <2>6. QED
      BY <2>3, <2>4, <2>5
  <1>2. CASE th[p].op \notin {"paused", "organized"}
    <2>1. /\ n[1] \in {"spawn", "report", "get", "cleanup"}
          /\ n[1] = "spawn" => th[p].op = "start" /\ n[2] = "start"
          /\ n[1] = "report" => th[p].op = "progress" /\ n[2] = "none"
          /\ n[1] = "get" => th[p].op \in {"seeding", "failed"} /\ n[2] \in {"stamp", "errmsg"}
          /\ n[1] = "cleanup" => th[p].op \in {"start", "stamp", "errmsg", "requeue"} /\ n[2] = th[p].op
      BY <1>2, RowOps DEF AfterRow, AfterStart, AfterStamp
    <2>2. n[1] \in Steps /\ n[2] \in Ops /\ NoRow \in Row
      BY <2>1, Constants DEF Steps, Ops
    <2>3. t = m
      BY <2>1 DEF Continue
    <2> HIDE DEF n
    <2>4. m \in Thread /\ m.at = n[1] /\ m.op = n[2] /\ m.job = th[p].job /\ m.cur = th[p].cur
      BY <1>0, <2>2 DEF Thread
    <2> HIDE DEF m
    <2>5. Phase(p, m)
      BY <2>1, <2>4, RowOps, ThreadNames DEF Phase, WaiterPhase, LoopPhase, CallerPhase
    <2>6. Knows(p, m)
      BY <1>0, <2>1, <2>4, RowOps DEF Knows, IsStarting
    <2>7. QED
      BY <2>3, <2>4, <2>5, <2>6 DEF n
  <1>3. QED
    BY <1>1, <1>2

LEMMA Writes ==
    ASSUME NEW r \in Row, NEW o
    PROVE  Written(o, r) \in Row
  <1>1. CASE o \in DOMAIN StatusSet
    <2>1. StatusSet[o] \in Status /\ Written(o, r) = [r EXCEPT !.status = StatusSet[o]]
      BY <1>1 DEF Written, StatusSet, Status
    <2>2. QED
      BY <2>1 DEF Row
  <1>2. CASE o \notin DOMAIN StatusSet
    BY <1>2 DEF Written, Row
  <1>3. QED
    BY <1>1, <1>2

LEMMA RowSteps ==
    ASSUME TypeInv, NEW p \in Threads, RowMissing(p) \/ RowGet(p) \/ RowPut(p)
    PROVE  TypeInv'
  <1>0. th[p] \in Thread /\ Phase(p, th[p]) /\ Knows(p, th[p])
    BY WhoIsWhere
  <1>1. CASE RowMissing(p)
    <2>1. th[p].at \in {"get", "put"} /\ th' = [th EXCEPT ![p] = Continue(p, AfterRow(p, FALSE))] /\ Tame
      BY <1>1, TameThreads DEF RowMissing
    <2>2. QED
      BY <2>1, AfterRows, OneThreadStep
  <1>2. CASE RowGet(p)
    <2> DEFINE r == rows[th[p].job]
               t == [th[p] EXCEPT !.at = "put", !.copy = r]
    <2>1. "put" \in Steps /\ r \in Row /\ th[p].at = "get" /\ th[p].op # "errmsg"
          /\ th' = [th EXCEPT ![p] = t] /\ Tame
      BY <1>0, <1>2, RowOps, TameThreads DEF RowGet, Steps, TypeInv, TypeOK, Thread
    <2> HIDE DEF r
    <2>2. t \in Thread /\ t.at = "put" /\ t.op = th[p].op /\ t.job = th[p].job /\ t.cur = th[p].cur
      BY <1>0, <2>1 DEF Thread
    <2>3. Phase(p, t)
      BY <1>0, <2>1, <2>2, ThreadNames DEF Phase, WaiterPhase, OrganizerPhase, LoopPhase, CallerPhase
    <2>4. Knows(p, t)
      BY <1>0, <2>1, <2>2 DEF Knows, IsStarting
    <2> HIDE DEF t
    <2>5. QED
      BY <2>1, <2>2, <2>3, <2>4, OneThreadStep
  <1>3. CASE RowPut(p)
    <2> DEFINE ok == Present(rows[th[p].job])
               t == Continue(p, AfterRow(p, ok))
               o == Organizer(p[2])
               b == [Blank EXCEPT !.at = "organize", !.job = th[p].job, !.cur = th[p].cur]
    <2>1. th[p].at = "put" /\ th[p].job \in Jobs /\ ok \in BOOLEAN
      BY <1>3, RowOps DEF RowPut, Present
    <2>2. t \in Thread /\ Phase(p, t) /\ Knows(p, t)
      BY <2>1, AfterRows
    <2>3. rows' \in [Jobs -> Row]
      BY <1>0, <1>3, <2>1, Writes DEF RowPut, TypeInv, TypeOK, Thread
    <2>4. CASE th[p].op # "stamp"
      <3>1. Tame
        BY <1>3, <2>3 DEF RowPut, Tame, TypeInv, TypeOK, torrentVars, procVars, histVars
      <3>2. th' = [th EXCEPT ![p] = t]
        BY <1>3, <2>4 DEF RowPut
      <3> HIDE DEF t
      <3>3. QED
        BY <2>2, <3>1, <3>2, OneThreadStep
    <2>5. CASE th[p].op = "stamp"
      <3>1. p[1] = "wait" /\ p[2] \in Dls /\ p = Waiter(p[2]) /\ o \in Threads /\ o # p /\ o[1] = "org"
            /\ o \in Spawned
        BY <2>1, <2>5, RowOps, ThreadNames
      <3>2. th[p].cur \in Dls /\ "organize" \in Steps
        BY <1>0, <2>1, <3>1, ThreadNames DEF Knows, Steps
      <3>3. b \in Thread /\ b.at = "organize" /\ b.job = th[p].job /\ b.cur = th[p].cur /\ b.op = "none"
        BY <2>1, <3>2, Constants DEF Blank, Thread
      <3>4. Phase(o, b)
        BY <3>1, <3>3 DEF Phase, OrganizerPhase
      <3>5. Knows(o, b)
        BY <2>1, <3>1, <3>2, <3>3 DEF Knows, IsStarting
      <3>6. th' = [th EXCEPT ![p] = t, ![o] = b]
        BY <1>3, <2>5 DEF RowPut
      <3>7. ObjectsGain /\ dl' = dl
        BY <1>3 DEF RowPut, ObjectsGain, TypeInv, TypeOK
      <3> HIDE DEF t, b, o
      <3>8. th' \in [Threads -> Thread]
        BY <2>2, <3>1, <3>3, <3>6 DEF TypeInv, TypeOK
      <3>9. ASSUME NEW q \in Threads PROVE Phase(q, th'[q]) /\ Knows(q, th[q])'
        <4>1. CASE q = p
          BY <2>2, <3>1, <3>6, <3>7, <4>1 DEF Knows, IsStarting, TypeInv, TypeOK
        <4>2. CASE q = o
          BY <3>1, <3>4, <3>5, <3>6, <3>7, <4>2 DEF Knows, IsStarting, TypeInv, TypeOK
        <4>3. CASE q # p /\ q # o
          BY <3>6, <3>7, <4>3, ThreadsKeep DEF TypeInv, TypeOK
        <4>4. QED
          BY <4>1, <4>2, <4>3
      <3>10. TypeOK'
        BY <1>3, <2>3, <3>8 DEF RowPut, TypeInv, TypeOK, torrentVars, procVars, histVars
      <3>11. ThreadsInv' /\ ObjectsInv' /\ EntriesInv'
        BY <1>3, <3>7, <3>9 DEF RowPut, ThreadsInv, TypeInv, ObjectsInv, EntriesInv
      <3>12. QED
        BY <3>10, <3>11 DEF TypeInv
    <2>6. QED
      BY <2>4, <2>5
  <1>4. QED
    BY <1>1, <1>2, <1>3
-----------------------------------------------------------------------------
\* startDownload fills in an object, registers it, and starts its goroutines.
LEMMA RegisterSteps ==
    ASSUME TypeInv, NEW p \in Threads, NEW n \in Dls, Link(p, n) \/ Store(p, n)
    PROVE  TypeInv'
  <1>0. th[p] \in Thread /\ Phase(p, th[p]) /\ Knows(p, th[p])
    BY WhoIsWhere
  <1> DEFINE j == th[p].job
  <1>1. th[p].at \in {"claim", "store"} /\ p \notin Spawned /\ th[p].op = "start" /\ j \in Jobs
    BY <1>0, WhoIsWhere DEF Link, Store, Knows
  <1>2. PICK object \in Dl : /\ Register(p, n, object) /\ object.job = j
                             /\ object.prov = "off"
                             /\ object.tor # NoDl => object.hash \in Hashes
    <2>1. CASE Link(p, n)
      <3>1. PICK i \in Linkable(j) :
              Register(p, n, [FreeDl EXCEPT !.job = j, !.owner = DoneOf(i), !.told = dl[i].err,
                                            !.hash = dl[i].hash, !.tor = dl[i].tor])
        BY <2>1 DEF Link
      <3>2. i \in Dls /\ dl[i] \in Dl /\ DoneOf(i) \in Dls /\ dl[i].hash \in Hashes
        BY <3>1 DEF Linkable, DoneOf, TypeInv, TypeOK, Dl, ObjectsInv
      <3>3. dl[i].err \in Results /\ dl[i].tor \in Dls \cup {NoDl}
        BY <3>2 DEF Dl
      <3> DEFINE object == [FreeDl EXCEPT !.job = j, !.owner = DoneOf(i), !.told = dl[i].err,
                                          !.hash = dl[i].hash, !.tor = dl[i].tor]
      <3>4. object \in Dl /\ object.job = j /\ object.prov = "off" /\ object.hash = dl[i].hash
        BY <1>1, <3>2, <3>3 DEF FreeDl, Dl, Results
      <3>5. QED
        BY <3>1, <3>2, <3>4
    <2>2. CASE Store(p, n)
      <3> DEFINE object == [FreeDl EXCEPT !.job = j]
      <3>1. object \in Dl /\ object.job = j /\ object.prov = "off" /\ object.tor = NoDl
        BY <1>1 DEF FreeDl, Dl, Results
      <3>2. QED
        BY <2>2, <3>1 DEF Store
    <2>3. QED
      BY <2>1, <2>2
  <1>3. dl[n] = FreeDl /\ dl' = [dl EXCEPT ![n] = object] /\ active' = [active EXCEPT ![j] = n]
        /\ th' = [th EXCEPT ![p] = [th[p] EXCEPT !.at = "get", !.cur = n]]
    BY <1>0, <1>2 DEF Register, Unused, TypeInv, TypeOK, Thread
  <1>4. dl' \in [Dls -> Dl] /\ active' \in [Jobs -> Dls \cup {NoDl}]
    BY <1>1, <1>2, <1>3 DEF TypeInv, TypeOK
  <1>5. linked' \in SUBSET Jobs
    BY <1>1 DEF Link, Store, TypeInv, TypeOK
  <1>6. ObjectsGain
    BY <1>2, <1>3, <1>4, Constants DEF ObjectsGain, TypeInv, TypeOK
  <1>7. "get" \in Steps
    BY DEF Steps
  <1>8. PICK t \in Thread : /\ th' = [th EXCEPT ![p] = t]
                            /\ t.at = "get" /\ t.op = "start" /\ t.job = j /\ t.cur = n
    <2> DEFINE u == [th[p] EXCEPT !.at = "get", !.cur = n]
    <2>1. u \in Thread /\ u.at = "get" /\ u.op = "start" /\ u.job = j /\ u.cur = n
      BY <1>0, <1>1, <1>7 DEF Thread
    <2> HIDE DEF u
    <2>2. th' = [th EXCEPT ![p] = u]
      BY <1>3 DEF u
    <2>3. QED
      BY <2>1, <2>2
  <1>9. Phase(p, t)
    BY <1>0, <1>1, <1>8, ThreadNames DEF Phase, LoopPhase, CallerPhase
  <1>10. Knows(p, t)'
    BY <1>1, <1>2, <1>3, <1>8, ThreadNames DEF Knows, IsStarting, TypeInv, TypeOK
  <1>11. th' \in [Threads -> Thread] /\ ThreadsInv'
    BY <1>6, <1>8, <1>9, <1>10, OneThreadMoves
  <1>12. TypeOK'
    BY <1>2, <1>4, <1>5, <1>11 DEF Register, TypeInv, TypeOK, torrentVars, procVars
  <1>13. ObjectsInv'
    <2> SUFFICES ASSUME NEW k \in Dls
                 PROVE  /\ dl'[k].prov # "off" => dl'[k].job \in Jobs
                        /\ dl'[k].tor # NoDl => dl'[k].hash \in Hashes
                        /\ dl'[k] = FreeDl \/ dl'[k].job \in Jobs
      BY DEF ObjectsInv
    <2>1. CASE k = n
      BY <1>1, <1>2, <1>3, <2>1 DEF TypeInv, TypeOK
    <2>2. CASE k # n
      BY <1>3, <2>2 DEF TypeInv, TypeOK, ObjectsInv
    <2>3. QED
      BY <2>1, <2>2
  <1>14. EntriesInv'
    <2> SUFFICES ASSUME NEW k \in Jobs, active'[k] # NoDl PROVE dl'[active'[k]].job = k
      BY DEF EntriesInv
    <2>1. CASE k = j
      BY <1>1, <1>2, <1>3, <2>1 DEF TypeInv, TypeOK
    <2>2. CASE k # j
      BY <1>1, <1>2, <1>3, <2>2, Constants DEF TypeInv, TypeOK, EntriesInv
    <2>3. QED
      BY <2>1, <2>2
  <1>15. QED
    BY <1>11, <1>12, <1>13, <1>14 DEF TypeInv

LEMMA SpawnSteps ==
    ASSUME TypeInv, NEW p \in Threads, Spawn(p)
    PROVE  TypeInv'
  <1> DEFINE i == th[p].cur
             w == Waiter(i)
             s == [Blank EXCEPT !.at = Back(p)]
             b == [Blank EXCEPT !.at = "select", !.job = dl[i].job, !.cur = i]
  <1>0. th[p] \in Thread /\ Phase(p, th[p]) /\ Knows(p, th[p])
    BY WhoIsWhere
  <1>1. p \notin Spawned /\ i \in Dls /\ dl[i].job = th[p].job /\ th[p].job \in Jobs
    BY <1>0, WhoIsWhere DEF Spawn, Knows, IsStarting
  <1>2. w \in Threads /\ w # p /\ w[1] = "wait" /\ w[2] = i /\ w \in Spawned
    BY <1>1, ThreadNames
  <1>3. Back(p) \in {"queue", "idle"} /\ (p = Loop \/ Back(p) = "idle") /\ Back(p) \in Steps
    BY <1>1, Backs DEF Steps
  <1>4. s \in Thread /\ s.at = Back(p) /\ s.op = "none"
    BY <1>3, Blanks
  <1>5. b \in Thread /\ b.at = "select" /\ b.job = dl[i].job /\ b.cur = i /\ b.op = "none"
    <2>1. "select" \in Steps
      BY DEF Steps
    <2>2. QED
      BY <2>1, <1>1, Constants DEF Blank, Thread
  <1>6. dl' \in [Dls -> Dl] /\ \A k \in Dls : dl'[k].job = dl[k].job /\ dl'[k].hash = dl[k].hash
                                              /\ dl'[k].tor = dl[k].tor /\ (k # i => dl'[k] = dl[k])
    BY <1>1 DEF Spawn, TypeInv, TypeOK, Dl
  <1>7. ObjectsGain
    BY <1>6 DEF ObjectsGain
  <1>8. th' = [th EXCEPT ![p] = s, ![w] = b]
    BY DEF Spawn
  <1> HIDE DEF s, b, w
  <1>9. th' \in [Threads -> Thread]
    BY <1>2, <1>4, <1>5, <1>8 DEF TypeInv, TypeOK
  <1>10. ASSUME NEW q \in Threads PROVE Phase(q, th'[q]) /\ Knows(q, th[q])'
    <2>1. CASE q = p
      <3>1. th'[q] = s
        BY <1>2, <1>8, <2>1 DEF TypeInv, TypeOK
      <3>2. Phase(q, s)
        BY <1>1, <1>3, <1>4, <2>1, ThreadNames DEF Phase, LoopPhase, CallerPhase
      <3>3. QED
        BY <3>1, <3>2, <1>1, <1>3, <1>4, <2>1, ThreadNames DEF Knows, IsStarting
    <2>2. CASE q = w
      BY <1>1, <1>2, <1>5, <1>6, <1>8, <2>2 DEF Phase, WaiterPhase, Knows, IsStarting, TypeInv, TypeOK
    <2>3. CASE q # p /\ q # w
      BY <1>7, <1>8, <2>3, ThreadsKeep DEF TypeInv, TypeOK
    <2>4. QED
      BY <2>1, <2>2, <2>3
  <1>11. TypeOK'
    BY <1>6, <1>9 DEF Spawn, TypeInv, TypeOK, torrentVars, procVars, histVars
  <1>12. ThreadsInv'
    BY <1>10 DEF ThreadsInv
  <1>13. ObjectsInv'
    BY <1>1, <1>6 DEF TypeInv, TypeOK, ObjectsInv
  <1>14. EntriesInv'
    BY <1>6 DEF Spawn, TypeInv, TypeOK, EntriesInv
  <1>15. QED
    BY <1>11, <1>12, <1>13, <1>14 DEF TypeInv
-----------------------------------------------------------------------------
\* A provider changes its own object, and never its job.
LEMMA ObjectChanges ==
    ASSUME TypeInv, NEW i \in Dls, NEW d \in Dl, dl' = [dl EXCEPT ![i] = d],
           dl[i].prov # "off", d.job = dl[i].job, d.hash = dl[i].hash \/ d.hash \in Hashes,
           d.tor # NoDl => d.hash \in Hashes,
           UNCHANGED <<rows, active, tstate, closed, clientShut, th, todo, procVars, linked>>,
           registry' \in [Hashes -> Dls \cup {NoDl}], okJobs' \in SUBSET Jobs
    PROVE  TypeInv'
  <1>1. dl' \in [Dls -> Dl] /\ dl'[i] = d /\ (\A k \in Dls : k # i => dl'[k] = dl[k])
    BY DEF TypeInv, TypeOK
  <1>2. dl[i].job \in Jobs
    BY DEF TypeInv, ObjectsInv
  <1>3. ObjectsGain
    BY <1>1 DEF ObjectsGain
  <1>4. ThreadsInv'
    BY <1>3, ThreadsKeep DEF ThreadsInv
  <1>5. TypeOK'
    BY <1>1 DEF TypeInv, TypeOK, procVars
  <1>6. ObjectsInv' /\ EntriesInv'
    BY <1>1, <1>2 DEF TypeInv, TypeOK, ObjectsInv, EntriesInv
  <1>7. QED
    BY <1>4, <1>5, <1>6 DEF TypeInv

LEMMA ProviderEnds ==
    ASSUME TypeInv, NEW i \in Dls, NEW result \in Results, dl[i].prov # "off",
           EndProvider(i, result), OnlyDls
    PROVE  TypeInv'
  <1> DEFINE d == [dl[i] EXCEPT !.prov = "ended", !.err = result]
  <1>0. dl[i] \in Dl /\ (dl[i].tor # NoDl => dl[i].hash \in Hashes) /\ dl[i].job \in Jobs
    BY DEF TypeInv, TypeOK, ObjectsInv
  <1>1. dl' = [dl EXCEPT ![i] = d]
    BY <1>0 DEF EndProvider, TypeInv, TypeOK, Dl
  <1>2. d \in Dl /\ d.job = dl[i].job /\ d.hash = dl[i].hash /\ d.tor = dl[i].tor
    BY <1>0 DEF Dl
  <1>3. okJobs' \in SUBSET Jobs
    BY <1>0 DEF EndProvider, TypeInv, TypeOK
  <1>4. registry' \in [Hashes -> Dls \cup {NoDl}]
        /\ UNCHANGED <<rows, active, tstate, closed, clientShut, th, todo, procVars, linked>>
    BY DEF OnlyDls, torrentVars, TypeInv, TypeOK
  <1> HIDE DEF d
  <1>5. QED
    BY <1>0, <1>1, <1>2, <1>3, <1>4, ObjectChanges

LEMMA ProviderSteps ==
    ASSUME TypeInv, NEW i \in Dls, ProviderStep(i)
    PROVE  TypeInv'
  <1> DEFINE h == JobHash[dl[i].job]
  <1>0. /\ dl[i] \in Dl /\ (dl[i].tor # NoDl => dl[i].hash \in Hashes)
        /\ dl[i].prov # "off" => dl[i].job \in Jobs /\ h \in Hashes /\ registry[h] \in Dls \cup {NoDl}
    BY JobsAssumption DEF TypeInv, TypeOK, ObjectsInv
  <1>1. CASE AddMagnet(i)
    <2>1. PICK t \in Dls :
            /\ registry' = [registry EXCEPT ![h] = t]
            /\ dl' = [dl EXCEPT ![i].hash = h, ![i].tor = t, ![i].prov = "poll"]
      BY <1>0, <1>1 DEF AddMagnet
    <2> DEFINE d == [dl[i] EXCEPT !.hash = h, !.tor = t, !.prov = "poll"]
    <2>2. dl[i].prov = "begin" /\ h \in Hashes
      BY <1>0, <1>1 DEF AddMagnet
    <2>3. dl' = [dl EXCEPT ![i] = d]
      BY <1>0, <2>1 DEF TypeInv, TypeOK, Dl
    <2>4. d \in Dl /\ d.job = dl[i].job /\ d.hash \in Hashes
      BY <1>0, <2>2 DEF Dl
    <2>5. registry' \in [Hashes -> Dls \cup {NoDl}] /\ okJobs' \in SUBSET Jobs
          /\ UNCHANGED <<rows, active, tstate, closed, clientShut, th, todo, procVars, linked>>
      BY <1>1, <2>1, <2>2 DEF AddMagnet, TypeInv, TypeOK, histVars
    <2> HIDE DEF d, h
    <2>6. QED
      BY <2>2, <2>3, <2>4, <2>5, ObjectChanges
  <1>2. CASE GetTorrent(i)
    <2>1. dl[i].prov = "begin" /\ h \in Hashes /\ dl[i].job \in Jobs
      BY <1>0, <1>2 DEF GetTorrent
    <2>2. registry' \in [Hashes -> Dls \cup {NoDl}] /\ okJobs' \in SUBSET Jobs
          /\ UNCHANGED <<rows, active, tstate, closed, clientShut, th, todo, procVars, linked>>
      BY <1>2 DEF GetTorrent, OnlyDls, torrentVars, TypeInv, TypeOK
    <2>3. CASE registry[h] = NoDl
      <3> DEFINE d == [dl[i] EXCEPT !.hash = h, !.prov = "ended", !.err = "fail"]
      <3>1. dl' = [dl EXCEPT ![i] = d]
        BY <1>0, <1>2, <2>3 DEF GetTorrent, TypeInv, TypeOK, Dl
      <3>2. d \in Dl /\ d.job = dl[i].job /\ d.hash \in Hashes
        BY <1>0, <2>1 DEF Dl, Results
      <3> HIDE DEF d, h
      <3>3. QED
        BY <2>1, <2>2, <3>1, <3>2, ObjectChanges
    <2>4. CASE registry[h] # NoDl
      <3> DEFINE d == [dl[i] EXCEPT !.hash = h, !.prov = "poll", !.tor = registry[h]]
      <3>1. dl' = [dl EXCEPT ![i] = d]
        BY <1>0, <1>2, <2>4 DEF GetTorrent, TypeInv, TypeOK, Dl
      <3>2. d \in Dl /\ d.job = dl[i].job /\ d.hash \in Hashes
        BY <1>0, <2>1 DEF Dl
      <3> HIDE DEF d, h
      <3>3. QED
        BY <2>1, <2>2, <3>1, <3>2, ObjectChanges
    <2>5. QED
      BY <2>3, <2>4
  <1>3. CASE NoTorrent(i) \/ UsenetBegin(i)
    <2>1. PICK s \in {"poll", "fetch"} : dl' = [dl EXCEPT ![i].prov = s]
      BY <1>3 DEF NoTorrent, UsenetBegin
    <2> DEFINE d == [dl[i] EXCEPT !.prov = s]
    <2>2. dl' = [dl EXCEPT ![i] = d] /\ dl[i].prov # "off"
      BY <1>0, <1>3, <2>1 DEF NoTorrent, UsenetBegin, TypeInv, TypeOK, Dl
    <2>3. d \in Dl /\ d.job = dl[i].job /\ d.hash = dl[i].hash /\ d.tor = dl[i].tor
      BY <1>0 DEF Dl
    <2>4. registry' \in [Hashes -> Dls \cup {NoDl}] /\ okJobs' \in SUBSET Jobs
          /\ UNCHANGED <<rows, active, tstate, closed, clientShut, th, todo, procVars, linked>>
      BY <1>3 DEF NoTorrent, UsenetBegin, OnlyDls, torrentVars, TypeInv, TypeOK
    <2> HIDE DEF d, h
    <2>5. QED
      BY <1>0, <2>2, <2>3, <2>4, ObjectChanges
  <1>4. CASE AddMagnetAfterClose(i)
    BY <1>4, DownTypeInv DEF AddMagnetAfterClose, Panic, TypeInv, TypeOK
  <1>5. CASE PollEnds(i) \/ PollCancelled(i) \/ UsenetEnds(i)
    BY <1>5, ProviderEnds, EnvAssumption DEF PollEnds, PollCancelled, UsenetEnds, Results
  <1>6. QED
    BY <1>1, <1>2, <1>3, <1>4, <1>5 DEF ProviderStep
-----------------------------------------------------------------------------
\* The calls of the API.
LEMMA Calls ==
    ASSUME TypeInv, NEW c \in Callers, NEW j \in Jobs, NEW i \in Dls \cup {NoDl},
           NEW s \in {"get", "lookup", "cleanup", "resume"}, NEW o \in Ops, Call(c, j, i, s, o),
           s = "get" => o = "paused", s = "resume" => o = "start", s = "cleanup" => o = "cancel",
           s = "lookup" => o \in {"cancel", "stopseed"} /\ i \in Dls /\ dl[i].hash \in Hashes
    PROVE  TypeInv'
  <1> DEFINE p == Caller(c)
             t == [Blank EXCEPT !.at = s, !.op = o, !.job = j, !.cur = i]
  <1>1. p \in Threads /\ p[1] = "call" /\ p \notin Spawned /\ s \in Steps /\ Blank \in Thread
    BY ThreadNames, Constants DEF Steps
  <1>2. t \in Thread /\ t.at = s /\ t.op = o /\ t.job = j /\ t.cur = i
    BY <1>1 DEF Thread
  <1>3. Phase(p, t) /\ Knows(p, t)
    BY <1>1, <1>2 DEF Phase, CallerPhase, Knows, IsStarting
  <1>4. th' = [th EXCEPT ![p] = t] /\ Tame
    BY TameThreads DEF Call
  <1> HIDE DEF p, t
  <1>5. QED
    BY <1>1, <1>2, <1>3, <1>4, OneThreadStep

LEMMA ApiSteps ==
    ASSUME TypeInv, NEW c \in Callers, NEW j \in Jobs, ApiCall(c, j)
    PROVE  TypeInv'
  <1>0. active[j] \in Dls \cup {NoDl} /\ (HasHash(active[j]) => dl[active[j]].hash \in Hashes)
        /\ (HasHash(active[j]) => active[j] \in Dls)
    BY DEF HasHash, TypeInv, TypeOK, Dl
  <1>1. {"paused", "cancel", "stopseed", "start"} \subseteq Ops
    BY DEF Ops
  <1>2. CASE PauseDownload(c, j)
    BY <1>0, <1>1, <1>2, Calls DEF PauseDownload
  <1>3. CASE CancelDownload(c, j)
    BY <1>0, <1>1, <1>3, Calls DEF CancelDownload
  <1>4. CASE StopSeeding(c, j)
    BY <1>0, <1>1, <1>4, Calls DEF StopSeeding
  <1>5. CASE ResumeDownload(c, j)
    BY <1>0, <1>1, <1>5, Calls DEF ResumeDownload
  <1>6. QED
    BY <1>2, <1>3, <1>4, <1>5 DEF ApiCall
-----------------------------------------------------------------------------
\* The steps that are not a thread's: a new row, a torrent's report, shutdown.
LEMMA OtherSteps ==
    ASSUME TypeInv,
           (\E j \in Jobs : AddDownload(j)) \/ (\E i \in Dls : TorrentReports(i)) \/ Stop
             \/ ClientClose \/ Restart
    PROVE  TypeInv'
  <1>1. th' = th /\ dl' = dl /\ active' = active
    BY DEF AddDownload, TorrentReports, Stop, ClientClose, Restart
  <1>2. ThreadsInv' /\ ObjectsInv' /\ EntriesInv'
    BY <1>1 DEF TypeInv, ThreadsInv, ObjectsInv, EntriesInv, Knows, IsStarting
  <1>3. TypeOK'
    <2>1. ASSUME NEW j \in Jobs, AddDownload(j) PROVE TypeOK'
      <3>1. [rows[j] EXCEPT !.status = "queued"] \in Row
        BY DEF TypeInv, TypeOK, Row, Status
      <3>2. rows' \in [Jobs -> Row]
        BY <2>1, <3>1 DEF AddDownload, TypeInv, TypeOK
      <3>3. QED
        BY <2>1, <3>2 DEF AddDownload, TypeInv, TypeOK, torrentVars, procVars, histVars
    <2>2. ASSUME NEW i \in Dls, TorrentReports(i) PROVE TypeOK'
      <3>1. tstate' \in [Dls -> {"working", "complete", "error"}]
        BY <2>2, EnvAssumption DEF TorrentReports, TypeInv, TypeOK
      <3>2. QED
        BY <2>2, <3>1 DEF TorrentReports, TypeInv, TypeOK, procVars, histVars
    <2>3. CASE Stop
      BY <2>3 DEF Stop, TypeInv, TypeOK, torrentVars, histVars
    <2>4. CASE ClientClose
      <3>1. closed' \in SUBSET Dls /\ registry' \in [Hashes -> Dls \cup {NoDl}]
        BY <2>4 DEF ClientClose, Registered, TypeInv, TypeOK
      <3>2. QED
        BY <2>4, <3>1 DEF ClientClose, TypeInv, TypeOK, procVars, histVars
    <2>5. CASE Restart
      BY <2>5 DEF Restart, TypeInv, TypeOK, torrentVars, histVars
    <2>6. QED
      BY <2>1, <2>2, <2>3, <2>4, <2>5
  <1>4. QED
    BY <1>2, <1>3 DEF TypeInv

LEMMA Panics ==
    ASSUME TypeInv, Panic \/ Exit \/ Crash
    PROVE  TypeInv'
  <1>1. panicked \in BOOLEAN /\ crashes \in 0..MaxCrashes
    BY DEF TypeInv, TypeOK
  <1>2. Down /\ panicked' \in BOOLEAN
    BY <1>1 DEF Panic, Exit, Crash
  <1>3. crashes' \in 0..MaxCrashes
    BY <1>1, BoundAssumption DEF Panic, Exit, Crash
  <1>4. QED
    BY <1>2, <1>3, DownTypeInv

LEMMA NextTypeInv == TypeInv /\ [Next]_vars => TypeInv'
  <1> SUFFICES ASSUME TypeInv, [Next]_vars PROVE TypeInv'
    OBVIOUS
  <1>1. CASE LoopStep
    BY <1>1, LoopSteps
  <1>2. ASSUME NEW p \in Threads, ThreadStep(p) PROVE TypeInv'
    BY <1>2, ClaimSteps, CleanupSteps, RegisterSteps, SpawnSteps, RowSteps, RemoveSteps, EndSteps,
       OrganizeSteps, Panics
    DEF ThreadStep, ErrorMsgPanics, CloseAgainPanics
  <1>3. ASSUME NEW i \in Dls, ProviderStep(i) \/ TorrentReports(i) \/ WaiterSelect(i) PROVE TypeInv'
    BY <1>3, ProviderSteps, OtherSteps, EndSteps, ThreadNames
  <1>4. ASSUME NEW c \in Callers, NEW j \in Jobs, ApiCall(c, j) PROVE TypeInv'
    BY <1>4, ApiSteps
  <1>5. CASE (\E j \in Jobs : AddDownload(j)) \/ Stop \/ ClientClose \/ Restart
    BY <1>5, OtherSteps
  <1>6. CASE Exit \/ Crash
    BY <1>6, Panics
  <1>7. CASE UNCHANGED vars
    <2>1. TypeOK' /\ ObjectsInv' /\ EntriesInv'
      BY <1>7 DEF vars, torrentVars, procVars, histVars, TypeInv, TypeOK, ObjectsInv, EntriesInv
    <2>2. ThreadsInv'
      BY <1>7 DEF vars, TypeInv, ThreadsInv, Knows, IsStarting
    <2>3. QED
      BY <2>1, <2>2 DEF TypeInv
  <1>8. QED
    BY <1>1, <1>2, <1>3, <1>4, <1>5, <1>6, <1>7 DEF Next, Running

LEMMA AlwaysTypeInv == Spec => []TypeInv
  BY InitTypeInv, NextTypeInv, PTL DEF Spec

\* The variables keep their types, whatever the goroutines' order.
THEOREM TypeCorrect == Spec => []TypeOK
  <1>1. TypeInv => TypeOK
    BY DEF TypeInv
  <1>2. QED
    BY <1>1, AlwaysTypeInv, PTL
-----------------------------------------------------------------------------
(***************************************************************************)
(* Two safety theorems, on top of the type invariant: no entry of          *)
(* activeJobs is left without a goroutine that takes it out, and a row     *)
(* says seeding only for a finished or linked download.                    *)
(***************************************************************************)

\* Every entry has an owner; with EntriesInv this is NoLeakedEntry.
OwnersInv == \A j \in Jobs : active[j] # NoDl => Starting(active[j]) \/ Waiting(active[j])

\* One thread moves (and may start an organizer), and entries are removed at
\* most; an owner stays one, or the entry of its job is removed.
OwnerMoves(p) ==
    /\ \A q \in Threads \ {p} : q[1] # "org" => th'[q] = th[q]
    /\ \A j \in Jobs : active'[j] \in {active[j], NoDl}
    /\ IsStarting(th[p]) => \/ IsStarting(th'[p]) /\ th'[p].cur = th[p].cur
                            \/ active'[th[p].job] = NoDl
    /\ p[1] = "wait" /\ th[p].at # "off" => th'[p].at # "off" \/ active'[th[p].job] = NoDl

LEMMA OwnersKept ==
    ASSUME TypeInv, OwnersInv, NEW p \in Threads, OwnerMoves(p)
    PROVE  OwnersInv'
  <1> SUFFICES ASSUME NEW j \in Jobs, active'[j] # NoDl
               PROVE  Starting(active[j])' \/ Waiting(active[j])'
    BY DEF OwnersInv
  <1> DEFINE k == active[j]
  <1>1. active'[j] = k /\ k # NoDl /\ k \in Dls /\ dl[k].job = j
    BY DEF OwnerMoves, TypeInv, TypeOK, EntriesInv
  <1>2. ASSUME NEW q \in Threads, IsStarting(th[q]), th[q].cur = k
        PROVE  Starting(active[j])'
    <2>1. q[1] # "org" /\ th[q].job = j
      BY <1>1, <1>2, ThreadNames
      DEF TypeInv, ThreadsInv, Phase, OrganizerPhase, IsStarting, Knows
    <2>2. IsStarting(th'[q]) /\ th'[q].cur = k
      BY <1>1, <1>2, <2>1 DEF OwnerMoves
    <2>3. QED
      BY <1>1, <2>2 DEF Starting, IsStarting
  <1>3. ASSUME th[Waiter(k)].at # "off"
        PROVE  Waiting(active[j])'
    <2>1. Waiter(k) \in Threads /\ Waiter(k)[1] = "wait" /\ Waiter(k)[2] = k
      BY <1>1, ThreadNames
    <2>2. th[Waiter(k)].job = j
      BY <1>1, <1>3, <2>1 DEF TypeInv, ThreadsInv, Knows
    <2>3. th'[Waiter(k)].at # "off"
      BY <1>1, <1>3, <2>1, <2>2 DEF OwnerMoves
    <2>4. QED
      BY <1>1, <2>3 DEF Waiting
  <1>4. Starting(k) \/ Waiting(k)
    BY <1>1 DEF OwnersInv
  <1>5. QED
    BY <1>2, <1>3, <1>4 DEF Starting, Waiting, IsStarting

LEMMA InitOwners == Init => OwnersInv
  BY DEF Init, OwnersInv

\* The process ended: there are no entries.
LEMMA DownOwners == Down => OwnersInv'
  BY DEF Down, OwnersInv

\* What Goto and Leave do to the thread that moves.
LEMMA Moves ==
    ASSUME TypeInv, NEW p \in Threads, NEW s \in Steps
    PROVE  /\ Goto(p, s) => /\ th'[p] = [th[p] EXCEPT !.at = s] /\ th'[p].at = s
                            /\ th'[p].op = th[p].op /\ th'[p].cur = th[p].cur
                            /\ th'[p].job = th[p].job
                            /\ \A q \in Threads \ {p} : th'[q] = th[q]
           /\ Leave(p, s) => /\ th'[p].at = s /\ th'[p].op = "none" /\ th'[p].copy = NoRow
                             /\ \A q \in Threads \ {p} : th'[q] = th[q]
  <1>1. th \in [Threads -> Thread] /\ th[p] \in Thread
    BY DEF TypeInv, TypeOK
  <1>2. ASSUME Goto(p, s)
        PROVE  /\ th'[p] = [th[p] EXCEPT !.at = s] /\ th'[p].at = s
               /\ th'[p].op = th[p].op /\ th'[p].cur = th[p].cur /\ th'[p].job = th[p].job
               /\ \A q \in Threads \ {p} : th'[q] = th[q]
    BY <1>1, <1>2 DEF Goto, Thread
  <1>3. ASSUME Leave(p, s)
        PROVE  /\ th'[p].at = s /\ th'[p].op = "none" /\ th'[p].copy = NoRow
               /\ \A q \in Threads \ {p} : th'[q] = th[q]
    BY <1>1, <1>3 DEF Leave, Blank
  <1>4. QED
    BY <1>2, <1>3
-----------------------------------------------------------------------------
LEMMA LoopOwners == ASSUME TypeInv, OwnersInv, LoopStep PROVE OwnersInv'
  <1>1. active' = active /\ th[Loop].at \in {"idle", "queue", "report"}
    BY DEF LoopStep, Tick, SnapshotActive, PassDone, LoopExit, NextQueued, ReportProgress, OnlyThreads
  <1>2. \A q \in Threads \ {Loop} : th'[q] = th[q]
    BY DEF LoopStep, Tick, SnapshotActive, PassDone, LoopExit, NextQueued, ReportProgress, Goto,
       Leave, TypeInv, TypeOK
  <1>3. OwnerMoves(Loop)
    BY <1>1, <1>2, ThreadNames DEF OwnerMoves, IsStarting
  <1>4. QED
    BY <1>3, ThreadNames, OwnersKept

\* Steps of a thread that leave the entries alone and move no owner away.
LEMMA QuietOwners ==
    ASSUME TypeInv, OwnersInv, NEW p \in Threads,
           \/ AlreadyActive(p) \/ NotLinked(p) \/ ResumeCheck(p) \/ DeleteRow(p)
           \/ RemoveFinds(p) \/ RemoveMisses(p) \/ RemoveCloses(p)
           \/ NoLongerActive(p) \/ HandleEnd(p) \/ Organize(p) \/ NothingToOrganize(p)
    PROVE  OwnersInv'
  <1>0. th[p] \in Thread /\ Phase(p, th[p]) /\ th \in [Threads -> Thread]
    BY WhoIsWhere DEF TypeInv, TypeOK
  <1>1. active' = active
    BY DEF AlreadyActive, NotLinked, ResumeCheck, DeleteRow, RemoveFinds, RemoveMisses, RemoveCloses,
       NoLongerActive, HandleEnd, Organize, NothingToOrganize, OnlyThreads
  <1>2. ~IsStarting(th[p])
    BY DEF AlreadyActive, NotLinked, ResumeCheck, DeleteRow, RemoveFinds, RemoveMisses, RemoveCloses,
       NoLongerActive, HandleEnd, Organize, NothingToOrganize, IsStarting
  <1>3. \A q \in Threads \ {p} : th'[q] = th[q]
    BY <1>0
    DEF AlreadyActive, NotLinked, ResumeCheck, DeleteRow, RemoveFinds, RemoveMisses, RemoveCloses,
        NoLongerActive, HandleEnd, Organize, NothingToOrganize, AfterRemove, Goto, Leave
  <1>4. ASSUME p[1] = "wait", th[p].at # "off"
        PROVE  th'[p].at # "off" \/ active'[th[p].job] = NoDl
    <2>1. CASE NoLongerActive(p)
      BY <1>1, <2>1 DEF NoLongerActive
    <2>2. CASE HandleEnd(p)
      BY <1>0, <2>2 DEF HandleEnd, Thread
    <2>3. CASE RemoveFinds(p)
      BY <1>0, <2>3 DEF RemoveFinds, Thread
    <2>4. CASE RemoveMisses(p) \/ RemoveCloses(p)
      <3>1. th[p].op = "requeue" /\ AfterRemove(p)
        BY <1>0, <1>4, <2>4 DEF RemoveMisses, RemoveCloses, Phase, WaiterPhase
      <3>2. Goto(p, "get") /\ "get" \in Steps
        BY <3>1 DEF AfterRemove, Steps
      <3>3. QED
        BY <3>2, Moves
    <2>5. p \in Spawned
      BY <1>4, ThreadNames
    <2>6. ~(AlreadyActive(p) \/ NotLinked(p) \/ ResumeCheck(p) \/ DeleteRow(p) \/ Organize(p)
            \/ NothingToOrganize(p))
      BY <1>4, WhoIsWhere, <2>5
      DEF AlreadyActive, NotLinked, ResumeCheck, DeleteRow, Organize, NothingToOrganize
    <2>7. QED
      BY <2>1, <2>2, <2>3, <2>4, <2>6
  <1>5. OwnerMoves(p)
    BY <1>1, <1>2, <1>3, <1>4 DEF OwnerMoves
  <1>6. QED
    BY <1>5, OwnersKept

LEMMA CleanupOwners ==
    ASSUME TypeInv, OwnersInv, NEW p \in Threads, Cleanup(p)
    PROVE  OwnersInv'
  <1>1. th[p].job \in Jobs
    BY WhoIsWhere DEF Cleanup, Knows
  <1>2. active'[th[p].job] = NoDl /\ \A j \in Jobs : active'[j] \in {active[j], NoDl}
    BY <1>1 DEF Cleanup, TypeInv, TypeOK
  <1>3. \A q \in Threads \ {p} : th'[q] = th[q]
    BY DEF Cleanup, Goto, Leave, TypeInv, TypeOK
  <1>4. OwnerMoves(p)
    BY <1>2, <1>3 DEF OwnerMoves
  <1>5. QED
    BY <1>4, OwnersKept

LEMMA RowOwners ==
    ASSUME TypeInv, OwnersInv, NEW p \in Threads, RowMissing(p) \/ RowGet(p) \/ RowPut(p)
    PROVE  OwnersInv'
  <1>0. th[p] \in Thread /\ Phase(p, th[p]) /\ th \in [Threads -> Thread] /\ active' = active
        /\ th[p].at \in {"get", "put"}
    BY WhoIsWhere DEF TypeInv, TypeOK, RowMissing, RowGet, RowPut, OnlyThreads
  <1>1. CASE RowGet(p)
    <2>1. OwnerMoves(p)
      BY <1>0, <1>1 DEF RowGet, OwnerMoves, IsStarting, Thread
    <2>2. QED
      BY <2>1, OwnersKept
  <1>2. CASE RowMissing(p) \/ RowPut(p)
    <2>1. PICK ok \in BOOLEAN :
             \/ th' = [th EXCEPT ![p] = Continue(p, AfterRow(p, ok))]
             \/ th[p].op = "stamp" /\ \E b : th' = [th EXCEPT ![p] = Continue(p, AfterRow(p, ok)),
                                                            ![Organizer(p[2])] = b]
      BY <1>2 DEF RowMissing, RowPut, Present
    <2>2. th[p].op = "stamp" => Organizer(p[2])[1] = "org" /\ Organizer(p[2]) # p
      BY <1>0, RowOps, ThreadNames
    <2>3. th'[p] = Continue(p, AfterRow(p, ok))
      BY <1>0, <2>1, <2>2
    <2>4. \A q \in Threads \ {p} : q[1] # "org" => th'[q] = th[q]
      BY <1>0, <2>1, <2>2
    <2>5. IsStarting(th[p]) => IsStarting(th'[p]) /\ th'[p].cur = th[p].cur
      <3> SUFFICES ASSUME IsStarting(th[p]) PROVE IsStarting(th'[p]) /\ th'[p].cur = th[p].cur
        OBVIOUS
      <3>1. th[p].op = "start"
        BY DEF IsStarting
      <3> DEFINE n == AfterRow(p, ok)
      <3>2. n[1] \in {"spawn", "cleanup"} /\ n[2] = "start"
        BY <3>1 DEF AfterRow, AfterStart
      <3>3. th'[p] = [th[p] EXCEPT !.at = n[1], !.op = n[2], !.copy = NoRow]
        BY <2>3, <3>2 DEF Continue
      <3> HIDE DEF n
      <3>4. QED
        BY <1>0, <3>2, <3>3 DEF IsStarting, Thread
    <2>6. p[1] = "wait" => th'[p].at # "off"
      <3> SUFFICES ASSUME p[1] = "wait" PROVE th'[p].at # "off"
        OBVIOUS
      <3>1. th[p].op \in {"seeding", "stamp", "failed", "errmsg", "requeue"}
        BY <1>0 DEF Phase, WaiterPhase
      <3> DEFINE n == AfterRow(p, ok)
      <3>2. n[1] \in {"get", "cleanup"}
        BY <3>1 DEF AfterRow, AfterStamp
      <3>3. th'[p] = [th[p] EXCEPT !.at = n[1], !.op = n[2], !.copy = NoRow]
        BY <2>3, <3>2 DEF Continue
      <3> HIDE DEF n
      <3>4. QED
        BY <1>0, <3>2, <3>3 DEF Thread
    <2>7. OwnerMoves(p)
      BY <1>0, <2>4, <2>5, <2>6 DEF OwnerMoves
    <2>8. QED
      BY <2>7, OwnersKept
  <1>3. QED
    BY <1>1, <1>2

\* The thread that registers an object is starting it.
LEMMA RegisterOwners ==
    ASSUME TypeInv, OwnersInv, NEW p \in Threads, NEW n \in Dls, Link(p, n) \/ Store(p, n)
    PROVE  OwnersInv'
  <1>0. th[p] \in Thread /\ th \in [Threads -> Thread] /\ th[p].op = "start" /\ th[p].job \in Jobs
        /\ th[p].at \in {"claim", "store"} /\ p \notin Spawned
    BY WhoIsWhere DEF TypeInv, TypeOK, Link, Store, Knows
  <1>1. th' = [th EXCEPT ![p].at = "get", ![p].cur = n] /\ active' = [active EXCEPT ![th[p].job] = n]
    BY DEF Link, Store, Register
  <1>2. IsStarting(th'[p]) /\ th'[p].cur = n
    BY <1>0, <1>1 DEF IsStarting, Thread
  <1>3. \A q \in Threads \ {p} : th'[q] = th[q]
    BY <1>0, <1>1
  <1>4. ~IsStarting(th[p]) /\ (\A k \in Dls : Waiter(k) \in Threads /\ Waiter(k) # p)
    BY <1>0, ThreadNames DEF IsStarting
  <1> SUFFICES ASSUME NEW j \in Jobs, active'[j] # NoDl
               PROVE  Starting(active[j])' \/ Waiting(active[j])'
    BY DEF OwnersInv
  <1>5. CASE j = th[p].job
    BY <1>1, <1>2, <1>5 DEF Starting, IsStarting, TypeInv, TypeOK
  <1>6. CASE j # th[p].job
    <2>1. active'[j] = active[j] /\ active[j] # NoDl /\ active[j] \in Dls
      BY <1>1, <1>6 DEF TypeInv, TypeOK
    <2>2. Starting(active[j]) => Starting(active[j])'
      BY <1>3, <1>4, <2>1 DEF Starting, IsStarting
    <2>3. Waiting(active[j]) => Waiting(active[j])'
      BY <1>3, <1>4, <2>1 DEF Waiting
    <2>4. QED
      BY <2>1, <2>2, <2>3 DEF OwnersInv
  <1>7. QED
    BY <1>5, <1>6

\* The starter hands its object over to the waiter.
LEMMA SpawnOwners ==
    ASSUME TypeInv, OwnersInv, NEW p \in Threads, Spawn(p)
    PROVE  OwnersInv'
  <1> DEFINE i == th[p].cur
  <1>0. th \in [Threads -> Thread] /\ p \notin Spawned /\ i \in Dls /\ active' = active
    BY WhoIsWhere DEF TypeInv, TypeOK, Spawn, Knows, IsStarting
  <1>1. Waiter(i) \in Threads /\ Waiter(i) # p /\ th'[Waiter(i)].at # "off"
    <2>1. Waiter(i) \in Threads /\ Waiter(i) # p
      BY <1>0, ThreadNames
    <2>2. PICK b : th'[Waiter(i)] = b /\ b = [Blank EXCEPT !.at = "select", !.job = dl[i].job, !.cur = i]
      BY <1>0, <2>1 DEF Spawn
    <2>3. b.at = "select"
      BY <2>2 DEF Blank
    <2>4. QED
      BY <2>1, <2>2, <2>3
  <1>2. \A q \in Threads : q # p /\ q # Waiter(i) => th'[q] = th[q]
    BY <1>0 DEF Spawn
  <1> HIDE DEF i
  <1> SUFFICES ASSUME NEW j \in Jobs, active'[j] # NoDl
               PROVE  Starting(active[j])' \/ Waiting(active[j])'
    BY DEF OwnersInv
  <1> DEFINE k == active[j]
  <1>3. k # NoDl /\ k \in Dls /\ active'[j] = k
    BY <1>0 DEF TypeInv, TypeOK
  <1>4. CASE k = i
    BY <1>1, <1>3, <1>4 DEF Waiting
  <1>5. CASE k # i
    <2>1. Waiting(k) => Waiting(active[j])'
      <3>1. Waiter(k) \in Threads /\ Waiter(k) # p /\ Waiter(k) # Waiter(i)
        BY <1>0, <1>3, <1>5, ThreadNames DEF i
      <3>2. QED
        BY <1>2, <1>3, <3>1 DEF Waiting
    <2>2. ASSUME NEW q \in Threads, IsStarting(th[q]), th[q].cur = k PROVE Starting(active[j])'
      <3>1. q # p /\ q # Waiter(i)
        BY <1>5, <2>2, <1>0, ThreadNames
        DEF i, TypeInv, ThreadsInv, Phase, WaiterPhase, IsStarting
      <3>2. QED
        BY <1>2, <1>3, <2>2, <3>1 DEF Starting, IsStarting
    <2>3. QED
      BY <1>3, <2>1, <2>2 DEF OwnersInv, Starting, IsStarting
  <1>6. QED
    BY <1>4, <1>5

\* The remaining steps move no owner and touch no entry.
LEMMA OtherOwners ==
    ASSUME TypeInv, OwnersInv,
           \/ \E i \in Dls : TorrentReports(i) \/ WaiterSelect(i) \/ (ProviderStep(i) /\ ~Down)
           \/ \E c \in Callers, j \in Jobs : ApiCall(c, j)
           \/ (\E j \in Jobs : AddDownload(j)) \/ Stop \/ ClientClose \/ Restart \/ UNCHANGED vars
    PROVE  OwnersInv'
  <1>1. CASE th' = th /\ active' = active
    BY <1>1 DEF OwnersInv, Starting, Waiting
  <1>2. ASSUME NEW i \in Dls, WaiterSelect(i) PROVE OwnersInv'
    <2>1. Waiter(i) \in Threads /\ th[Waiter(i)] \in Thread /\ th \in [Threads -> Thread]
          /\ active' = active /\ ~IsStarting(th[Waiter(i)])
      BY <1>2, ThreadNames
      DEF TypeInv, TypeOK, WaiterSelect, SelectDone, SelectCancelled, OnlyThreads, IsStarting
    <2>2. PICK s \in {"completion", "cancellation"}, o \in Ops :
            th' = [th EXCEPT ![Waiter(i)].at = s, ![Waiter(i)].op = o]
      BY <1>2 DEF WaiterSelect, SelectDone, SelectCancelled, Ops
    <2>3. th'[Waiter(i)].at = s /\ \A q \in Threads \ {Waiter(i)} : th'[q] = th[q]
      BY <2>1, <2>2 DEF Thread
    <2>4. OwnerMoves(Waiter(i))
      BY <2>1, <2>3 DEF OwnerMoves
    <2>5. QED
      BY <2>1, <2>4, OwnersKept
  <1>3. ASSUME NEW c \in Callers, NEW j \in Jobs, ApiCall(c, j) PROVE OwnersInv'
    <2>1. Caller(c) \in Threads /\ Caller(c)[1] = "call" /\ th[Caller(c)].at = "idle" /\ active' = active
      BY <1>3, ThreadNames
      DEF ApiCall, PauseDownload, CancelDownload, StopSeeding, ResumeDownload, Call, OnlyThreads
    <2>2. \A q \in Threads \ {Caller(c)} : th'[q] = th[q]
      BY <1>3
      DEF ApiCall, PauseDownload, CancelDownload, StopSeeding, ResumeDownload, Call, TypeInv, TypeOK
    <2>3. OwnerMoves(Caller(c))
      BY <2>1, <2>2 DEF OwnerMoves, IsStarting
    <2>4. QED
      BY <2>1, <2>3, OwnersKept
  <1>4. ASSUME NEW i \in Dls, ProviderStep(i), ~Down PROVE th' = th /\ active' = active
    BY <1>4 DEF ProviderStep, AddMagnet, AddMagnetAfterClose, GetTorrent, NoTorrent, PollEnds,
       PollCancelled, UsenetBegin, UsenetEnds, Panic, OnlyDls
  <1>5. ASSUME (\E i \in Dls : TorrentReports(i)) \/ (\E j \in Jobs : AddDownload(j)) \/ Stop
               \/ ClientClose \/ Restart \/ UNCHANGED vars
        PROVE  th' = th /\ active' = active
    BY <1>5 DEF TorrentReports, AddDownload, Stop, ClientClose, Restart, vars
  <1>6. QED
    BY <1>1, <1>2, <1>3, <1>4, <1>5

LEMMA NextOwners == TypeInv /\ OwnersInv /\ [Next]_vars => OwnersInv'
  <1> SUFFICES ASSUME TypeInv, OwnersInv, [Next]_vars PROVE OwnersInv'
    OBVIOUS
  <1>1. CASE Down
    BY <1>1, DownOwners
  <1>2. CASE LoopStep
    BY <1>2, LoopOwners
  <1>3. ASSUME NEW p \in Threads, ThreadStep(p), ~Down PROVE OwnersInv'
    BY <1>3, QuietOwners, CleanupOwners, RowOwners, RegisterOwners, SpawnOwners
    DEF ThreadStep, ErrorMsgPanics, CloseAgainPanics, Panic
  <1>4. QED
    BY <1>1, <1>2, <1>3, OtherOwners DEF Next, Running, Exit, Crash

\* NoLeakedEntry: whatever the goroutines' order, an entry of activeJobs has a
\* starter or a waiter that will take it out (startDownload, the waiter's
\* goroutine, cleanupJob, Pause, Resume, Cancel, StopSeeding).
THEOREM EntriesAreOwned == Spec => []NoLeakedEntry
  <1>1. TypeInv /\ OwnersInv => NoLeakedEntry
    BY DEF TypeInv, EntriesInv, OwnersInv, NoLeakedEntry
  <1>2. Spec => []OwnersInv
    BY InitOwners, InitTypeInv, NextOwners, AlwaysTypeInv, PTL DEF Spec
  <1>3. QED
    BY <1>1, <1>2, AlwaysTypeInv, PTL
-----------------------------------------------------------------------------
\* What justifies "seeding", wherever it is on its way to the row: in a copy that
\* is about to be written, in the waiter that decided, in the object.
Earned == okJobs \cup linked
Justified(p, t) ==
    /\ t.at = "put" /\ t.copy.status = "seeding" => t.job \in Earned
    /\ p[1] = "wait" /\ t.op = "seeding" /\ t.at \in {"completion", "get", "put"} => t.job \in Earned
Undecided(t) == t.at \notin {"put", "completion"} /\ (t.at = "get" => t.op # "seeding")
ThreadsSeed == \A p \in Threads : Justified(p, th[p])
ObjectsSeed ==
    \A i \in Dls : /\ dl[i].prov = "ended" /\ dl[i].err = "nil" => dl[i].job \in okJobs
                   /\ dl[i].owner # NoDl => dl[i].job \in linked
SeedInv == SeedingWasDownloaded /\ ThreadsSeed /\ ObjectsSeed

EarnedGrows == okJobs \subseteq okJobs' /\ linked \subseteq linked'

LEMMA InitSeed == Init => SeedInv
  <1> SUFFICES ASSUME Init PROVE SeedInv
    OBVIOUS
  <1>1. SeedingWasDownloaded
    BY DEF Init, SeedingWasDownloaded, NoRow
  <1>2. ThreadsSeed
    BY Blanks DEF Init, ThreadsSeed, Justified, ThreadsAtStart, Blank, Steps
  <1>3. ObjectsSeed
    BY Constants DEF Init, ObjectsSeed
  <1>4. QED
    BY <1>1, <1>2, <1>3 DEF SeedInv

LEMMA DownSeed == SeedInv /\ Down => SeedInv'
  <1> SUFFICES ASSUME SeedInv, Down PROVE SeedInv'
    OBVIOUS
  <1>1. SeedingWasDownloaded'
    BY DEF SeedInv, Down, SeedingWasDownloaded, histVars
  <1>2. ThreadsSeed'
    BY Blanks DEF Down, ThreadsSeed, Justified, ThreadsAtStart, Blank, Steps
  <1>3. ObjectsSeed'
    BY Constants DEF Down, ObjectsSeed
  <1>4. QED
    BY <1>1, <1>2, <1>3 DEF SeedInv

\* One thread moves (and may start an organizer), the rest is as before.
LEMMA ThreadSeeds ==
    ASSUME TypeInv, SeedInv, NEW p \in Threads, EarnedGrows, dl' = dl,
           \A q \in Threads \ {p} : th'[q] = th[q] \/ th'[q].at = "organize",
           Justified(p, th[p])',
           SeedingWasDownloaded'
    PROVE  SeedInv'
  <1>1. ASSUME NEW q \in Threads PROVE Justified(q, th[q])'
    <2>1. CASE q = p
      BY <2>1
    <2>2. CASE q # p /\ th'[q] = th[q]
      BY <2>2 DEF SeedInv, ThreadsSeed, Justified, Earned, EarnedGrows
    <2>3. CASE q # p /\ th'[q].at = "organize"
      BY <2>3 DEF Justified
    <2>4. QED
      BY <2>1, <2>2, <2>3
  <1>2. ThreadsSeed'
    BY <1>1 DEF ThreadsSeed
  <1>3. ObjectsSeed'
    BY DEF SeedInv, ObjectsSeed, EarnedGrows
  <1>4. QED
    BY <1>2, <1>3 DEF SeedInv

LEMMA RowsSeed ==
    ASSUME SeedInv, rows' = rows, EarnedGrows
    PROVE  SeedingWasDownloaded'
  BY DEF SeedInv, SeedingWasDownloaded, EarnedGrows

\* Steps after which the thread holds no row and has decided nothing.
LEMMA QuietSeed ==
    ASSUME TypeInv, SeedInv, NEW p \in Threads,
           \/ AlreadyActive(p) \/ NotLinked(p) \/ ResumeCheck(p) \/ Cleanup(p)
           \/ RemoveFinds(p) \/ RemoveMisses(p) \/ RemoveCloses(p)
           \/ NoLongerActive(p) \/ Organize(p) \/ NothingToOrganize(p)
           \/ (p = Loop /\ LoopStep)
    PROVE  SeedInv'
  <1>0. th[p] \in Thread /\ Phase(p, th[p]) /\ th \in [Threads -> Thread]
    BY WhoIsWhere DEF TypeInv, TypeOK
  <1>1. rows' = rows /\ dl' = dl /\ EarnedGrows
    BY DEF AlreadyActive, NotLinked, ResumeCheck, Cleanup, RemoveFinds, RemoveMisses, RemoveCloses,
       NoLongerActive, Organize, NothingToOrganize, OnlyThreads, EarnedGrows, histVars,
       LoopStep, Tick, SnapshotActive, PassDone, LoopExit, NextQueued, ReportProgress
  <1>2. \A q \in Threads \ {p} : th'[q] = th[q]
    BY <1>0
    DEF AlreadyActive, NotLinked, ResumeCheck, Cleanup, RemoveFinds, RemoveMisses, RemoveCloses,
        NoLongerActive, Organize, NothingToOrganize, AfterRemove, Goto, Leave,
        LoopStep, Tick, SnapshotActive, PassDone, LoopExit, NextQueued, ReportProgress
  <1>3. Justified(p, th[p])'
    <2>1. ASSUME NEW s \in Steps, Leave(p, s) PROVE Justified(p, th[p])'
      <3>1. th'[p].op = "none" /\ th'[p].copy = NoRow
        BY <2>1, Moves
      <3>2. NoRow.status = "none"
        BY DEF NoRow
      <3>3. QED
        BY <3>1, <3>2 DEF Justified
    <2>2. ASSUME NEW s \in {"store", "claim", "delete", "cleanup", "queue", "report"}, Goto(p, s)
          PROVE  Justified(p, th[p])'
      BY <2>2, Moves DEF Justified, Steps
    <2>3. ASSUME Goto(p, "get"), th[p].op # "seeding" PROVE Justified(p, th[p])'
      BY <2>3, Moves DEF Justified, Steps
    <2>4. {"off", "idle", "queue"} \subseteq Steps
      BY DEF Steps
    <2>5. CASE AlreadyActive(p) \/ NoLongerActive(p) \/ NothingToOrganize(p) \/ NotLinked(p)
               \/ ResumeCheck(p) \/ Cleanup(p)
      BY <2>1, <2>2, <2>4, <2>5
      DEF AlreadyActive, NoLongerActive, NothingToOrganize, NotLinked, ResumeCheck, Cleanup, Back, Rest
    <2>6. CASE RemoveMisses(p) \/ RemoveCloses(p)
      <3>1. AfterRemove(p) /\ th[p].op # "seeding"
        BY <1>0, <2>6, ThreadNames
        DEF RemoveMisses, RemoveCloses, Phase, WaiterPhase, OrganizerPhase, LoopPhase, CallerPhase
      <3>2. QED
        BY <2>1, <2>2, <2>3, <2>4, <3>1 DEF AfterRemove
    <2>7. CASE RemoveFinds(p)
      BY <1>0, <2>7 DEF RemoveFinds, Justified, Thread
    <2>8. CASE Organize(p)
      BY <1>0, <2>8 DEF Organize, Justified, Thread
    <2>9. CASE p = Loop /\ LoopStep
      <3>1. p[1] # "wait"
        BY <2>9, ThreadNames
      <3>2. th'[p].at # "put"
        <4>1. CASE PassDone \/ LoopExit
          BY <2>4, <2>9, <4>1, Moves, ThreadNames DEF PassDone, LoopExit
        <4>2. CASE Tick \/ SnapshotActive
          BY <1>0, <2>9, <4>2, Moves, ThreadNames DEF Tick, SnapshotActive, Goto, Thread
        <4>3. CASE \E j \in Jobs : NextQueued(j) \/ ReportProgress(j)
          BY <1>0, <2>9, <4>3 DEF NextQueued, ReportProgress, Thread
        <4>4. QED
          BY <2>9, <4>1, <4>2, <4>3 DEF LoopStep
      <3>3. QED
        BY <3>1, <3>2 DEF Justified
    <2>10. QED
      BY <2>5, <2>6, <2>7, <2>8, <2>9
  <1>4. QED
    BY <1>1, <1>2, <1>3, RowsSeed, ThreadSeeds

\* A waiter decides for "seeding" only after its own provider's nil, or linked.
LEMMA SelectSeed ==
    ASSUME TypeInv, SeedInv, NEW i \in Dls, WaiterSelect(i)
    PROVE  SeedInv'
  <1> DEFINE p == Waiter(i)
  <1>0. p \in Threads /\ p[1] = "wait" /\ p[2] = i /\ th[p] \in Thread /\ Knows(p, th[p])
        /\ th \in [Threads -> Thread] /\ th[p].at = "select" /\ dl[i].job = th[p].job
        /\ th[p].job \in Jobs
    BY ThreadNames, WhoIsWhere
    DEF TypeInv, TypeOK, WaiterSelect, SelectDone, SelectCancelled, Knows
  <1>1. OnlyThreads
    BY DEF WaiterSelect, SelectDone, SelectCancelled
  <1>2. rows' = rows /\ dl' = dl /\ EarnedGrows
    BY <1>1 DEF OnlyThreads, EarnedGrows, histVars
  <1>3. \A q \in Threads \ {p} : th'[q] = th[q]
    BY <1>0 DEF WaiterSelect, SelectDone, SelectCancelled
  <1>4. Justified(p, th[p])'
    <2>1. CASE SelectCancelled(i)
      BY <1>0, <2>1 DEF SelectCancelled, Justified, Thread
    <2>2. CASE SelectDone(i)
      <3>1. th'[p].at = "completion" /\ th'[p].job = th[p].job
            /\ th'[p].op = IF ResultFor(i) = "nil" THEN "seeding" ELSE "failed"
        BY <1>0, <2>2 DEF SelectDone, Thread
      <3>2. ResultFor(i) = "nil" => dl[i].job \in Earned
        BY <1>0, <2>2 DEF SelectDone, DoneClosed, ResultFor, DoneOf, SeedInv, ObjectsSeed, Earned
      <3>3. QED
        BY <1>0, <1>2, <3>1, <3>2 DEF Justified, Earned, EarnedGrows
    <2>3. QED
      BY <2>1, <2>2 DEF WaiterSelect
  <1>5. QED
    BY <1>0, <1>2, <1>3, <1>4, RowsSeed, ThreadSeeds

LEMMA HandleSeed ==
    ASSUME TypeInv, SeedInv, NEW p \in Threads, HandleEnd(p)
    PROVE  SeedInv'
  <1>0. th[p] \in Thread /\ th \in [Threads -> Thread] /\ Phase(p, th[p]) /\ p[1] = "wait"
    BY WhoIsWhere DEF TypeInv, TypeOK, HandleEnd
  <1>1. rows' = rows /\ dl' = dl /\ EarnedGrows
    BY DEF HandleEnd, OnlyThreads, EarnedGrows, histVars
  <1>2. \A q \in Threads \ {p} : th'[q] = th[q]
    BY <1>0 DEF HandleEnd
  <1>3. th'[p].at \in {"get", "lookup"} /\ th'[p].op = th[p].op /\ th'[p].job = th[p].job
    BY <1>0 DEF HandleEnd, Thread
  <1>4. th[p].op = "seeding" => th[p].at = "completion"
    BY <1>0 DEF HandleEnd, Phase, WaiterPhase
  <1>5. Justified(p, th[p])'
    BY <1>1, <1>3, <1>4 DEF SeedInv, ThreadsSeed, Justified, Earned, EarnedGrows
  <1>6. QED
    BY <1>1, <1>2, <1>5, RowsSeed, ThreadSeeds

\* Get copies a justified row; Update writes a justified copy or decision.
LEMMA RowSeed ==
    ASSUME TypeInv, SeedInv, NEW p \in Threads, RowMissing(p) \/ RowGet(p) \/ RowPut(p)
    PROVE  SeedInv'
  <1>0. th[p] \in Thread /\ th \in [Threads -> Thread] /\ th[p].job \in Jobs /\ dl' = dl /\ EarnedGrows
        /\ th[p].at \in {"get", "put"}
    BY WhoIsWhere, RowOps
    DEF TypeInv, TypeOK, RowMissing, RowGet, RowPut, OnlyThreads, EarnedGrows, histVars
  <1>1. CASE RowGet(p)
    <2>1. rows' = rows /\ \A q \in Threads \ {p} : th'[q] = th[q]
      BY <1>0, <1>1 DEF RowGet, OnlyThreads
    <2>2. th'[p].at = "put" /\ th'[p].copy = rows[th[p].job] /\ th'[p].op = th[p].op
          /\ th'[p].job = th[p].job /\ th[p].at = "get"
      BY <1>0, <1>1 DEF RowGet, Thread
    <2>3. Justified(p, th[p])'
      BY <1>0, <2>2 DEF SeedInv, SeedingWasDownloaded, ThreadsSeed, Justified, Earned, EarnedGrows
    <2>4. QED
      BY <1>0, <2>1, <2>3, RowsSeed, ThreadSeeds
  <1>2. ASSUME NEW ok \in BOOLEAN PROVE Undecided(Continue(p, AfterRow(p, ok)))
    <2> DEFINE n == AfterRow(p, ok)
               t == Continue(p, n)
    <2>1. /\ n[1] \in {"spawn", "report", "get", "cleanup", "idle", "off"}
          /\ n[1] = "get" => n[2] # "seeding"
      BY <1>0, RowOps DEF AfterRow, AfterStart, AfterStamp
    <2> HIDE DEF n
    <2>2. t.at # "put" /\ (t.at = "get" => t.op # "seeding") /\ t.at # "completion"
      <3>1. CASE n[1] \in {"idle", "off"}
        <4>1. n[1] \in Steps
          BY <3>1 DEF Steps
        <4>2. QED
          BY <3>1, <4>1, Blanks DEF Continue
      <3>2. CASE n[1] \notin {"idle", "off"}
        BY <1>0, <2>1, <3>2 DEF Continue, Thread
      <3>3. QED
        BY <3>1, <3>2
    <2>3. QED
      BY <2>2 DEF Undecided, n
  <1>3. CASE RowMissing(p)
    <2>1. rows' = rows /\ th' = [th EXCEPT ![p] = Continue(p, AfterRow(p, FALSE))]
      BY <1>3 DEF RowMissing, OnlyThreads
    <2>2. Justified(p, th[p])'
      BY <1>0, <1>2, <2>1 DEF Justified, Undecided
    <2>3. QED
      BY <1>0, <2>1, <2>2, RowsSeed, ThreadSeeds
  <1>4. CASE RowPut(p)
    <2> DEFINE ok == Present(rows[th[p].job])
               o == Organizer(p[2])
    <2>1. th[p].op = "stamp" => o # p /\ o \in Threads
      BY <1>0, RowOps, ThreadNames
    <2>2. PICK b : /\ b.at = "organize"
                   /\ th' = IF th[p].op = "stamp"
                            THEN [th EXCEPT ![p] = Continue(p, AfterRow(p, ok)), ![o] = b]
                            ELSE [th EXCEPT ![p] = Continue(p, AfterRow(p, ok))]
      <3> DEFINE c == [Blank EXCEPT !.at = "organize", !.job = th[p].job, !.cur = th[p].cur]
      <3>1. c.at = "organize"
        BY DEF Blank
      <3> HIDE DEF c
      <3>2. th' = IF th[p].op = "stamp"
                  THEN [th EXCEPT ![p] = Continue(p, AfterRow(p, ok)), ![o] = c]
                  ELSE [th EXCEPT ![p] = Continue(p, AfterRow(p, ok))]
        BY <1>4 DEF RowPut, c
      <3>3. QED
        BY <3>1, <3>2
    <2>3. th'[p] = Continue(p, AfterRow(p, ok))
      BY <1>0, <2>1, <2>2
    <2>4. \A q \in Threads \ {p} : th'[q] = th[q] \/ th'[q].at = "organize"
      BY <1>0, <2>1, <2>2
    <2>5. Justified(p, th[p])'
      BY <1>0, <1>2, <2>3 DEF Present, Justified, Undecided
    <2>6. SeedingWasDownloaded'
      <3>1. Written(th[p].op, th[p].copy).status = "seeding" =>
              th[p].op = "seeding" \/ th[p].copy.status = "seeding"
        <4>1. th[p].copy \in Row
          BY <1>0 DEF Thread
        <4>2. CASE th[p].op \in DOMAIN StatusSet
          BY <4>1, <4>2 DEF Written, StatusSet, Row
        <4>3. CASE th[p].op \notin DOMAIN StatusSet
          BY <4>1, <4>3 DEF Written, Row
        <4>4. QED
          BY <4>2, <4>3
      <3>2. th[p].at = "put" /\ (th[p].op = "seeding" => p[1] = "wait")
        BY <1>0, <1>4, RowOps DEF RowPut
      <3>3. Written(th[p].op, th[p].copy).status = "seeding" => th[p].job \in Earned
        BY <3>1, <3>2 DEF SeedInv, ThreadsSeed, Justified
      <3>4. \A j \in Jobs : rows'[j] = rows[j] \/ (j = th[p].job
                              /\ rows'[j] = Written(th[p].op, th[p].copy))
        BY <1>0, <1>4 DEF RowPut, TypeInv, TypeOK
      <3>5. QED
        BY <1>0, <3>3, <3>4 DEF SeedInv, SeedingWasDownloaded, Earned, EarnedGrows
    <2>7. QED
      BY <1>0, <2>4, <2>5, <2>6, ThreadSeeds
  <1>5. QED
    BY <1>1, <1>3, <1>4

LEMMA RegisterSeed ==
    ASSUME TypeInv, SeedInv, NEW p \in Threads, NEW n \in Dls, Link(p, n) \/ Store(p, n)
    PROVE  SeedInv'
  <1>0. th[p] \in Thread /\ th \in [Threads -> Thread] /\ th[p].op = "start" /\ th[p].job \in Jobs
    BY WhoIsWhere DEF TypeInv, TypeOK, Link, Store, Knows
  <1>1. rows' = rows /\ EarnedGrows
    BY DEF Link, Store, Register, EarnedGrows
  <1>2. \A q \in Threads : Justified(q, th[q])'
    <2>1. th' = [th EXCEPT ![p].at = "get", ![p].cur = n]
      BY DEF Link, Store, Register
    <2>2. th'[p].at = "get" /\ th'[p].op = "start"
      BY <1>0, <2>1 DEF Thread
    <2>3. \A q \in Threads \ {p} : th'[q] = th[q]
      BY <1>0, <2>1
    <2>4. QED
      BY <1>1, <2>2, <2>3 DEF SeedInv, ThreadsSeed, Justified, Earned, EarnedGrows
  <1>3. ObjectsSeed'
    <2>1. PICK d \in Dl : /\ dl' = [dl EXCEPT ![n] = d] /\ d.prov = "off" /\ d.job = th[p].job
                          /\ d.owner # NoDl => d.job \in linked'
      <3>1. CASE Store(p, n)
        <4> DEFINE d == [FreeDl EXCEPT !.job = th[p].job]
        <4>1. d \in Dl /\ d.prov = "off" /\ d.owner = NoDl /\ d.job = th[p].job
          BY <1>0 DEF FreeDl, Dl, Results
        <4>2. QED
          BY <3>1, <4>1 DEF Store, Register
      <3>2. CASE Link(p, n)
        <4>1. PICK i \in Linkable(th[p].job) :
                Register(p, n, [FreeDl EXCEPT !.job = th[p].job, !.owner = DoneOf(i), !.told = dl[i].err,
                                              !.hash = dl[i].hash, !.tor = dl[i].tor])
          BY <3>2 DEF Link
        <4> DEFINE d == [FreeDl EXCEPT !.job = th[p].job, !.owner = DoneOf(i), !.told = dl[i].err,
                                       !.hash = dl[i].hash, !.tor = dl[i].tor]
        <4>2. i \in Dls /\ dl[i] \in Dl /\ DoneOf(i) \in Dls /\ dl[i].err \in Results
              /\ dl[i].hash \in Hashes \cup {NoHash} /\ dl[i].tor \in Dls \cup {NoDl}
          BY <4>1 DEF Linkable, DoneOf, TypeInv, TypeOK, Dl
        <4>3. d \in Dl /\ d.prov = "off" /\ d.job = th[p].job
          BY <1>0, <4>2 DEF FreeDl, Dl, Results
        <4>4. th[p].job \in linked'
          BY <3>2 DEF Link
        <4>5. QED
          BY <4>1, <4>3, <4>4 DEF Register
      <3>3. QED
        BY <3>1, <3>2
    <2>2. QED
      BY <1>1, <2>1 DEF SeedInv, ObjectsSeed, EarnedGrows, TypeInv, TypeOK
  <1>4. QED
    BY <1>1, <1>2, <1>3, RowsSeed DEF SeedInv, ThreadsSeed

LEMMA SpawnSeed ==
    ASSUME TypeInv, SeedInv, NEW p \in Threads, Spawn(p)
    PROVE  SeedInv'
  <1> DEFINE i == th[p].cur
             w == Waiter(i)
  <1>0. th \in [Threads -> Thread] /\ p \notin Spawned /\ i \in Dls /\ rows' = rows /\ EarnedGrows
        /\ w \in Threads /\ w # p
    BY WhoIsWhere, ThreadNames
    DEF TypeInv, TypeOK, Spawn, Knows, IsStarting, EarnedGrows, histVars
  <1>1. PICK s, b : /\ s.at = Back(p) /\ s.op = "none" /\ b.at = "select"
                    /\ th' = [th EXCEPT ![p] = s, ![w] = b]
    <2> DEFINE s == [Blank EXCEPT !.at = Back(p)]
               b == [Blank EXCEPT !.at = "select", !.job = dl[i].job, !.cur = i]
    <2>1. s.at = Back(p) /\ s.op = "none" /\ b.at = "select"
      BY DEF Blank
    <2>2. th' = [th EXCEPT ![p] = s, ![w] = b]
      BY DEF Spawn
    <2> HIDE DEF s, b
    <2>3. QED
      BY <2>1, <2>2
  <1>2. Back(p) \in {"queue", "idle"}
    BY <1>0, Backs
  <1> HIDE DEF w, i
  <1>3. \A q \in Threads : Justified(q, th[q])'
    BY <1>0, <1>1, <1>2 DEF SeedInv, ThreadsSeed, Justified, Earned, EarnedGrows
  <1>4. ObjectsSeed'
    <2>1. \A k \in Dls : /\ dl'[k].err = dl[k].err /\ dl'[k].job = dl[k].job /\ dl'[k].owner = dl[k].owner
                         /\ dl'[k].prov = "ended" => dl[k].prov = "ended"
      BY <1>0 DEF Spawn, TypeInv, TypeOK, Dl, i
    <2>2. QED
      BY <1>0, <2>1 DEF SeedInv, ObjectsSeed, EarnedGrows
  <1>5. QED
    BY <1>0, <1>3, <1>4, RowsSeed DEF SeedInv, ThreadsSeed

\* A provider that returns nil earns its job, and nothing else changes.
LEMMA ProviderSeed ==
    ASSUME TypeInv, SeedInv, NEW i \in Dls, ProviderStep(i), ~Down
    PROVE  SeedInv'
  <1>1. rows' = rows /\ th' = th /\ EarnedGrows
    BY DEF ProviderStep, AddMagnet, AddMagnetAfterClose, GetTorrent, NoTorrent, PollEnds, PollCancelled,
       UsenetBegin, UsenetEnds, Panic, OnlyDls, EndProvider, EarnedGrows, histVars
  <1>2. \A k \in Dls : /\ dl'[k].job = dl[k].job /\ dl'[k].owner = dl[k].owner
                       /\ dl'[k].prov = "ended" /\ dl'[k].err = "nil" =>
                            dl[k].job \in okJobs' \/ (dl[k].prov = "ended" /\ dl[k].err = "nil")
    <2>0. dl \in [Dls -> Dl]
      BY DEF TypeInv, TypeOK
    <2>1. CASE \E result \in Results : EndProvider(i, result)
      BY <2>0, <2>1 DEF EndProvider, Dl
    <2>2. CASE AddMagnet(i)
      BY <2>0, <2>2 DEF AddMagnet, Dl
    <2>3. CASE GetTorrent(i)
      BY <2>0, <2>3 DEF GetTorrent, Dl
    <2>4. CASE NoTorrent(i) \/ UsenetBegin(i)
      BY <2>0, <2>4 DEF NoTorrent, UsenetBegin, Dl
    <2>5. QED
      BY <2>1, <2>2, <2>3, <2>4, EnvAssumption
      DEF ProviderStep, AddMagnetAfterClose, PollEnds, PollCancelled, UsenetEnds, Panic, Results
  <1>3. ObjectsSeed'
    BY <1>1, <1>2 DEF SeedInv, ObjectsSeed, EarnedGrows
  <1>4. ThreadsSeed'
    BY <1>1 DEF SeedInv, ThreadsSeed, Justified, Earned, EarnedGrows
  <1>5. QED
    BY <1>1, <1>3, <1>4, RowsSeed DEF SeedInv

LEMMA OtherSeed ==
    ASSUME TypeInv, SeedInv,
           \/ (\E i \in Dls : TorrentReports(i)) \/ (\E j \in Jobs : AddDownload(j))
           \/ (\E c \in Callers, j \in Jobs : ApiCall(c, j)) \/ (\E p \in Threads : DeleteRow(p))
           \/ Stop \/ ClientClose \/ Restart \/ UNCHANGED vars
    PROVE  SeedInv'
  <1>0. dl' = dl /\ okJobs' = okJobs /\ linked' = linked
    BY DEF TorrentReports, AddDownload, ApiCall, PauseDownload, CancelDownload, StopSeeding,
       ResumeDownload, Call, OnlyThreads, DeleteRow, Stop, ClientClose, Restart, vars, histVars
  <1>1. EarnedGrows /\ ObjectsSeed'
    BY <1>0 DEF EarnedGrows, SeedInv, ObjectsSeed
  <1>2. CASE th' = th /\ rows' = rows
    BY <1>0, <1>1, <1>2, RowsSeed DEF SeedInv, ThreadsSeed, Justified, Earned
  <1>3. ASSUME NEW j \in Jobs, AddDownload(j) PROVE SeedInv'
    <2>1. SeedingWasDownloaded'
      BY <1>0, <1>3 DEF AddDownload, SeedInv, SeedingWasDownloaded, TypeInv, TypeOK, Row
    <2>2. ThreadsSeed'
      BY <1>0, <1>3 DEF AddDownload, SeedInv, ThreadsSeed, Justified, Earned
    <2>3. QED
      BY <1>1, <2>1, <2>2 DEF SeedInv
  <1>4. ASSUME NEW p \in Threads, DeleteRow(p) PROVE SeedInv'
    <2>1. Leave(p, "idle") /\ "idle" \in Steps
      BY <1>4 DEF DeleteRow, Steps
    <2>2. \A q \in Threads \ {p} : th'[q] = th[q]
      BY <2>1, Moves
    <2>3. Justified(p, th[p])'
      BY <2>1, Moves DEF Justified
    <2>4. SeedingWasDownloaded'
      BY <1>0, <1>4 DEF DeleteRow, SeedInv, SeedingWasDownloaded, GoneRow, TypeInv, TypeOK
    <2>5. QED
      BY <1>0, <1>1, <2>2, <2>3, <2>4, ThreadSeeds
  <1>5. ASSUME NEW c \in Callers, NEW j \in Jobs, ApiCall(c, j) PROVE SeedInv'
    <2> DEFINE p == Caller(c)
    <2>1. rows' = rows /\ p \in Threads /\ p[1] = "call" /\ th \in [Threads -> Thread]
      BY <1>5, ThreadNames
      DEF ApiCall, PauseDownload, CancelDownload, StopSeeding, ResumeDownload, Call, OnlyThreads,
          TypeInv, TypeOK
    <2>2. PICK s \in {"get", "lookup", "cleanup", "resume"} : \E o, i :
            th' = [th EXCEPT ![p] = [Blank EXCEPT !.at = s, !.op = o, !.job = j, !.cur = i]]
      BY <1>5 DEF ApiCall, PauseDownload, CancelDownload, StopSeeding, ResumeDownload, Call
    <2>3. PICK o, i : th' = [th EXCEPT ![p] = [Blank EXCEPT !.at = s, !.op = o, !.job = j, !.cur = i]]
      BY <2>2
    <2>4. [Blank EXCEPT !.at = s, !.op = o, !.job = j, !.cur = i].at = s
      BY DEF Blank
    <2>5. th'[p].at = s /\ \A q \in Threads \ {p} : th'[q] = th[q]
      BY <2>1, <2>3, <2>4
    <2>6. Justified(p, th[p])'
      BY <2>1, <2>5 DEF Justified
    <2>7. QED
      BY <1>0, <1>1, <2>1, <2>5, <2>6, RowsSeed, ThreadSeeds
  <1>6. ASSUME (\E i \in Dls : TorrentReports(i)) \/ Stop \/ ClientClose \/ Restart \/ UNCHANGED vars
        PROVE  th' = th /\ rows' = rows
    BY <1>6 DEF TorrentReports, Stop, ClientClose, Restart, vars
  <1>7. QED
    BY <1>2, <1>3, <1>4, <1>5, <1>6

LEMMA NextSeed == TypeInv /\ SeedInv /\ [Next]_vars => SeedInv'
  <1> SUFFICES ASSUME TypeInv, SeedInv, [Next]_vars PROVE SeedInv'
    OBVIOUS
  <1>1. CASE Down
    BY <1>1, DownSeed
  <1>2. CASE LoopStep
    BY <1>2, QuietSeed, ThreadNames
  <1>3. ASSUME NEW p \in Threads, ThreadStep(p), ~Down PROVE SeedInv'
    BY <1>3, QuietSeed, HandleSeed, RowSeed, RegisterSeed, SpawnSeed, OtherSeed
    DEF ThreadStep, ErrorMsgPanics, CloseAgainPanics, Panic
  <1>4. ASSUME NEW i \in Dls, (ProviderStep(i) /\ ~Down) \/ WaiterSelect(i) PROVE SeedInv'
    BY <1>4, ProviderSeed, SelectSeed
  <1>5. QED
    BY <1>1, <1>2, <1>3, <1>4, OtherSeed DEF Next, Running, Exit, Crash

\* SeedingWasDownloaded: through every interleaving of stale row writes, a row
\* says seeding only if the job's provider returned nil (handleCompletion) or
\* the job was linked to another job's download (startDownload).
THEOREM SeedingIsEarned == Spec => []SeedingWasDownloaded
  <1>1. SeedInv => SeedingWasDownloaded
    BY DEF SeedInv
  <1>2. Spec => []SeedInv
    BY InitSeed, InitTypeInv, NextSeed, AlwaysTypeInv, PTL DEF Spec
  <1>3. QED
    BY <1>1, <1>2, PTL
-----------------------------------------------------------------------------
(***************************************************************************)
(* The registry of the torrent client holds no closed torrent.  A torrent  *)
(* is registered and closed under the hash its creator has (HashesInv),    *)
(* and a provider begins once (StartersInv), so what it registers is new.  *)
(***************************************************************************)

Begun(i) == dl[i].prov \notin {"off", "begin"}

\* Registered and closed torrents are of providers that have begun; before that an object with
\* a provider of its own has no hash.
HashesInv ==
    /\ \A h \in Hashes : registry[h] # NoDl => Begun(registry[h]) /\ dl[registry[h]].hash = h
    /\ \A t \in closed : Begun(t)
    /\ \A i \in Dls : /\ ~Begun(i) /\ dl[i].owner = NoDl => dl[i].hash = NoHash
                      /\ dl[i].prov = "begin" => dl[i].owner = NoDl

\* An object is started by one thread, and its provider afterwards; a thread closes a torrent
\* of the hash its object has.
StartersInv ==
    /\ \A p \in Threads : IsStarting(th[p]) => dl[th[p].cur].prov = "off"
    /\ \A p, q \in Threads : IsStarting(th[p]) /\ IsStarting(th[q]) /\ th[p].cur = th[q].cur => p = q
Closes(t) == Begun(t.tor) /\ dl[t.tor].hash = dl[t.cur].hash
ClosersInv == \A p \in Threads : th[p].at = "close" => Closes(th[p])

OpenInv == RegisteredIsOpen /\ HashesInv /\ StartersInv /\ ClosersInv

LEMMA InitOpen == Init => OpenInv
  <1> SUFFICES ASSUME Init PROVE OpenInv
    OBVIOUS
  <1>1. \A p \in Threads : th[p].at \in {"off", "idle"}
    BY DEF Init, ThreadsAtStart, Blank
  <1>2. \A i \in Dls : dl[i] = FreeDl
    BY DEF Init
  <1>3. RegisteredIsOpen /\ HashesInv
    BY <1>2, Constants DEF Init, RegisteredIsOpen, HashesInv, Begun
  <1>4. QED
    BY <1>1, <1>3 DEF OpenInv, StartersInv, ClosersInv, IsStarting

\* The process ended: nothing is registered, closed or under way.
LEMMA DownOpen == Down => OpenInv'
  <1> SUFFICES ASSUME Down PROVE OpenInv'
    OBVIOUS
  <1>1. \A p \in Threads : th'[p].at \in {"off", "idle"}
    BY DEF Down, ThreadsAtStart, Blank
  <1>2. \A i \in Dls : dl'[i] = FreeDl
    BY DEF Down
  <1>3. RegisteredIsOpen' /\ HashesInv'
    BY <1>2, Constants DEF Down, RegisteredIsOpen, HashesInv, Begun
  <1>4. QED
    BY <1>1, <1>3 DEF OpenInv, StartersInv, ClosersInv, IsStarting

\* One thread moves, and may start an organizer: nobody comes to start an object or to close
\* a torrent who did not before.
PlainMove(p) ==
    /\ \A q \in Threads \ {p} : th'[q] = th[q] \/ th'[q].at = "organize"
    /\ IsStarting(th'[p]) => IsStarting(th[p]) /\ th'[p].cur = th[p].cur
    /\ th'[p].at # "close"

LEMMA ThreadsKeepOpen ==
    ASSUME OpenInv, NEW p \in Threads, PlainMove(p), dl' = dl
    PROVE  StartersInv' /\ ClosersInv'
  <1>1. \A q \in Threads : IsStarting(th'[q]) => IsStarting(th[q]) /\ th'[q].cur = th[q].cur
    BY DEF PlainMove, IsStarting
  <1>2. \A q \in Threads : th'[q].at = "close" => th'[q] = th[q]
    BY DEF PlainMove
  <1>3. StartersInv'
    BY <1>1 DEF OpenInv, StartersInv, IsStarting
  <1>4. QED
    BY <1>2, <1>3 DEF OpenInv, ClosersInv, Closes, Begun

LEMMA OpenKept ==
    ASSUME OpenInv, NEW p \in Threads, PlainMove(p), UNCHANGED <<dl, registry, closed>>
    PROVE  OpenInv'
  <1>1. RegisteredIsOpen' /\ HashesInv'
    BY DEF OpenInv, RegisteredIsOpen, HashesInv, Begun
  <1>2. QED
    BY <1>1, ThreadsKeepOpen DEF OpenInv
-----------------------------------------------------------------------------
LEMMA LoopOpen == ASSUME TypeInv, OpenInv, LoopStep PROVE OpenInv'
  <1>1. UNCHANGED <<dl, registry, closed>>
    BY DEF LoopStep, Tick, SnapshotActive, PassDone, LoopExit, NextQueued, ReportProgress, OnlyThreads,
       torrentVars
  <1>2. \A q \in Threads \ {Loop} : th'[q] = th[q]
    BY DEF LoopStep, Tick, SnapshotActive, PassDone, LoopExit, NextQueued, ReportProgress, Goto,
       Leave, TypeInv, TypeOK
  <1>3. ~IsStarting(th'[Loop]) /\ th'[Loop].at # "close"
    <2>0. Loop \in Threads /\ th \in [Threads -> Thread] /\ th[Loop] \in Thread
      BY ThreadNames DEF TypeInv, TypeOK
    <2>1. CASE Tick \/ SnapshotActive
      BY <2>0, <2>1 DEF Tick, SnapshotActive, Goto, IsStarting, Thread
    <2>2. CASE PassDone \/ LoopExit
      BY <2>0, <2>2 DEF PassDone, LoopExit, Leave, IsStarting, Blank
    <2>3. CASE \E j \in Jobs : NextQueued(j) \/ ReportProgress(j)
      <3>1. PICK a \in {<<"claim", "start">>, <<"get", "progress">>}, j \in Jobs :
               th' = [th EXCEPT ![Loop].at = a[1], ![Loop].op = a[2], ![Loop].job = j]
        BY <2>3 DEF NextQueued, ReportProgress
      <3>2. th'[Loop].at = a[1] /\ th'[Loop].op = a[2]
        BY <2>0, <3>1 DEF Thread
      <3>3. QED
        BY <3>1, <3>2 DEF IsStarting
    <2>4. QED
      BY <2>1, <2>2, <2>3 DEF LoopStep
  <1>4. QED
    BY <1>1, <1>2, <1>3, ThreadNames, OpenKept DEF PlainMove

\* Steps of a thread that neither start an object nor look a torrent up or close it.
LEMMA QuietOpen ==
    ASSUME TypeInv, OpenInv, NEW p \in Threads,
           \/ AlreadyActive(p) \/ NotLinked(p) \/ ResumeCheck(p) \/ DeleteRow(p) \/ RemoveMisses(p)
           \/ NoLongerActive(p) \/ HandleEnd(p) \/ Organize(p) \/ NothingToOrganize(p) \/ Cleanup(p)
    PROVE  OpenInv'
  <1>0. th[p] \in Thread /\ th \in [Threads -> Thread] /\ UNCHANGED <<dl, registry, closed>>
    BY DEF TypeInv, TypeOK, AlreadyActive, NotLinked, ResumeCheck, DeleteRow, RemoveMisses, Cleanup,
       NoLongerActive, HandleEnd, Organize, NothingToOrganize, OnlyThreads, torrentVars
  <1>1. \A q \in Threads \ {p} : th'[q] = th[q]
    BY <1>0
    DEF AlreadyActive, NotLinked, ResumeCheck, DeleteRow, RemoveMisses, Cleanup,
        NoLongerActive, HandleEnd, Organize, NothingToOrganize, AfterRemove, Goto, Leave
  <1>2. th'[p].at # "close" /\ ~IsStarting(th'[p])
    <2>1. CASE AlreadyActive(p) \/ DeleteRow(p) \/ NoLongerActive(p) \/ NothingToOrganize(p)
      BY <1>0, <2>1 DEF AlreadyActive, DeleteRow, NoLongerActive, NothingToOrganize, Leave, Back, Blank,
         IsStarting
    <2>2. CASE NotLinked(p) \/ ResumeCheck(p)
      BY <1>0, <2>2 DEF NotLinked, ResumeCheck, Goto, Leave, Blank, IsStarting, Thread
    <2>3. CASE RemoveMisses(p)
      <3>1. th[p].op # "start"
        BY <2>3, WhoIsWhere, ThreadNames
        DEF RemoveMisses, Phase, WaiterPhase, OrganizerPhase, LoopPhase, CallerPhase
      <3>2. QED
        BY <1>0, <2>3, <3>1 DEF RemoveMisses, AfterRemove, Goto, Leave, Blank, IsStarting, Thread
    <2>4. CASE HandleEnd(p)
      <3>1. th[p].op # "start"
        BY <2>4, WhoIsWhere, ThreadNames
        DEF HandleEnd, Phase, WaiterPhase, OrganizerPhase, LoopPhase, CallerPhase
      <3>2. th'[p].at \in {"lookup", "get"} /\ th'[p].op = th[p].op
        BY <1>0, <2>4 DEF HandleEnd, Thread
      <3>3. QED
        BY <3>1, <3>2 DEF IsStarting
    <2>5. CASE Organize(p)
      BY <1>0, <2>5 DEF Organize, IsStarting, Thread
    <2>6. CASE Cleanup(p)
      BY <1>0, <2>6 DEF Cleanup, Goto, Leave, Rest, Back, Blank, IsStarting, Thread
    <2>7. QED
      BY <2>1, <2>2, <2>3, <2>4, <2>5, <2>6
  <1>3. QED
    BY <1>0, <1>1, <1>2, OpenKept DEF PlainMove

LEMMA RowOpen ==
    ASSUME TypeInv, OpenInv, NEW p \in Threads, RowMissing(p) \/ RowGet(p) \/ RowPut(p)
    PROVE  OpenInv'
  <1>0. th[p] \in Thread /\ Phase(p, th[p]) /\ th \in [Threads -> Thread]
        /\ UNCHANGED <<dl, registry, closed>> /\ th[p].at \in {"get", "put"}
    BY WhoIsWhere DEF TypeInv, TypeOK, RowMissing, RowGet, RowPut, OnlyThreads, torrentVars
  <1>1. CASE RowGet(p)
    <2>1. PlainMove(p)
      BY <1>0, <1>1 DEF RowGet, PlainMove, IsStarting, Thread
    <2>2. QED
      BY <1>0, <2>1, OpenKept
  <1>2. CASE RowMissing(p) \/ RowPut(p)
    <2>1. PICK ok \in BOOLEAN :
             \/ th' = [th EXCEPT ![p] = Continue(p, AfterRow(p, ok))]
             \/ th[p].op = "stamp" /\ th' = [th EXCEPT ![p] = Continue(p, AfterRow(p, ok)),
                    ![Organizer(p[2])] = [Blank EXCEPT !.at = "organize", !.job = th[p].job, !.cur = th[p].cur]]
      BY <1>2 DEF RowMissing, RowPut, Present
    <2>2. th[p].op = "stamp" => Organizer(p[2]) # p
      BY <1>0, RowOps, ThreadNames
    <2>3. th'[p] = Continue(p, AfterRow(p, ok))
      BY <1>0, <2>1, <2>2
    <2>4. \A q \in Threads \ {p} : th'[q] = th[q] \/ th'[q].at = "organize"
      <3>1. [Blank EXCEPT !.at = "organize", !.job = th[p].job, !.cur = th[p].cur].at = "organize"
        BY DEF Blank
      <3>2. QED
        BY <1>0, <2>1, <2>2, <3>1
    <2> DEFINE n == AfterRow(p, ok)
    <2>5. /\ n[1] \in {"spawn", "cleanup", "report", "get", "idle", "off"}
          /\ n[1] = "get" => n[2] # "start"
          /\ n[2] = "start" => th[p].op = "start"
      BY <1>0, RowOps DEF AfterRow, AfterStart, AfterStamp, Ops
    <2>6. th'[p] = Continue(p, n)
      BY <2>3
    <2> HIDE DEF n
    <2>7. th'[p].at \in {n[1], "idle", "off"} /\ (IsStarting(th'[p]) => n[2] = "start" /\ th'[p].cur = th[p].cur)
      BY <1>0, <2>5, <2>6 DEF Continue, IsStarting, Blank, Thread
    <2>8. PlainMove(p)
      BY <1>0, <2>4, <2>5, <2>7 DEF PlainMove, IsStarting
    <2>9. QED
      BY <1>0, <2>8, OpenKept
  <1>3. QED
    BY <1>1, <1>2

\* RemoveTorrent: what is found is of the hash, and the hash is free when it is closed.
LEMMA RemoveOpen ==
    ASSUME TypeInv, OpenInv, NEW p \in Threads, RemoveFinds(p) \/ RemoveCloses(p)
    PROVE  OpenInv'
  <1>0. th[p] \in Thread /\ th \in [Threads -> Thread] /\ Knows(p, th[p]) /\ th[p].at \in {"lookup", "close"}
        /\ dl' = dl /\ th[p].op # "start"
    BY WhoIsWhere, ThreadNames DEF TypeInv, TypeOK, RemoveFinds, RemoveCloses, OnlyThreads,
       Phase, WaiterPhase, OrganizerPhase, LoopPhase, CallerPhase
  <1> DEFINE h == dl[th[p].cur].hash
  <1>1. h \in Hashes /\ registry \in [Hashes -> Dls \cup {NoDl}] /\ closed \subseteq Dls
    BY <1>0 DEF Knows, TypeInv, TypeOK
  <1>2. CASE RemoveFinds(p)
    <2>1. registry[h] # NoDl /\ th' = [th EXCEPT ![p].at = "close", ![p].tor = registry[h]]
          /\ UNCHANGED <<registry, closed>>
      BY <1>2 DEF RemoveFinds, OnlyThreads, torrentVars
    <2>2. Begun(registry[h]) /\ dl[registry[h]].hash = h
      BY <1>1, <2>1 DEF OpenInv, HashesInv
    <2> DEFINE r == registry[h]
    <2>3. r \in Dls
      BY <1>1, <2>1
    <2> HIDE DEF r
    <2>4. th'[p].at = "close" /\ th'[p].tor = r /\ th'[p].cur = th[p].cur
          /\ \A q \in Threads \ {p} : th'[q] = th[q]
      BY <1>0, <2>1, <2>3 DEF Thread, r
    <2>5. ClosersInv'
      BY <1>0, <2>2, <2>4 DEF OpenInv, ClosersInv, Closes, Begun, r
    <2>6. StartersInv'
      <3>1. \A q \in Threads : IsStarting(th'[q]) => th'[q] = th[q]
        BY <2>4 DEF IsStarting
      <3>2. QED
        BY <1>0, <3>1 DEF OpenInv, StartersInv, IsStarting
    <2>7. RegisteredIsOpen' /\ HashesInv'
      BY <1>0, <2>1 DEF OpenInv, RegisteredIsOpen, HashesInv, Begun
    <2>8. QED
      BY <2>5, <2>6, <2>7 DEF OpenInv
  <1>3. CASE RemoveCloses(p)
    <2> DEFINE t == th[p].tor
    <2>1. th[p].at = "close" /\ closed' = closed \cup {t} /\ registry' = [registry EXCEPT ![h] = NoDl]
          /\ AfterRemove(p)
      BY <1>3 DEF RemoveCloses, Unregistered
    <2>2. Begun(t) /\ dl[t].hash = h /\ t \in Dls
      BY <1>0, <2>1 DEF OpenInv, ClosersInv, Closes, Knows
    <2>3. PlainMove(p)
      <3>1. \A q \in Threads \ {p} : th'[q] = th[q]
        BY <1>0, <2>1 DEF AfterRemove, Goto, Leave
      <3>2. th'[p].at # "close" /\ ~IsStarting(th'[p])
        BY <1>0, <2>1 DEF AfterRemove, Goto, Leave, Blank, IsStarting, Thread
      <3>3. QED
        BY <3>1, <3>2 DEF PlainMove
    <2>4. \A g \in Hashes : registry'[g] = IF g = h THEN NoDl ELSE registry[g]
      BY <1>1, <2>1
    <2>5. RegisteredIsOpen'
      <3> SUFFICES ASSUME NEW g \in Hashes PROVE registry'[g] \notin closed'
        BY DEF RegisteredIsOpen
      <3>1. CASE g = h
        BY <1>1, <2>1, <2>2, <2>4, <3>1, Constants
      <3>2. CASE g # h
        <4>1. registry'[g] = registry[g] /\ registry[g] \notin closed
          BY <2>4, <3>2 DEF OpenInv, RegisteredIsOpen
        <4>2. registry[g] # t
          <5>1. t # NoDl
            BY <2>2, Constants
          <5>2. QED
            BY <2>2, <3>2, <5>1 DEF OpenInv, HashesInv
        <4>3. QED
          BY <2>1, <4>1, <4>2
      <3>3. QED
        BY <3>1, <3>2
    <2> HIDE DEF t, h
    <2>6. HashesInv'
      <3>1. \A g \in Hashes : registry'[g] # NoDl => Begun(registry[g])' /\ dl'[registry'[g]].hash = g
        BY <1>0, <2>4 DEF OpenInv, HashesInv, Begun
      <3>2. \A i \in closed' : Begun(i)'
        BY <1>0, <2>1, <2>2 DEF OpenInv, HashesInv, Begun
      <3>3. QED
        BY <1>0, <3>1, <3>2 DEF OpenInv, HashesInv, Begun
    <2>7. QED
      BY <1>0, <2>3, <2>5, <2>6, ThreadsKeepOpen DEF OpenInv
  <1>4. QED
    BY <1>2, <1>3

\* The object that is registered is free: nobody starts it, and no torrent is its provider's.
LEMMA RegisterOpen ==
    ASSUME TypeInv, OpenInv, NEW p \in Threads, NEW n \in Dls, Link(p, n) \/ Store(p, n)
    PROVE  OpenInv'
  <1>0. th[p] \in Thread /\ th \in [Threads -> Thread] /\ th[p].at \in {"claim", "store"}
        /\ th[p].job \in Jobs /\ dl \in [Dls -> Dl] /\ closed \subseteq Dls
        /\ registry \in [Hashes -> Dls \cup {NoDl}] /\ th[p].op = "start"
    BY WhoIsWhere DEF TypeInv, TypeOK, Link, Store, Knows
  <1>1. PICK object \in Dl : /\ Register(p, n, object) /\ object.prov = "off"
                             /\ object.owner = NoDl => object.hash = NoHash
    <2>1. CASE Link(p, n)
      <3>1. PICK i \in Linkable(th[p].job) :
              Register(p, n, [FreeDl EXCEPT !.job = th[p].job, !.owner = DoneOf(i), !.told = dl[i].err,
                                            !.hash = dl[i].hash, !.tor = dl[i].tor])
        BY <2>1 DEF Link
      <3>2. i \in Dls /\ dl[i] \in Dl /\ DoneOf(i) \in Dls /\ DoneOf(i) # NoDl
        BY <1>0, <3>1, Constants DEF Linkable, DoneOf, Dl
      <3>3. dl[i].err \in Results /\ dl[i].tor \in Dls \cup {NoDl} /\ dl[i].hash \in Hashes \cup {NoHash}
        BY <3>2 DEF Dl
      <3> DEFINE object == [FreeDl EXCEPT !.job = th[p].job, !.owner = DoneOf(i), !.told = dl[i].err,
                                          !.hash = dl[i].hash, !.tor = dl[i].tor]
      <3>4. object \in Dl /\ object.prov = "off" /\ object.owner = DoneOf(i)
        BY <1>0, <3>2, <3>3 DEF FreeDl, Dl, Results
      <3>5. QED
        BY <3>1, <3>2, <3>4
    <2>2. CASE Store(p, n)
      <3> DEFINE object == [FreeDl EXCEPT !.job = th[p].job]
      <3>1. object \in Dl /\ object.prov = "off" /\ object.hash = NoHash
        BY <1>0 DEF FreeDl, Dl, Results
      <3>2. QED
        BY <2>2, <3>1 DEF Store
    <2>3. QED
      BY <2>1, <2>2
  <1>2. /\ dl[n] = FreeDl /\ dl' = [dl EXCEPT ![n] = object] /\ UNCHANGED <<registry, closed>>
        /\ th' = [th EXCEPT ![p].at = "get", ![p].cur = n]
    BY <1>1 DEF Register, Unused, torrentVars
  <1>3. dl'[n] = object /\ \A i \in Dls \ {n} : dl'[i] = dl[i]
    BY <1>0, <1>2
  <1>4. dl[n].prov = "off" /\ dl[n].hash = NoHash /\ dl[n].job = NoJob /\ NoHash \notin Hashes
        /\ NoJob \notin Jobs
    BY <1>2, Constants
  <1>5. th'[p].at = "get" /\ th'[p].cur = n /\ \A q \in Threads \ {p} : th'[q] = th[q]
    BY <1>0, <1>2 DEF Thread
  <1>6. \A q \in Threads : IsStarting(th[q]) => th[q].cur # n /\ th[q].cur \in Dls
    <2> SUFFICES ASSUME NEW q \in Threads, IsStarting(th[q]) PROVE th[q].cur # n /\ th[q].cur \in Dls
      OBVIOUS
    <2>1. Knows(q, th[q])
      BY WhoIsWhere
    <2>2. th[q].job \in Jobs /\ dl[th[q].cur].job = th[q].job /\ th[q].cur \in Dls
      BY <2>1 DEF Knows, IsStarting
    <2>3. QED
      BY <1>4, <2>2
  <1>7. StartersInv'
    <2>1. \A q \in Threads : IsStarting(th'[q]) =>
              dl'[th'[q].cur].prov = "off" /\ (q # p => IsStarting(th[q]) /\ th'[q] = th[q] /\ th[q].cur # n)
      BY <1>1, <1>3, <1>5, <1>6 DEF OpenInv, StartersInv
    <2>2. ASSUME NEW q \in Threads, NEW r \in Threads, IsStarting(th'[q]), IsStarting(th'[r]),
                 th'[q].cur = th'[r].cur
          PROVE  q = r
      <3>1. CASE q # p /\ r # p
        BY <2>1, <2>2, <3>1 DEF OpenInv, StartersInv
      <3>2. CASE q = p \/ r = p
        BY <1>5, <2>1, <2>2, <3>2
      <3>3. QED
        BY <3>1, <3>2
    <2>3. \A q \in Threads : IsStarting(th[q])' <=> IsStarting(th'[q])
      BY DEF IsStarting
    <2>4. QED
      BY <2>1, <2>2, <2>3 DEF StartersInv
  <1>8. ClosersInv'
    <2> SUFFICES ASSUME NEW q \in Threads, th'[q].at = "close" PROVE Closes(th[q])'
      BY DEF ClosersInv
    <2>1. th'[q] = th[q] /\ th[q].at = "close" /\ Closes(th[q]) /\ Knows(q, th[q])
      BY <1>5, WhoIsWhere DEF OpenInv, ClosersInv
    <2>2. th[q].tor \in Dls \ {n} /\ th[q].cur \in Dls \ {n}
      BY <1>4, <2>1 DEF Closes, Begun, Knows
    <2>3. QED
      BY <1>3, <2>1, <2>2 DEF Closes, Begun
  <1>9. RegisteredIsOpen' /\ HashesInv'
    <2>1. \A h \in Hashes : registry[h] # NoDl => registry[h] \in Dls \ {n}
      BY <1>0, <1>4 DEF OpenInv, HashesInv, Begun
    <2>2. closed \subseteq Dls \ {n}
      BY <1>0, <1>4 DEF OpenInv, HashesInv, Begun
    <2>3. ASSUME NEW h \in Hashes, registry[h] # NoDl
          PROVE  Begun(registry[h])' /\ dl'[registry[h]].hash = h
      <3>1. Begun(registry[h]) /\ dl[registry[h]].hash = h /\ dl'[registry[h]] = dl[registry[h]]
            /\ registry'[h] = registry[h]
        BY <1>2, <1>3, <2>1, <2>3 DEF OpenInv, HashesInv
      <3>2. QED
        BY <3>1 DEF Begun
    <2>4. \A t \in closed : Begun(t)'
      BY <1>3, <2>2 DEF OpenInv, HashesInv, Begun
    <2>5. \A i \in Dls : /\ (~Begun(i) /\ dl[i].owner = NoDl)' => dl'[i].hash = NoHash
                         /\ dl'[i].prov = "begin" => dl'[i].owner = NoDl
      BY <1>1, <1>3 DEF OpenInv, HashesInv, Begun
    <2>6. QED
      BY <1>2, <2>3, <2>4, <2>5 DEF OpenInv, RegisteredIsOpen, HashesInv
  <1>10. QED
    BY <1>7, <1>8, <1>9 DEF OpenInv

\* The goroutines of an object start once: its only starter is done with it.
LEMMA SpawnOpen ==
    ASSUME TypeInv, OpenInv, NEW p \in Threads, Spawn(p)
    PROVE  OpenInv'
  <1> DEFINE i == th[p].cur
  <1>0. th \in [Threads -> Thread] /\ th[p] \in Thread /\ dl \in [Dls -> Dl] /\ closed \subseteq Dls
        /\ registry \in [Hashes -> Dls \cup {NoDl}] /\ IsStarting(th[p]) /\ p \notin Spawned
    BY WhoIsWhere DEF TypeInv, TypeOK, Spawn, IsStarting
  <1>1. i \in Dls /\ dl[i].prov = "off"
    BY <1>0, WhoIsWhere DEF Knows, OpenInv, StartersInv
  <1>2. /\ dl' = [dl EXCEPT ![i].prov = IF dl[i].owner = NoDl THEN "begin" ELSE "off"]
        /\ UNCHANGED <<registry, closed>>
    BY <1>1 DEF Spawn, torrentVars
  <1>3. /\ \A k \in Dls \ {i} : dl'[k] = dl[k]
        /\ dl'[i].hash = dl[i].hash /\ dl'[i].owner = dl[i].owner
        /\ dl'[i].prov = IF dl[i].owner = NoDl THEN "begin" ELSE "off"
    BY <1>0, <1>1, <1>2 DEF Dl
  <1>4. /\ \A q \in Threads \ {p, Waiter(i)} : th'[q] = th[q]
        /\ th'[p].at \in {"queue", "idle"} /\ th'[Waiter(i)].at = "select"
    <2>1. Waiter(i) \in Threads /\ Waiter(i) # p
      BY <1>0, <1>1, ThreadNames
    <2>2. th' = [th EXCEPT ![p] = [Blank EXCEPT !.at = Back(p)],
                           ![Waiter(i)] = [Blank EXCEPT !.at = "select", !.job = dl[i].job, !.cur = i]]
      BY DEF Spawn
    <2>3. [Blank EXCEPT !.at = Back(p)].at \in {"queue", "idle"}
          /\ [Blank EXCEPT !.at = "select", !.job = dl[i].job, !.cur = i].at = "select"
      BY DEF Blank, Back
    <2>4. QED
      BY <1>0, <2>1, <2>2, <2>3
  <1> HIDE DEF i
  <1>5. StartersInv'
    <2>1. \A q \in Threads : IsStarting(th'[q]) =>
              q # p /\ th'[q] = th[q] /\ IsStarting(th[q]) /\ th[q].cur \in Dls
      BY <1>4, WhoIsWhere DEF IsStarting, Knows
    <2>2. \A q \in Threads : IsStarting(th'[q]) => th[q].cur # i
      BY <1>0, <2>1 DEF OpenInv, StartersInv, i
    <2>3. QED
      BY <1>3, <2>1, <2>2 DEF OpenInv, StartersInv, IsStarting
  <1>6. ClosersInv'
    <2> SUFFICES ASSUME NEW q \in Threads, th'[q].at = "close" PROVE Closes(th[q])'
      BY DEF ClosersInv
    <2>1. th'[q] = th[q] /\ Closes(th[q]) /\ Knows(q, th[q]) /\ th[q].at = "close"
      BY <1>4, WhoIsWhere DEF OpenInv, ClosersInv
    <2>2. th[q].tor \in Dls \ {i} /\ th[q].cur \in Dls
      BY <1>1, <2>1 DEF Closes, Begun, Knows
    <2>3. QED
      BY <1>3, <2>1, <2>2 DEF Closes, Begun
  <1>7. RegisteredIsOpen' /\ HashesInv'
    <2>1. (\A h \in Hashes : registry[h] # NoDl => registry[h] \in Dls \ {i}) /\ closed \subseteq Dls \ {i}
      BY <1>0, <1>1 DEF OpenInv, HashesInv, Begun
    <2>2. ASSUME NEW h \in Hashes, registry[h] # NoDl
          PROVE  Begun(registry[h])' /\ dl'[registry[h]].hash = h
      <3>1. Begun(registry[h]) /\ dl[registry[h]].hash = h /\ dl'[registry[h]] = dl[registry[h]]
            /\ registry'[h] = registry[h]
        BY <1>2, <1>3, <2>1, <2>2 DEF OpenInv, HashesInv
      <3>2. QED
        BY <3>1 DEF Begun
    <2>3. \A t \in closed : Begun(t)'
      BY <1>3, <2>1 DEF OpenInv, HashesInv, Begun
    <2>4. \A k \in Dls : /\ (~Begun(k) /\ dl[k].owner = NoDl)' => dl'[k].hash = NoHash
                         /\ dl'[k].prov = "begin" => dl'[k].owner = NoDl
      BY <1>1, <1>3 DEF OpenInv, HashesInv, Begun
    <2>5. QED
      BY <1>2, <2>2, <2>3, <2>4 DEF OpenInv, RegisteredIsOpen, HashesInv
  <1>8. QED
    BY <1>5, <1>6, <1>7 DEF OpenInv

\* A provider takes its hash and its torrent when it begins: until then it is in nobody's hands.
LEMMA ProviderOpen ==
    ASSUME TypeInv, OpenInv, NEW i \in Dls, ProviderStep(i), ~Down
    PROVE  OpenInv'
  <1>0. th' = th /\ closed' = closed /\ dl \in [Dls -> Dl] /\ registry \in [Hashes -> Dls \cup {NoDl}]
        /\ closed \subseteq Dls /\ dl[i] \in Dl /\ NoHash \notin Hashes
    BY Constants DEF TypeInv, TypeOK, ProviderStep, AddMagnet, AddMagnetAfterClose, GetTorrent, NoTorrent,
       PollEnds, PollCancelled, UsenetBegin, UsenetEnds, Panic, OnlyDls, torrentVars
  <1>1. dl[i].prov \in {"begin", "poll", "fetch"}
    BY DEF ProviderStep, AddMagnet, AddMagnetAfterClose, GetTorrent, NoTorrent, PollEnds, PollCancelled,
       UsenetBegin, UsenetEnds
  <1>2. /\ \A k \in Dls \ {i} : dl'[k] = dl[k]
        /\ dl'[i].prov \in {"poll", "fetch", "ended"} /\ dl'[i].owner = dl[i].owner
        /\ Begun(i) => dl'[i].hash = dl[i].hash
    <2>1. CASE AddMagnet(i)
      BY <1>0, <2>1 DEF AddMagnet, Begun, Dl
    <2>2. CASE GetTorrent(i)
      BY <1>0, <2>2 DEF GetTorrent, Begun, Dl
    <2>3. CASE NoTorrent(i) \/ UsenetBegin(i)
      BY <1>0, <2>3 DEF NoTorrent, UsenetBegin, Begun, Dl
    <2>4. CASE PollEnds(i) \/ PollCancelled(i) \/ UsenetEnds(i)
      BY <1>0, <2>4 DEF PollEnds, PollCancelled, UsenetEnds, EndProvider, Begun, Dl
    <2>5. QED
      BY <2>1, <2>2, <2>3, <2>4 DEF ProviderStep, AddMagnetAfterClose, Panic
  <1>3. StartersInv'
    <2>1. \A p \in Threads : IsStarting(th[p]) => th[p].cur \in Dls \ {i}
      BY <1>1, WhoIsWhere DEF OpenInv, StartersInv, Knows
    <2>2. QED
      BY <1>0, <1>2, <2>1 DEF OpenInv, StartersInv, IsStarting
  <1>4. \A k \in Dls : Begun(k) => Begun(k)' /\ dl'[k].hash = dl[k].hash
    BY <1>2 DEF Begun
  <1>5. ClosersInv'
    <2> SUFFICES ASSUME NEW p \in Threads, th[p].at = "close" PROVE Closes(th[p])'
      BY <1>0 DEF ClosersInv
    <2>1. Closes(th[p]) /\ th[p].tor \in Dls /\ th[p].cur \in Dls /\ dl[th[p].cur].hash \in Hashes
      BY WhoIsWhere DEF OpenInv, ClosersInv, Knows
    <2>2. Begun(th[p].tor)' /\ dl'[th[p].tor].hash = dl[th[p].tor].hash
      BY <1>0, <1>4, <2>1 DEF Closes, Begun
    <2>3. dl'[th[p].cur].hash = dl[th[p].cur].hash
      <3>1. CASE th[p].cur = i
        <4>1. Begun(i)
          BY <1>0, <1>1, <2>1, <3>1 DEF OpenInv, HashesInv, Begun
        <4>2. QED
          BY <1>4, <3>1, <4>1
      <3>2. CASE th[p].cur # i
        BY <1>2, <2>1, <3>2
      <3>3. QED
        BY <3>1, <3>2
    <2>4. QED
      BY <1>0, <2>1, <2>2, <2>3 DEF Closes
  <1>6. \A k \in Dls : /\ (~Begun(k) /\ dl[k].owner = NoDl)' => dl'[k].hash = NoHash
                       /\ dl'[k].prov = "begin" => dl'[k].owner = NoDl
    BY <1>2 DEF OpenInv, HashesInv, Begun
  <1>7. \A t \in closed : Begun(t)'
    BY <1>0, <1>4 DEF OpenInv, HashesInv
  <1>8. CASE registry' = registry
    <2>1. ASSUME NEW h \in Hashes, registry[h] # NoDl
          PROVE  Begun(registry[h])' /\ dl'[registry[h]].hash = h
      <3>1. registry[h] \in Dls /\ Begun(registry[h]) /\ dl[registry[h]].hash = h
            /\ registry'[h] = registry[h]
        BY <1>0, <1>8, <2>1 DEF OpenInv, HashesInv
      <3>2. QED
        BY <1>4, <3>1 DEF Begun
    <2>2. HashesInv'
      BY <1>0, <1>6, <1>7, <1>8, <2>1 DEF HashesInv
    <2>3. QED
      BY <1>0, <1>3, <1>5, <1>8, <2>2 DEF OpenInv, RegisteredIsOpen
  <1>9. CASE registry' # registry
    <2> DEFINE g == JobHash[dl[i].job]
    <2>1. AddMagnet(i)
      BY <1>0, <1>9 DEF ProviderStep, AddMagnet, AddMagnetAfterClose, GetTorrent, NoTorrent, PollEnds,
         PollCancelled, UsenetBegin, UsenetEnds, Panic, OnlyDls, torrentVars
    <2>2. g \in Hashes
      <3>1. dl[i].job \in Jobs
        BY <1>1 DEF TypeInv, ObjectsInv
      <3>2. QED
        BY <3>1, JobsAssumption
    <2>3. PICK t \in Dls \cup {NoDl} :
             /\ t = IF registry[g] # NoDl THEN registry[g] ELSE i
             /\ registry' = [registry EXCEPT ![g] = t]
             /\ dl' = [dl EXCEPT ![i].hash = g, ![i].tor = t, ![i].prov = "poll"]
      BY <1>0, <2>1, <2>2 DEF AddMagnet
    <2>4. registry[g] = NoDl /\ t = i
      <3>1. registry[g] # NoDl => registry' = registry
        BY <1>0, <2>2, <2>3
      <3>2. QED
        BY <1>9, <2>3, <3>1
    <2>5. dl'[i].hash = g /\ dl'[i].prov = "poll" /\ ~Begun(i)
      <3>1. dl[i].prov = "begin"
        BY <2>1 DEF AddMagnet
      <3> HIDE DEF g
      <3>2. QED
        BY <1>0, <2>3, <3>1 DEF Begun, Dl
    <2> HIDE DEF g
    <2>6. \A h \in Hashes : registry'[h] = IF h = g THEN i ELSE registry[h]
      BY <1>0, <2>2, <2>3, <2>4
    <2>7. i \notin closed
      BY <2>5 DEF OpenInv, HashesInv
    <2>8. RegisteredIsOpen'
      BY <1>0, <2>6, <2>7 DEF OpenInv, RegisteredIsOpen
    <2>9. \A h \in Hashes : (registry[h] # NoDl)' => Begun(registry[h])' /\ (dl[registry[h]].hash)' = h
      <3> SUFFICES ASSUME NEW h \in Hashes, registry'[h] # NoDl
                   PROVE  Begun(registry[h])' /\ dl'[registry'[h]].hash = h
        OBVIOUS
      <3>1. CASE h = g
        BY <2>5, <2>6, <3>1 DEF Begun
      <3>2. CASE h # g
        <4>1. registry'[h] = registry[h] /\ registry[h] \in Dls
          BY <1>0, <2>6, <3>2
        <4>2. Begun(registry[h]) /\ dl[registry[h]].hash = h
          BY <4>1 DEF OpenInv, HashesInv
        <4>3. QED
          BY <1>4, <4>1, <4>2 DEF Begun
      <3>3. QED
        BY <3>1, <3>2
    <2>10. HashesInv'
      BY <1>0, <1>6, <1>7, <2>9 DEF HashesInv
    <2>11. QED
      BY <1>3, <1>5, <2>8, <2>10 DEF OpenInv
  <1>10. QED
    BY <1>8, <1>9

\* The waiter's select, callers, the client's close, and steps of nobody who is involved.
LEMMA OtherOpen ==
    ASSUME TypeInv, OpenInv,
           \/ \E i \in Dls : TorrentReports(i) \/ WaiterSelect(i)
           \/ \E c \in Callers, j \in Jobs : ApiCall(c, j)
           \/ (\E j \in Jobs : AddDownload(j)) \/ Stop \/ ClientClose \/ Restart \/ UNCHANGED vars
    PROVE  OpenInv'
  <1>0. th \in [Threads -> Thread]
    BY DEF TypeInv, TypeOK
  <1>1. ASSUME NEW i \in Dls, WaiterSelect(i) PROVE OpenInv'
    <2>1. Waiter(i) \in Threads /\ UNCHANGED <<dl, registry, closed>> /\ th[Waiter(i)] \in Thread
      BY <1>0, <1>1, ThreadNames DEF WaiterSelect, SelectDone, SelectCancelled, OnlyThreads, torrentVars
    <2>2. PICK s \in {"completion", "cancellation"}, o \in Ops :
            th' = [th EXCEPT ![Waiter(i)].at = s, ![Waiter(i)].op = o]
      BY <1>1 DEF WaiterSelect, SelectDone, SelectCancelled, Ops
    <2>3. th'[Waiter(i)].at = s /\ \A q \in Threads \ {Waiter(i)} : th'[q] = th[q]
      BY <1>0, <2>1, <2>2 DEF Thread
    <2>4. PlainMove(Waiter(i))
      BY <2>2, <2>3 DEF PlainMove, IsStarting
    <2>5. QED
      BY <2>1, <2>4, OpenKept
  <1>2. ASSUME NEW c \in Callers, NEW j \in Jobs, ApiCall(c, j) PROVE OpenInv'
    <2>1. ASSUME NEW i, NEW s, NEW o, Call(c, j, i, s, o), s # "close", o = "start" => s = "resume"
          PROVE  OpenInv'
      <3>1. Caller(c) \in Threads /\ UNCHANGED <<dl, registry, closed>>
        BY <2>1, ThreadNames DEF Call, OnlyThreads, torrentVars
      <3>2. th' = [th EXCEPT ![Caller(c)] = [Blank EXCEPT !.at = s, !.op = o, !.job = j, !.cur = i]]
        BY <2>1 DEF Call
      <3>3. th'[Caller(c)].at = s /\ th'[Caller(c)].op = o
            /\ \A q \in Threads \ {Caller(c)} : th'[q] = th[q]
        BY <1>0, <3>1, <3>2 DEF Blank
      <3>4. PlainMove(Caller(c))
        BY <2>1, <3>3 DEF PlainMove, IsStarting
      <3>5. QED
        BY <3>1, <3>4, OpenKept
    <2>2. CASE PauseDownload(c, j)
      BY <2>1, <2>2 DEF PauseDownload
    <2>3. CASE CancelDownload(c, j)
      <3>1. Call(c, j, active[j], "lookup", "cancel") \/ Call(c, j, active[j], "cleanup", "cancel")
        BY <2>3 DEF CancelDownload
      <3>2. QED
        BY <2>1, <3>1
    <2>4. CASE StopSeeding(c, j)
      BY <2>1, <2>4 DEF StopSeeding
    <2>5. CASE ResumeDownload(c, j)
      BY <2>1, <2>5 DEF ResumeDownload
    <2>6. QED
      BY <1>2, <2>2, <2>3, <2>4, <2>5 DEF ApiCall
  <1>3. ASSUME (\E i \in Dls : TorrentReports(i)) \/ (\E j \in Jobs : AddDownload(j)) \/ Stop
               \/ Restart \/ UNCHANGED vars
        PROVE  OpenInv'
    <2>1. UNCHANGED <<dl, registry, closed, th>>
      BY <1>3 DEF TorrentReports, AddDownload, Stop, Restart, vars, torrentVars
    <2>2. QED
      BY <2>1 DEF OpenInv, RegisteredIsOpen, HashesInv, StartersInv, ClosersInv, Closes, Begun, IsStarting
  <1>4. CASE ClientClose
    <2>1. /\ closed' = closed \cup Registered /\ registry' = [h \in Hashes |-> NoDl] /\ UNCHANGED <<dl, th>>
          /\ closed \subseteq Dls
      BY <1>4 DEF ClientClose, TypeInv, TypeOK
    <2>2. \A t \in Registered : t \in Dls /\ Begun(t)
      BY Constants DEF Registered, OpenInv, HashesInv
    <2>3. RegisteredIsOpen'
      BY <2>1, <2>2, Constants DEF RegisteredIsOpen
    <2>4. HashesInv'
      BY <2>1, <2>2 DEF OpenInv, HashesInv, Begun
    <2>5. StartersInv' /\ ClosersInv'
      BY <2>1 DEF OpenInv, StartersInv, ClosersInv, Closes, Begun, IsStarting
    <2>6. QED
      BY <2>3, <2>4, <2>5 DEF OpenInv
  <1>5. QED
    BY <1>1, <1>2, <1>3, <1>4

LEMMA NextOpen == TypeInv /\ OpenInv /\ [Next]_vars => OpenInv'
  <1> SUFFICES ASSUME TypeInv, OpenInv, [Next]_vars PROVE OpenInv'
    OBVIOUS
  <1>1. CASE Down
    BY <1>1, DownOpen
  <1>2. CASE LoopStep
    BY <1>2, LoopOpen
  <1>3. ASSUME NEW p \in Threads, ThreadStep(p), ~Down PROVE OpenInv'
    BY <1>3, QuietOpen, RowOpen, RemoveOpen, RegisterOpen, SpawnOpen
    DEF ThreadStep, ErrorMsgPanics, CloseAgainPanics, Panic
  <1>4. ASSUME NEW i \in Dls, ProviderStep(i), ~Down PROVE OpenInv'
    BY <1>4, ProviderOpen
  <1>5. QED
    BY <1>1, <1>2, <1>3, <1>4, OtherOpen DEF Next, Running, Exit, Crash

\* The registry holds no closed torrent, although RemoveTorrent looks up and removes in two
\* critical sections and the client may be closed meanwhile (torrent/client.go).
THEOREM RegistryIsOpen == Spec => []RegisteredIsOpen
  <1>1. OpenInv => RegisteredIsOpen
    BY DEF OpenInv
  <1>2. Spec => []OpenInv
    BY InitOpen, InitTypeInv, NextOpen, AlwaysTypeInv, PTL DEF Spec
  <1>3. QED
    BY <1>1, <1>2, PTL
-----------------------------------------------------------------------------
(***************************************************************************)
(* A completed download is not queued again.  Where nobody resumes         *)
(* downloads, the loop alone starts them, and of the threads started for a *)
(* job only one at a time can still write its row (OneBusy): the loop      *)
(* starts a job when none is (StartsFree).  So the waiter that stamps the  *)
(* row as completed has no rival that could requeue it, and a copy of the  *)
(* row from before the stamp that says "queued" is in nobody's hands: the  *)
(* loop's progress write takes such a copy only of a job that is not       *)
(* completed and stays so until the loop has written (CopiesInv).          *)
(***************************************************************************)

\* A waiter or an organizer that may still write a row
Busy(t) == t.at \in {"select", "completion", "cancellation", "lookup", "close", "get", "put", "organize"}
\* A waiter that may still put its job back into the queue
MayRequeue(t) == t.at \in {"select", "completion", "cancellation"} \/ (Busy(t) /\ t.op = "requeue")
Free(j) == \A p \in Spawned : Busy(th[p]) => th[p].job # j

\* The loop is starting a job; it has the job before it; or it will find it.
InStart(j) == th[Loop].op = "start" /\ th[Loop].job = j /\ th[Loop].at # "cleanup"
Listed(j) == j \in todo /\ (th[Loop].at = "queue" \/ th[Loop].op = "start")
Wanted(j) == InStart(j) \/ Listed(j) \/ rows[j].status = "queued"

\* A job that nobody will queue again
Finished(j) ==
    /\ rows[j].status # "none" /\ ~Wanted(j)
    /\ \A p \in Spawned : MayRequeue(th[p]) => th[p].job # j
\* A job that is not completed, whatever copy of its row is written next
Uncompleted(j) ==
    /\ ~rows[j].completed
    /\ \A p \in Threads : th[p].at = "put" /\ th[p].job = j => ~th[p].copy.completed

Begins(t) == t.op = "start" \/ t.at \in {"resume", "claim", "store", "spawn"}
OnlyLoopStarts == \A p \in Threads : p # Loop => ~Begins(th[p])
OneBusy == \A p, q \in Spawned : Busy(th[p]) /\ Busy(th[q]) /\ th[p].job = th[q].job => p = q
StartsFree ==
    \A j \in Jobs : /\ Wanted(j) \/ rows[j].status = "none" => Free(j)
                    /\ InStart(j) \/ Listed(j) => rows[j].status # "none"
StartsOnce ==
    /\ th[Loop].op = "start" =>
           th[Loop].job \notin todo /\ th[Loop].at \notin {"off", "idle", "queue", "report"}
    /\ th[Loop].at = "spawn" => rows[th[Loop].job].status # "queued"
CompletedIsFinished ==
    /\ \A j \in Jobs : rows[j].completed => Finished(j)
    /\ \A p \in Threads : th[p].at = "put" /\ th[p].copy.completed => Finished(th[p].job)
CopiesInv ==
    \A p \in Threads : th[p].at = "put" =>
        /\ th[p].copy.status # "none" /\ th[p].op # "errmsg"
        /\ p \in Spawned /\ th[p].op \in {"stamp", "organized"} => th[p].copy.status # "queued"
        /\ p = Loop /\ th[p].op = "progress" /\ th[p].copy.status = "queued" =>
               Free(th[p].job) /\ Uncompleted(th[p].job)
RequeueInv ==
    OnlyLoopStarts /\ OneBusy /\ StartsFree /\ StartsOnce /\ CompletedIsFinished /\ CopiesInv

\* A new process: nothing is stored or running.
LEMMA InitRequeue == Init => RequeueInv
  <1> SUFFICES ASSUME Init PROVE RequeueInv
    OBVIOUS
  <1>1. \A p \in Threads : th[p].at \in {"off", "idle"} /\ th[p].op = "none"
    BY Blanks DEF Init, ThreadsAtStart, Blank, Steps
  <1>2. \A j \in Jobs : rows[j].status = "none" /\ ~rows[j].completed
    BY DEF Init, NoRow
  <1>3. QED
    BY <1>1, <1>2, ThreadNames
    DEF RequeueInv, OnlyLoopStarts, OneBusy, StartsFree, StartsOnce, CompletedIsFinished, CopiesInv,
        Begins, Busy, Free, InStart, Listed, Spawned, Threads

\* The process ended: what is completed stays finished on disk.
LEMMA DownRequeue == TypeInv /\ RequeueInv /\ Down => RequeueInv'
  <1> SUFFICES ASSUME TypeInv, RequeueInv, Down PROVE RequeueInv'
    OBVIOUS
  <1>1. \A p \in Threads : th'[p].at \in {"off", "idle"} /\ th'[p].op = "none"
    BY Blanks DEF Down, ThreadsAtStart, Blank, Steps
  <1>2. rows' = rows /\ todo' = {} /\ Spawned \subseteq Threads
    BY DEF Down, Threads
  <1>3. \A j \in Jobs : Free(j)' /\ ~InStart(j)' /\ ~Listed(j)' /\ (Finished(j) => Finished(j)')
    BY <1>1, <1>2, ThreadNames DEF Free, Busy, InStart, Listed, Finished, Wanted, MayRequeue
  <1>4. OnlyLoopStarts' /\ OneBusy' /\ StartsOnce' /\ CopiesInv'
    BY <1>1, <1>2, ThreadNames DEF OnlyLoopStarts, Begins, OneBusy, Busy, StartsOnce, CopiesInv
  <1>5. StartsFree' /\ CompletedIsFinished'
    BY <1>1, <1>2, <1>3 DEF RequeueInv, StartsFree, CompletedIsFinished
  <1>6. QED
    BY <1>4, <1>5 DEF RequeueInv

\* A thread moves and is no more than it was: it starts no download unless it is
\* the loop, and if it can still write a row or requeue it, so it could before.
QuietMove(p) ==
    /\ \A q \in Threads \ {p} : th'[q] = th[q]
    /\ p # Loop => ~Begins(th'[p])
    /\ p \in Spawned => /\ Busy(th'[p]) => Busy(th[p]) /\ th'[p].job = th[p].job
                        /\ MayRequeue(th'[p]) => MayRequeue(th[p])
\* A copy of a row is what Get returned.
FromRow(p) ==
    th'[p].at = "put" =>
        /\ th'[p].job \in Jobs /\ th'[p].op # "errmsg"
        /\ Present(rows[th'[p].job]) /\ th'[p].copy = rows[th'[p].job]

\* What a quiet move keeps of the threads
LEMMA QuietThreads ==
    ASSUME RequeueInv, NEW p \in Threads, QuietMove(p)
    PROVE  /\ OnlyLoopStarts' /\ OneBusy'
           /\ \A j : Free(j) => Free(j)'
           /\ \A j : (\A q \in Spawned : MayRequeue(th[q]) => th[q].job # j) =>
                     (\A q \in Spawned : MayRequeue(th'[q]) => th'[q].job # j)
  <1>0. Spawned \subseteq Threads
    BY DEF Threads
  <1>1. OnlyLoopStarts'
    BY DEF RequeueInv, OnlyLoopStarts, QuietMove
  <1>2. \A q \in Spawned : Busy(th'[q]) => Busy(th[q]) /\ th'[q].job = th[q].job
    BY <1>0 DEF QuietMove
  <1>3. \A q \in Spawned : MayRequeue(th'[q]) => MayRequeue(th[q]) /\ th'[q].job = th[q].job
    BY <1>0, <1>2 DEF QuietMove, MayRequeue, Busy
  <1>4. OneBusy'
    BY <1>2 DEF RequeueInv, OneBusy
  <1>5. \A j : Free(j) => Free(j)'
    BY <1>2 DEF Free
  <1>6. QED
    BY <1>1, <1>3, <1>4, <1>5

\* A quiet move that reads rows at most, and wants no job that was not wanted
LEMMA QuietStep ==
    ASSUME TypeInv, RequeueInv, NEW p \in Threads, QuietMove(p), FromRow(p), rows' = rows,
           \A j \in Jobs : InStart(j)' \/ Listed(j)' => Wanted(j),
           StartsOnce'
    PROVE  RequeueInv'
  <1>0. /\ OnlyLoopStarts' /\ OneBusy'
        /\ \A j : Free(j) => Free(j)'
        /\ \A j : (\A q \in Spawned : MayRequeue(th[q]) => th[q].job # j) =>
                  (\A q \in Spawned : MayRequeue(th'[q]) => th'[q].job # j)
    BY QuietThreads
  <1>1. \A j \in Jobs : Wanted(j)' => Wanted(j)
    BY DEF Wanted
  <1>2. \A j \in Jobs : Finished(j) => Finished(j)'
    BY <1>0, <1>1 DEF Finished
  <1>3. StartsFree'
    BY <1>0, <1>1 DEF RequeueInv, StartsFree, Wanted
  <1>4. \A q \in Threads : th[q].at = "put" => th[q].job \in Jobs
    BY RowOps
  <1>5. CompletedIsFinished'
    <2>1. \A j \in Jobs : rows'[j].completed => Finished(j)'
      BY <1>2 DEF RequeueInv, CompletedIsFinished
    <2>2. ASSUME NEW q \in Threads, th'[q].at = "put", th'[q].copy.completed PROVE Finished(th[q].job)'
      <3>1. CASE q = p
        BY <1>2, <2>2, <3>1 DEF FromRow, RequeueInv, CompletedIsFinished
      <3>2. CASE q # p
        BY <1>2, <1>4, <2>2, <3>2 DEF QuietMove, RequeueInv, CompletedIsFinished
      <3>3. QED
        BY <3>1, <3>2
    <2>3. QED
      BY <2>1, <2>2 DEF CompletedIsFinished
  <1>6. CopiesInv'
    <2> SUFFICES ASSUME NEW q \in Threads, th'[q].at = "put"
                 PROVE  /\ th'[q].copy.status # "none" /\ th'[q].op # "errmsg"
                        /\ q \in Spawned /\ th'[q].op \in {"stamp", "organized"} =>
                               th'[q].copy.status # "queued"
                        /\ q = Loop /\ th'[q].op = "progress" /\ th'[q].copy.status = "queued" =>
                               Free(th[q].job)' /\ Uncompleted(th[q].job)'
      BY DEF CopiesInv
    <2>1. CASE q = p
      <3>1. /\ th'[p].job \in Jobs /\ th'[p].op # "errmsg"
            /\ Present(rows[th'[p].job]) /\ th'[p].copy = rows[th'[p].job]
        BY <2>1 DEF FromRow
      <3>2. ASSUME p \in Spawned, rows[th'[p].job].status = "queued" PROVE FALSE
        <4>1. Busy(th'[p])
          BY <2>1 DEF Busy
        <4>2. Free(th'[p].job)
          BY <3>1, <3>2 DEF RequeueInv, StartsFree, Wanted
        <4>3. QED
          BY <3>2, <4>1, <4>2 DEF QuietMove, Free
      <3>3. ASSUME p = Loop, rows[th'[p].job].status = "queued"
            PROVE  Free(th[p].job)' /\ Uncompleted(th[p].job)'
        <4>1. Free(th'[p].job) /\ ~Finished(th'[p].job)
          BY <3>1, <3>3 DEF RequeueInv, StartsFree, Wanted, Finished
        <4>2. Uncompleted(th[p].job)'
          <5>1. ~rows[th'[p].job].completed
            BY <3>1, <4>1 DEF RequeueInv, CompletedIsFinished
          <5>2. \A k \in Threads : th[k].at = "put" /\ th[k].job = th'[p].job => ~th[k].copy.completed
            BY <4>1 DEF RequeueInv, CompletedIsFinished
          <5>3. QED
            BY <3>1, <5>1, <5>2 DEF QuietMove, Uncompleted
        <4>3. QED
          BY <1>0, <4>1, <4>2
      <3>4. QED
        BY <2>1, <3>1, <3>2, <3>3 DEF Present
    <2>2. CASE q # p
      <3>1. th'[q] = th[q] /\ th[q].job \in Jobs
        BY <1>4, <2>2 DEF QuietMove
      <3>2. ASSUME q = Loop, th[q].op = "progress", th[q].copy.status = "queued"
            PROVE  Free(th[q].job)' /\ Uncompleted(th[q].job)'
        <4>1. Free(th[q].job) /\ Uncompleted(th[q].job)
          BY <3>1, <3>2 DEF RequeueInv, CopiesInv
        <4>2. \A k \in Threads : th'[k].at = "put" /\ th'[k].job = th[q].job => ~th'[k].copy.completed
          BY <4>1 DEF Uncompleted, QuietMove, FromRow
        <4>3. QED
          BY <1>0, <3>1, <4>1, <4>2 DEF Uncompleted
      <3>3. QED
        BY <3>1, <3>2 DEF RequeueInv, CopiesInv
    <2>3. QED
      BY <2>1, <2>2
  <1>7. QED
    BY <1>0, <1>3, <1>5, <1>6 DEF RequeueInv

\* The same, where the loop does not move.
LEMMA QuietOther ==
    ASSUME TypeInv, RequeueInv, NEW p \in Threads, p # Loop, QuietMove(p), FromRow(p),
           rows' = rows, todo' = todo
    PROVE  RequeueInv'
  <1>1. th'[Loop] = th[Loop]
    BY ThreadNames DEF QuietMove
  <1>2. StartsOnce' /\ \A j \in Jobs : InStart(j)' \/ Listed(j)' => Wanted(j)
    BY <1>1 DEF RequeueInv, StartsOnce, InStart, Listed, Wanted
  <1>3. QED
    BY <1>2, QuietStep

\* Where a thread other than the loop goes on after it looked for a row or wrote it.
LEMMA Continues ==
    ASSUME TypeInv, NEW p \in Threads, p # Loop, ~Begins(th[p]), th[p].at \in {"get", "put"},
           NEW ok \in BOOLEAN
    PROVE  LET t == Continue(p, AfterRow(p, ok))
           IN  /\ ~Begins(t) /\ t.at # "put" /\ ~MayRequeue(t)
               /\ Busy(t) => t.job = th[p].job /\ th[p].op \in {"seeding", "failed"}
  <1> DEFINE n == AfterRow(p, ok)
             t == Continue(p, n)
  <1>0. th[p] \in Thread /\ th[p].op # "start" /\ th[p].op # "progress"
    BY WhoIsWhere, RowOps DEF Begins
  <1>1. /\ n[1] \in {"get", "cleanup", "idle", "off"}
        /\ n[1] = "get" => n[2] \in {"stamp", "errmsg"} /\ th[p].op \in {"seeding", "failed"}
        /\ n[1] = "cleanup" => n[2] = th[p].op
    BY <1>0, RowOps DEF AfterRow, AfterStamp
  <1> HIDE DEF n
  <1>2. CASE n[1] \in {"idle", "off"}
    <2>1. t = [Blank EXCEPT !.at = n[1]] /\ n[1] \in Steps
      BY <1>2 DEF Continue, Steps
    <2>2. t.at = n[1] /\ t.op = "none"
      BY <2>1, Blanks
    <2>3. QED
      BY <1>2, <2>2 DEF n, Begins, MayRequeue, Busy
  <1>3. CASE n[1] \notin {"idle", "off"}
    <2>1. t.at = n[1] /\ t.op = n[2] /\ t.job = th[p].job
      BY <1>0, <1>3 DEF Continue, Thread
    <2>2. QED
      BY <1>0, <1>1, <1>3, <2>1 DEF n, Begins, MayRequeue, Busy
  <1>4. QED
    BY <1>2, <1>3

\* Callers, waiters and organizers, but for their updates of a row.
LEMMA OtherThreads ==
    ASSUME TypeInv, RequeueInv, NEW p \in Threads, p # Loop,
           \/ Cleanup(p) \/ RowMissing(p) \/ RowGet(p)
           \/ RemoveFinds(p) \/ RemoveMisses(p) \/ RemoveCloses(p)
           \/ NoLongerActive(p) \/ HandleEnd(p) \/ Organize(p) \/ NothingToOrganize(p)
    PROVE  RequeueInv'
  <1>0. th[p] \in Thread /\ th \in [Threads -> Thread] /\ Phase(p, th[p]) /\ ~Begins(th[p])
    BY WhoIsWhere DEF TypeInv, TypeOK, RequeueInv, OnlyLoopStarts
  <1>1. rows' = rows /\ todo' = todo
    BY DEF Cleanup, RowMissing, RowGet, RemoveFinds, RemoveMisses, RemoveCloses, NoLongerActive,
       HandleEnd, Organize, NothingToOrganize, OnlyThreads
  <1> SUFFICES QuietMove(p) /\ FromRow(p)
    BY <1>1, QuietOther
  <1>2. \A q \in Threads \ {p} : th'[q] = th[q]
    BY <1>0
    DEF Cleanup, RowMissing, RowGet, RemoveFinds, RemoveMisses, RemoveCloses, NoLongerActive,
        HandleEnd, Organize, NothingToOrganize, AfterRemove, Goto, Leave
  <1>3. ASSUME NEW s \in {"off", "idle", "cleanup", "delete"}, Goto(p, s) \/ Leave(p, s)
        PROVE  QuietMove(p) /\ FromRow(p)
    BY <1>0, <1>2, <1>3, Moves DEF QuietMove, FromRow, Busy, MayRequeue, Begins, Steps
  <1>4. Back(p) = "idle" /\ (p \in Spawned => Rest(p) = "off") /\ (p \notin Spawned => Rest(p) = "idle")
    BY DEF Back, Rest
  <1>5. CASE Cleanup(p) \/ NoLongerActive(p) \/ NothingToOrganize(p)
    BY <1>3, <1>4, <1>5 DEF Cleanup, NoLongerActive, NothingToOrganize
  <1>6. CASE RemoveFinds(p) \/ HandleEnd(p) \/ Organize(p)
    <2>1. /\ th'[p].at \in {"close", "lookup", "get"} /\ th'[p].job = th[p].job
          /\ th[p].at \in {"lookup", "completion", "cancellation", "organize"}
          /\ th'[p].op = th[p].op \/ (th[p].at = "organize" /\ th'[p].op = "organized")
      <3>1. ASSUME NEW s, NEW t, th' = [th EXCEPT ![p].at = s, ![p].tor = t]
            PROVE  th'[p].at = s /\ th'[p].job = th[p].job /\ th'[p].op = th[p].op
        BY <1>0, <3>1 DEF Thread
      <3>2. CASE RemoveFinds(p)
        BY <3>1, <3>2 DEF RemoveFinds
      <3>3. CASE HandleEnd(p)
        BY <1>0, <3>3 DEF HandleEnd, Thread
      <3>4. CASE Organize(p)
        <4>1. PICK s : th' = [th EXCEPT ![p].at = s, ![p].op = "organized"] /\ s \in {"get", "lookup"}
          BY <3>4 DEF Organize
        <4>2. th'[p].at = s /\ th'[p].op = "organized" /\ th'[p].job = th[p].job
          BY <1>0, <4>1 DEF Thread
        <4>3. QED
          BY <3>4, <4>1, <4>2 DEF Organize
      <3>5. QED
        BY <1>6, <3>2, <3>3, <3>4
    <2>2. QED
      BY <1>0, <1>2, <2>1 DEF QuietMove, FromRow, Busy, MayRequeue, Begins
  <1>7. CASE RemoveMisses(p) \/ RemoveCloses(p)
    <2>1. AfterRemove(p) /\ th[p].at \in {"lookup", "close"}
      BY <1>7 DEF RemoveMisses, RemoveCloses
    <2>2. ASSUME Goto(p, "get") PROVE QuietMove(p) /\ FromRow(p)
      BY <1>0, <1>2, <2>1, <2>2, Moves DEF QuietMove, FromRow, Busy, MayRequeue, Begins, Steps
    <2>3. QED
      BY <1>3, <2>1, <2>2 DEF AfterRemove
  <1>8. CASE RowGet(p)
    <2>1. /\ th'[p].at = "put" /\ th'[p].job = th[p].job /\ th'[p].op = th[p].op /\ th[p].at = "get"
          /\ th'[p].copy = rows[th[p].job] /\ Present(rows[th[p].job]) /\ th[p].op # "errmsg"
      BY <1>0, <1>8 DEF RowGet, Thread
    <2>2. th[p].job \in Jobs
      BY <2>1, RowOps
    <2>3. QED
      BY <1>0, <1>2, <2>1, <2>2 DEF QuietMove, FromRow, Busy, MayRequeue, Begins
  <1>9. CASE RowMissing(p)
    <2>1. th[p].at = "get" /\ th'[p] = Continue(p, AfterRow(p, FALSE))
      BY <1>0, <1>9 DEF RowMissing
    <2>2. /\ ~Begins(th'[p]) /\ th'[p].at # "put" /\ ~MayRequeue(th'[p])
          /\ Busy(th'[p]) => th'[p].job = th[p].job
      BY <1>0, <2>1, Continues
    <2>3. Busy(th[p])
      BY <2>1 DEF Busy
    <2>4. QED
      BY <1>2, <2>2, <2>3 DEF QuietMove, FromRow
  <1>10. QED
    BY <1>5, <1>6, <1>7, <1>8, <1>9

\* Where the loop goes on after it looked for a row or wrote it.
LEMMA LoopContinues ==
    ASSUME TypeInv, th[Loop].at \in {"get", "put"}, NEW ok \in BOOLEAN
    PROVE  LET t == Continue(Loop, AfterRow(Loop, ok))
           IN  /\ th[Loop].op = "start" => /\ t.op = "start" /\ t.job = th[Loop].job
                                           /\ t.at \in {"spawn", "cleanup"}
               /\ th[Loop].op = "progress" => t.op = "none" /\ t.at = "report"
  <1>1. th[Loop] \in Thread
    BY LoopTyped
  <1>2. CASE th[Loop].op = "start"
    <2> DEFINE s == AfterStart(Loop, ok)
    <2>1. AfterRow(Loop, ok) = <<s, "start">> /\ s \in {"spawn", "cleanup"}
      BY <1>2 DEF AfterRow, AfterStart
    <2> HIDE DEF s
    <2>2. QED
      BY <1>1, <1>2, <2>1 DEF Continue, Thread
  <1>3. CASE th[Loop].op = "progress"
    <2>1. AfterRow(Loop, ok) = <<"report", "none">>
      BY <1>3 DEF AfterRow
    <2>2. QED
      BY <1>1, <1>3, <2>1 DEF Continue, Thread
  <1>4. QED
    BY <1>2, <1>3

\* A waiter's select
LEMMA SelectRequeue ==
    ASSUME TypeInv, RequeueInv, NEW i \in Dls, WaiterSelect(i)
    PROVE  RequeueInv'
  <1> DEFINE p == Waiter(i)
  <1>0. /\ p \in Threads /\ p # Loop /\ th[p] \in Thread /\ th \in [Threads -> Thread]
        /\ ~Begins(th[p]) /\ th[p].at = "select"
    BY ThreadNames
    DEF TypeInv, TypeOK, RequeueInv, OnlyLoopStarts, WaiterSelect, SelectDone, SelectCancelled
  <1>1. PICK s \in {"completion", "cancellation"}, o \in {"seeding", "failed", "requeue"} :
          th' = [th EXCEPT ![p].at = s, ![p].op = o]
    BY DEF WaiterSelect, SelectDone, SelectCancelled
  <1>2. th'[p].at = s /\ th'[p].op = o /\ th'[p].job = th[p].job /\ \A q \in Threads \ {p} : th'[q] = th[q]
    BY <1>0, <1>1 DEF Thread
  <1> HIDE DEF p
  <1>3. QuietMove(p) /\ FromRow(p)
    BY <1>0, <1>2 DEF QuietMove, FromRow, Busy, MayRequeue, Begins
  <1>4. rows' = rows /\ todo' = todo
    BY DEF WaiterSelect, SelectDone, SelectCancelled, OnlyThreads
  <1>5. QED
    BY <1>0, <1>3, <1>4, QuietOther

\* A call of the manager, but for Resume
LEMMA CallRequeue ==
    ASSUME TypeInv, RequeueInv, "resume" \notin Api, NEW c \in Callers, NEW j \in Jobs, ApiCall(c, j)
    PROVE  RequeueInv'
  <1> DEFINE p == Caller(c)
  <1>0. p \in Threads /\ p # Loop /\ p \notin Spawned /\ th \in [Threads -> Thread]
    BY ThreadNames DEF TypeInv, TypeOK
  <1>1. PICK s \in {"get", "lookup", "cleanup"}, o \in {"paused", "cancel", "stopseed"} :
          \E i : Call(c, j, i, s, o)
    <2>1. CASE PauseDownload(c, j)
      BY <2>1 DEF PauseDownload
    <2>2. CASE CancelDownload(c, j)
      <3>1. Call(c, j, active[j], "lookup", "cancel") \/ Call(c, j, active[j], "cleanup", "cancel")
        BY <2>2 DEF CancelDownload
      <3>2. QED
        BY <3>1
    <2>3. CASE StopSeeding(c, j)
      BY <2>3 DEF StopSeeding
    <2>4. QED
      BY <2>1, <2>2, <2>3 DEF ApiCall, ResumeDownload
  <1>2. PICK i : Call(c, j, i, s, o)
    BY <1>1
  <1> DEFINE t == [Blank EXCEPT !.at = s, !.op = o, !.job = j, !.cur = i]
  <1>3. t.at = s /\ t.op = o
    BY DEF Blank
  <1>4. th' = [th EXCEPT ![p] = t] /\ rows' = rows /\ todo' = todo
    BY <1>2 DEF Call, OnlyThreads
  <1> HIDE DEF p, t
  <1>5. QuietMove(p) /\ FromRow(p)
    BY <1>0, <1>3, <1>4 DEF QuietMove, FromRow, Begins
  <1>6. QED
    BY <1>0, <1>4, <1>5, QuietOther

\* The loop, but for the goroutines it starts and its updates of a row.
LEMMA LoopRequeue ==
    ASSUME TypeInv, RequeueInv,
           \/ LoopStep
           \/ AlreadyActive(Loop) \/ NotLinked(Loop) \/ Cleanup(Loop) \/ RowMissing(Loop) \/ RowGet(Loop)
           \/ \E n \in Dls : Link(Loop, n) \/ Store(Loop, n)
    PROVE  RequeueInv'
  <1>0. /\ Loop \in Threads /\ Loop \notin Spawned /\ Loop[1] = "loop" /\ th[Loop] \in Thread
        /\ th \in [Threads -> Thread] /\ LoopPhase(th[Loop]) /\ todo \subseteq Jobs
    BY ThreadNames, WhoIsWhere DEF TypeInv, TypeOK, Phase
  <1>1. rows' = rows
    BY DEF LoopStep, Tick, SnapshotActive, PassDone, LoopExit, NextQueued, ReportProgress, AlreadyActive,
       NotLinked, Cleanup, RowMissing, RowGet, Link, Store, Register, OnlyThreads
  <1>2. \A q \in Threads \ {Loop} : th'[q] = th[q]
    BY <1>0 DEF LoopStep, Tick, SnapshotActive, PassDone, LoopExit, NextQueued, ReportProgress,
       AlreadyActive, NotLinked, Cleanup, RowMissing, RowGet, Link, Store, Register, Goto, Leave
  <1>3. QuietMove(Loop)
    BY <1>0, <1>2 DEF QuietMove
  \* where it is not on the way to start a download
  <1>4. ASSUME th'[Loop].op # "start", th'[Loop].at \notin {"put", "spawn"},
               th'[Loop].at = "queue" => \A j \in todo' : Wanted(j)
        PROVE  RequeueInv'
    <2>1. StartsOnce' /\ FromRow(Loop)
      BY <1>4 DEF StartsOnce, FromRow
    <2>2. \A j \in Jobs : InStart(j)' \/ Listed(j)' => Wanted(j)
      BY <1>4 DEF InStart, Listed
    <2>3. QED
      BY <1>0, <1>1, <1>3, <2>1, <2>2, QuietStep
  \* where it is
  <1>5. ASSUME th[Loop].op = "start", th'[Loop].op = "start", th'[Loop].job = th[Loop].job,
               th[Loop].at # "cleanup", todo' = todo, FromRow(Loop),
               th'[Loop].at \in {"store", "get", "put", "spawn", "cleanup"},
               th'[Loop].at = "spawn" => ~Present(rows[th[Loop].job])
        PROVE  RequeueInv'
    <2>1. StartsOnce'
      BY <1>1, <1>5 DEF RequeueInv, StartsOnce, Present
    <2>2. \A j \in Jobs : InStart(j)' \/ Listed(j)' => Wanted(j)
      BY <1>5 DEF InStart, Listed, Wanted
    <2>3. QED
      BY <1>0, <1>1, <1>3, <1>5, <2>1, <2>2, QuietStep
  <1>6. ASSUME NEW s \in {"idle", "off", "queue"}, Leave(Loop, s)
        PROVE  th'[Loop].at = s /\ th'[Loop].op = "none"
    BY <1>0, <1>6, Moves DEF Steps
  <1>7. CASE PassDone \/ LoopExit
    <2>1. th'[Loop].at \in {"idle", "off"} /\ th'[Loop].op = "none"
      BY <1>6, <1>7 DEF PassDone, LoopExit
    <2>2. QED
      BY <1>4, <2>1
  <1>8. CASE AlreadyActive(Loop) \/ Cleanup(Loop)
    <2>1. Leave(Loop, "queue") /\ todo' = todo /\ th[Loop].op = "start"
      BY <1>0, <1>8 DEF AlreadyActive, Cleanup, Back, Rest, OnlyThreads, LoopPhase
    <2>2. \A j \in todo' : Wanted(j)
      BY <1>0, <2>1 DEF Wanted, Listed
    <2>3. QED
      BY <1>4, <1>6, <2>1, <2>2
  <1>9. CASE Tick \/ SnapshotActive
    <2>1. th'[Loop].op = th[Loop].op /\ th[Loop].at \in {"idle", "queue"}
          /\ th'[Loop].at = IF Tick THEN "queue" ELSE "report"
      <3>1. CASE Tick
        BY <1>0, <3>1, Moves DEF Tick, Steps
      <3>2. CASE ~Tick
        BY <1>0, <1>9, <3>2, Moves DEF SnapshotActive, Steps
      <3>3. QED
        BY <3>1, <3>2
    <2>2. th[Loop].op # "start"
      BY <2>1 DEF RequeueInv, StartsOnce
    <2>3. Tick => \A j \in todo' : Wanted(j)
      BY DEF Tick, Wanted
    <2>4. QED
      BY <1>4, <2>1, <2>2, <2>3
  <1>10. ASSUME NEW j \in Jobs, NextQueued(j) PROVE RequeueInv'
    <2>1. /\ th'[Loop].at = "claim" /\ th'[Loop].op = "start" /\ th'[Loop].job = j
          /\ th[Loop].at = "queue" /\ j \in todo /\ todo' = todo \ {j}
      BY <1>0, <1>10 DEF NextQueued, Thread
    <2>2. StartsOnce' /\ FromRow(Loop)
      BY <2>1 DEF StartsOnce, FromRow
    <2>3. \A k \in Jobs : InStart(k)' \/ Listed(k)' => Wanted(k)
      BY <2>1 DEF InStart, Listed, Wanted
    <2>4. QED
      BY <1>0, <1>1, <1>3, <2>2, <2>3, QuietStep
  <1>11. ASSUME NEW j \in Jobs, ReportProgress(j) PROVE RequeueInv'
    <2>1. th'[Loop].at = "get" /\ th'[Loop].op = "progress"
      BY <1>0, <1>11 DEF ReportProgress, Thread
    <2>2. QED
      BY <1>4, <2>1
  <1>12. CASE NotLinked(Loop) \/ \E n \in Dls : Link(Loop, n) \/ Store(Loop, n)
    <2>1. /\ th'[Loop].at \in {"store", "get"} /\ th'[Loop].job = th[Loop].job
          /\ th'[Loop].op = th[Loop].op /\ th[Loop].at \in {"claim", "store"} /\ todo' = todo
      <3>1. CASE NotLinked(Loop)
        BY <1>0, <3>1, Moves DEF NotLinked, OnlyThreads, Steps
      <3>2. ASSUME NEW n \in Dls, Link(Loop, n) \/ Store(Loop, n)
            PROVE  th' = [th EXCEPT ![Loop].at = "get", ![Loop].cur = n] /\ todo' = todo
                   /\ th[Loop].at \in {"claim", "store"}
        BY <3>2 DEF Link, Store, Register
      <3>3. QED
        BY <1>0, <1>12, <3>1, <3>2 DEF Thread
    <2>2. th[Loop].op = "start"
      BY <1>0, <2>1 DEF LoopPhase
    <2>3. QED
      BY <1>5, <2>1, <2>2 DEF FromRow
  <1>13. CASE RowGet(Loop)
    <2>1. /\ th'[Loop].at = "put" /\ th'[Loop].job = th[Loop].job /\ th'[Loop].op = th[Loop].op
          /\ th[Loop].at = "get" /\ th'[Loop].copy = rows[th[Loop].job] /\ Present(rows[th[Loop].job])
          /\ th[Loop].op # "errmsg" /\ todo' = todo
      BY <1>0, <1>13 DEF RowGet, Thread, OnlyThreads
    <2>2. th[Loop].job \in Jobs /\ th[Loop].op \in {"start", "progress"}
      BY <1>0, <2>1, RowOps DEF LoopPhase
    <2>3. FromRow(Loop)
      BY <2>1, <2>2 DEF FromRow
    <2>4. CASE th[Loop].op = "start"
      BY <1>5, <2>1, <2>3, <2>4
    <2>5. CASE th[Loop].op = "progress"
      <3>1. StartsOnce' /\ \A j \in Jobs : InStart(j)' \/ Listed(j)' => Wanted(j)
        BY <2>1, <2>5 DEF StartsOnce, InStart, Listed
      <3>2. QED
        BY <1>0, <1>1, <1>3, <2>3, <3>1, QuietStep
    <2>6. QED
      BY <2>2, <2>4, <2>5
  <1>14. CASE RowMissing(Loop)
    <2>1. /\ th'[Loop] = Continue(Loop, AfterRow(Loop, FALSE)) /\ th[Loop].at = "get" /\ todo' = todo
          /\ ~Present(rows[th[Loop].job])
      BY <1>0, <1>14 DEF RowMissing, OnlyThreads
    <2>2. CASE th[Loop].op = "start"
      BY <1>5, <2>1, <2>2, LoopContinues DEF FromRow
    <2>3. CASE th[Loop].op = "progress"
      BY <1>4, <2>1, <2>3, LoopContinues
    <2>4. QED
      BY <1>0, <2>1, <2>2, <2>3 DEF LoopPhase
  <1>15. QED
    BY <1>7, <1>8, <1>9, <1>10, <1>11, <1>12, <1>13, <1>14 DEF LoopStep

\* A caller returns, and rows are no more queued, completed or missing than they were.
LEMMA RowsRequeue ==
    ASSUME TypeInv, RequeueInv, NEW p \in Threads, p # Loop, p \notin Spawned,
           ~Begins(th'[p]), th'[p].at = "idle", \A q \in Threads \ {p} : th'[q] = th[q], todo' = todo,
           \A j \in Jobs : /\ rows'[j].completed => rows[j].completed
                           /\ rows'[j].status = "none" <=> rows[j].status = "none"
                           /\ rows'[j].status = "queued" => rows[j].status = "queued"
    PROVE  RequeueInv'
  <1>0. Loop \in Threads /\ th'[Loop] = th[Loop] /\ \A q \in Spawned : q \in Threads /\ th'[q] = th[q]
    BY ThreadNames DEF Threads
  <1>1. \A j \in Jobs : /\ Free(j) => Free(j)'
                        /\ InStart(j)' = InStart(j) /\ Listed(j)' = Listed(j) /\ (Wanted(j)' => Wanted(j))
    BY <1>0 DEF Free, InStart, Listed, Wanted
  <1>2. \A j \in Jobs : /\ Finished(j) => Finished(j)'
                        /\ Uncompleted(j) => Uncompleted(j)'
    BY <1>0, <1>1 DEF Finished, Uncompleted
  <1>3. \A q \in Threads : th'[q].at = "put" => th'[q] = th[q] /\ th[q].job \in Jobs
    BY RowOps
  <1>4. OnlyLoopStarts' /\ OneBusy'
    BY <1>0 DEF RequeueInv, OnlyLoopStarts, OneBusy
  <1>5. StartsFree'
    BY <1>1 DEF RequeueInv, StartsFree
  <1>6. StartsOnce'
    <2>1. th[Loop].at = "spawn" => th[Loop].job \in Jobs
      BY <1>0, WhoIsWhere DEF Knows
    <2>2. QED
      BY <1>0, <2>1 DEF RequeueInv, StartsOnce
  <1>7. CompletedIsFinished'
    BY <1>2, <1>3 DEF RequeueInv, CompletedIsFinished
  <1>8. CopiesInv'
    BY <1>1, <1>2, <1>3 DEF RequeueInv, CopiesInv
  <1>9. QED
    BY <1>4, <1>5, <1>6, <1>7, <1>8 DEF RequeueInv

\* The loop starts the goroutines of the job: nobody else is busy with it.
LEMMA SpawnRequeue ==
    ASSUME TypeInv, RequeueInv, NEW p \in Threads, Spawn(p)
    PROVE  RequeueInv'
  <1> DEFINE i == th[Loop].cur
             w == Waiter(i)
  <1>0. p = Loop /\ Loop \in Threads /\ Loop \notin Spawned /\ Spawned \subseteq Threads
    BY ThreadNames DEF Spawn, RequeueInv, OnlyLoopStarts, Begins, Threads
  <1>1. /\ th \in [Threads -> Thread] /\ th[Loop].at = "spawn" /\ th[Loop].op = "start"
        /\ th[Loop].job \in Jobs /\ i \in Dls /\ dl[i].job = th[Loop].job
    BY <1>0, WhoIsWhere DEF TypeInv, TypeOK, Spawn, Knows, IsStarting
  <1>2. PICK j \in Jobs : j = th[Loop].job
    BY <1>1
  <1>3. w \in Spawned /\ w \in Threads /\ w # Loop
    BY <1>0, <1>1, ThreadNames
  <1>4. /\ th'[Loop].at = "queue" /\ th'[Loop].op = "none"
        /\ th'[w].at = "select" /\ th'[w].op = "none" /\ th'[w].job = j
        /\ \A q \in Threads \ {Loop, w} : th'[q] = th[q]
    <2> DEFINE s == [Blank EXCEPT !.at = Back(Loop)]
               b == [Blank EXCEPT !.at = "select", !.job = dl[i].job, !.cur = i]
    <2>1. s.at = "queue" /\ s.op = "none" /\ b.at = "select" /\ b.op = "none" /\ b.job = dl[i].job
      BY DEF Blank, Back
    <2>2. th' = [th EXCEPT ![Loop] = s, ![w] = b]
      BY <1>0 DEF Spawn
    <2> HIDE DEF s, b, w, i
    <2>3. QED
      BY <1>0, <1>1, <1>2, <1>3, <2>1, <2>2
  <1>5. rows' = rows /\ todo' = todo
    BY DEF Spawn
  <1> HIDE DEF w, i
  <1>6. InStart(j) /\ Free(j) /\ ~Finished(j) /\ j \notin todo /\ rows[j].status \notin {"none", "queued"}
    BY <1>1, <1>2 DEF InStart, RequeueInv, StartsFree, StartsOnce, Wanted, Finished
  <1>7. \A q \in Spawned \ {w} : th'[q] = th[q]
    BY <1>0, <1>4
  <1>8. OnlyLoopStarts' /\ StartsOnce'
    BY <1>4 DEF RequeueInv, OnlyLoopStarts, Begins, StartsOnce
  <1>9. OneBusy'
    BY <1>4, <1>6, <1>7 DEF RequeueInv, OneBusy, Free
  <1>10. \A k : k # j /\ Free(k) => Free(k)'
    BY <1>4, <1>7 DEF Free
  <1>11. \A k \in Jobs : ~InStart(k)' /\ (Listed(k)' => Listed(k)) /\ (Wanted(k)' => Wanted(k)) /\ ~Wanted(j)'
    BY <1>1, <1>2, <1>4, <1>5, <1>6 DEF InStart, Listed, Wanted
  <1>12. StartsFree'
    BY <1>5, <1>6, <1>10, <1>11 DEF RequeueInv, StartsFree
  <1>13. \A k \in Jobs : k # j /\ Finished(k) => Finished(k)'
    BY <1>4, <1>5, <1>7, <1>11 DEF Finished, MayRequeue
  <1>14. \A q \in Threads : th'[q].at = "put" => th[q] = th'[q] /\ th[q].job \in Jobs /\ q # Loop
    BY <1>4, RowOps
  <1>15. CompletedIsFinished'
    <2>1. \A k \in Jobs : rows'[k].completed => Finished(k)'
      BY <1>5, <1>6, <1>13 DEF RequeueInv, CompletedIsFinished
    <2>2. \A q \in Threads : th'[q].at = "put" /\ th'[q].copy.completed => Finished(th[q].job)'
      BY <1>6, <1>13, <1>14 DEF RequeueInv, CompletedIsFinished
    <2>3. QED
      BY <2>1, <2>2 DEF CompletedIsFinished
  <1>16. CopiesInv'
    BY <1>14 DEF RequeueInv, CopiesInv
  <1>17. QED
    BY <1>8, <1>9, <1>12, <1>15, <1>16 DEF RequeueInv

\* Cancel deletes a row.
LEMMA DeleteRequeue ==
    ASSUME TypeInv, RequeueInv, NEW p \in Threads, DeleteRow(p)
    PROVE  RequeueInv'
  <1>0. /\ p # Loop /\ p \notin Spawned /\ th[p] \in Thread /\ th[p].job \in Jobs
        /\ Loop \in Threads /\ Spawned \subseteq Threads
    BY WhoIsWhere, ThreadNames DEF DeleteRow, Knows, Threads
  <1>1. th'[p].at = "idle" /\ th'[p].op = "none" /\ \A q \in Threads \ {p} : th'[q] = th[q]
    BY Moves DEF DeleteRow, Steps
  <1>2. /\ todo' = todo
        /\ \A j \in Jobs : \/ rows'[j] = rows[j]
                           \/ rows'[j] = GoneRow /\ rows[j].status # "none"
    BY DEF DeleteRow, Present, TypeInv, TypeOK
  <1>3. \A j \in Jobs : /\ rows'[j].completed => rows[j].completed
                        /\ rows'[j].status = "none" <=> rows[j].status = "none"
                        /\ rows'[j].status = "queued" => rows[j].status = "queued"
    BY <1>2 DEF GoneRow
  <1>4. QED
    BY <1>0, <1>1, <1>2, <1>3, RowsRequeue DEF Begins

\* Add inserts a row, and nobody is busy with the job yet.
LEMMA AddRequeue ==
    ASSUME TypeInv, RequeueInv, NEW j \in Jobs, AddDownload(j)
    PROVE  RequeueInv'
  <1>1. /\ th' = th /\ todo' = todo /\ rows[j].status = "none" /\ rows'[j].status = "queued"
        /\ rows'[j].completed = rows[j].completed /\ \A k \in Jobs \ {j} : rows'[k] = rows[k]
    BY DEF AddDownload, TypeInv, TypeOK, Row
  <1>2. Free(j) /\ ~InStart(j) /\ ~Listed(j) /\ ~Finished(j)
    BY <1>1 DEF RequeueInv, StartsFree, Finished
  <1>3. \A k \in Jobs : (k # j /\ Finished(k) => Finished(k)') /\ (Free(k) => Free(k)')
    BY <1>1 DEF Finished, Wanted, InStart, Listed, Free
  <1>4. \A q \in Threads : th[q].at = "put" => th[q].job \in Jobs
    BY RowOps
  <1>5. OnlyLoopStarts' /\ OneBusy'
    BY <1>1 DEF RequeueInv, OnlyLoopStarts, OneBusy
  <1>6. StartsFree'
    BY <1>1, <1>2, <1>3 DEF RequeueInv, StartsFree, Wanted, InStart, Listed
  <1>7. StartsOnce'
    <2>1. ASSUME th[Loop].at = "spawn" PROVE th[Loop].job \in Jobs /\ th[Loop].job # j
      BY <1>2, <2>1, WhoIsWhere, ThreadNames DEF Knows, InStart
    <2>2. QED
      BY <1>1, <2>1 DEF RequeueInv, StartsOnce
  <1>8. CompletedIsFinished'
    BY <1>1, <1>2, <1>3, <1>4 DEF RequeueInv, CompletedIsFinished
  <1>9. CopiesInv'
    <2>1. \A k \in Jobs : Uncompleted(k) => Uncompleted(k)'
      BY <1>1 DEF Uncompleted
    <2>2. QED
      BY <1>1, <1>3, <1>4, <2>1 DEF RequeueInv, CopiesInv
  <1>10. QED
    BY <1>5, <1>6, <1>7, <1>8, <1>9 DEF RequeueInv

\* What an update of a row leaves: the row of one job changes, a thread that held a
\* copy of it does no more, nobody else is busy who was not, and what is written is
\* queued only if nobody is busy with the job and no completion of it is known.
LEMMA UpdateRequeue ==
    ASSUME TypeInv, RequeueInv, NEW j \in Jobs,
           \A k \in Jobs \ {j} : rows'[k] = rows[k],
           OnlyLoopStarts', OneBusy', StartsOnce',
           \A q \in Threads : th'[q].at = "put" => th'[q] = th[q],
           \A k \in Jobs : /\ Free(k) => Free(k)'
                           /\ InStart(k)' \/ Listed(k)' => InStart(k) \/ Listed(k)
                           /\ (\A q \in Spawned : MayRequeue(th[q]) => th[q].job # k) =>
                              (\A q \in Spawned : MayRequeue(th'[q]) => th'[q].job # k),
           rows'[j].status = "none" => rows[j].status = "none",
           rows'[j].status = "queued" =>
               /\ Free(j)' /\ ~rows'[j].completed
               /\ \A q \in Threads : th'[q].at = "put" /\ th'[q].job = j => ~th'[q].copy.completed,
           rows'[j].completed => Finished(j)',
           th'[Loop].at = "put" /\ th'[Loop].op = "progress" /\ th'[Loop].copy.status = "queued"
               /\ th'[Loop].job = j => ~rows'[j].completed
    PROVE  RequeueInv'
  <1>1. \A k \in Jobs : k # j \/ rows'[j].status # "queued" => (Wanted(k)' => Wanted(k))
    BY DEF Wanted
  <1>2. \A k \in Jobs : (k # j \/ rows'[j].status # "queued") /\ Finished(k) => Finished(k)'
    BY <1>1 DEF Finished
  <1>3. \A q \in Threads : th'[q].at = "put" => th'[q] = th[q] /\ th[q].job \in Jobs
    BY RowOps
  <1>4. StartsFree'
    BY DEF RequeueInv, StartsFree, Wanted
  <1>5. CompletedIsFinished'
    <2>1. \A k \in Jobs : rows'[k].completed => Finished(k)'
      BY <1>2 DEF RequeueInv, CompletedIsFinished
    <2>2. \A q \in Threads : th'[q].at = "put" /\ th'[q].copy.completed => Finished(th[q].job)'
      BY <1>2, <1>3 DEF RequeueInv, CompletedIsFinished
    <2>3. QED
      BY <2>1, <2>2 DEF CompletedIsFinished
  <1>6. CopiesInv'
    <2>1. ASSUME th'[Loop].at = "put", th'[Loop].op = "progress", th'[Loop].copy.status = "queued"
          PROVE  Free(th[Loop].job)' /\ Uncompleted(th[Loop].job)'
      <3>1. th'[Loop] = th[Loop] /\ th[Loop].job \in Jobs
        BY <1>3, <2>1, ThreadNames
      <3>2. Free(th[Loop].job) /\ Uncompleted(th[Loop].job)
        BY <2>1, <3>1, ThreadNames DEF RequeueInv, CopiesInv
      <3>3. \A q \in Threads : th'[q].at = "put" /\ th'[q].job = th[Loop].job => ~th'[q].copy.completed
        BY <3>2 DEF Uncompleted
      <3>4. ~rows'[th[Loop].job].completed
        BY <2>1, <3>1, <3>2 DEF Uncompleted
      <3>5. QED
        BY <3>1, <3>2, <3>3, <3>4 DEF Uncompleted
    <2>2. QED
      BY <1>3, <2>1 DEF RequeueInv, CopiesInv
  <1>7. QED
    BY <1>4, <1>5, <1>6 DEF RequeueInv

\* What Update writes
LEMMA WhatIsWritten ==
    ASSUME TypeInv, NEW p \in Threads, th[p].at = "put"
    PROVE  LET r == Written(th[p].op, th[p].copy)
           IN  /\ r.status = CASE th[p].op \in {"seeding", "failed", "paused"} -> th[p].op
                               [] th[p].op = "requeue" -> "queued"
                               [] th[p].op = "start"   -> "downloading"
                               [] OTHER                -> th[p].copy.status
               /\ r.completed = IF th[p].op = "stamp" THEN TRUE ELSE th[p].copy.completed
  <1>1. th[p].copy \in Row
    BY WhoIsWhere DEF Thread
  <1>2. CASE th[p].op \in {"start", "seeding", "failed", "requeue", "paused"}
    <2>1. Written(th[p].op, th[p].copy) = [th[p].copy EXCEPT !.status = StatusSet[th[p].op]]
      BY <1>2 DEF Written, StatusSet
    <2>2. /\ StatusSet[th[p].op] = CASE th[p].op \in {"seeding", "failed", "paused"} -> th[p].op
                                      [] th[p].op = "requeue" -> "queued"
                                      [] th[p].op = "start"   -> "downloading"
      BY <1>2 DEF StatusSet
    <2>3. th[p].op # "stamp"
      BY <1>2
    <2>4. /\ Written(th[p].op, th[p].copy).status = StatusSet[th[p].op]
          /\ Written(th[p].op, th[p].copy).completed = th[p].copy.completed
      BY <1>1, <2>1 DEF Row
    <2>5. QED
      BY <1>2, <2>2, <2>3, <2>4
  <1>3. CASE th[p].op \notin {"start", "seeding", "failed", "requeue", "paused"}
    <2>1. Written(th[p].op, th[p].copy) =
            IF th[p].op = "stamp" THEN [th[p].copy EXCEPT !.completed = TRUE] ELSE th[p].copy
      BY <1>3 DEF Written, StatusSet
    <2>2. QED
      BY <1>1, <1>3, <2>1 DEF Row
  <1>4. QED
    BY <1>2, <1>3

\* A caller, a waiter or an organizer writes a row.
LEMMA PutOther ==
    ASSUME TypeInv, RequeueInv, NEW p \in Threads, p # Loop, RowPut(p)
    PROVE  RequeueInv'
  <1> DEFINE ok == Present(rows[th[p].job])
             o == Organizer(p[2])
             r == Written(th[p].op, th[p].copy)
             stamps == th[p].op = "stamp"
  <1>1. /\ th \in [Threads -> Thread] /\ th[p].at = "put" /\ ~Begins(th[p])
        /\ Loop \in Threads /\ Loop \notin Spawned /\ \A q \in Spawned : q \in Threads
    BY ThreadNames DEF TypeInv, TypeOK, RowPut, RequeueInv, OnlyLoopStarts, Threads
  <1>2. PICK j \in Jobs : j = th[p].job
    BY <1>1, RowOps
  <1>3. /\ th[p].op \in {"seeding", "stamp", "failed", "requeue", "paused", "organized"}
        /\ th[p].op = "paused" <=> p \notin Spawned
    BY <1>1, RowOps, ThreadNames DEF RequeueInv, CopiesInv, Begins
  <1>4. stamps => o \in Spawned /\ o # p
    BY <1>1, RowOps, ThreadNames
  <1>5. /\ ~Begins(th'[p]) /\ th'[p].at # "put" /\ ~MayRequeue(th'[p])
        /\ Busy(th'[p]) => th'[p].job = j /\ th[p].op \in {"seeding", "failed"}
        /\ stamps => th'[o].at = "organize" /\ th'[o].op = "none" /\ th'[o].job = j
        /\ \A q \in Threads \ {p} : (stamps /\ q = o) \/ th'[q] = th[q]
    <2> DEFINE t == Continue(p, AfterRow(p, ok))
               b == [Blank EXCEPT !.at = "organize", !.job = th[p].job, !.cur = th[p].cur]
    <2>1. /\ ~Begins(t) /\ t.at # "put" /\ ~MayRequeue(t)
          /\ Busy(t) => t.job = j /\ th[p].op \in {"seeding", "failed"}
      <3>1. ok \in BOOLEAN
        BY DEF Present
      <3>2. QED
        BY <1>1, <1>2, <3>1, Continues
    <2>2. b.at = "organize" /\ b.op = "none" /\ b.job = j
      BY <1>2 DEF Blank
    <2>3. th' = IF stamps THEN [th EXCEPT ![p] = t, ![o] = b] ELSE [th EXCEPT ![p] = t]
      BY DEF RowPut
    <2> HIDE DEF t, b, o
    <2>4. QED
      BY <1>1, <1>4, <2>1, <2>2, <2>3
  <1>6. /\ todo' = todo /\ \A k \in Jobs \ {j} : rows'[k] = rows[k]
        /\ rows'[j] = IF ok THEN r ELSE rows[j]
    BY <1>2 DEF RowPut, TypeInv, TypeOK
  <1>7. th'[Loop] = th[Loop]
    BY <1>1, <1>4, <1>5
  <1>8. Busy(th[p]) /\ (p \in Spawned => ~Free(j) /\ \A q \in Spawned \ {p} : Busy(th[q]) => th[q].job # j)
    BY <1>1, <1>2 DEF Busy, Free, RequeueInv, OneBusy
  <1> HIDE DEF o
  <1>9. \A q \in Spawned :
          Busy(th'[q]) => \/ th'[q].job = j /\ q = (IF stamps THEN o ELSE p)
                          \/ q # p /\ Busy(th[q]) /\ th'[q].job = th[q].job
    BY <1>1, <1>3, <1>5
  <1>10. \A q \in Spawned : MayRequeue(th'[q]) => q # p /\ MayRequeue(th[q]) /\ th'[q].job = th[q].job
    BY <1>1, <1>5 DEF MayRequeue
  <1>11. OnlyLoopStarts'
    BY <1>5 DEF RequeueInv, OnlyLoopStarts, Begins
  <1>12. OneBusy'
    BY <1>3, <1>4, <1>8, <1>9 DEF RequeueInv, OneBusy
  <1>13. \A k \in Jobs : /\ Free(k) => Free(k)'
                         /\ InStart(k)' \/ Listed(k)' => InStart(k) \/ Listed(k)
                         /\ (\A q \in Spawned : MayRequeue(th[q]) => th[q].job # k) =>
                            (\A q \in Spawned : MayRequeue(th'[q]) => th'[q].job # k)
    <2>1. \A k \in Jobs : InStart(k)' \/ Listed(k)' => InStart(k) \/ Listed(k)
      BY <1>6, <1>7 DEF InStart, Listed
    <2>2. \A k \in Jobs : Free(k) => Free(k)'
      BY <1>3, <1>4, <1>8, <1>9 DEF Free
    <2>3. QED
      BY <1>10, <2>1, <2>2
  <1>14. \A q \in Threads : th'[q].at = "put" => th'[q] = th[q]
    BY <1>5
  <1>15. Finished(j) /\ rows'[j].status \notin {"none", "queued"} => Finished(j)'
    BY <1>13 DEF Finished, Wanted
  <1>16. /\ th[p].copy.status # "none"
         /\ th[p].op \in {"stamp", "organized"} => th[p].copy.status # "queued"
         /\ th[p].copy.completed => Finished(j)
    BY <1>1, <1>2, <1>3 DEF RequeueInv, CopiesInv, CompletedIsFinished
  <1>17. /\ r.status \notin {"none", "queued"} \/ (r.status = "queued" /\ th[p].op = "requeue")
         /\ r.completed => stamps \/ th[p].copy.completed
    BY <1>1, <1>3, <1>16, WhatIsWritten
  <1> HIDE DEF r
  <1>18. th[p].op = "requeue" => MayRequeue(th[p]) /\ ~Finished(j) /\ Free(j)'
    <2>1. ASSUME th[p].op = "requeue" PROVE MayRequeue(th[p]) /\ p \in Spawned
      BY <1>3, <1>8, <2>1 DEF MayRequeue
    <2>2. ASSUME th[p].op = "requeue" PROVE ~Finished(j)
      BY <1>2, <2>1, <2>2 DEF Finished
    <2>3. ASSUME th[p].op = "requeue" PROVE Free(j)'
      BY <1>5, <1>8, <1>9, <2>1, <2>3 DEF Free
    <2>4. QED
      BY <2>1, <2>2, <2>3
  <1>19. rows'[j].status = "none" => rows[j].status = "none"
    BY <1>6, <1>17
  <1>20. rows'[j].status = "queued" => ok /\ th[p].op = "requeue"
    BY <1>2, <1>6, <1>17 DEF Present
  <1>21. ASSUME rows'[j].status = "queued"
         PROVE  /\ Free(j)' /\ ~rows'[j].completed
                /\ \A q \in Threads : th'[q].at = "put" /\ th'[q].job = j => ~th'[q].copy.completed
    BY <1>6, <1>14, <1>16, <1>17, <1>18, <1>20, <1>21 DEF RequeueInv, CompletedIsFinished
  <1>22. StartsOnce'
    <2>1. ASSUME th[Loop].at = "spawn", th[Loop].job = j PROVE p \notin Spawned
      <3>1. InStart(j)
        BY <1>1, <2>1, WhoIsWhere DEF InStart
      <3>2. QED
        BY <1>8, <3>1 DEF RequeueInv, StartsFree, Wanted
    <2>2. th[Loop].at = "spawn" => th[Loop].job \in Jobs
      BY <1>1, WhoIsWhere DEF Knows
    <2>3. QED
      BY <1>3, <1>6, <1>7, <1>20, <2>1, <2>2 DEF RequeueInv, StartsOnce
  <1>23. rows'[j].completed => Finished(j)'
    <2>1. CASE ~ok
      BY <1>6, <1>15, <2>1 DEF RequeueInv, CompletedIsFinished, Finished, Wanted
    <2>2. CASE ok /\ ~stamps
      BY <1>6, <1>15, <1>16, <1>17, <1>18, <2>2
    <2>3. CASE ok /\ stamps
      <3>1. ~Wanted(j)' /\ rows'[j].status \notin {"none", "queued"}
        BY <1>3, <1>6, <1>8, <1>13, <1>17, <2>3 DEF RequeueInv, StartsFree, Wanted
      <3>2. \A q \in Spawned : MayRequeue(th'[q]) => th'[q].job # j
        BY <1>3, <1>8, <1>10, <2>3 DEF MayRequeue, Busy
      <3>3. QED
        BY <3>1, <3>2 DEF Finished
    <2>4. QED
      BY <2>1, <2>2, <2>3
  <1>24. ASSUME th'[Loop].at = "put", th'[Loop].op = "progress", th'[Loop].copy.status = "queued",
                th'[Loop].job = j
         PROVE  ~rows'[j].completed
    <2>1. Free(j) /\ Uncompleted(j)
      BY <1>1, <1>7, <1>24 DEF RequeueInv, CopiesInv
    <2>2. ~th[p].copy.completed /\ ~rows[j].completed /\ ~stamps
      BY <1>1, <1>2, <1>3, <1>8, <2>1 DEF Uncompleted
    <2>3. QED
      BY <1>6, <1>17, <2>2
  <1>25. QED
    <2>1. \A k \in Jobs \ {j} : rows'[k] = rows[k]
      BY <1>6
    <2>2. th'[Loop].at = "put" /\ th'[Loop].op = "progress" /\ th'[Loop].copy.status = "queued"
            /\ th'[Loop].job = j => ~rows'[j].completed
      BY <1>24
    <2>3. rows'[j].status = "queued" =>
            /\ Free(j)' /\ ~rows'[j].completed
            /\ \A q \in Threads : th'[q].at = "put" /\ th'[q].job = j => ~th'[q].copy.completed
      BY <1>21
    <2>4. QED
      BY <2>1, <1>11, <1>12, <1>13, <1>14, <1>19, <1>22, <1>23, <2>2, <2>3, UpdateRequeue

\* The loop writes a row: of a job it starts, or its progress.
LEMMA PutLoop ==
    ASSUME TypeInv, RequeueInv, RowPut(Loop)
    PROVE  RequeueInv'
  <1> DEFINE ok == Present(rows[th[Loop].job])
             r == Written(th[Loop].op, th[Loop].copy)
  <1>1. /\ Loop \in Threads /\ Loop \notin Spawned /\ th \in [Threads -> Thread] /\ th[Loop].at = "put"
        /\ \A q \in Spawned : q \in Threads
    BY ThreadNames DEF TypeInv, TypeOK, RowPut, Threads
  <1>2. PICK j \in Jobs : j = th[Loop].job
    BY <1>1, RowOps
  <1>3. th[Loop].op \in {"start", "progress"}
    BY <1>1, RowOps, ThreadNames DEF RequeueInv, CopiesInv
  <1>4. /\ th'[Loop] = Continue(Loop, AfterRow(Loop, ok)) /\ \A q \in Threads \ {Loop} : th'[q] = th[q]
        /\ todo' = todo /\ \A k \in Jobs \ {j} : rows'[k] = rows[k]
        /\ rows'[j] = IF ok THEN r ELSE rows[j]
    <2>1. th' = [th EXCEPT ![Loop] = Continue(Loop, AfterRow(Loop, ok))]
      BY <1>3 DEF RowPut
    <2>2. QED
      BY <1>1, <1>2, <2>1 DEF RowPut, TypeInv, TypeOK
  <1>5. /\ th[Loop].op = "start" => /\ th'[Loop].op = "start" /\ th'[Loop].job = j
                                    /\ th'[Loop].at \in {"spawn", "cleanup"}
        /\ th[Loop].op = "progress" => th'[Loop].op = "none" /\ th'[Loop].at = "report"
    <2>1. ok \in BOOLEAN
      BY DEF Present
    <2>2. QED
      BY <1>1, <1>2, <1>4, <2>1, LoopContinues
  <1>6. \A q \in Spawned : th'[q] = th[q]
    BY <1>1, <1>4
  <1>7. \A k \in Jobs : /\ Free(k) => Free(k)'
                        /\ InStart(k)' \/ Listed(k)' => InStart(k) \/ Listed(k)
                        /\ (\A q \in Spawned : MayRequeue(th[q]) => th[q].job # k) =>
                           (\A q \in Spawned : MayRequeue(th'[q]) => th'[q].job # k)
    BY <1>1, <1>2, <1>3, <1>4, <1>5, <1>6 DEF Free, InStart, Listed
  <1>8. OnlyLoopStarts' /\ OneBusy'
    BY <1>4, <1>6 DEF RequeueInv, OnlyLoopStarts, OneBusy
  <1>9. \A q \in Threads : th'[q].at = "put" => q # Loop /\ th'[q] = th[q]
    BY <1>3, <1>4, <1>5
  <1>10. /\ th[Loop].copy.status # "none" /\ (th[Loop].copy.completed => Finished(j))
         /\ th[Loop].op = "progress" /\ th[Loop].copy.status = "queued" => Free(j) /\ Uncompleted(j)
    BY <1>1, <1>2 DEF RequeueInv, CopiesInv, CompletedIsFinished
  <1>11. /\ r.status = IF th[Loop].op = "start" THEN "downloading" ELSE th[Loop].copy.status
         /\ r.completed = th[Loop].copy.completed
    BY <1>1, <1>3, WhatIsWritten
  <1> HIDE DEF r
  <1>12. StartsOnce'
    <2>1. CASE th[Loop].op = "progress"
      BY <1>5, <2>1 DEF StartsOnce
    <2>2. CASE th[Loop].op = "start"
      BY <1>2, <1>4, <1>5, <1>11, <2>2 DEF RequeueInv, StartsOnce, Present
    <2>3. QED
      BY <1>3, <2>1, <2>2
  <1>13. rows'[j].status = "none" => rows[j].status = "none"
    BY <1>4, <1>10, <1>11
  <1>14. ASSUME rows'[j].status = "queued"
         PROVE  /\ Free(j)' /\ ~rows'[j].completed
                /\ \A q \in Threads : th'[q].at = "put" /\ th'[q].job = j => ~th'[q].copy.completed
    <2>1. ok /\ Free(j) /\ Uncompleted(j)
      BY <1>2, <1>3, <1>4, <1>10, <1>11, <1>14 DEF Present
    <2>2. ~th[Loop].copy.completed
      BY <1>1, <1>2, <2>1 DEF Uncompleted
    <2>3. QED
      BY <1>4, <1>7, <1>9, <1>11, <2>1, <2>2 DEF Uncompleted
  <1>15. rows'[j].completed => Finished(j)'
    <2>1. Finished(j) /\ rows'[j].status # "queued" => Finished(j)'
      BY <1>7, <1>13 DEF Finished, Wanted
    <2>2. rows'[j].completed => Finished(j)
      BY <1>4, <1>10, <1>11 DEF RequeueInv, CompletedIsFinished
    <2>3. QED
      BY <1>14, <2>1, <2>2
  <1>16. QED
    BY <1>3, <1>4, <1>5, <1>7, <1>8, <1>9, <1>12, <1>13, <1>14, <1>15, UpdateRequeue

\* Who writes "queued" finds the row not completed.
LEMMA NobodyQueues ==
    ASSUME TypeInv, RequeueInv, [Next]_vars, NEW j \in Jobs, rows[j].completed
    PROVE  rows'[j].status # "queued"
  <1>1. Finished(j) /\ rows[j].status \notin {"none", "queued"}
    BY DEF RequeueInv, CompletedIsFinished, Finished, Wanted
  <1>2. CASE rows'[j] = rows[j]
    BY <1>1, <1>2
  <1>3. ASSUME NEW k \in Jobs, AddDownload(k) PROVE rows'[j].status # "queued"
    BY <1>1, <1>3 DEF AddDownload, TypeInv, TypeOK
  <1>4. ASSUME NEW p \in Threads, DeleteRow(p) PROVE rows'[j].status # "queued"
    BY <1>1, <1>4 DEF DeleteRow, GoneRow, TypeInv, TypeOK
  <1>5. ASSUME NEW p \in Threads, RowPut(p), rows'[j] # rows[j] PROVE rows'[j].status # "queued"
    <2>1. j = th[p].job /\ th[p].at = "put" /\ rows'[j] = Written(th[p].op, th[p].copy)
      BY <1>5 DEF RowPut, TypeInv, TypeOK
    <2>2. th[p].op # "requeue"
      <3>1. th[p].op = "requeue" => p \in Spawned /\ MayRequeue(th[p])
        BY <2>1, RowOps, ThreadNames DEF MayRequeue, Busy
      <3>2. QED
        BY <1>1, <2>1, <3>1 DEF Finished
    <2>3. th[p].op \in {"progress", "stamp", "organized"} => th[p].copy.status # "queued"
      <3>1. th[p].op \in {"stamp", "organized"} => p \in Spawned
        BY <2>1, RowOps, ThreadNames
      <3>2. th[p].op = "progress" => p = Loop
        BY <2>1, RowOps
      <3>3. QED
        BY <2>1, <3>1, <3>2 DEF RequeueInv, CopiesInv, Uncompleted
    <2>4. th[p].op \in {"start", "progress", "seeding", "stamp", "failed", "paused", "organized"}
      BY <2>1, <2>2, RowOps DEF RequeueInv, CopiesInv
    <2>5. QED
      BY <2>1, <2>3, <2>4, WhatIsWritten
  <1>6. ASSUME ~(\E k \in Jobs : AddDownload(k)), ~(\E p \in Threads : DeleteRow(p) \/ RowPut(p))
        PROVE  rows' = rows
    <2>1. CASE Down
      BY <2>1 DEF Down
    <2>2. CASE LoopStep
      BY <2>2 DEF LoopStep, Tick, SnapshotActive, PassDone, LoopExit, NextQueued, ReportProgress, OnlyThreads
    <2>3. ASSUME NEW p \in Threads, ThreadStep(p) PROVE rows' = rows
      BY <1>6, <2>3
      DEF ThreadStep, AlreadyActive, NotLinked, Spawn, Cleanup, Link, Store, Register, RowMissing, RowGet,
          ErrorMsgPanics, RemoveFinds, RemoveMisses, RemoveCloses, CloseAgainPanics, NoLongerActive,
          HandleEnd, Organize, NothingToOrganize, ResumeCheck, OnlyThreads, Panic, Down
    <2>4. ASSUME NEW i \in Dls, ProviderStep(i) \/ TorrentReports(i) \/ WaiterSelect(i) PROVE rows' = rows
      BY <2>4 DEF ProviderStep, AddMagnet, AddMagnetAfterClose, GetTorrent, NoTorrent, PollEnds,
         PollCancelled, UsenetBegin, UsenetEnds, TorrentReports, WaiterSelect, SelectDone, SelectCancelled,
         OnlyDls, OnlyThreads, Panic, Down
    <2>5. ASSUME NEW c \in Callers, NEW k \in Jobs, ApiCall(c, k) PROVE rows' = rows
      BY <2>5 DEF ApiCall, PauseDownload, CancelDownload, StopSeeding, ResumeDownload, Call, OnlyThreads
    <2>6. CASE Stop \/ ClientClose \/ Restart \/ UNCHANGED vars
      BY <2>6 DEF Stop, ClientClose, Restart, vars
    <2>7. QED
      BY <1>6, <2>1, <2>2, <2>3, <2>4, <2>5, <2>6 DEF Next, Running, Exit, Crash
  <1>7. QED
    BY <1>2, <1>3, <1>4, <1>5, <1>6

\* Every step keeps the invariant, where nobody resumes.
LEMMA NextRequeue ==
    ASSUME TypeInv, RequeueInv, "resume" \notin Api, [Next]_vars
    PROVE  RequeueInv'
  <1>1. CASE Down
    BY <1>1, DownRequeue
  <1>2. CASE LoopStep
    BY <1>2, LoopRequeue
  <1>3. ASSUME NEW p \in Threads, ThreadStep(p), ~Down PROVE RequeueInv'
    <2>1. ~ErrorMsgPanics(p) /\ ~CloseAgainPanics(p)
      BY <1>3 DEF ErrorMsgPanics, CloseAgainPanics, Panic
    <2>2. CASE Spawn(p) \/ DeleteRow(p)
      BY <2>2, SpawnRequeue, DeleteRequeue
    <2>3. CASE p = Loop
      <3>1. LoopPhase(th[Loop])
        BY ThreadNames, WhoIsWhere DEF Phase
      <3>2. ~RemoveFinds(Loop) /\ ~RemoveMisses(Loop) /\ ~RemoveCloses(Loop) /\ ~NoLongerActive(Loop)
            /\ ~HandleEnd(Loop) /\ ~Organize(Loop) /\ ~NothingToOrganize(Loop) /\ ~ResumeCheck(Loop)
        BY <3>1 DEF LoopPhase, RemoveFinds, RemoveMisses, RemoveCloses, NoLongerActive, HandleEnd,
           Organize, NothingToOrganize, ResumeCheck
      <3>3. QED
        BY <1>3, <2>1, <2>2, <2>3, <3>2, LoopRequeue, PutLoop DEF ThreadStep
    <2>4. CASE p # Loop
      <3>1. ~Begins(th[p])
        BY <2>4 DEF RequeueInv, OnlyLoopStarts
      <3>2. ~AlreadyActive(p) /\ ~NotLinked(p) /\ ~ResumeCheck(p) /\ \A n \in Dls : ~Link(p, n) /\ ~Store(p, n)
        BY <3>1 DEF Begins, AlreadyActive, NotLinked, ResumeCheck, Link, Store
      <3>3. QED
        BY <1>3, <2>1, <2>2, <2>4, <3>2, OtherThreads, PutOther DEF ThreadStep
    <2>5. QED
      BY <2>3, <2>4
  <1>4. ASSUME NEW i \in Dls, WaiterSelect(i) PROVE RequeueInv'
    BY <1>4, SelectRequeue
  <1>5. ASSUME NEW c \in Callers, NEW j \in Jobs, ApiCall(c, j) PROVE RequeueInv'
    BY <1>5, CallRequeue
  <1>6. ASSUME NEW j \in Jobs, AddDownload(j) PROVE RequeueInv'
    BY <1>6, AddRequeue
  <1>7. ASSUME UNCHANGED <<rows, th, todo>> PROVE RequeueInv'
    BY <1>7 DEF RequeueInv, OnlyLoopStarts, OneBusy, StartsFree, StartsOnce, CompletedIsFinished, CopiesInv,
       Free, InStart, Listed, Wanted, Finished, Uncompleted
  <1>8. ASSUME NEW i \in Dls, ProviderStep(i) \/ TorrentReports(i), ~Down PROVE UNCHANGED <<rows, th, todo>>
    BY <1>8 DEF ProviderStep, AddMagnet, AddMagnetAfterClose, GetTorrent, NoTorrent, PollEnds, PollCancelled,
       UsenetBegin, UsenetEnds, TorrentReports, OnlyDls, Panic
  <1>9. ASSUME Stop \/ ClientClose \/ Restart \/ UNCHANGED vars PROVE UNCHANGED <<rows, th, todo>>
    BY <1>9 DEF Stop, ClientClose, Restart, vars
  <1>10. QED
    BY <1>1, <1>2, <1>3, <1>4, <1>5, <1>6, <1>7, <1>8, <1>9 DEF Next, Running, Exit, Crash

\* CompletedNotRequeued, where nobody calls Resume: although the waiter's select may find the
\* download done and the context cancelled at once, and every write of a row may be stale, no
\* step writes "queued" over a completed row (handleCompletion, handleCancellation, updateProgress).
THEOREM CompletedStaysOut ==
    ASSUME "resume" \notin Api
    PROVE  Spec => CompletedNotRequeued
  <1>1. TypeInv /\ RequeueInv /\ [Next]_vars => RequeueInv'
    BY NextRequeue
  <1>2. Spec => []RequeueInv
    BY <1>1, InitRequeue, InitTypeInv, AlwaysTypeInv, PTL DEF Spec
  <1>3. TypeInv /\ RequeueInv /\ [Next]_vars =>
          [\A j \in Jobs : rows[j].completed => rows'[j].status # "queued"]_vars
    BY NobodyQueues
  <1>4. QED
    BY <1>2, <1>3, AlwaysTypeInv, PTL DEF Spec, CompletedNotRequeued
=============================================================================
