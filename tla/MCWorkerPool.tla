---------------------------- MODULE MCWorkerPool ----------------------------
(***************************************************************************)
(* The download worker under fair scheduling, and the pool of movies whose *)
(* downloads it runs; MoviePool keeps of a download only that it is under  *)
(* way, ends and is organized.  A behaviour is one of either, with the     *)
(* other at rest: the worker's process is down, or no movie is added.      *)
(***************************************************************************)
EXTENDS MCDownloadWorker, MoviePool

CONSTANTS m1, m2, m3, title

VARIABLE turn   \* the component this behaviour is one of

MCMovies == {m1, m2, m3}
MCTitles == {title}
MCTitleOf == [m \in MCMovies |-> title]
MCByHand == {m3}

workerAndPool == <<vars, poolVars, turn>>

\* The worker with its process down; every goroutine is fair only while it is up.
AtRest == INSTANCE DownloadWorker WITH up <- ~up

WorkerPoolInit ==
    /\ PoolInit
    /\ \/ turn = "worker" /\ Init
       \/ turn = "pool" /\ up = FALSE /\ AtRest!Init
WorkerPoolNext ==
    /\ UNCHANGED turn
    /\ \/ turn = "worker" /\ Next /\ UNCHANGED poolVars
       \/ turn = "pool" /\ PoolNext /\ UNCHANGED vars
WorkerPoolSpec ==
    WorkerPoolInit /\ [][WorkerPoolNext]_workerAndPool /\ Fairness /\ PoolFairness
=============================================================================
