---------------------------- MODULE TaskManager ----------------------------
(***************************************************************************)
(* The task manager (tasks/manager.go).  NewTask starts the task's         *)
(* function, then enters it in `running' and starts two more goroutines: a *)
(* cleaner that waits for the function's end, and a watcher that waits for *)
(* a kill.  All watchers read one kill channel, and every cleaner leaves a *)
(* token in one killDone channel, which any Kill takes.                    *)
(*                                                                         *)
(* A caller calls Kill or Shutdown once; tasks are not started twice (each *)
(* has its own uuid).  Progress values are left out: `progress' holds the  *)
(* ids that have one.  List and Get only read.                             *)
(***************************************************************************)
EXTENDS Naturals, Sequences, FiniteSets

CONSTANTS
    Tasks,
    Obeys,     \* tasks whose function returns when its context is cancelled
    Killers,   \* callers of Kill
    ChanCap    \* capacity of killChan and of killDone

Callers == Killers \cup {"shutdown"}

ASSUME TasksAssumption ==
    /\ IsFiniteSet(Tasks) /\ Obeys \subseteq Tasks
    /\ IsFiniteSet(Killers) /\ "shutdown" \notin Killers
    /\ ChanCap \in Nat \ {0}

VARIABLES
    fn,         \* the goroutine that runs a task's function
    ctx,        \* a task's context, and who cancelled it
    running,    \* Manager.running
    progress,   \* ids with an entry in Manager.progress
    cleaner,    \* the goroutine that waits for the end of the function
    watcher,    \* the goroutine that waits for a kill
    killChan,   \* ids sent and not received
    killDone,   \* tokens left in killDone
    call,       \* the callers of Kill and Shutdown
    named,      \* ids some caller has sent (no program variable)
    returned    \* how many Kills came back by a token (no program variable)

vars == <<fn, ctx, running, progress, cleaner, watcher, killChan, killDone, call, named, returned>>

Call == [at : {"idle", "look", "send", "await", "next", "drain", "over"},
         id : Tasks \cup {"none"}, todo : SUBSET Tasks]

TypeOK ==
    /\ fn \in [Tasks -> {"none", "running", "done"}]
    /\ ctx \in [Tasks -> {"live", "killed", "parent"}]
    /\ running \in SUBSET Tasks /\ progress \in SUBSET Tasks
    /\ cleaner \in [Tasks -> {"off", "wait", "forget", "tell", "over"}]
    /\ watcher \in [Tasks -> {"off", "watch", "over"}]
    /\ killChan \in Seq(Tasks) /\ Len(killChan) <= ChanCap
    /\ killDone \in 0..ChanCap
    /\ call \in [Callers -> Call]
    /\ named \in SUBSET Tasks /\ returned \in Nat

Init ==
    /\ fn = [t \in Tasks |-> "none"] /\ ctx = [t \in Tasks |-> "live"]
    /\ running = {} /\ progress = {} /\ named = {}
    /\ cleaner = [t \in Tasks |-> "off"] /\ watcher = [t \in Tasks |-> "off"]
    /\ killChan = <<>> /\ killDone = 0 /\ returned = 0
    /\ call = [c \in Callers |-> [at |-> "idle", id |-> "none", todo |-> {}]]

noCalls == <<killChan, killDone, call, named, returned>>
-----------------------------------------------------------------------------
\* NewTask: the function runs before the task is in the map.
Launch(t) ==
    /\ fn[t] = "none" /\ fn' = [fn EXCEPT ![t] = "running"]
    /\ UNCHANGED <<ctx, running, progress, cleaner, watcher, noCalls>>
Enter(t) ==
    /\ fn[t] # "none" /\ cleaner[t] = "off"
    /\ running' = running \cup {t}
    /\ cleaner' = [cleaner EXCEPT ![t] = "wait"] /\ watcher' = [watcher EXCEPT ![t] = "watch"]
    /\ UNCHANGED <<fn, ctx, progress, noCalls>>

\* Exported, and it asks nothing of the id: the task may not be in the map yet, or may
\* have left it, and then the entry stays.
SetProgress(t) ==
    /\ progress' = progress \cup {t}
    /\ UNCHANGED <<fn, ctx, running, cleaner, watcher, noCalls>>
\* The function ends when it likes.
FnEnds(t) ==
    /\ fn[t] = "running" /\ fn' = [fn EXCEPT ![t] = "done"]
    /\ UNCHANGED <<ctx, running, progress, cleaner, watcher, noCalls>>
FnObeys(t) == t \in Obeys /\ ctx[t] # "live" /\ FnEnds(t)

\* The context NewTask was given is cancelled.
ParentCancels(t) ==
    /\ fn[t] # "none" /\ ctx[t] = "live" /\ ctx' = [ctx EXCEPT ![t] = "parent"]
    /\ UNCHANGED <<fn, running, progress, cleaner, watcher, noCalls>>
-----------------------------------------------------------------------------
CleanerRemoves(t) ==
    /\ cleaner[t] = "wait" /\ fn[t] = "done"
    /\ running' = running \ {t} /\ cleaner' = [cleaner EXCEPT ![t] = "forget"]
    /\ UNCHANGED <<fn, ctx, progress, watcher, noCalls>>
CleanerForgets(t) ==
    /\ cleaner[t] = "forget"
    /\ progress' = progress \ {t} /\ cleaner' = [cleaner EXCEPT ![t] = "tell"]
    /\ UNCHANGED <<fn, ctx, running, watcher, noCalls>>

\* Faults: the cleaner waits for room; a token is left only for a Kill that waits.
LeaveTokenWaiting == killDone < ChanCap /\ killDone' = killDone + 1
LeaveTokenIfAwaited ==
    killDone' = IF \E c \in Callers : call[c].at = "await" THEN 1 ELSE killDone
\* A token is left if there is room; the cleaner never waits for it.
LeaveToken == killDone' = IF killDone < ChanCap THEN killDone + 1 ELSE killDone
CleanerTells(t) ==
    /\ cleaner[t] = "tell" /\ LeaveToken
    /\ cleaner' = [cleaner EXCEPT ![t] = "over"]
    /\ UNCHANGED <<fn, ctx, running, progress, watcher, killChan, call, named, returned>>
-----------------------------------------------------------------------------
IsMine(t, id) == id = t

WatcherQuits(t) ==
    /\ watcher[t] = "watch" /\ ctx[t] # "live"
    /\ watcher' = [watcher EXCEPT ![t] = "over"]
    /\ UNCHANGED <<fn, ctx, running, progress, cleaner, noCalls>>

\* The watcher that receives an id of another task drops it.
WatcherReceives(t) ==
    /\ watcher[t] = "watch" /\ killChan # <<>> /\ killChan' = Tail(killChan)
    /\ IF IsMine(t, Head(killChan))
       THEN /\ ctx' = [ctx EXCEPT ![t] = IF @ = "live" THEN "killed" ELSE @]
            /\ watcher' = [watcher EXCEPT ![t] = "over"]
       ELSE UNCHANGED <<ctx, watcher>>
    /\ UNCHANGED <<fn, running, progress, cleaner, killDone, call, named, returned>>
-----------------------------------------------------------------------------
Goto(c, step) == call' = [call EXCEPT ![c].at = step]
OnlyCall == UNCHANGED <<fn, ctx, running, progress, cleaner, watcher>>

Kill(c, t) ==
    /\ c \in Killers /\ call[c].at = "idle" /\ fn[t] # "none"
    /\ call' = [call EXCEPT ![c].at = "look", ![c].id = t]
    /\ OnlyCall /\ UNCHANGED <<killChan, killDone, named, returned>>

\* Shutdown: a snapshot of the map, killed one after the other.
Shutdown ==
    /\ call["shutdown"].at = "idle"
    /\ call' = [call EXCEPT !["shutdown"].at = "next", !["shutdown"].todo = running]
    /\ OnlyCall /\ UNCHANGED <<killChan, killDone, named, returned>>
ShutdownNext(t) ==
    /\ call["shutdown"].at = "next" /\ t \in call["shutdown"].todo
    /\ call' = [call EXCEPT !["shutdown"] = [at |-> "look", id |-> t, todo |-> @.todo \ {t}]]
    /\ OnlyCall /\ UNCHANGED <<killChan, killDone, named, returned>>
ShutdownDrains ==
    /\ call["shutdown"].at = "next" /\ call["shutdown"].todo = {} /\ Goto("shutdown", "drain")
    /\ OnlyCall /\ UNCHANGED <<killChan, killDone, named, returned>>
\* Nothing runs any more, or the 30 seconds are over.
ShutdownEnds ==
    /\ call["shutdown"].at = "drain" /\ Goto("shutdown", "over")
    /\ OnlyCall /\ UNCHANGED <<killChan, killDone, named, returned>>

Return(c) == Goto(c, IF c = "shutdown" THEN "next" ELSE "over")

KillLooks(c) ==
    /\ call[c].at = "look"
    /\ IF call[c].id \in running THEN Goto(c, "send") ELSE Return(c)
    /\ OnlyCall /\ UNCHANGED <<killChan, killDone, named, returned>>
KillSends(c) ==
    /\ call[c].at = "send" /\ Len(killChan) < ChanCap
    /\ killChan' = Append(killChan, call[c].id) /\ named' = named \cup {call[c].id}
    /\ Goto(c, "await")
    /\ OnlyCall /\ UNCHANGED <<killDone, returned>>

\* Fault: the token stays, as it would if killDone were closed.
PeekToken == killDone > 0 /\ UNCHANGED killDone
TakeToken == killDone > 0 /\ killDone' = killDone - 1
\* Any token will do.
KillReturns(c) ==
    /\ call[c].at = "await" /\ TakeToken /\ Return(c) /\ returned' = returned + 1
    /\ OnlyCall /\ UNCHANGED <<killChan, named>>
-----------------------------------------------------------------------------
TaskStep(t) ==
    \/ Enter(t) \/ FnObeys(t)
    \/ CleanerRemoves(t) \/ CleanerForgets(t) \/ CleanerTells(t)
    \/ WatcherQuits(t) \/ WatcherReceives(t)
CallStep(c) == KillLooks(c) \/ KillSends(c) \/ KillReturns(c)
ShutdownStep == (\E t \in Tasks : ShutdownNext(t)) \/ ShutdownDrains \/ ShutdownEnds

Next ==
    \/ \E t \in Tasks : TaskStep(t) \/ Launch(t) \/ SetProgress(t) \/ FnEnds(t) \/ ParentCancels(t)
    \/ \E c \in Callers : CallStep(c) \/ (\E t \in Tasks : Kill(c, t))
    \/ Shutdown \/ ShutdownStep

\* Goroutines are scheduled, and functions that obey their context return.
Fairness ==
    /\ \A t \in Tasks :
        /\ WF_vars(Enter(t)) /\ WF_vars(FnObeys(t)) /\ WF_vars(CleanerRemoves(t))
        /\ WF_vars(CleanerForgets(t)) /\ WF_vars(CleanerTells(t))
        /\ WF_vars(WatcherQuits(t) \/ WatcherReceives(t))
    /\ \A c \in Callers : WF_vars(CallStep(c))
    /\ WF_vars(ShutdownStep)

Spec == Init /\ [][Next]_vars /\ Fairness
-----------------------------------------------------------------------------
\* A task's context is cancelled by its watcher only if some caller of Kill or Shutdown
\* sent that task's id: the others that read the same channel leave their tasks alone.
OnlyNamedAreKilled == \A t \in Tasks : ctx[t] = "killed" => t \in named

\* Kills do not ask whose token they take (manager.go:128-129), but none comes back for
\* nothing: as many tasks have ended as Kills came back by a token, plus the tokens left.
\* With two Kills and one task ended, one of them still waits.
ReturnsArePaidFor ==
    returned + killDone <= Cardinality({t \in Tasks : cleaner[t] = "over"})

\* Whatever happens to the tokens, a task that ended leaves the map and its cleaner ends:
\* a full killDone channel that nobody reads delays nobody.
EndedIsReleased ==
    \A t \in Tasks : (fn[t] = "done") ~> (cleaner[t] = "over" /\ t \notin running)

\* While a single task was started and nobody else kills, the kill of a task that obeys its
\* context comes back, even if the task ends before the id is sent.
LoneKillReturns ==
    \A t \in Obeys, c \in Callers :
        []( /\ \A u \in Tasks \ {t} : fn[u] = "none"
            /\ \A d \in Callers \ {c} : call[d].at = "idle")
        => ((call[c].at = "look") ~> (call[c].at \in {"next", "over"}))
=============================================================================
