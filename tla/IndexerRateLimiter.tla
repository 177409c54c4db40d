------------------------ MODULE IndexerRateLimiter ------------------------
(***************************************************************************)
(* The rate limiter of one indexer (indexer/ratelimit.go) and the          *)
(* goroutines that search it: those of the search manager and of a search  *)
(* websocket ask Allow and fall back to Wait; those of the automation      *)
(* manager skip an indexer in cooldown and call Wait.                      *)
(*                                                                         *)
(* Times are kept relative to now: the age of the last request, what is    *)
(* left of the cooldown and of every sleep.  An expired cooldown and none  *)
(* are one value, for no method tells them apart.  Ages stop at MaxBackoff *)
(* and failures at FailureCap, beyond which nothing depends on them.       *)
(* SearchLimiter.Reset, which replaces the limiter, has no caller.         *)
(***************************************************************************)
EXTENDS Integers, FiniteSets

CONSTANTS
    Searchers,
    Automatic,     \* searchers of the automation manager
    Cancellable,   \* searchers of a websocket session
    MinInterval, MaxBackoff,
    FailureCap     \* consecutive failures that are told apart

Never == -1

Capped(d) == IF d > MaxBackoff THEN MaxBackoff ELSE d

\* The minimum interval doubled n times.
Doubled[n \in 0..FailureCap] == IF n = 0 THEN MinInterval ELSE 2 * Doubled[n - 1]

\* What the constants are.
ASSUME LimiterAssumption ==
    /\ Automatic \subseteq Searchers /\ Cancellable \subseteq Searchers \ Automatic
    /\ MinInterval \in Nat \ {0} /\ MaxBackoff \in Nat /\ MinInterval <= MaxBackoff
    /\ FailureCap \in Nat /\ FailureCap >= 3 /\ Doubled[FailureCap] >= MaxBackoff

VARIABLES
    age,        \* time since lastRequest, or Never
    backoff,    \* 0: no entry
    failures,   \* consecutive failures
    cool,       \* time left of the cooldown
    at,         \* a searcher's step
    left        \* time left of its sleep

limiterVars == <<age, backoff, failures, cool, at, left>>

LimiterTypeOK ==
    /\ age \in {Never} \cup 0..MaxBackoff
    /\ backoff \in 0..MaxBackoff
    /\ failures \in 0..FailureCap
    /\ cool \in 0..MaxBackoff
    /\ at \in [Searchers -> {"idle", "wait", "sleep", "search"}]
    /\ left \in [Searchers -> 0..MaxBackoff]

LimiterInit ==
    /\ age = Never /\ backoff = 0 /\ failures = 0 /\ cool = 0
    /\ at = [s \in Searchers |-> "idle"] /\ left = [s \in Searchers |-> 0]

Less(d) == IF d = 0 THEN 0 ELSE d - 1
Tick ==
    /\ age' = IF age = Never THEN Never ELSE Capped(age + 1)
    /\ cool' = Less(cool) /\ left' = [s \in Searchers |-> Less(left[s])]
    /\ UNCHANGED <<backoff, failures, at>>
-----------------------------------------------------------------------------
LimiterGoto(s, step) == at' = [at EXCEPT ![s] = step]

\* What is left of the backoff since the last request.
Remaining == IF age = Never \/ age >= backoff THEN 0 ELSE backoff - age

Send(s) == age' = 0 /\ LimiterGoto(s, "search")
StateKept == UNCHANGED <<backoff, failures, cool>>

Allow(s) ==
    /\ at[s] = "idle" /\ s \notin Automatic
    /\ IF cool > 0 \/ Remaining > 0 THEN LimiterGoto(s, "wait") /\ UNCHANGED age ELSE Send(s)
    /\ StateKept /\ UNCHANGED left

IsCooldown(s) ==
    /\ at[s] = "idle" /\ s \in Automatic /\ cool = 0 /\ LimiterGoto(s, "wait")
    /\ StateKept /\ UNCHANGED <<age, left>>

\* Wait computes its sleep under the lock, sleeps without it ...
Wait(s) ==
    /\ at[s] = "wait"
    /\ IF Remaining > 0
       THEN LimiterGoto(s, "sleep") /\ left' = [left EXCEPT ![s] = Remaining] /\ UNCHANGED age
       ELSE Send(s) /\ UNCHANGED left
    /\ StateKept

\* Fault: it looks again when it wakes.
LookAgain(s) == LimiterGoto(s, "wait") /\ UNCHANGED age
\* ... and then goes ahead, whoever did in the meantime.
GoAhead(s) == Send(s)
WakesUp(s) ==
    /\ at[s] = "sleep" /\ left[s] = 0 /\ GoAhead(s)
    /\ StateKept /\ UNCHANGED left

\* The websocket of the search is gone: the request is not made.
Cancelled(s) ==
    /\ at[s] = "search" /\ s \in Cancellable /\ LimiterGoto(s, "idle")
    /\ StateKept /\ UNCHANGED <<age, left>>
-----------------------------------------------------------------------------
\* Fault: the failures are forgotten but not the backoff.
ForgetFailures == failures' = 0 /\ UNCHANGED backoff

ForgetAll == failures' = 0 /\ backoff' = 0
RecordSuccess(s) ==
    /\ at[s] = "search" /\ LimiterGoto(s, "idle") /\ ForgetAll
    /\ UNCHANGED <<age, cool, left>>

\* Fault: no limit.
EndlessBackoff == 2 * (IF backoff = 0 THEN MinInterval ELSE backoff)
NewBackoff == Capped(2 * (IF backoff = 0 THEN MinInterval ELSE backoff))
RecordFailure(s) ==
    /\ at[s] = "search" /\ LimiterGoto(s, "idle")
    /\ failures' = IF failures < FailureCap THEN failures + 1 ELSE failures
    /\ backoff' = NewBackoff
    /\ cool' = IF failures' >= 3 THEN NewBackoff ELSE cool
    /\ UNCHANGED <<age, left>>

\* RateLimiter.Reset, ResetAll.
Reset ==
    /\ age' = Never /\ backoff' = 0 /\ failures' = 0 /\ cool' = 0
    /\ UNCHANGED <<at, left>>
-----------------------------------------------------------------------------
SearchEnds(s) == RecordSuccess(s) \/ RecordFailure(s) \/ Cancelled(s)
SearcherStep(s) == Wait(s) \/ WakesUp(s) \/ SearchEnds(s)

LimiterNext ==
    \/ Tick \/ Reset
    \/ \E s \in Searchers : SearcherStep(s) \/ Allow(s) \/ IsCooldown(s)

\* Time passes, goroutines are scheduled, and a search comes back (clients have timeouts).
LimiterFairness == WF_limiterVars(Tick) /\ \A s \in Searchers : WF_limiterVars(SearcherStep(s))

LimiterSpec == LimiterInit /\ [][LimiterNext]_limiterVars /\ LimiterFairness
-----------------------------------------------------------------------------
\* The backoff is the minimum interval doubled once for every failure since the last
\* success, up to the maximum, whatever order concurrent searches report in.
BackoffFollowsFailures ==
    backoff = IF failures = 0 THEN 0 ELSE Capped(Doubled[failures])

\* A searcher that waits makes its request in the end: others that go first, fail, and
\* raise the backoff cannot put it off for ever.
WaitEnds == \A s \in Searchers : (at[s] \in {"wait", "sleep"}) ~> (at[s] = "search")

\* Two requests of an indexer are at least the minimum interval apart (ratelimit.go:21, 224).
SpacedRequests ==
    [][\A s \in Searchers : at[s] # "search" /\ at'[s] = "search" /\ age # Never
           => age >= MinInterval]_limiterVars
=============================================================================
