------------------------ MODULE TaskManager_proofs ------------------------
(***************************************************************************)
(* Type correctness and safety of the task manager, for any tasks, any     *)
(* callers and any capacity of the channels.                               *)
(***************************************************************************)
EXTENDS TaskManager, FiniteSetTheorems, TLAPS

\* What the ids in the kill channel say of the past.
SentAreNamed == \A i \in 1..Len(killChan) : killChan[i] \in named
\* The tasks whose cleaner has left its token, or found no room for it.
Ended == {t \in Tasks : cleaner[t] = "over"}
\* A Kill that looks for a task or sends its id has one.
Busy(k) == k.at \in {"look", "send"} => k.id \in Tasks
KillsHaveIds == \A c \in Callers : Busy(call[c])
Inv == TypeOK /\ KillsHaveIds /\ SentAreNamed /\ OnlyNamedAreKilled /\ ReturnsArePaidFor

\* The sum of tokens compares natural numbers.
LEMMA EndedFinite == IsFiniteSet(Ended) /\ Cardinality(Ended) \in Nat
  BY TasksAssumption, FS_Subset, FS_CardinalityType DEF Ended

\* A step that ends no cleaner, makes no token and counts no return keeps the balance.
LEMMA PaidStays ==
  ASSUME ReturnsArePaidFor, UNCHANGED <<killDone, returned>>, Ended' = Ended
  PROVE  ReturnsArePaidFor'
  BY DEF ReturnsArePaidFor, Ended

LEMMA InitInv == Init => Inv
  BY TasksAssumption, EndedFinite
  DEF Ended, Init, Inv, TypeOK, Call, Callers, KillsHaveIds, Busy, SentAreNamed, OnlyNamedAreKilled, ReturnsArePaidFor

\* Steps of the task's goroutines that leave the channels alone.
LEMMA TaskInv ==
  ASSUME Inv, NEW t \in Tasks,
         \/ Launch(t) \/ Enter(t) \/ SetProgress(t) \/ FnEnds(t) \/ FnObeys(t) \/ ParentCancels(t)
         \/ CleanerRemoves(t) \/ CleanerForgets(t) \/ WatcherQuits(t)
  PROVE  Inv'
<1> USE DEF Inv
<1>1. noCalls' = noCalls
  BY DEF Launch, Enter, SetProgress, FnEnds, FnObeys, ParentCancels, CleanerRemoves, CleanerForgets, WatcherQuits
<1>2. TypeOK'
  BY <1>1 DEF TypeOK, noCalls, Launch, Enter, SetProgress, FnEnds, FnObeys, ParentCancels, CleanerRemoves,
     CleanerForgets, WatcherQuits
<1>3. SentAreNamed' /\ KillsHaveIds'
  BY <1>1 DEF SentAreNamed, KillsHaveIds, noCalls
<1>5. OnlyNamedAreKilled'
  BY <1>1 DEF TypeOK, noCalls, OnlyNamedAreKilled, Launch, Enter, SetProgress, FnEnds, FnObeys, ParentCancels,
     CleanerRemoves, CleanerForgets, WatcherQuits
<1>6. ReturnsArePaidFor'
  <2>1. Ended' = Ended
    BY DEF Ended, TypeOK, Launch, Enter, SetProgress, FnEnds, FnObeys, ParentCancels, CleanerRemoves,
       CleanerForgets, WatcherQuits
  <2>2. QED
    BY <1>1, <2>1, PaidStays DEF noCalls
<1>7. QED
  BY <1>2, <1>3, <1>5, <1>6

LEMMA TokenInv == ASSUME Inv, NEW t \in Tasks, CleanerTells(t) PROVE Inv'
<1> USE DEF Inv
<1>1. killDone' \in 0..ChanCap
  BY TasksAssumption DEF TypeOK, CleanerTells, LeaveToken
<1>2. TypeOK'
  BY <1>1 DEF TypeOK, CleanerTells
<1>3. ReturnsArePaidFor'
  <2>1. Ended' = Ended \cup {t} /\ t \notin Ended
    BY DEF Ended, TypeOK, CleanerTells
  <2>2. Cardinality(Ended') = Cardinality(Ended) + 1
    BY <2>1, EndedFinite, FS_AddElement
  <2>3. killDone' <= killDone + 1 /\ returned' = returned
    BY TasksAssumption DEF TypeOK, CleanerTells, LeaveToken
  <2>4. QED
    BY <1>1, <2>2, <2>3, EndedFinite DEF ReturnsArePaidFor, Ended, TypeOK
<1>4. QED
  BY <1>2, <1>3 DEF CleanerTells, TypeOK, KillsHaveIds, SentAreNamed, OnlyNamedAreKilled

\* What a received id says of the channel that is left.
LEMMA WatcherInv == ASSUME Inv, NEW t \in Tasks, WatcherReceives(t) PROVE Inv'
<1> USE DEF Inv
<1>1. killChan' \in Seq(Tasks) /\ Len(killChan') = Len(killChan) - 1
      /\ \A i \in 1..Len(killChan') : killChan'[i] = killChan[i + 1]
  BY DEF TypeOK, WatcherReceives
<1>2. Head(killChan) \in named
  BY DEF TypeOK, WatcherReceives, SentAreNamed
<1>3. TypeOK'
  <2>1. Len(killChan') \in Nat /\ Len(killChan') <= ChanCap
    BY <1>1, TasksAssumption DEF TypeOK
  <2>2. ctx' \in [Tasks -> {"live", "killed", "parent"}] /\ watcher' \in [Tasks -> {"off", "watch", "over"}]
    BY DEF TypeOK, WatcherReceives
  <2>3. QED
    BY <1>1, <2>1, <2>2 DEF TypeOK, WatcherReceives
<1>4. SentAreNamed'
  BY <1>1 DEF TypeOK, WatcherReceives, SentAreNamed
<1>5. OnlyNamedAreKilled'
  BY <1>2 DEF TypeOK, WatcherReceives, OnlyNamedAreKilled, IsMine
<1>6. ReturnsArePaidFor' /\ KillsHaveIds'
  BY DEF WatcherReceives, KillsHaveIds, ReturnsArePaidFor
<1>7. QED
  BY <1>3, <1>4, <1>5, <1>6

\* Steps of Kill and Shutdown, but for the send, change one caller.
LEMMA CallInv ==
  ASSUME Inv, OnlyCall, UNCHANGED <<killChan, named>>, killDone' \in 0..ChanCap,
         returned' \in Nat, returned' + killDone' = returned + killDone,
         NEW c \in Callers, NEW k \in Call, Busy(k), call' = [call EXCEPT ![c] = k]
  PROVE  Inv'
<1> USE DEF Inv
<1>1. TypeOK'
  BY DEF OnlyCall, TypeOK
<1>2. KillsHaveIds'
  <2>1. \A d \in Callers : call'[d] = k \/ call'[d] = call[d]
    BY DEF TypeOK
  <2>2. QED
    BY <2>1 DEF KillsHaveIds, Busy
<1>3. SentAreNamed' /\ OnlyNamedAreKilled' /\ ReturnsArePaidFor'
  BY DEF OnlyCall, SentAreNamed, OnlyNamedAreKilled, ReturnsArePaidFor
<1>4. QED
  BY <1>1, <1>2, <1>3

LEMMA CallersMove == ASSUME Inv, NEW c \in Callers, KillLooks(c) \/ KillReturns(c) PROVE Inv'
<1>1. PICK s \in {"send", "next", "over"} :
        call' = [call EXCEPT ![c].at = s] /\ (s = "send" => call[c].id \in Tasks)
  <2>1. CASE KillLooks(c) /\ call[c].id \in running
    BY <2>1 DEF Inv, KillsHaveIds, Busy, KillLooks, Goto
  <2>2. CASE KillLooks(c) /\ call[c].id \notin running
    BY <2>2 DEF KillLooks, Return, Goto
  <2>3. CASE KillReturns(c)
    BY <2>3 DEF KillReturns, Return, Goto
  <2>4. QED
    BY <2>1, <2>2, <2>3
<1> DEFINE k == [call[c] EXCEPT !.at = s]
<1>2. call[c] \in Call
  BY DEF Inv, TypeOK
<1>3. k \in Call /\ Busy(k)
  BY <1>1, <1>2 DEF Call, Busy
<1>4. call' = [call EXCEPT ![c] = k]
  BY <1>1
<1>5. killDone' \in 0..ChanCap
  BY TasksAssumption DEF Inv, TypeOK, KillLooks, KillReturns, TakeToken
<1>6. OnlyCall /\ UNCHANGED <<killChan, named>> /\ returned' \in Nat /\ returned' + killDone' = returned + killDone
  BY DEF KillLooks, KillReturns, TakeToken, Inv, TypeOK
<1> HIDE DEF k
<1>7. QED
  BY <1>3, <1>4, <1>5, <1>6, CallInv

LEMMA SendInv == ASSUME Inv, NEW c \in Callers, KillSends(c) PROVE Inv'
<1> USE DEF Inv
<1>1. call[c] \in Call /\ call[c].id \in Tasks
  BY DEF TypeOK, KillsHaveIds, Busy, KillSends
<1>2. call' = [call EXCEPT ![c].at = "await"]
  BY DEF KillSends, Goto
<1>3. call' \in [Callers -> Call]
  BY <1>1, <1>2 DEF TypeOK, Call
<1>4. killChan' \in Seq(Tasks) /\ Len(killChan') = Len(killChan) + 1 /\ Len(killChan') <= ChanCap
      /\ \A i \in 1..Len(killChan') : killChan'[i] = IF i = Len(killChan) + 1 THEN call[c].id ELSE killChan[i]
  BY <1>1, TasksAssumption DEF TypeOK, KillSends
<1>5. TypeOK'
  BY <1>1, <1>3, <1>4 DEF TypeOK, KillSends, OnlyCall
<1>6. SentAreNamed'
  BY <1>4 DEF TypeOK, SentAreNamed, KillSends
<1>7. KillsHaveIds'
  <2>1. \A d \in Callers : call'[d].at = "await" \/ call'[d] = call[d]
    BY <1>1, <1>2 DEF TypeOK, Call
  <2>2. QED
    BY <2>1 DEF KillsHaveIds, Busy
<1>8. OnlyNamedAreKilled' /\ ReturnsArePaidFor'
  BY DEF KillSends, OnlyCall, OnlyNamedAreKilled, ReturnsArePaidFor
<1>9. QED
  BY <1>5, <1>6, <1>7, <1>8

LEMMA KillInv == ASSUME Inv, NEW c \in Callers, NEW t \in Tasks, Kill(c, t) PROVE Inv'
<1> DEFINE k == [call[c] EXCEPT !.at = "look", !.id = t]
<1>1. call[c] \in Call
  BY DEF Inv, TypeOK
<1>2. k \in Call /\ k.id = t
  BY <1>1 DEF Call
<1>3. call' = [call EXCEPT ![c] = k]
  BY DEF Kill
<1>4. OnlyCall /\ UNCHANGED <<killChan, killDone, named, returned>> /\ killDone \in 0..ChanCap /\ returned \in Nat
  BY DEF Kill, Inv, TypeOK
<1> HIDE DEF k
<1>5. QED
  BY <1>2, <1>3, <1>4, CallInv DEF Busy

LEMMA ShutdownInv == ASSUME Inv, Shutdown \/ ShutdownStep PROVE Inv'
<1>1. "shutdown" \in Callers /\ call["shutdown"] \in Call
  BY DEF Inv, TypeOK, Callers
<1>2. \E k \in Call : Busy(k) /\ call' = [call EXCEPT !["shutdown"] = k]
  <2>1. CASE Shutdown
    <3> DEFINE k == [call["shutdown"] EXCEPT !.at = "next", !.todo = running]
    <3>1. k \in Call /\ k.at = "next"
      BY <1>1 DEF Call, Inv, TypeOK
    <3>2. call' = [call EXCEPT !["shutdown"] = k]
      BY <2>1 DEF Shutdown
    <3> HIDE DEF k
    <3>3. QED
      BY <3>1, <3>2 DEF Busy
  <2>2. ASSUME NEW t \in Tasks, ShutdownNext(t)
        PROVE  \E k \in Call : Busy(k) /\ call' = [call EXCEPT !["shutdown"] = k]
    <3> DEFINE k == [at |-> "look", id |-> t, todo |-> call["shutdown"].todo \ {t}]
    <3>1. k \in Call /\ k.id = t
      BY <1>1 DEF Call
    <3>2. call' = [call EXCEPT !["shutdown"] = k]
      BY <1>1, <2>2 DEF ShutdownNext
    <3> HIDE DEF k
    <3>3. QED
      BY <3>1, <3>2 DEF Busy
  <2>3. ASSUME NEW s \in {"drain", "over"}, Goto("shutdown", s)
        PROVE  \E k \in Call : Busy(k) /\ call' = [call EXCEPT !["shutdown"] = k]
    <3> DEFINE k == [call["shutdown"] EXCEPT !.at = s]
    <3>1. k \in Call /\ k.at = s
      BY <1>1 DEF Call
    <3>2. call' = [call EXCEPT !["shutdown"] = k]
      BY <2>3 DEF Goto
    <3> HIDE DEF k
    <3>3. QED
      BY <3>1, <3>2 DEF Busy
  <2>4. QED
    BY <2>1, <2>2, <2>3 DEF ShutdownStep, ShutdownDrains, ShutdownEnds
<1>3. OnlyCall /\ UNCHANGED <<killChan, killDone, named, returned>> /\ killDone \in 0..ChanCap /\ returned \in Nat
  BY DEF Inv, TypeOK, Shutdown, ShutdownStep, ShutdownNext, ShutdownDrains, ShutdownEnds
<1>4. QED
  BY <1>1, <1>2, <1>3, CallInv

LEMMA NextInv == Inv /\ [Next]_vars => Inv'
<1> SUFFICES ASSUME Inv, [Next]_vars PROVE Inv'
  OBVIOUS
<1>1. ASSUME NEW t \in Tasks, TaskStep(t) \/ Launch(t) \/ SetProgress(t) \/ FnEnds(t) \/ ParentCancels(t)
      PROVE  Inv'
  BY <1>1, TaskInv, TokenInv, WatcherInv DEF TaskStep
<1>2. ASSUME NEW c \in Callers, CallStep(c) \/ (\E t \in Tasks : Kill(c, t))
      PROVE  Inv'
  BY <1>2, CallersMove, SendInv, KillInv DEF CallStep
<1>3. CASE Shutdown \/ ShutdownStep
  BY <1>3, ShutdownInv
<1>4. CASE UNCHANGED vars
  BY <1>4
  DEF vars, Inv, TypeOK, KillsHaveIds, SentAreNamed, OnlyNamedAreKilled, ReturnsArePaidFor
<1>5. QED
  BY <1>1, <1>2, <1>3, <1>4 DEF Next

LEMMA Invariance == Spec => []Inv
  BY InitInv, NextInv, PTL DEF Spec

\* Every reachable state of the task manager is well typed: channels never hold more than
\* their capacity, and every call is at one of its steps.
THEOREM TaskTypes == Spec => []TypeOK
<1>1. Inv => TypeOK
  BY DEF Inv
<1>2. QED
  BY <1>1, Invariance, PTL

\* A watcher cancels a task only when some caller named that task, however many watchers
\* read the channel the ids come through.
THEOREM KillsAreAskedFor == Spec => []OnlyNamedAreKilled
<1>1. Inv => OnlyNamedAreKilled
  BY DEF Inv
<1>2. QED
  BY <1>1, Invariance, PTL

\* No Kill comes back by a token that no ended task left, and no token is taken twice: at
\* any moment as many tasks have ended as Kills came back by a token.
THEOREM TokensArePaid == Spec => []ReturnsArePaidFor
<1>1. Inv => ReturnsArePaidFor
  BY DEF Inv
<1>2. QED
  BY <1>1, Invariance, PTL
===========================================================================
