--------------------------- MODULE Library_proofs ---------------------------
(***************************************************************************)
(* Components between a watchlist and a file of the library that keep no   *)
(* files: interactive search, the lazily opened tables and acquisition, for *)
(* any indexers, answers, capacity, tables, callers, items and releases.   *)
(*                                                                         *)
(* search_complete counts everything because no result is ever lost on its *)
(* way from an answer to the client: it is still with its goroutine, or in *)
(* the channel, or its key has been kept (NothingLost); and the channel    *)
(* closes after the goroutines (ClosedInv), so nothing is on its way then. *)
(* With one indexer the writers take turns (TurnsInv).                     *)
(*                                                                         *)
(* The handles are of the core in use because Close empties both at once   *)
(* and a core is only opened where there is none; that a table of a core   *)
(* has one handle rests on UseTable's second look: a table without a       *)
(* handle has had none since the core was opened (NoneMadeYet).            *)
(*                                                                         *)
(* A loop of acquisition adds one job for an item because an item it may   *)
(* still see as wanted has no job of the loop that was marked (RssOnce,    *)
(* SearchOnce), whatever list it works through was read before.            *)
(***************************************************************************)
EXTENDS SearchHub, DbTables, Acquisition, LeastNumber, FiniteSetTheorems,
        SequenceTheorems, TLAPS

-----------------------------------------------------------------------------
(* Interactive search (SearchHub).                                         *)

Counts(S) == {Cardinality(s) : s \in SUBSET S}
\* What is written to the connection; a complete one carries the total.
Messages ==
    [type : {"silent", "session_start"}] \cup [type : {"search_started"}, of : Counts(Indexers)]
    \cup [type : {"result"}, key : Results] \cup [type : {"search_complete"}, total : Counts(Results)]
    \cup [type : {"indexer_complete"}, of : Indexers, found : Counts(Results)]
    \cup [type : {"indexer_error"}, of : Indexers]
AllAnswers == UNION {answered[i] : i \in Indexers}

OutputInv ==
    /\ saying \in [Writers -> Messages] /\ told \in Seq(Messages)
    /\ answered \in [Indexers -> SUBSET Results] /\ mixed \subseteq Writers

\* Before the launch there is nothing; a goroutine has found nothing before it was answered
\* and keeps nothing when it ends, and writes while it has its results.
StagesInv ==
    /\ main \in {"register", "greet", "launch"} =>
           ~closed /\ channel = <<>> /\ \A i \in Indexers : asked[i] = "off"
    /\ \A i \in Indexers :
           /\ i \notin enabled => asked[i] = "off"
           /\ asked[i] \in {"off", "search", "over"} => found[i] = {} /\ saying[i] = Silent
           /\ asked[i] \in {"off", "search"} => answered[i] = {}

\* The channel is closed after the goroutines, and the search complete after that.
ClosedInv ==
    /\ closed => \A i \in Indexers : asked[i] \in {"off", "over"}
    /\ main = "complete" => closed /\ channel = <<>>

\* Every result answered is still to be put into the channel, in it, or kept.
NothingLost == AllAnswers = seen \cup Range(channel) \cup UNION {found[i] : i \in Indexers}

\* The session's last message, while it is written and when it has been received.
LastInv ==
    /\ \A w \in Writers : saying[w].type = "search_complete" =>
           w = Session /\ main = "complete" /\ saying[w].total = Cardinality(AllAnswers)
    /\ \A n \in DOMAIN told : told[n].type = "search_complete" =>
           /\ n = Len(told) /\ closed /\ main \in {"complete", "over"} /\ saying[Session] = Silent
           /\ told[n].total = Cardinality(AllAnswers)

SearchInv == SearchTypeOK /\ OutputInv /\ StagesInv /\ ClosedInv /\ NothingLost /\ LastInv

\* One indexer at most is enabled: while its goroutine searches or writes, the session does
\* not write and has nothing to read.
OneOnly == \E e : enabled \subseteq {e}
TurnsInv ==
    OneOnly =>
        /\ ~crash /\ mixed = {}
        /\ \A i \in Indexers : asked[i] = "search" \/ saying[i] # Silent =>
               main = "collect" /\ saying[Session] = Silent /\ channel = <<>>

-----------------------------------------------------------------------------
\* The messages, their types and who writes them.
LEMMA WriterNames == /\ Session \in Writers /\ Session \notin Indexers /\ Indexers \subseteq Writers
                     /\ \A w \in Writers : w = Session \/ w \in Indexers
  BY SearchAssumption DEF Writers

LEMMA SearchTyped ==
    /\ Silent \in Messages /\ Silent.type = "silent"
    /\ [type |-> "session_start"] \in Messages
    /\ \A s \in SUBSET Indexers : [type |-> "search_started", of |-> Cardinality(s)] \in Messages
    /\ \A r \in Results : [type |-> "result", key |-> r] \in Messages
    /\ \A s \in SUBSET Results : [type |-> "search_complete", total |-> Cardinality(s)] \in Messages
    /\ \A i \in Indexers : [type |-> "indexer_error", of |-> i] \in Messages
    /\ \A i \in Indexers, s \in SUBSET Results :
           [type |-> "indexer_complete", of |-> i, found |-> Cardinality(s)] \in Messages
<1>1. \A S : \A s \in SUBSET S : Cardinality(s) \in Counts(S)
  BY DEF Counts
<1>2. Silent \in Messages /\ Silent.type = "silent" /\ [type |-> "session_start"] \in Messages
  BY DEF Silent, Messages
<1>3. \A s \in SUBSET Indexers : [type |-> "search_started", of |-> Cardinality(s)] \in Messages
  BY <1>1 DEF Messages
<1>4. \A r \in Results : [type |-> "result", key |-> r] \in Messages
  BY DEF Messages
<1>5. \A s \in SUBSET Results : [type |-> "search_complete", total |-> Cardinality(s)] \in Messages
  BY <1>1 DEF Messages
<1>6. \A i \in Indexers : [type |-> "indexer_error", of |-> i] \in Messages
  BY DEF Messages
<1>7. \A i \in Indexers, s \in SUBSET Results :
          [type |-> "indexer_complete", of |-> i, found |-> Cardinality(s)] \in Messages
  BY <1>1 DEF Messages
<1> QED BY <1>2, <1>3, <1>4, <1>5, <1>6, <1>7

\* A writer that begins a message says it, and the others what they said.
LEMMA SearchBegins ==
    ASSUME SearchInv, NEW w \in Writers, NEW m \in Messages, Begin(w, m)
    PROVE  /\ saying' \in [Writers -> Messages] /\ saying'[w] = m
           /\ \A v \in Writers \ {w} : saying'[v] = saying[v]
           /\ mixed' \subseteq Writers /\ crash' \in BOOLEAN
           /\ Writing = {} => mixed' = mixed /\ crash' = crash
<1>1. saying' = [saying EXCEPT ![w] = m] /\ saying \in [Writers -> Messages]
  BY DEF Begin, SearchInv, OutputInv
<1>2. Writing \subseteq Writers /\ mixed \subseteq Writers /\ crash \in BOOLEAN
  BY DEF Writing, SearchInv, OutputInv, SearchTypeOK
<1>3. mixed' \subseteq Writers /\ crash' \in BOOLEAN /\ (Writing = {} => mixed' = mixed /\ crash' = crash)
  BY <1>2 DEF Begin
<1> QED BY <1>1, <1>3

\* The first element of a channel and the others, and one more.
LEMMA ChannelRange ==
    ASSUME NEW S, NEW s \in Seq(S), NEW x \in S
    PROVE  /\ Range(Append(s, x)) = Range(s) \cup {x} /\ Append(s, x) \in Seq(S)
           /\ Len(Append(s, x)) = Len(s) + 1 /\ Append(s, x) # <<>>
           /\ s # <<>> => /\ Range(s) = {Head(s)} \cup Range(Tail(s)) /\ Tail(s) \in Seq(S)
                          /\ Head(s) \in S /\ Len(Tail(s)) = Len(s) - 1
           /\ Len(s) \in Nat
<1>1. Len(s) \in Nat /\ DOMAIN s = 1..Len(s)
  OBVIOUS
<1>2. Append(s, x) \in Seq(S) /\ Len(Append(s, x)) = Len(s) + 1
  OBVIOUS
<1>3. Append(s, x) # <<>>
  BY <1>1, <1>2
<1>4. Range(Append(s, x)) = Range(s) \cup {x}
  <2>1. /\ \A n \in 1..Len(s) : Append(s, x)[n] = s[n]
        /\ Append(s, x)[Len(s) + 1] = x
    OBVIOUS
  <2>2. DOMAIN Append(s, x) = 1..(Len(s) + 1)
    BY <1>2
  <2>3. \A n \in 1..(Len(s) + 1) : n \in 1..Len(s) \/ n = Len(s) + 1
    BY <1>1
  <2>4. Len(s) + 1 \in 1..(Len(s) + 1) /\ 1..Len(s) \subseteq 1..(Len(s) + 1)
    BY <1>1
  <2> QED BY <1>1, <2>1, <2>2, <2>3, <2>4, Zenon DEF Range
<1>5. ASSUME s # <<>>
      PROVE  /\ Range(s) = {Head(s)} \cup Range(Tail(s)) /\ Tail(s) \in Seq(S)
             /\ Head(s) \in S /\ Len(Tail(s)) = Len(s) - 1
  <2>1. Len(s) >= 1 /\ Head(s) = s[1] /\ Head(s) \in S
    BY <1>1, <1>5
  <2>2. Tail(s) \in Seq(S) /\ Len(Tail(s)) = Len(s) - 1
    BY <1>5
  <2>3. \A n \in 1..(Len(s) - 1) : Tail(s)[n] = s[n + 1]
    BY <1>5
  <2>4. DOMAIN Tail(s) = 1..(Len(s) - 1)
    BY <2>2
  <2>5. \A n \in 1..Len(s) : n = 1 \/ \E k \in 1..(Len(s) - 1) : n = k + 1
    <3>1. ASSUME NEW n \in 1..Len(s), n # 1 PROVE \E k \in 1..(Len(s) - 1) : n = k + 1
      <4>1. n - 1 \in 1..(Len(s) - 1) /\ n = (n - 1) + 1
        BY <1>1, <3>1
      <4> QED BY <4>1
    <3> QED BY <3>1
  <2>6. 1 \in 1..Len(s) /\ \A k \in 1..(Len(s) - 1) : k + 1 \in 1..Len(s)
    BY <1>1, <2>1
  <2>7. ASSUME NEW y \in Range(s) PROVE y = Head(s) \/ y \in Range(Tail(s))
    <3>1. PICK n \in 1..Len(s) : y = s[n]
      BY <1>1 DEF Range
    <3>2. CASE n = 1
      BY <2>1, <3>1, <3>2
    <3>3. CASE n # 1
      <4>1. PICK k \in 1..(Len(s) - 1) : n = k + 1
        BY <2>5, <3>3
      <4>2. Tail(s)[k] = y
        BY <2>3, <3>1, <4>1
      <4> QED BY <2>4, <4>2 DEF Range
    <3> QED BY <3>2, <3>3
  <2>8. Head(s) \in Range(s)
    BY <1>1, <2>1, <2>6 DEF Range
  <2>9. ASSUME NEW y \in Range(Tail(s)) PROVE y \in Range(s)
    <3>1. PICK k \in 1..(Len(s) - 1) : y = Tail(s)[k]
      BY <2>4 DEF Range
    <3>2. y = s[k + 1] /\ k + 1 \in 1..Len(s)
      BY <2>3, <2>6, <3>1
    <3> QED BY <1>1, <3>2 DEF Range
  <2> QED BY <2>1, <2>2, <2>7, <2>8, <2>9
<1> QED BY <1>1, <1>2, <1>3, <1>4, <1>5

\* The facts that hold of the whole invariant, spelled out.
LEMMA SearchFacts ==
    ASSUME SearchInv
    PROVE  /\ \A i \in Indexers : found[i] \in SUBSET Results /\ answered[i] \in SUBSET Results
           /\ AllAnswers \subseteq Results /\ channel \in Seq(Results) /\ Len(channel) \in Nat
           /\ main \in {"register", "greet", "launch", "collect"} =>
                  \A n \in DOMAIN told : told[n].type # "search_complete"
           /\ main # "complete" => \A w \in Writers : saying[w].type # "search_complete"
           /\ \A i \in Indexers : asked[i] \in {"search", "put"} =>
                  /\ ~closed /\ main \notin {"register", "greet", "launch", "complete"}
                  /\ \A n \in DOMAIN told : told[n].type # "search_complete"
<1>1. \A i \in Indexers : found[i] \in SUBSET Results /\ answered[i] \in SUBSET Results
  BY DEF SearchInv, SearchTypeOK, OutputInv
<1>2. AllAnswers \subseteq Results
  BY <1>1 DEF AllAnswers
<1>3. channel \in Seq(Results) /\ Len(channel) \in Nat
  BY DEF SearchInv, SearchTypeOK
<1>4. /\ main \in {"register", "greet", "launch", "collect"} =>
             \A n \in DOMAIN told : told[n].type # "search_complete"
      /\ main # "complete" => \A w \in Writers : saying[w].type # "search_complete"
  BY DEF SearchInv, LastInv
<1>5. ASSUME NEW i \in Indexers, asked[i] \in {"search", "put"}
      PROVE  /\ ~closed /\ main \notin {"register", "greet", "launch", "complete"}
             /\ \A n \in DOMAIN told : told[n].type # "search_complete"
  <2>1. ~closed
    BY <1>5 DEF SearchInv, ClosedInv
  <2>2. main \notin {"register", "greet", "launch", "complete"}
    BY <1>5, <2>1 DEF SearchInv, ClosedInv, StagesInv
  <2> QED BY <2>1, <2>2 DEF SearchInv, LastInv
<1> QED BY <1>1, <1>2, <1>3, <1>4, <1>5

-----------------------------------------------------------------------------
\* At first nothing was asked, found or said.
LEMMA SearchInitHolds == SearchInit => SearchInv /\ TurnsInv
<1> SUFFICES ASSUME SearchInit PROVE SearchInv /\ TurnsInv
  OBVIOUS
<1> DEFINE silent == Silent
<1>1. saying = [w \in Writers |-> silent] /\ silent \in Messages /\ silent.type = "silent"
  BY SearchTyped DEF SearchInit
<1>2. /\ asked = [i \in Indexers |-> "off"] /\ found = [i \in Indexers |-> {}]
      /\ answered = [i \in Indexers |-> {}] /\ channel = <<>> /\ ~closed /\ seen = {}
      /\ mixed = {} /\ told = <<>> /\ open /\ ~crash /\ polling = {} /\ blamed = {}
      /\ main \in {"register", "over"} /\ http \in {"off", "none"} /\ enabled \subseteq Indexers
      /\ reply \in Replies
  BY DEF SearchInit, Replies
<1>3. {open, crash, closed} \subseteq BOOLEAN
  BY DEF SearchInit
<1>4. Len(channel) <= ChannelCap /\ channel \in Seq(Results) /\ told \in Seq(Messages)
  BY <1>2, SearchAssumption
<1> HIDE DEF silent
<1>5. SearchTypeOK
  BY <1>2, <1>3, <1>4 DEF SearchTypeOK
<1>6. OutputInv
  BY <1>1, <1>2, <1>4 DEF OutputInv
<1>7. StagesInv
  BY <1>1, <1>2, WriterNames DEF StagesInv, silent
<1>8. ClosedInv
  BY <1>2 DEF ClosedInv
<1>9. NothingLost
  <2>1. Range(channel) = {}
    BY <1>2 DEF Range
  <2> QED BY <1>2, <2>1 DEF NothingLost, AllAnswers
<1>10. LastInv
  <2>1. DOMAIN told = {}
    BY <1>2
  <2>2. \A w \in Writers : saying[w].type = "silent"
    BY <1>1
  <2> QED BY <2>1, <2>2 DEF LastInv
<1>11. TurnsInv
  BY <1>1, <1>2, WriterNames DEF TurnsInv, silent
<1> QED BY <1>5, <1>6, <1>7, <1>8, <1>9, <1>10, <1>11 DEF SearchInv

\* The session's greeting and announcement: no goroutine was started.
LEMMA GreetHolds ==
    ASSUME SearchInv, TurnsInv, Greet \/ Announce, UNCHANGED <<enabled, open, http, reply, polling, blamed>>
    PROVE  SearchInv' /\ TurnsInv'
<1>1. /\ main \in {"register", "greet"} /\ main' \in {"greet", "launch"}
      /\ UNCHANGED <<asked, found, answered, channel, closed, seen, told>>
  BY DEF Greet, Announce
<1>2. PICK m \in Messages : Begin(Session, m) /\ m.type # "search_complete"
  <2>1. CASE Greet
    BY <2>1, SearchTyped DEF Greet
  <2>2. CASE Announce
    <3> DEFINE m == [type |-> "search_started", of |-> Cardinality(enabled)]
    <3>1. m \in Messages /\ m.type # "search_complete"
      BY SearchTyped DEF SearchInv, SearchTypeOK
    <3> QED BY <2>2, <3>1 DEF Announce
  <2> QED BY <2>1, <2>2
<1>3. /\ saying' \in [Writers -> Messages] /\ saying'[Session] = m
      /\ \A i \in Indexers : saying'[i] = saying[i]
      /\ mixed' \subseteq Writers /\ crash' \in BOOLEAN
      /\ Writing = {} => mixed' = mixed /\ crash' = crash
  BY <1>2, SearchBegins, WriterNames
<1>4. \A i \in Indexers : asked[i] = "off" /\ saying[i] = Silent
  BY <1>1 DEF SearchInv, StagesInv
<1>5. SearchTypeOK'
  BY <1>1, <1>3 DEF SearchInv, SearchTypeOK
<1>6. OutputInv' /\ StagesInv' /\ ClosedInv' /\ NothingLost'
  BY <1>1, <1>3, <1>4
  DEF SearchInv, OutputInv, StagesInv, ClosedInv, NothingLost, AllAnswers
<1>7. LastInv'
  BY <1>1, <1>2, <1>3, <1>4, SearchFacts, WriterNames, SearchTyped DEF LastInv
<1>8. TurnsInv'
  <2>1. Writing = {}
    BY <1>2, <1>4, WriterNames DEF Writing, Begin
  <2> QED BY <1>1, <1>3, <1>4, <2>1 DEF TurnsInv, OneOnly
<1> QED BY <1>5, <1>6, <1>7, <1>8 DEF SearchInv

\* The goroutines are started with nothing found yet.
LEMMA LaunchHolds ==
    ASSUME SearchInv, TurnsInv, Launch, UNCHANGED <<enabled, open, http, reply, polling, blamed>>
    PROVE  SearchInv' /\ TurnsInv'
<1>1. /\ main = "launch" /\ saying[Session] = Silent /\ main' = "collect"
      /\ asked' = [i \in Indexers |-> IF i \in enabled THEN "search" ELSE "off"]
      /\ UNCHANGED <<found, answered, channel, closed, seen, told, saying, mixed, crash>>
  BY DEF Launch, Unsaid
<1>2. /\ ~closed /\ channel = <<>>
      /\ \A i \in Indexers : found[i] = {} /\ answered[i] = {} /\ saying[i] = Silent
  BY <1>1 DEF SearchInv, StagesInv
<1>3. SearchTypeOK'
  <2>1. asked' \in [Indexers -> {"off", "search", "put", "over"}]
    BY <1>1
  <2> QED BY <1>1, <2>1 DEF SearchInv, SearchTypeOK
<1>4. OutputInv' /\ StagesInv' /\ ClosedInv' /\ NothingLost'
  BY <1>1, <1>2 DEF SearchInv, OutputInv, StagesInv, ClosedInv, NothingLost, AllAnswers
<1>5. LastInv'
  BY <1>1, SearchFacts DEF LastInv
<1>6. TurnsInv'
  BY <1>1, <1>2 DEF TurnsInv, OneOnly
<1> QED BY <1>3, <1>4, <1>5, <1>6 DEF SearchInv

\* A result moves from the channel to the kept ones, if it is not there.
LEMMA CollectHolds ==
    ASSUME SearchInv, TurnsInv, Collect, UNCHANGED <<enabled, open, http, reply, polling, blamed>>
    PROVE  SearchInv' /\ TurnsInv'
<1> DEFINE r == Head(channel)
<1>1. /\ main = "collect" /\ saying[Session] = Silent /\ channel # <<>> /\ channel' = Tail(channel)
      /\ UNCHANGED <<main, asked, found, answered, closed, told>>
  BY DEF Collect
<1>2. /\ Range(channel) = {r} \cup Range(channel') /\ channel' \in Seq(Results) /\ r \in Results
      /\ Len(channel') = Len(channel) - 1 /\ Len(channel) \in Nat
  BY <1>1, SearchFacts, ChannelRange DEF SearchInv, SearchTypeOK
<1>3. \/ r \in seen /\ UNCHANGED <<seen, saying, mixed, crash>>
      \/ seen' = seen \cup {r} /\ Begin(Session, [type |-> "result", key |-> r])
  BY DEF Collect, Unsaid
<1> HIDE DEF r
<1>4. seen' = seen \cup {r} /\ seen' \subseteq Results
  BY <1>2, <1>3 DEF SearchInv, SearchTypeOK
<1>5. /\ saying' \in [Writers -> Messages] /\ saying'[Session].type # "search_complete"
      /\ \A i \in Indexers : saying'[i] = saying[i]
      /\ mixed' \subseteq Writers /\ crash' \in BOOLEAN
      /\ Writing = {} => mixed' = mixed /\ crash' = crash
  <2>1. CASE UNCHANGED <<seen, saying, mixed, crash>>
    BY <1>1, <2>1, SearchTyped DEF SearchInv, OutputInv, SearchTypeOK
  <2>2. CASE Begin(Session, [type |-> "result", key |-> r])
    <3> DEFINE m == [type |-> "result", key |-> r]
    <3>1. m \in Messages /\ m.type # "search_complete"
      BY <1>2, SearchTyped
    <3> HIDE DEF m
    <3>2. Begin(Session, m)
      BY <2>2 DEF m
    <3> QED BY <3>1, <3>2, SearchBegins, WriterNames
  <2> QED BY <1>3, <2>1, <2>2
<1>6. SearchTypeOK'
  <2>1. Len(channel') <= ChannelCap
    BY <1>2, SearchAssumption DEF SearchInv, SearchTypeOK
  <2> QED BY <1>1, <1>2, <1>4, <1>5, <2>1 DEF SearchInv, SearchTypeOK
<1>7. OutputInv' /\ StagesInv' /\ ClosedInv'
  BY <1>1, <1>5 DEF SearchInv, OutputInv, StagesInv, ClosedInv
<1>8. NothingLost'
  BY <1>1, <1>2, <1>4 DEF SearchInv, NothingLost, AllAnswers
<1>9. LastInv'
  BY <1>1, <1>5, SearchFacts, WriterNames DEF LastInv
<1>10. TurnsInv'
  <2> SUFFICES ASSUME OneOnly
               PROVE  /\ ~crash' /\ mixed' = {}
                      /\ \A i \in Indexers : asked'[i] # "search" /\ saying'[i] = Silent
    BY <1>1 DEF TurnsInv, OneOnly
  <2>1. \A i \in Indexers : asked[i] # "search" /\ saying[i] = Silent
    BY <1>1 DEF TurnsInv
  <2>2. Writing = {}
    BY <1>1, <2>1, WriterNames DEF Writing
  <2> QED BY <1>1, <1>5, <2>1, <2>2 DEF TurnsInv
<1> QED BY <1>6, <1>7, <1>8, <1>9, <1>10 DEF SearchInv
\* Once the channel is closed and drained every answer has been kept, so the total is theirs.
LEMMA CompleteHolds ==
    ASSUME SearchInv, TurnsInv, Complete, UNCHANGED <<enabled, open, http, reply, polling, blamed>>
    PROVE  SearchInv' /\ TurnsInv'
<1> DEFINE m == [type |-> "search_complete", total |-> Cardinality(seen)]
<1>1. /\ main = "collect" /\ saying[Session] = Silent /\ channel = <<>> /\ closed
      /\ main' = "complete" /\ Begin(Session, m)
      /\ UNCHANGED <<asked, found, answered, channel, closed, seen, told>>
  BY DEF Complete
<1>2. \A i \in Indexers : asked[i] \in {"off", "over"} /\ found[i] = {} /\ saying[i] = Silent
  BY <1>1 DEF SearchInv, ClosedInv, StagesInv
<1>3. m.total = Cardinality(AllAnswers)
  <2>1. Range(channel) = {}
    BY <1>1 DEF Range
  <2>2. AllAnswers = seen
    BY <1>2, <2>1 DEF SearchInv, NothingLost
  <2> QED BY <2>2
<1>4. m \in Messages
  BY SearchTyped DEF SearchInv, SearchTypeOK
<1> HIDE DEF m
<1>5. /\ saying' \in [Writers -> Messages] /\ saying'[Session] = m
      /\ \A i \in Indexers : saying'[i] = saying[i]
      /\ mixed' \subseteq Writers /\ crash' \in BOOLEAN
      /\ Writing = {} => mixed' = mixed /\ crash' = crash
  BY <1>1, <1>4, SearchBegins, WriterNames
<1>6. SearchTypeOK'
  BY <1>1, <1>5 DEF SearchInv, SearchTypeOK
<1>7. OutputInv' /\ StagesInv' /\ ClosedInv' /\ NothingLost' /\ AllAnswers' = AllAnswers
  BY <1>1, <1>5 DEF SearchInv, OutputInv, StagesInv, ClosedInv, NothingLost, AllAnswers
<1>8. LastInv'
  <2>1. \A n \in DOMAIN told : told[n].type # "search_complete"
    BY <1>1, SearchFacts
  <2>2. \A w \in Writers : w # Session => saying'[w].type # "search_complete"
    BY <1>2, <1>5, WriterNames, SearchTyped
  <2> QED BY <1>1, <1>3, <1>5, <1>7, <2>1, <2>2 DEF LastInv
<1>9. TurnsInv'
  <2>1. Writing = {}
    BY <1>1, <1>2, WriterNames DEF Writing
  <2> QED BY <1>1, <1>2, <1>5, <2>1 DEF TurnsInv, OneOnly
<1> QED BY <1>6, <1>7, <1>8, <1>9 DEF SearchInv

\* An indexer answers, with its results or an error, and its goroutine writes so.
LEMMA AnswerHolds ==
    ASSUME SearchInv, TurnsInv, NEW i \in Indexers, NEW rs \in SUBSET Results,
           Answer(i, rs) \/ Fail(i), UNCHANGED <<enabled, open, http, reply, polling, blamed>>
    PROVE  SearchInv' /\ TurnsInv'
<1>1. /\ asked[i] = "search" /\ asked' = [asked EXCEPT ![i] = "put"]
      /\ UNCHANGED <<main, channel, closed, seen, told>>
  BY DEF Answer, Fail
<1>2. /\ ~closed /\ main \notin {"register", "greet", "launch", "complete"}
      /\ \A n \in DOMAIN told : told[n].type # "search_complete"
      /\ found[i] = {} /\ answered[i] = {} /\ saying[i] = Silent /\ i \in enabled
  BY <1>1, SearchFacts DEF SearchInv, StagesInv
<1>3. PICK m \in Messages : Begin(i, m) /\ m.type # "search_complete"
  <2>1. CASE Answer(i, rs)
    <3> DEFINE m == [type |-> "indexer_complete", of |-> i, found |-> Cardinality(rs)]
    <3>1. m \in Messages /\ m.type # "search_complete"
      BY SearchTyped
    <3> QED BY <2>1, <3>1 DEF Answer
  <2>2. CASE Fail(i)
    <3> DEFINE m == [type |-> "indexer_error", of |-> i]
    <3>1. m \in Messages /\ m.type # "search_complete"
      BY SearchTyped
    <3> QED BY <2>2, <3>1 DEF Fail
  <2> QED BY <2>1, <2>2
<1>4. PICK s \in SUBSET Results : /\ found' = [found EXCEPT ![i] = s]
                                  /\ answered' = [answered EXCEPT ![i] = s]
  <2>1. CASE Answer(i, rs)
    BY <2>1 DEF Answer
  <2>2. CASE Fail(i)
    <3>1. found' = [found EXCEPT ![i] = {}] /\ answered' = [answered EXCEPT ![i] = {}]
      BY <1>2, <2>2 DEF Fail, SearchInv, SearchTypeOK, OutputInv
    <3> QED BY <3>1
  <2> QED BY <2>1, <2>2
<1>5. /\ saying' \in [Writers -> Messages] /\ saying'[i] = m
      /\ \A v \in Writers \ {i} : saying'[v] = saying[v]
      /\ mixed' \subseteq Writers /\ crash' \in BOOLEAN
      /\ Writing = {} => mixed' = mixed /\ crash' = crash
  BY <1>3, SearchBegins, WriterNames
<1>6. /\ asked' \in [Indexers -> {"off", "search", "put", "over"}]
      /\ \A j \in Indexers : asked'[j] = IF j = i THEN "put" ELSE asked[j]
  BY <1>1 DEF SearchInv, SearchTypeOK
<1>7. /\ found' \in [Indexers -> SUBSET Results] /\ answered' \in [Indexers -> SUBSET Results]
      /\ found'[i] = s /\ answered'[i] = s
      /\ \A j \in Indexers \ {i} : found'[j] = found[j] /\ answered'[j] = answered[j]
  BY <1>4 DEF SearchInv, SearchTypeOK, OutputInv
<1>8. SearchTypeOK'
  BY <1>1, <1>5, <1>6, <1>7 DEF SearchInv, SearchTypeOK
<1>9. OutputInv'
  BY <1>1, <1>5, <1>7 DEF SearchInv, OutputInv
<1>10. StagesInv'
  <2>1. \A j \in Indexers \ {i} : saying'[j] = saying[j]
    BY <1>5, WriterNames
  <2> QED BY <1>1, <1>2, <1>6, <1>7, <2>1 DEF SearchInv, StagesInv
<1>11. ClosedInv'
  BY <1>1, <1>2 DEF ClosedInv
<1>12. NothingLost'
  <2>1. AllAnswers' = AllAnswers \cup s
    BY <1>2, <1>7 DEF AllAnswers
  <2>2. UNION {found'[j] : j \in Indexers} = (UNION {found[j] : j \in Indexers}) \cup s
    BY <1>2, <1>7
  <2> QED BY <1>1, <2>1, <2>2 DEF SearchInv, NothingLost
<1>13. LastInv'
  <2>1. \A w \in Writers : saying'[w].type # "search_complete"
    BY <1>2, <1>3, <1>5, SearchFacts
  <2> QED BY <1>1, <1>2, <2>1 DEF LastInv
<1>14. TurnsInv'
  <2> SUFFICES ASSUME OneOnly
               PROVE  /\ ~crash' /\ mixed' = {}
                      /\ \A j \in Indexers : asked'[j] = "search" \/ saying'[j] # Silent =>
                             main = "collect" /\ saying'[Session] = Silent /\ channel = <<>>
    BY <1>1 DEF TurnsInv, OneOnly
  <2>1. main = "collect" /\ saying[Session] = Silent /\ channel = <<>>
    BY <1>1 DEF TurnsInv
  <2>2. \A j \in Indexers : j # i => asked[j] = "off"
    BY <1>2 DEF OneOnly, SearchInv, StagesInv
  <2>3. Writing = {}
    BY <1>2, <2>1, <2>2, WriterNames DEF Writing, SearchInv, StagesInv
  <2> QED BY <1>5, <2>1, <2>3, WriterNames DEF TurnsInv
<1> QED BY <1>8, <1>9, <1>10, <1>11, <1>12, <1>13, <1>14 DEF SearchInv

\* A goroutine puts a result into the channel.
LEMMA PutHolds ==
    ASSUME SearchInv, TurnsInv, NEW i \in Indexers, NEW r \in Results, Put(i, r),
           UNCHANGED <<enabled, open, http, reply, polling, blamed>>
    PROVE  SearchInv' /\ TurnsInv'
<1>1. /\ asked[i] = "put" /\ saying[i] = Silent /\ r \in found[i] /\ Len(channel) < ChannelCap
      /\ found' = [found EXCEPT ![i] = found[i] \ {r}] /\ channel' = Append(channel, r)
      /\ UNCHANGED <<main, asked, answered, closed, seen, told, saying, mixed, crash>>
  BY DEF Put, Unsaid
<1>2. /\ ~closed /\ main \notin {"register", "greet", "launch", "complete"} /\ i \in enabled
  BY <1>1, SearchFacts DEF SearchInv, StagesInv
<1>3. /\ Range(channel') = Range(channel) \cup {r} /\ channel' \in Seq(Results)
      /\ Len(channel') = Len(channel) + 1 /\ channel' # <<>> /\ Len(channel) \in Nat
  BY <1>1, SearchFacts, ChannelRange
<1>4. /\ found' \in [Indexers -> SUBSET Results] /\ found'[i] = found[i] \ {r}
      /\ \A j \in Indexers \ {i} : found'[j] = found[j]
  BY <1>1 DEF SearchInv, SearchTypeOK
<1>5. SearchTypeOK'
  <2>1. Len(channel') <= ChannelCap
    BY <1>1, <1>3, SearchAssumption
  <2> QED BY <1>1, <1>3, <1>4, <2>1 DEF SearchInv, SearchTypeOK
<1>6. OutputInv' /\ ClosedInv'
  BY <1>1, <1>2 DEF SearchInv, OutputInv, ClosedInv
<1>7. StagesInv'
  BY <1>1, <1>2, <1>4 DEF SearchInv, StagesInv
<1>8. NothingLost'
  <2>1. UNION {found[j] : j \in Indexers} = (UNION {found'[j] : j \in Indexers}) \cup {r}
    <3>1. \A x : (\E j \in Indexers : x \in found[j])
                     <=> (\E j \in Indexers : x \in found'[j]) \/ x = r
      BY <1>1, <1>4
    <3> QED BY <3>1
  <2> QED BY <1>1, <1>3, <2>1 DEF SearchInv, NothingLost, AllAnswers
<1>9. LastInv'
  BY <1>1, SearchFacts DEF SearchInv, LastInv
<1>10. TurnsInv'
  <2> SUFFICES ASSUME OneOnly
               PROVE  /\ ~crash /\ mixed = {}
                      /\ \A j \in Indexers : asked[j] # "search" /\ saying[j] = Silent
    BY <1>1 DEF TurnsInv, OneOnly
  <2>1. \A j \in Indexers : j # i => asked[j] = "off" /\ saying[j] = Silent
    BY <1>2 DEF OneOnly, SearchInv, StagesInv
  <2> QED BY <1>1, <2>1 DEF TurnsInv
<1> QED BY <1>5, <1>6, <1>7, <1>8, <1>9, <1>10 DEF SearchInv

\* A goroutine ends, or the last one has and the channel is closed.
LEMMA EndsHold ==
    ASSUME SearchInv, TurnsInv, CloseChannel \/ \E i \in Indexers : Leave(i),
           UNCHANGED <<enabled, open, http, reply, polling, blamed>>
    PROVE  SearchInv' /\ TurnsInv'
<1>1. UNCHANGED <<main, found, answered, channel, seen, told, saying, mixed, crash>>
  BY DEF CloseChannel, Leave, Unsaid
<1>2. CASE CloseChannel
  <2>1. main = "collect" /\ ~closed /\ closed' = TRUE /\ asked' = asked
        /\ \A i \in Indexers : asked[i] \in {"off", "over"}
    BY <1>2 DEF CloseChannel, SearchInv, StagesInv
  <2>2. SearchTypeOK' /\ OutputInv'
    BY <1>1, <2>1 DEF SearchInv, SearchTypeOK, OutputInv
  <2>3. StagesInv' /\ ClosedInv' /\ NothingLost'
    BY <1>1, <2>1 DEF SearchInv, StagesInv, ClosedInv, NothingLost, AllAnswers
  <2>4. LastInv'
    BY <1>1, <2>1, SearchFacts DEF LastInv
  <2>5. TurnsInv'
    BY <1>1, <2>1 DEF TurnsInv, OneOnly
  <2> QED BY <2>2, <2>3, <2>4, <2>5 DEF SearchInv
<1>3. CASE \E i \in Indexers : Leave(i)
  <2>1. PICK i \in Indexers : Leave(i)
    BY <1>3
  <2>2. /\ asked[i] = "put" /\ saying[i] = Silent /\ found[i] = {}
        /\ asked' = [asked EXCEPT ![i] = "over"] /\ closed' = closed
    BY <2>1 DEF Leave
  <2>3. /\ asked' \in [Indexers -> {"off", "search", "put", "over"}]
        /\ \A j \in Indexers : asked'[j] = IF j = i THEN "over" ELSE asked[j]
    BY <2>2 DEF SearchInv, SearchTypeOK
  <2>4. ~closed /\ main \notin {"register", "greet", "launch", "complete"} /\ i \in enabled
    BY <2>2, SearchFacts DEF SearchInv, StagesInv
  <2>5. SearchTypeOK' /\ OutputInv'
    BY <1>1, <2>2, <2>3 DEF SearchInv, SearchTypeOK, OutputInv
  <2>6. StagesInv'
    BY <1>1, <2>2, <2>3, <2>4 DEF SearchInv, StagesInv
  <2>7. ClosedInv' /\ NothingLost'
    BY <1>1, <2>2, <2>4 DEF SearchInv, ClosedInv, NothingLost, AllAnswers
  <2>8. LastInv'
    BY <1>1, <2>2 DEF SearchInv, LastInv, AllAnswers
  <2>9. TurnsInv'
    BY <1>1, <2>2, <2>3 DEF TurnsInv, OneOnly
  <2> QED BY <2>5, <2>6, <2>7, <2>8, <2>9 DEF SearchInv
<1> QED BY <1>2, <1>3

\* A message is written.  When it is the last one, nobody else writes or will.
LEMMA WrittenHolds ==
    ASSUME SearchInv, TurnsInv, NEW w \in Writers, Written(w),
           UNCHANGED <<enabled, open, http, reply, polling, blamed>>
    PROVE  SearchInv' /\ TurnsInv'
<1> DEFINE m == saying[w]
           silent == Silent
<1>1. /\ m # silent /\ saying' = [saying EXCEPT ![w] = silent] /\ mixed' = mixed \ {w}
      /\ told' = told \/ told' = Append(told, m)
      /\ UNCHANGED <<main, asked, found, answered, channel, closed, seen, crash>>
  BY DEF Written, End
<1>2. saying \in [Writers -> Messages] /\ m \in Messages /\ told \in Seq(Messages) /\ silent \in Messages
      /\ silent.type = "silent"
  BY SearchTyped DEF SearchInv, OutputInv
<1> HIDE DEF m, silent
<1>3. saying' \in [Writers -> Messages] /\ \A v \in Writers : saying'[v] = IF v = w THEN silent ELSE saying[v]
  BY <1>1, <1>2
<1>4. told' \in Seq(Messages)
  BY <1>1, <1>2
<1>5. SearchTypeOK' /\ OutputInv'
  BY <1>1, <1>3, <1>4 DEF SearchInv, SearchTypeOK, OutputInv
<1>6. StagesInv'
  <2>1. \A i \in Indexers : saying[i] = Silent => saying'[i] = Silent
    BY <1>3, WriterNames DEF silent
  <2> QED BY <1>1, <2>1 DEF SearchInv, StagesInv
<1>7. ClosedInv' /\ NothingLost' /\ AllAnswers' = AllAnswers
  BY <1>1 DEF SearchInv, ClosedInv, NothingLost, AllAnswers
<1>8. LastInv'
  <2>1. \A v \in Writers : saying'[v].type = "search_complete" =>
            v = Session /\ main = "complete" /\ saying'[v].total = Cardinality(AllAnswers)
    BY <1>2, <1>3 DEF SearchInv, LastInv
  <2>2. \A n \in DOMAIN told : told[n].type # "search_complete"
    <3> SUFFICES ASSUME NEW n \in DOMAIN told, told[n].type = "search_complete" PROVE FALSE
      OBVIOUS
    <3>1. closed /\ saying[Session] = Silent
      BY DEF SearchInv, LastInv
    <3>2. \A i \in Indexers : saying[i] = Silent
      BY <3>1 DEF SearchInv, ClosedInv, StagesInv
    <3> QED BY <1>1, <3>1, <3>2, WriterNames DEF m, silent
  <2>3. CASE told' = told
    BY <1>1, <1>7, <2>1, <2>2, <2>3 DEF LastInv
  <2>4. CASE told' = Append(told, m)
    <3> SUFFICES ASSUME NEW n \in DOMAIN told', told'[n].type = "search_complete"
                 PROVE  /\ n = Len(told') /\ closed /\ main \in {"complete", "over"}
                        /\ saying'[Session] = Silent /\ told'[n].total = Cardinality(AllAnswers)
      BY <1>1, <1>7, <2>1 DEF LastInv
    <3>1. /\ DOMAIN told' = 1..(Len(told) + 1) /\ DOMAIN told = 1..Len(told) /\ Len(told) \in Nat
          /\ Len(told') = Len(told) + 1 /\ told'[Len(told) + 1] = m
          /\ \A k \in 1..Len(told) : told'[k] = told[k]
      BY <1>2, <2>4
    <3>2. n = Len(told) + 1
      BY <2>2, <3>1
    <3>3. m.type = "search_complete"
      BY <3>1, <3>2
    <3>4. w = Session /\ main = "complete" /\ m.total = Cardinality(AllAnswers)
      BY <3>3 DEF SearchInv, LastInv, m
    <3>5. closed
      BY <3>4 DEF SearchInv, ClosedInv
    <3> QED BY <1>3, <3>1, <3>2, <3>4, <3>5 DEF silent
  <2> QED BY <1>1, <2>3, <2>4
<1>9. TurnsInv'
  <2>1. \A v \in Writers : saying'[v] = saying[v] \/ saying'[v] = Silent
    BY <1>3 DEF silent
  <2> QED BY <1>1, <2>1, WriterNames DEF TurnsInv, OneOnly
<1> QED BY <1>5, <1>6, <1>7, <1>8, <1>9 DEF SearchInv

\* The session is over, the client leaves, or a search over HTTP takes a step.
LEMMA OthersHold ==
    ASSUME SearchInv, TurnsInv, UNCHANGED enabled,
           \/ (Unregister \/ Disconnect) /\ UNCHANGED <<http, reply, polling, blamed>>
           \/ HttpStep /\ UNCHANGED <<main, asked, found, answered, channel, closed,
                                      seen, saying, mixed, told, open, crash>>
    PROVE  SearchInv' /\ TurnsInv'
<1>1. /\ UNCHANGED <<asked, found, answered, channel, closed, seen, told, saying, mixed, crash>>
      /\ open' \in {open, FALSE}
      /\ main' = main \/ (main = "complete" /\ main' = "over" /\ saying[Session] = Silent)
  BY DEF Unregister, Disconnect, Unsaid
<1>2. polling' \subseteq Indexers /\ blamed' \subseteq Indexers
      /\ http' \in {"off", "none", "open", "gone"} /\ reply' \in Replies
  <2>1. polling \subseteq Indexers /\ blamed \subseteq Indexers /\ enabled \subseteq Indexers
        /\ http \in {"off", "none", "open", "gone"} /\ reply \in Replies
    BY DEF SearchInv, SearchTypeOK
  <2>2. CASE HttpStep
    BY <2>1, <2>2 DEF HttpStep, ManualSearch, Refused, GetSearchResults, DownloadSearchResult,
                      ClearSearchSession, SearchAll, ClearSession, OnSession, SessionIs, Replies
  <2> QED BY <2>1, <2>2
<1>3. main' \in {"register", "greet", "launch", "collect", "complete", "over"}
  BY <1>1 DEF SearchInv, SearchTypeOK
<1>4. SearchTypeOK'
  BY <1>1, <1>2, <1>3 DEF SearchInv, SearchTypeOK
<1>5. OutputInv' /\ StagesInv' /\ ClosedInv' /\ NothingLost' /\ AllAnswers' = AllAnswers
  BY <1>1 DEF SearchInv, OutputInv, StagesInv, ClosedInv, NothingLost, AllAnswers
<1>6. LastInv'
  BY <1>1, <1>5, SearchTyped DEF SearchInv, LastInv
<1>7. TurnsInv'
  BY <1>1 DEF SearchInv, ClosedInv, StagesInv, TurnsInv, OneOnly
<1> QED BY <1>4, <1>5, <1>6, <1>7 DEF SearchInv

\* Every step keeps both invariants.
LEMMA SearchStep == SearchInv /\ TurnsInv /\ [SearchNext]_sessionVars => SearchInv' /\ TurnsInv'
<1> SUFFICES ASSUME SearchInv, TurnsInv, [SearchNext]_sessionVars PROVE SearchInv' /\ TurnsInv'
  OBVIOUS
<1>1. ASSUME SessionStep, UNCHANGED <<enabled, open, http, reply, polling, blamed>>
      PROVE  SearchInv' /\ TurnsInv'
  <2>1. CASE Greet \/ Announce
    BY <1>1, <2>1, GreetHolds
  <2>2. CASE Launch
    BY <1>1, <2>2, LaunchHolds
  <2>3. CASE Collect
    BY <1>1, <2>3, CollectHolds
  <2>4. CASE Complete
    BY <1>1, <2>4, CompleteHolds
  <2>5. CASE CloseChannel \/ \E i \in Indexers : Leave(i)
    BY <1>1, <2>5, EndsHold
  <2>6. ASSUME NEW w \in Writers, Written(w) PROVE SearchInv' /\ TurnsInv'
    BY <1>1, <2>6, WrittenHolds
  <2>7. ASSUME NEW i \in Indexers, Fail(i) PROVE SearchInv' /\ TurnsInv'
    <3>1. {} \in SUBSET Results
      OBVIOUS
    <3> QED BY <1>1, <2>7, <3>1, AnswerHolds
  <2>8. ASSUME NEW i \in Indexers, NEW rs \in SUBSET Results, Answer(i, rs)
        PROVE  SearchInv' /\ TurnsInv'
    BY <1>1, <2>8, AnswerHolds
  <2>9. ASSUME NEW i \in Indexers, NEW r \in Results, Put(i, r) PROVE SearchInv' /\ TurnsInv'
    BY <1>1, <2>9, PutHolds
  <2> QED BY <1>1, <2>1, <2>2, <2>3, <2>4, <2>5, <2>6, <2>7, <2>8, <2>9 DEF SessionStep
<1>2. CASE UNCHANGED sessionVars
  <2>1. /\ UNCHANGED <<enabled, main, asked, found, answered, channel, closed, seen>>
        /\ UNCHANGED <<saying, mixed, told, open, crash, http, reply, polling, blamed>>
    BY <1>2 DEF sessionVars
  <2>2. SearchTypeOK' /\ OutputInv' /\ StagesInv' /\ ClosedInv' /\ NothingLost'
    BY <2>1 DEF SearchInv, SearchTypeOK, OutputInv, StagesInv, ClosedInv, NothingLost, AllAnswers
  <2>3. LastInv' /\ TurnsInv'
    BY <2>1 DEF SearchInv, LastInv, AllAnswers, TurnsInv, OneOnly
  <2> QED BY <2>2, <2>3 DEF SearchInv
<1> QED BY <1>1, <1>2, OthersHold DEF SearchNext

LEMMA SearchInvHolds == SearchSpec => [](SearchInv /\ TurnsInv)
<1>1. SearchInit => SearchInv /\ TurnsInv
  BY SearchInitHolds
<1>2. SearchInv /\ TurnsInv /\ [SearchNext]_sessionVars => (SearchInv /\ TurnsInv)'
  BY SearchStep
<1> QED BY <1>1, <1>2, PTL DEF SearchSpec

-----------------------------------------------------------------------------
\* The session, its channel and its goroutines keep their types (websocket.go, manager.go).
THEOREM SearchTypes == SearchSpec => []SearchTypeOK
<1>1. SearchInv /\ TurnsInv => SearchTypeOK
  BY DEF SearchInv
<1> QED BY <1>1, SearchInvHolds, PTL

\* search_complete is the last message and counts every key an indexer answered with, however
\* the goroutines, the collector and the closing of the channel interleave (startSearch).
THEOREM SearchIsComplete == SearchSpec => []CompleteTellsAll
<1>1. SearchInv /\ TurnsInv => CompleteTellsAll
  <2> SUFFICES ASSUME SearchInv PROVE CompleteTellsAll
    OBVIOUS
  <2>1. DOMAIN told = 1..Len(told)
    BY DEF SearchInv, OutputInv
  <2> QED BY <2>1 DEF SearchInv, LastInv, CompleteTellsAll, ToldOf, AllAnswers
<1> QED BY <1>1, SearchInvHolds, PTL

\* With one enabled indexer the writers of a session take turns (sendJSON, startSearch).
THEOREM OneIndexerTakesTurns == SearchSpec => []OneIndexerIsSafe
<1>1. SearchInv /\ TurnsInv => OneIndexerIsSafe
  <2> SUFFICES ASSUME SearchInv, TurnsInv, Cardinality(enabled) < 2 PROVE OneOnly
    BY DEF OneIndexerIsSafe, TurnsInv
  <2>1. IsFiniteSet(Indexers) /\ enabled \subseteq Indexers
    BY SearchAssumption DEF SearchInv, SearchTypeOK
  <2>2. IsFiniteSet(enabled)
    BY <2>1, FS_Subset
  <2>3. Cardinality(enabled) \in Nat
    BY <2>2, FS_CardinalityType
  <2>4. CASE Cardinality(enabled) = 0
    <3>1. enabled = {}
      BY <2>2, <2>4, FS_EmptySet
    <3> QED BY <3>1 DEF OneOnly
  <2>5. CASE Cardinality(enabled) = 1
    <3>1. \E e : enabled = {e}
      BY <2>2, <2>5, FS_Singleton
    <3> QED BY <3>1 DEF OneOnly
  <2>6. Cardinality(enabled) \in {0, 1}
    BY <2>3
  <2> QED BY <2>4, <2>5, <2>6
<1> QED BY <1>1, SearchInvHolds, PTL

-----------------------------------------------------------------------------
(* The lazily opened tables (DbTables).                                    *)

\* The core in use is the one opened last, and getters hold cores that were opened.
CoreInv ==
    /\ core \in {0, opens}
    /\ \A p \in Callers : caller[p].core <= opens
    /\ \A p \in Callers : caller[p].step = "use" => caller[p].core # 0

\* No handle was made of a core not yet opened, nor of the core in use for a table that
\* has none.
NoneMadeYet ==
    /\ \A c \in Cores, t \in Tables : c > opens => made[<<c, t>>] = 0
    /\ \A t \in Tables : core # 0 /\ handle[t] = 0 => made[<<core, t>>] = 0

DbInv == DbTypeOK /\ CoreInv /\ NoneMadeYet /\ HandlesAreOfTheCore /\ OneHandle

-----------------------------------------------------------------------------
\* Calls are typed records.
LEMMA CallTyped ==
    ASSUME NEW s \in CallSteps, NEW t \in Tables, NEW c \in 0..MaxOpens
    PROVE  /\ Call(s, t, c) \in [step : CallSteps, table : Tables, core : 0..MaxOpens]
           /\ Call(s, t, c).step = s /\ Call(s, t, c).table = t /\ Call(s, t, c).core = c
  BY DEF Call

\* A getter that goes on with a core that was opened stays typed, and the other getters
\* stay where they are.
LEMMA GetterMoves ==
    ASSUME DbTypeOK, CoreInv, NEW p \in Callers, NEW s \in CallSteps, NEW t \in Tables,
           NEW c \in 0..MaxOpens, c <= opens', opens <= opens', s = "use" => c # 0,
           opens' \in 0..MaxOpens, caller' = [caller EXCEPT ![p] = Call(s, t, c)]
    PROVE  /\ caller' \in [Callers -> [step : CallSteps, table : Tables, core : 0..MaxOpens]]
           /\ \A q \in Callers : caller'[q].core <= opens'
           /\ \A q \in Callers : caller'[q].step = "use" => caller'[q].core # 0
<1> DEFINE k == Call(s, t, c)
<1>1. /\ k \in [step : CallSteps, table : Tables, core : 0..MaxOpens]
      /\ k.step = s /\ k.core = c
  BY CallTyped
<1>2. caller' = [caller EXCEPT ![p] = k]
  OBVIOUS
<1> HIDE DEF k
<1>3. caller \in [Callers -> [step : CallSteps, table : Tables, core : 0..MaxOpens]]
  BY DEF DbTypeOK
<1>4. caller' \in [Callers -> [step : CallSteps, table : Tables, core : 0..MaxOpens]]
  BY <1>1, <1>2, <1>3
<1>5. \A q \in Callers : caller'[q] = IF q = p THEN k ELSE caller[q]
  BY <1>2, <1>3
<1>6. opens \in Nat /\ opens' \in Nat /\ MaxOpens \in Nat
  BY DbAssumption DEF DbTypeOK
<1>7. ASSUME NEW q \in Callers
      PROVE  caller'[q].core <= opens' /\ (caller'[q].step = "use" => caller'[q].core # 0)
  <2>1. CASE q = p
    BY <2>1, <1>1, <1>5
  <2>2. CASE q # p
    <3>1. caller'[q] = caller[q]
      BY <2>2, <1>5
    <3>2. caller[q].core \in Nat /\ caller[q].core <= opens
      BY <1>3, <1>6 DEF CoreInv
    <3>3. caller[q].core <= opens'
      BY <3>2, <1>6
    <3> QED BY <3>1, <3>3 DEF CoreInv
  <2> QED BY <2>1, <2>2
<1> QED BY <1>4, <1>7

-----------------------------------------------------------------------------
\* The first state has neither core nor handles.
LEMMA DbInitHolds == DbInit => DbInv
<1> SUFFICES ASSUME DbInit PROVE DbInv
  OBVIOUS
<1>1. MaxOpens \in Nat \ {0} /\ Tables # {}
  BY DbAssumption
<1>2. (CHOOSE t \in Tables : TRUE) \in Tables
  BY <1>1
<1>3. Call("idle", CHOOSE t \in Tables : TRUE, 0) \in [step : CallSteps, table : Tables, core : 0..MaxOpens]
  BY <1>1, <1>2, CallTyped DEF CallSteps
<1>4. DbTypeOK
  <2> DEFINE k == Call("idle", CHOOSE t \in Tables : TRUE, 0)
  <2>1. k \in [step : CallSteps, table : Tables, core : 0..MaxOpens]
    BY <1>3
  <2>2. caller = [p \in Callers |-> k]
    BY DEF DbInit
  <2> HIDE DEF k
  <2>3. caller \in [Callers -> [step : CallSteps, table : Tables, core : 0..MaxOpens]]
    BY <2>1, <2>2
  <2>4. 0 \in 0..MaxOpens /\ 0 \in Nat
    BY <1>1
  <2>5. handle \in [Tables -> 0..MaxOpens] /\ made \in [Cores \X Tables -> Nat]
    BY <2>4 DEF DbInit
  <2>6. core \in 0..MaxOpens /\ opens \in 0..MaxOpens /\ late \subseteq Tables
    BY <2>4 DEF DbInit
  <2> QED BY <2>3, <2>5, <2>6 DEF DbTypeOK
<1>5. CoreInv
  BY <1>2 DEF DbInit, CoreInv, Call
<1>6. NoneMadeYet /\ HandlesAreOfTheCore /\ OneHandle
  BY DEF DbInit, NoneMadeYet, HandlesAreOfTheCore, OneHandle, Cores
<1> QED BY <1>4, <1>5, <1>6 DEF DbInv

\* A step that leaves the core and the handles alone disturbs only what getters hold.
LEMMA OnlyGettersMove ==
    ASSUME DbInv, UNCHANGED <<core, opens, handle, made, late>>,
           NEW p \in Callers, NEW s \in CallSteps, NEW t \in Tables, NEW c \in 0..MaxOpens,
           c <= opens, s = "use" => c # 0,
           caller' = [caller EXCEPT ![p] = Call(s, t, c)]
    PROVE  DbInv'
<1>1. /\ opens' = opens /\ opens' \in 0..MaxOpens /\ opens <= opens' /\ c <= opens'
      /\ DbTypeOK /\ CoreInv
  BY DbAssumption DEF DbInv, DbTypeOK
<1>2. /\ caller' \in [Callers -> [step : CallSteps, table : Tables, core : 0..MaxOpens]]
      /\ \A q \in Callers : caller'[q].core <= opens'
      /\ \A q \in Callers : caller'[q].step = "use" => caller'[q].core # 0
  BY <1>1, GetterMoves
<1>3. DbTypeOK'
  BY <1>2 DEF DbInv, DbTypeOK
<1>4. CoreInv'
  BY <1>1, <1>2 DEF DbInv, CoreInv
<1>5. NoneMadeYet' /\ HandlesAreOfTheCore' /\ OneHandle'
  BY DEF DbInv, NoneMadeYet, HandlesAreOfTheCore, OneHandle
<1> QED BY <1>3, <1>4, <1>5 DEF DbInv

\* What a getter holds is typed.
LEMMA GetterTyped ==
    ASSUME DbInv, NEW p \in Callers
    PROVE  /\ caller[p].table \in Tables /\ caller[p].core \in 0..MaxOpens
           /\ caller[p].core <= opens /\ opens \in 0..MaxOpens /\ MaxOpens \in Nat
           /\ core \in 0..MaxOpens /\ core <= opens
<1>1. MaxOpens \in Nat
  BY DbAssumption
<1>2. caller[p] \in [step : CallSteps, table : Tables, core : 0..MaxOpens]
  BY DEF DbInv, DbTypeOK
<1>3. core \in 0..MaxOpens /\ opens \in 0..MaxOpens /\ core \in {0, opens}
  BY DEF DbInv, DbTypeOK, CoreInv
<1>4. core <= opens
  BY <1>1, <1>3
<1> QED BY <1>1, <1>2, <1>3, <1>4 DEF DbInv, CoreInv

LEMMA ReadHandleHolds ==
    ASSUME DbInv, NEW p \in Callers, NEW t \in Tables, ReadHandle(p, t)
    PROVE  DbInv'
<1> DEFINE s == IF handle[t] # 0 THEN "idle" ELSE "core"
<1>1. s \in CallSteps /\ s # "use"
  BY DEF CallSteps
<1>2. caller' = [caller EXCEPT ![p] = Call(s, t, 0)] /\ UNCHANGED <<core, opens, handle, made, late>>
  BY DEF ReadHandle
<1>3. 0 \in 0..MaxOpens /\ 0 <= opens
  BY GetterTyped
<1> HIDE DEF s
<1> QED BY <1>1, <1>2, <1>3, OnlyGettersMove

LEMMA ReadCoreHolds ==
    ASSUME DbInv, NEW p \in Callers, ReadCore(p)
    PROVE  DbInv'
<1> DEFINE t == caller[p].table
<1>1. /\ t \in Tables /\ 0 \in 0..MaxOpens /\ 0 <= opens
      /\ core \in 0..MaxOpens /\ core <= opens
  BY GetterTyped
<1>2. UNCHANGED <<core, opens, handle, made, late>>
  BY DEF ReadCore
<1>3. CASE core # 0
  <2>1. caller' = [caller EXCEPT ![p] = Call("use", t, core)]
    BY <1>3 DEF ReadCore, CallerGoes
  <2> HIDE DEF t
  <2> QED BY <1>1, <1>2, <1>3, <2>1, OnlyGettersMove DEF CallSteps
<1>4. CASE core = 0
  <2>1. caller' = [caller EXCEPT ![p] = Call("open", t, 0)]
    BY <1>4 DEF ReadCore, CallerGoes
  <2> HIDE DEF t
  <2> QED BY <1>1, <1>2, <2>1, OnlyGettersMove DEF CallSteps
<1> QED BY <1>3, <1>4

\* A new core has the next number, and no handle: Close has left none but the late ones.
LEMMA OpenCoreHolds ==
    ASSUME DbInv, NEW p \in Callers, OpenCore(p)
    PROVE  DbInv'
<1> DEFINE t == caller[p].table
<1>1. /\ t \in Tables /\ 0 \in 0..MaxOpens /\ 0 <= opens /\ MaxOpens \in Nat
      /\ core \in 0..MaxOpens /\ core <= opens /\ opens \in 0..MaxOpens
  BY GetterTyped
<1>2. CASE core # 0 /\ CallerGoes(p, "use", core) /\ UNCHANGED <<core, opens>>
  <2>1. /\ caller' = [caller EXCEPT ![p] = Call("use", t, core)]
        /\ UNCHANGED <<core, opens, handle, made, late>>
    BY <1>2 DEF OpenCore, CallerGoes
  <2> HIDE DEF t
  <2> QED BY <1>1, <1>2, <2>1, OnlyGettersMove DEF CallSteps
<1>3. CASE core = 0 /\ CallerGoes(p, "idle", 0) /\ UNCHANGED <<core, opens>>
  <2>1. /\ caller' = [caller EXCEPT ![p] = Call("idle", t, 0)]
        /\ UNCHANGED <<core, opens, handle, made, late>>
    BY <1>3 DEF OpenCore, CallerGoes
  <2> HIDE DEF t
  <2> QED BY <1>1, <2>1, OnlyGettersMove DEF CallSteps
<1>4. CASE /\ core = 0 /\ opens < MaxOpens
           /\ opens' = opens + 1 /\ core' = opens' /\ CallerGoes(p, "use", opens')
  <2> DEFINE c == opens + 1
  <2>1. /\ opens' = c /\ core' = c /\ caller' = [caller EXCEPT ![p] = Call("use", t, c)]
        /\ UNCHANGED <<handle, made, late>>
    BY <1>4 DEF OpenCore, CallerGoes
  <2>2. c \in 0..MaxOpens /\ c \in Cores /\ c # 0 /\ c > opens /\ opens <= c /\ c <= c
    BY <1>1, <1>4 DEF Cores
  <2>3. "use" \in CallSteps
    BY DEF CallSteps
  <2> HIDE DEF t, c
  <2>4. /\ caller' \in [Callers -> [step : CallSteps, table : Tables, core : 0..MaxOpens]]
        /\ \A q \in Callers : caller'[q].core <= opens'
        /\ \A q \in Callers : caller'[q].step = "use" => caller'[q].core # 0
    BY <1>1, <2>1, <2>2, <2>3, GetterMoves DEF DbInv
  <2>5. DbTypeOK'
    BY <2>1, <2>2, <2>4 DEF DbInv, DbTypeOK
  <2>6. CoreInv'
    BY <2>1, <2>4 DEF CoreInv
  <2>7. \A t2 \in Tables : made[<<c, t2>>] = 0
    BY <2>2 DEF DbInv, NoneMadeYet
  <2>8. \A d \in Cores : d > c => d > opens
    BY <1>1, <2>2 DEF Cores
  <2>9. NoneMadeYet'
    BY <2>1, <2>7, <2>8 DEF DbInv, NoneMadeYet
  <2>10. HandlesAreOfTheCore'
    BY <1>4, <2>1 DEF DbInv, HandlesAreOfTheCore
  <2>11. OneHandle'
    BY <2>1 DEF DbInv, OneHandle
  <2> QED BY <2>5, <2>6, <2>9, <2>10, <2>11 DEF DbInv
<1> QED BY <1>2, <1>3, <1>4 DEF OpenCore

\* A handle is made only where there is none: the first of its core, or a late one.
LEMMA UseTableHolds ==
    ASSUME DbInv, NEW p \in Callers, UseTable(p)
    PROVE  DbInv'
<1> DEFINE t == caller[p].table
           c == caller[p].core
<1>1. /\ t \in Tables /\ c \in 0..MaxOpens /\ c <= opens /\ opens \in 0..MaxOpens
      /\ MaxOpens \in Nat /\ core \in 0..MaxOpens /\ core <= opens /\ 0 \in 0..MaxOpens /\ 0 <= opens
  BY GetterTyped
<1>2. c # 0
  BY DEF UseTable, DbInv, CoreInv
<1>3. caller' = [caller EXCEPT ![p] = Call("idle", t, 0)] /\ UNCHANGED <<core, opens>>
  BY DEF UseTable, CallerGoes
<1>4. \/ UNCHANGED <<handle, made, late>>
      \/ /\ handle[t] = 0 /\ handle' = [handle EXCEPT ![t] = c]
         /\ IF c = core THEN made' = [made EXCEPT ![<<c, t>>] = @ + 1] /\ late' = late \ {t}
                        ELSE late' = late \cup {t} /\ made' = made
  BY DEF UseTable, Present
<1>5. handle \in [Tables -> 0..MaxOpens] /\ made \in [Cores \X Tables -> Nat] /\ late \subseteq Tables
  BY DEF DbInv, DbTypeOK
<1>6. c \in Cores
  BY <1>1, <1>2 DEF Cores
<1> HIDE DEF t, c
<1>7. CASE UNCHANGED <<handle, made, late>>
  BY <1>1, <1>3, <1>7, OnlyGettersMove DEF CallSteps
<1>8. CASE /\ handle[t] = 0 /\ handle' = [handle EXCEPT ![t] = c]
           /\ IF c = core THEN made' = [made EXCEPT ![<<c, t>>] = @ + 1] /\ late' = late \ {t}
                          ELSE late' = late \cup {t} /\ made' = made
  <2>1. "idle" \in CallSteps /\ opens <= opens' /\ opens' \in 0..MaxOpens /\ 0 <= opens'
    BY <1>1, <1>3 DEF CallSteps
  <2>2. /\ caller' \in [Callers -> [step : CallSteps, table : Tables, core : 0..MaxOpens]]
        /\ \A q \in Callers : caller'[q].core <= opens'
        /\ \A q \in Callers : caller'[q].step = "use" => caller'[q].core # 0
    BY <1>1, <1>3, <2>1, GetterMoves DEF DbInv
  <2>3. CoreInv'
    BY <1>3, <2>2 DEF DbInv, CoreInv
  <2>4. handle' \in [Tables -> 0..MaxOpens] /\ \A t2 \in Tables : handle'[t2] = IF t2 = t THEN c ELSE handle[t2]
    BY <1>1, <1>5, <1>8
  <2>5. CASE c = core
    <3>1. made' = [made EXCEPT ![<<c, t>>] = made[<<c, t>>] + 1] /\ late' = late \ {t}
      BY <1>8, <2>5
    <3>2. <<c, t>> \in Cores \X Tables /\ made[<<c, t>>] \in Nat
      BY <1>1, <1>5, <1>6
    <3>3. made[<<c, t>>] = 0
      BY <1>1, <1>2, <1>8, <2>5 DEF DbInv, NoneMadeYet
    <3>4. made' = [made EXCEPT ![<<c, t>>] = 1]
      BY <3>1, <3>3
    <3>5. made' \in [Cores \X Tables -> Nat]
      BY <1>5, <3>4
    <3>6. \A d \in Cores, t2 \in Tables :
              made'[<<d, t2>>] = IF d = c /\ t2 = t THEN 1 ELSE made[<<d, t2>>]
      BY <1>5, <3>4
    <3>7. DbTypeOK'
      BY <1>3, <1>5, <2>2, <2>4, <3>1, <3>5 DEF DbInv, DbTypeOK
    <3>8. \A d \in Cores : d > opens => d # c
      BY <1>1, <1>6 DEF Cores
    <3>9. NoneMadeYet'
      <4>1. \A d \in Cores, t2 \in Tables : d > opens' => made'[<<d, t2>>] = 0
        BY <1>3, <3>6, <3>8 DEF DbInv, NoneMadeYet
      <4>2. \A t2 \in Tables : core' # 0 /\ handle'[t2] = 0 => made'[<<core', t2>>] = 0
        BY <1>2, <1>3, <1>6, <2>4, <2>5, <3>6 DEF DbInv, NoneMadeYet
      <4> QED BY <4>1, <4>2 DEF NoneMadeYet
    <3>10. HandlesAreOfTheCore'
      BY <1>3, <2>4, <2>5, <3>1 DEF DbInv, HandlesAreOfTheCore
    <3>11. OneHandle'
      <4>1. \A d \in Cores, t2 \in Tables : made[<<d, t2>>] <= 1
        BY DEF DbInv, OneHandle
      <4>2. ASSUME NEW d \in Cores, NEW t2 \in Tables PROVE made'[<<d, t2>>] <= 1
        <5>1. CASE d = c /\ t2 = t
          BY <3>6, <5>1
        <5>2. CASE ~(d = c /\ t2 = t)
          BY <3>6, <4>1, <5>2
        <5> QED BY <5>1, <5>2
      <4> QED BY <4>2 DEF OneHandle
    <3> QED BY <2>3, <3>7, <3>9, <3>10, <3>11 DEF DbInv
  <2>6. CASE c # core
    <3>1. made' = made /\ late' = late \cup {t}
      BY <1>8, <2>6
    <3>2. DbTypeOK'
      BY <1>1, <1>3, <1>5, <2>2, <2>4, <3>1 DEF DbInv, DbTypeOK
    <3>3. NoneMadeYet'
      BY <1>2, <1>3, <2>4, <3>1 DEF DbInv, NoneMadeYet
    <3>4. HandlesAreOfTheCore'
      BY <1>3, <2>4, <3>1 DEF DbInv, HandlesAreOfTheCore
    <3>5. OneHandle'
      BY <3>1 DEF DbInv, OneHandle
    <3> QED BY <2>3, <3>2, <3>3, <3>4, <3>5 DEF DbInv
  <2> QED BY <2>5, <2>6
<1> QED BY <1>4, <1>7, <1>8

\* Close leaves neither a core nor a handle.
LEMMA CloseHolds ==
    ASSUME DbInv, CloseDb
    PROVE  DbInv'
<1>1. /\ core' = 0 /\ handle' = [t \in Tables |-> 0] /\ late' = {}
      /\ opens' = opens /\ caller' = caller /\ made' = made
  BY DEF CloseDb, Dropped
<1>2. 0 \in 0..MaxOpens
  BY DbAssumption
<1>3. DbTypeOK'
  BY <1>1, <1>2 DEF DbInv, DbTypeOK
<1>4. CoreInv'
  BY <1>1 DEF DbInv, CoreInv
<1>5. NoneMadeYet' /\ HandlesAreOfTheCore' /\ OneHandle'
  BY <1>1 DEF DbInv, NoneMadeYet, HandlesAreOfTheCore, OneHandle
<1> QED BY <1>3, <1>4, <1>5 DEF DbInv

\* Every step of a getter or of Close keeps the invariant.
LEMMA DbStep == DbInv /\ [DbNext]_dbVars => DbInv'
<1> SUFFICES ASSUME DbInv, [DbNext]_dbVars PROVE DbInv'
  OBVIOUS
<1>1. ASSUME NEW p \in Callers, NEW t \in Tables, ReadHandle(p, t) PROVE DbInv'
  BY <1>1, ReadHandleHolds
<1>2. ASSUME NEW p \in Callers, ReadCore(p) PROVE DbInv'
  BY <1>2, ReadCoreHolds
<1>3. ASSUME NEW p \in Callers, OpenCore(p) PROVE DbInv'
  BY <1>3, OpenCoreHolds
<1>4. ASSUME NEW p \in Callers, UseTable(p) PROVE DbInv'
  BY <1>4, UseTableHolds
<1>5. CASE CloseDb
  BY <1>5, CloseHolds
<1>6. CASE UNCHANGED dbVars
  <2>1. /\ core' = core /\ opens' = opens /\ handle' = handle /\ caller' = caller
        /\ made' = made /\ late' = late
    BY <1>6 DEF dbVars
  <2>2. DbTypeOK' /\ CoreInv' /\ NoneMadeYet'
    BY <2>1 DEF DbInv, DbTypeOK, CoreInv, NoneMadeYet
  <2>3. HandlesAreOfTheCore' /\ OneHandle'
    BY <2>1 DEF DbInv, HandlesAreOfTheCore, OneHandle
  <2> QED BY <2>2, <2>3 DEF DbInv
<1> QED BY <1>1, <1>2, <1>3, <1>4, <1>5, <1>6 DEF DbNext, Getter

LEMMA DbInvHolds == DbSpec => []DbInv
<1>1. DbInit => DbInv
  BY DbInitHolds
<1>2. DbInv /\ [DbNext]_dbVars => DbInv'
  BY DbStep
<1> QED BY <1>1, <1>2, PTL DEF DbSpec

-----------------------------------------------------------------------------
\* The database's fields keep their types (getCore, the getters and Close of db.go).
THEOREM TablesAreTyped == DbSpec => []DbTypeOK
<1>1. DbInv => DbTypeOK
  BY DEF DbInv
<1> QED BY <1>1, DbInvHolds, PTL

\* Whatever getters and Close do at a time, a handle is of the core in use, or was made
\* late, by a getter that Close overtook (the getters of db.go, Close).
THEOREM HandlesFollowTheCore == DbSpec => []HandlesAreOfTheCore
<1>1. DbInv => HandlesAreOfTheCore
  BY DEF DbInv
<1> QED BY <1>1, DbInvHolds, PTL

\* The second look under the write lock is enough for one handle per table and core
\* (the getters of db.go).
THEOREM TablesAreMadeOnce == DbSpec => []OneHandle
<1>1. DbInv => OneHandle
  BY DEF DbInv
<1> QED BY <1>1, DbInvHolds, PTL

-----------------------------------------------------------------------------
(* The watchlist, the feeds and the jobs (Acquisition).                    *)

\* The recursion of NewItems over a prefix of the feed.
NewUpTo(g, k) ==
    g = [n \in 0..k |-> IF n = 0 THEN <<>>
                        ELSE IF Guid(feed[n]) = lastItem THEN g[n - 1] ELSE Append(g[n - 1], feed[n])]

\* The recursion of NewItems has a solution for every prefix of the feed: at the least one that has
\* none, the solution before it can be extended.
LEMMA NewUpToExists == \A k \in Nat : \E g : NewUpTo(g, k)
<1> DEFINE T == {k \in Nat : ~ \E g : NewUpTo(g, k)}
<1> SUFFICES ASSUME T # {} PROVE FALSE
    OBVIOUS
<1>1. PICK m \in T : \A k \in T : m <= k
  BY LeastNat
<1>2. CASE m = 0
  <2> DEFINE g == [n \in 0..0 |-> <<>>]
  <2>1. NewUpTo(g, 0)
    BY DEF NewUpTo
  <2>2. QED
    BY <1>2, <2>1
<1>3. CASE m # 0
  <2>1. m - 1 \in Nat /\ m - 1 \notin T
    BY <1>1, <1>3
  <2>2. PICK g : NewUpTo(g, m - 1)
    BY <2>1
  <2> DEFINE v == IF Guid(feed[m]) = lastItem THEN g[m - 1] ELSE Append(g[m - 1], feed[m])
             h == [n \in 0..m |-> IF n = m THEN v ELSE g[n]]
  <2>3. NewUpTo(h, m)
    <3>1. \A n \in 0..m : h[n] = IF n = 0 THEN <<>>
                        ELSE IF Guid(feed[n]) = lastItem THEN h[n - 1] ELSE Append(h[n - 1], feed[n])
      <4> SUFFICES ASSUME NEW n \in 0..m
                   PROVE h[n] = IF n = 0 THEN <<>>
                        ELSE IF Guid(feed[n]) = lastItem THEN h[n - 1] ELSE Append(h[n - 1], feed[n])
        OBVIOUS
      <4>1. CASE n = m
        BY <4>1, <1>3
      <4>2. CASE n # m
        <5>1. n \in 0..(m - 1) /\ h[n] = g[n]
          BY <4>2
        <5>2. g[n] = IF n = 0 THEN <<>>
                        ELSE IF Guid(feed[n]) = lastItem THEN g[n - 1] ELSE Append(g[n - 1], feed[n])
          BY <5>1, <2>2 DEF NewUpTo
        <5>3. n # 0 => n - 1 \in 0..m /\ n - 1 # m
          BY <5>1
        <5>4. QED
          BY <5>1, <5>2, <5>3
      <4>3. QED
        BY <4>1, <4>2
    <3> HIDE DEF v
    <3>2. h = [n \in 0..m |-> h[n]]
      OBVIOUS
    <3> HIDE DEF h
    <3>3. QED
      BY <3>1, <3>2 DEF NewUpTo
  <2>4. QED
    BY <2>3
<1>4. QED
  BY <1>2, <1>3

\* What CheckFeed keeps of a feed
LEMMA NewItemsFacts ==
    ASSUME feed \in Seq(Releases), feed # <<>>
    PROVE  /\ NewItems \in Seq(Releases)
           /\ Guid(Head(feed)) # lastItem => Head(feed) \in Range(NewItems)
<1> DEFINE g == CHOOSE f : NewUpTo(f, Len(feed))
<1>0. Len(feed) \in Nat /\ Len(feed) # 0
  BY EmptySeq
<1>1. NewUpTo(g, Len(feed))
  BY <1>0, NewUpToExists
<1>2. NewItems = g[Len(feed)]
  BY DEF NewItems, NewUpTo
<1> HIDE DEF g
<1> DEFINE Good(n) == /\ g[n] \in Seq(Releases)
                      /\ n # 0 /\ Guid(feed[1]) # lastItem => feed[1] \in Range(g[n])
           T == {n \in 0..Len(feed) : ~Good(n)}
<1>3. g[0] = <<>>
  BY <1>0, <1>1 DEF NewUpTo
<1>4. \A n \in 1..Len(feed) : g[n] = IF Guid(feed[n]) = lastItem THEN g[n - 1] ELSE Append(g[n - 1], feed[n])
  <2> SUFFICES ASSUME NEW n \in 1..Len(feed)
               PROVE g[n] = IF Guid(feed[n]) = lastItem THEN g[n - 1] ELSE Append(g[n - 1], feed[n])
    OBVIOUS
  <2>1. n \in 0..Len(feed) /\ n # 0
    BY <1>0
  <2>2. g[n] = IF n = 0 THEN <<>>
               ELSE IF Guid(feed[n]) = lastItem THEN g[n - 1] ELSE Append(g[n - 1], feed[n])
    BY <1>1, <2>1 DEF NewUpTo
  <2>3. QED
    BY <2>1, <2>2
<1>5. ASSUME NEW n \in 1..Len(feed), Good(n - 1) PROVE Good(n)
  <2>1. feed[n] \in Releases /\ g[n - 1] \in Seq(Releases)
    BY <1>5
  <2>2. CASE Guid(feed[n]) = lastItem
    <3>1. g[n] = g[n - 1]
      BY <1>4, <2>2
    <3>2. n = 1 => Guid(feed[1]) = lastItem
      BY <2>2
    <3>3. QED
      BY <1>5, <3>1, <3>2
  <2>3. CASE Guid(feed[n]) # lastItem
    <3>1. g[n] = Append(g[n - 1], feed[n])
      BY <1>4, <2>3
    <3>2. /\ g[n] \in Seq(Releases) /\ Len(g[n]) = Len(g[n - 1]) + 1
          /\ g[n][Len(g[n])] = feed[n]
          /\ \A k \in 1..Len(g[n - 1]) : g[n][k] = g[n - 1][k]
      BY <2>1, <3>1, AppendProperties
    <3>3. feed[n] \in Range(g[n]) /\ Range(g[n - 1]) \subseteq Range(g[n])
      <4>1. DOMAIN g[n] = 1..Len(g[n]) /\ DOMAIN g[n - 1] = 1..Len(g[n - 1]) /\ Len(g[n - 1]) \in Nat
        BY <2>1, <3>2
      <4>2. Len(g[n]) \in DOMAIN g[n] /\ DOMAIN g[n - 1] \subseteq DOMAIN g[n]
        BY <4>1, <3>2
      <4>3. QED
        BY <4>1, <4>2, <3>2 DEF Range
    <3>4. QED
      BY <1>5, <3>2, <3>3
  <2>4. QED
    BY <2>2, <2>3
<1>6. Good(Len(feed))
  <2> SUFFICES ASSUME T # {} PROVE FALSE
    BY <1>0
  <2>1. T \in SUBSET Nat
    OBVIOUS
  <2>2. PICK m \in T : \A k \in T : m <= k
    <3> HIDE DEF T
    <3>1. QED
      BY <2>1, LeastNat
  <2>3. m # 0
    <3>1. Good(0)
      BY <1>3
    <3>2. QED
      BY <2>2, <3>1
  <2>4. m \in 1..Len(feed) /\ m - 1 \notin T /\ m - 1 \in 0..Len(feed)
    BY <2>2, <2>3
  <2>5. Good(m - 1)
    BY <2>4
  <2>6. QED
    BY <1>5, <2>2, <2>4, <2>5
<1>7. Head(feed) = feed[1]
  BY HeadTailProperties
<1>8. QED
  BY <1>0, <1>2, <1>6, <1>7

-----------------------------------------------------------------------------
\* The types of Acquisition.
AcquisitionTypes ==
    /\ watch \in [Items -> {"absent", "wanted", "complete", "removed"}]
    /\ jobs \in [Items -> [Loops -> Nat]] /\ unmarked \in [Items -> [Loops -> Nat]]
    /\ feed \in Seq(Releases) /\ fresh \in Seq(Releases) /\ handled \subseteq Releases
    /\ lastItem \in Releases \cup {NoGuid}
    /\ rss \in [step : {"idle", "match"} \cup Items, items : SUBSET Items]
    /\ search \in [step : {"idle", "next", "search", "mark"}, items : SUBSET Items]
    /\ queue \subseteq Items /\ loaded \in BOOLEAN

\* rssLoop added at most one job for an item that no fault left unmarked, none for one it
\* may still find wanted, except while it has the mark to make.
RssOnce ==
    \A i \in Items :
        /\ jobs[i]["rss"] <= 1 + unmarked[i]["rss"]
        /\ watch[i] \in {"absent", "wanted"} \/ i \in rss.items =>
               rss.step = i \/ jobs[i]["rss"] <= unmarked[i]["rss"]
        /\ i \in rss.items => watch[i] # "absent"

\* searchLoop added at most one job for an item that no fault left unmarked, none for one
\* that is wanted or that this round has still to search, except while it has the mark to make.
SearchOnce ==
    /\ \A i \in Items :
        /\ jobs[i]["search"] <= 1 + unmarked[i]["search"]
        /\ watch[i] \in {"absent", "wanted"} \/ i \in queue \/ i \in search.items =>
               \/ search = [step |-> "mark", items |-> {i}]
               \/ jobs[i]["search"] <= unmarked[i]["search"]
        /\ i \in queue \/ i \in search.items => watch[i] # "absent"
    /\ queue \cap search.items = {}

\* What a round of the loops has in its hands
RoundsHold ==
    /\ rss.step # "idle" => fresh # <<>>
    /\ LastItemIsHandled

\* The inductive invariant of the two loops.
AcquisitionInv == AcquisitionTypes /\ RssOnce /\ SearchOnce /\ RoundsHold

\* An empty watchlist and a process that has just started satisfy the invariant.
LEMMA AcquisitionInvInit == AcquisitionInit => AcquisitionInv
<1> SUFFICES ASSUME AcquisitionInit PROVE AcquisitionInv
    OBVIOUS
<1>1. AcquisitionTypes
  <2>1. watch \in [Items -> {"absent", "wanted", "complete", "removed"}]
    BY DEF AcquisitionInit
  <2>2. jobs \in [Items -> [Loops -> Nat]] /\ unmarked \in [Items -> [Loops -> Nat]]
    BY DEF AcquisitionInit
  <2>3. /\ rss \in [step : {"idle", "match"} \cup Items, items : SUBSET Items]
        /\ search \in [step : {"idle", "next", "search", "mark"}, items : SUBSET Items]
    BY DEF AcquisitionInit, Idle
  <2>4. feed \in Seq(Releases) /\ fresh \in Seq(Releases)
    BY DEF AcquisitionInit
  <2>5. lastItem = NoGuid /\ handled = {} /\ queue = {} /\ loaded = FALSE
    BY DEF AcquisitionInit
  <2>6. QED
    BY <2>1, <2>2, <2>3, <2>4, <2>5 DEF AcquisitionTypes
<1>2. RssOnce /\ SearchOnce
  BY DEF AcquisitionInit, RssOnce, SearchOnce, Idle, Loops
<1>3. RoundsHold
  BY DEF AcquisitionInit, RoundsHold, Idle, LastItemIsHandled
<1>4. QED
  BY <1>1, <1>2, <1>3 DEF AcquisitionInv

\* An item is never absent or wanted again after it was complete or removed.
WatchMoves ==
    \A i \in Items : /\ watch'[i] \in {"absent", "wanted"} => watch[i] \in {"absent", "wanted"}
                     /\ watch'[i] = "absent" => watch[i] = "absent"

\* What a step does not touch stays as it is
LEMMA RssKept ==
    ASSUME RssOnce, WatchMoves, rss' = rss,
           \A i \in Items : jobs'[i]["rss"] = jobs[i]["rss"] /\ unmarked'[i]["rss"] = unmarked[i]["rss"]
    PROVE  RssOnce'
  BY DEF RssOnce, WatchMoves
\* searchLoop's part is left alone by a step that adds no job of its own and only moves
\* items along their way.
LEMMA SearchKept ==
    ASSUME SearchOnce, WatchMoves, queue' = queue, search' = search,
           \A i \in Items : jobs'[i]["search"] = jobs[i]["search"] /\ unmarked'[i]["search"] = unmarked[i]["search"]
    PROVE  SearchOnce'
  BY DEF SearchOnce, WatchMoves
\* The feed's part is left alone by a step that does not touch what rssLoop has in hand.
LEMMA RoundsKept ==
    ASSUME RoundsHold, UNCHANGED <<rss, fresh, handled, lastItem>>
    PROVE  RoundsHold'
  BY DEF RoundsHold, LastItemIsHandled

\* A job is added
LEMMA AddDownloadFacts ==
    ASSUME AcquisitionTypes, NEW i \in Items, NEW l \in Loops, AddDownload(i, l)
    PROVE  /\ jobs' \in [Items -> [Loops -> Nat]] /\ jobs'[i][l] = jobs[i][l] + 1
           /\ \A k \in Items, m \in Loops : k # i \/ m # l => jobs'[k][m] = jobs[k][m]
  BY DEF AcquisitionTypes, AddDownload

\* Writing an item back complete moves it along: it is not wanted afterwards.
LEMMA MarkCompleteFacts ==
    ASSUME AcquisitionTypes, NEW i \in Items, watch[i] # "absent", MarkComplete(i)
    PROVE  /\ watch' \in [Items -> {"absent", "wanted", "complete", "removed"}]
           /\ WatchMoves /\ watch'[i] \notin {"absent", "wanted"}
  BY DEF AcquisitionTypes, MarkComplete, WatchMoves

\* A watchlist nobody wrote has moved along.
LEMMA WatchSame == ASSUME UNCHANGED watch PROVE WatchMoves
  BY DEF WatchMoves

-----------------------------------------------------------------------------
\* Users add and remove items at any time; one that was removed does not come back.
LEMMA ItemsKeep ==
    ASSUME AcquisitionInv, NEW i \in Items, AddItem(i) \/ RemoveItem(i)
    PROVE  AcquisitionInv'
<1>1. /\ UNCHANGED <<jobs, unmarked, feed, loaded, lastItem, fresh, handled, rss, queue, search>>
      /\ \/ watch[i] = "absent" /\ watch' = [watch EXCEPT ![i] = "wanted"]
         \/ watch[i] # "absent" /\ watch' = [watch EXCEPT ![i] = "removed"]
  BY DEF AddItem, RemoveItem, rssVars, searchVars
<1>2. AcquisitionTypes'
  BY <1>1 DEF AcquisitionInv, AcquisitionTypes
<1>3. WatchMoves
  BY <1>1 DEF WatchMoves, AcquisitionInv, AcquisitionTypes
<1>4. QED
  BY <1>1, <1>2, <1>3, RssKept, SearchKept, RoundsKept DEF AcquisitionInv

\* A feed publishes a release.
LEMMA PublishKeeps ==
    ASSUME AcquisitionInv, NEW r \in Releases, Publish(r)
    PROVE  AcquisitionInv'
<1>1. UNCHANGED <<watch, jobs, unmarked, loaded, lastItem, fresh, handled, rss, queue, search>>
  BY DEF Publish, tables, rssVars, searchVars
<1>2. feed' \in Seq(Releases)
  <2> DEFINE s == <<r>> \o feed
             k == IF Len(feed) < FeedLength THEN Len(feed) + 1 ELSE FeedLength
  <2>1. feed \in Seq(Releases) /\ <<r>> \in Seq(Releases)
    BY DEF AcquisitionInv, AcquisitionTypes
  <2>2. s \in Seq(Releases) /\ Len(s) = Len(feed) + 1 /\ Len(feed) \in Nat
    BY <2>1, ConcatProperties
  <2>3. k \in 0..Len(s)
    BY <2>2, AcquisitionAssumption
  <2>4. feed' = SubSeq(s, 1, k)
    BY DEF Publish
  <2> HIDE DEF s, k
  <2>5. \A n \in 1..k : s[n] \in Releases
    BY <2>2, <2>3
  <2>6. QED
    BY <2>2, <2>3, <2>4, <2>5, SubSeqProperties
<1>3. AcquisitionTypes'
  BY <1>1, <1>2 DEF AcquisitionInv, AcquisitionTypes
<1>4. QED
  BY <1>1, <1>3, WatchSame, RssKept, SearchKept, RoundsKept DEF AcquisitionInv

\* The client reads the feeds of the configuration.
LEMMA LoadFeedsKeeps ==
    ASSUME AcquisitionInv, LoadFeeds
    PROVE  AcquisitionInv'
<1>1. UNCHANGED <<watch, jobs, unmarked, feed, lastItem, fresh, handled, rss, queue, search>> /\ loaded' = TRUE
  BY DEF LoadFeeds, tables, searchVars
<1>2. AcquisitionTypes'
  BY <1>1 DEF AcquisitionInv, AcquisitionTypes
<1>3. QED
  BY <1>1, <1>2, WatchSame, RssKept, SearchKept, RoundsKept DEF AcquisitionInv

\* CheckFeed keeps what it has not seen: the release it notes is one of those, or the one it
\* had noted.
LEMMA CheckFeedKeeps ==
    ASSUME AcquisitionInv, CheckFeed
    PROVE  AcquisitionInv'
<1>1. /\ UNCHANGED <<watch, jobs, unmarked, feed, loaded, handled, rss, queue, search>>
      /\ rss = Idle /\ fresh = <<>> /\ feed # <<>> /\ fresh' = NewItems /\ lastItem' = Guid(Head(feed))
  BY DEF CheckFeed, tables, searchVars
<1>2. feed \in Seq(Releases)
  BY DEF AcquisitionInv, AcquisitionTypes
<1>3. Head(feed) \in Releases /\ Guid(Head(feed)) \in Releases \cup {NoGuid}
  BY <1>1, <1>2, HeadTailProperties DEF Guid
<1>4. AcquisitionTypes'
  BY <1>1, <1>2, <1>3, NewItemsFacts DEF AcquisitionInv, AcquisitionTypes
<1>5. RoundsHold'
  <2>1. rss'.step = "idle"
    BY <1>1 DEF Idle
  <2>2. lastItem' \in {Guid(r) : r \in handled \cup Range(fresh')} \cup {NoGuid}
    <3>1. CASE Guid(Head(feed)) = lastItem
      <4>1. Range(fresh) = {}
        BY <1>1 DEF Range
      <4>2. lastItem \in {Guid(r) : r \in handled} \cup {NoGuid}
        BY <4>1 DEF AcquisitionInv, RoundsHold, LastItemIsHandled
      <4>3. QED
        BY <3>1, <1>1, <4>2
    <3>2. CASE Guid(Head(feed)) # lastItem
      BY <3>2, <1>1, <1>2, NewItemsFacts
    <3>3. QED
      BY <3>1, <3>2
  <2>3. QED
    BY <1>1, <2>1, <2>2 DEF RoundsHold, LastItemIsHandled
<1>6. QED
  BY <1>1, <1>4, <1>5, WatchSame, RssKept, SearchKept DEF AcquisitionInv

\* processRSSItem reads the wanted items, for which it added no job that was marked.
LEMMA ReadWatchlistKeeps ==
    ASSUME AcquisitionInv, ReadWatchlist
    PROVE  AcquisitionInv'
<1>1. /\ UNCHANGED <<watch, jobs, unmarked, feed, loaded, lastItem, fresh, handled, queue, search>>
      /\ rss = Idle /\ fresh # <<>> /\ rss' = [step |-> "match", items |-> Wanted]
  BY DEF ReadWatchlist, tables, searchVars
<1>2. AcquisitionTypes'
  BY <1>1 DEF AcquisitionInv, AcquisitionTypes, Wanted
<1>3. RssOnce'
  <2>1. rss.step \notin Items /\ rss'.items = Wanted
    BY <1>1, AcquisitionAssumption DEF Idle
  <2>2. QED
    BY <1>1, <2>1 DEF AcquisitionInv, RssOnce, Wanted
<1>4. RoundsHold'
  BY <1>1 DEF AcquisitionInv, RoundsHold, LastItemIsHandled
<1>5. QED
  BY <1>1, <1>2, <1>3, <1>4, WatchSame, SearchKept DEF AcquisitionInv

\* A match adds the one job of its item; without one the item is dropped.
LEMMA MatchItemKeeps ==
    ASSUME AcquisitionInv, NEW i \in Items, MatchItem(i)
    PROVE  AcquisitionInv'
<1>1. /\ UNCHANGED <<watch, unmarked, feed, loaded, lastItem, fresh, handled, queue, search>>
      /\ rss.step = "match" /\ i \in rss.items
      /\ \/ AddDownload(i, "rss") /\ rss' = [rss EXCEPT !.step = i]
         \/ rss' = [rss EXCEPT !.items = @ \ {i}] /\ UNCHANGED jobs
  BY DEF MatchItem, searchVars
<1>0. AcquisitionTypes /\ "rss" \in Loops /\ "search" \in Loops
  BY DEF AcquisitionInv, Loops
<1>2. rss.step \notin Items
  BY <1>1, AcquisitionAssumption
<1>3. CASE AddDownload(i, "rss") /\ rss' = [rss EXCEPT !.step = i]
  <2>1. /\ jobs' \in [Items -> [Loops -> Nat]] /\ jobs'[i]["rss"] = jobs[i]["rss"] + 1
        /\ \A k \in Items, m \in Loops : k # i \/ m # "rss" => jobs'[k][m] = jobs[k][m]
    BY <1>0, <1>3, AddDownloadFacts
  <2>2. rss'.step = i /\ rss'.items = rss.items
    BY <1>0, <1>3 DEF AcquisitionTypes
  <2>3. AcquisitionTypes'
    BY <1>0, <1>1, <1>3, <2>1 DEF AcquisitionTypes
  <2>4. jobs[i]["rss"] <= unmarked[i]["rss"] /\ jobs[i]["rss"] \in Nat /\ unmarked[i]["rss"] \in Nat
    BY <1>0, <1>1, <1>2 DEF AcquisitionInv, RssOnce, AcquisitionTypes
  <2>5. RssOnce'
    BY <1>0, <1>1, <1>2, <2>1, <2>2, <2>4 DEF AcquisitionInv, RssOnce
  <2>6. SearchOnce'
    BY <1>0, <1>1, <2>1, WatchSame, SearchKept DEF AcquisitionInv
  <2>7. RoundsHold'
    BY <1>1 DEF AcquisitionInv, RoundsHold, LastItemIsHandled
  <2>8. QED
    BY <2>3, <2>5, <2>6, <2>7 DEF AcquisitionInv
<1>4. CASE rss' = [rss EXCEPT !.items = @ \ {i}] /\ UNCHANGED jobs
  <2>1. rss'.step = rss.step /\ rss'.items = rss.items \ {i}
    BY <1>0, <1>4 DEF AcquisitionTypes
  <2>2. AcquisitionTypes'
    BY <1>0, <1>1, <1>4 DEF AcquisitionTypes
  <2>3. RssOnce'
    BY <1>1, <1>4, <2>1 DEF AcquisitionInv, RssOnce
  <2>4. SearchOnce'
    BY <1>1, <1>4, WatchSame, SearchKept DEF AcquisitionInv
  <2>5. RoundsHold'
    BY <1>1, <2>1 DEF AcquisitionInv, RoundsHold, LastItemIsHandled
  <2>6. QED
    BY <2>2, <2>3, <2>4, <2>5 DEF AcquisitionInv
<1>5. QED
  BY <1>1, <1>3, <1>4

\* The mark follows the job: the item is not wanted any more.
LEMMA MatchedMarked ==
    ASSUME AcquisitionInv, MarkMatched, MarkComplete(rss.step), UNCHANGED <<unmarked, faults>>
    PROVE  AcquisitionInv'
<1> DEFINE i == rss.step
<1>1. /\ UNCHANGED <<jobs, unmarked, feed, loaded, lastItem, fresh, handled, queue, search>>
      /\ i \in rss.items /\ MarkComplete(i)
      /\ rss' = [step |-> "match", items |-> rss.items \ {i}]
  BY DEF MarkMatched, searchVars
<1>0. AcquisitionTypes
  BY DEF AcquisitionInv
<1>2. i \in Items /\ watch[i] # "absent"
  BY <1>0, <1>1 DEF AcquisitionTypes, AcquisitionInv, RssOnce
<1>3. /\ watch' \in [Items -> {"absent", "wanted", "complete", "removed"}]
      /\ WatchMoves /\ watch'[i] \notin {"absent", "wanted"}
  BY <1>0, <1>1, <1>2, MarkCompleteFacts
<1>4. AcquisitionTypes'
  BY <1>0, <1>1, <1>3 DEF AcquisitionTypes
<1>5. rss'.items = rss.items \ {i} /\ rss'.step = "match"
  BY <1>1
<1>6. RssOnce'
  <2> SUFFICES ASSUME NEW k \in Items
               PROVE  /\ jobs[k]["rss"] <= 1 + unmarked[k]["rss"]
                      /\ watch'[k] \in {"absent", "wanted"} \/ k \in rss'.items =>
                             jobs[k]["rss"] <= unmarked[k]["rss"]
                      /\ k \in rss'.items => watch'[k] # "absent"
    BY <1>1 DEF RssOnce
  <2>1. k = i => watch'[k] \notin {"absent", "wanted"} /\ k \notin rss'.items
    BY <1>3, <1>5
  <2>2. QED
    BY <1>1, <1>3, <1>5, <2>1 DEF AcquisitionInv, RssOnce, WatchMoves
<1>7. SearchOnce'
  BY <1>1, <1>3, SearchKept DEF AcquisitionInv
<1>8. RoundsHold'
  <2>1. rss.step # "idle"
    BY <1>2, AcquisitionAssumption
  <2>2. QED
    BY <1>1, <2>1 DEF AcquisitionInv, RoundsHold, LastItemIsHandled
<1>9. QED
  BY <1>4, <1>6, <1>7, <1>8 DEF AcquisitionInv

\* A mark that failed is counted.
LEMMA UnmarkedFacts ==
    ASSUME AcquisitionTypes, NEW i \in Items, NEW l \in Loops,
           unmarked' = [unmarked EXCEPT ![i][l] = unmarked[i][l] + 1]
    PROVE  /\ unmarked' \in [Items -> [Loops -> Nat]] /\ unmarked'[i][l] = unmarked[i][l] + 1
           /\ \A k \in Items, m \in Loops : k # i \/ m # l => unmarked'[k][m] = unmarked[k][m]
  BY DEF AcquisitionTypes

\* The item stays wanted, and may be downloaded once more.
LEMMA MarkMatchedKeeps ==
    ASSUME AcquisitionInv, MarkMatched
    PROVE  AcquisitionInv'
<1> DEFINE i == rss.step
<1>0. AcquisitionTypes /\ "rss" \in Loops /\ "search" \in Loops /\ "rss" # "search"
  BY DEF AcquisitionInv, Loops
<1>1. /\ i \in rss.items /\ rss' = [step |-> "match", items |-> rss.items \ {i}] /\ i \in Items
      /\ UNCHANGED <<jobs, feed, loaded, lastItem, fresh, handled, queue, search>>
  BY <1>0 DEF MarkMatched, searchVars, AcquisitionTypes
<1>2. CASE MarkComplete(i) /\ UNCHANGED <<unmarked, faults>>
  BY <1>2, MatchedMarked
<1>3. CASE unmarked' = [unmarked EXCEPT ![i]["rss"] = unmarked[i]["rss"] + 1] /\ UNCHANGED watch
  <2>1. /\ unmarked' \in [Items -> [Loops -> Nat]] /\ unmarked'[i]["rss"] = unmarked[i]["rss"] + 1
        /\ \A k \in Items, m \in Loops : k # i \/ m # "rss" => unmarked'[k][m] = unmarked[k][m]
    BY <1>0, <1>1, <1>3, UnmarkedFacts
  <2>2. AcquisitionTypes' /\ rss'.items = rss.items \ {i} /\ rss'.step = "match"
    BY <1>0, <1>1, <1>3, <2>1 DEF AcquisitionTypes
  <2>3. \A k \in Items : jobs[k]["rss"] \in Nat /\ unmarked[k]["rss"] \in Nat
    BY <1>0 DEF AcquisitionTypes
  <2>4. RssOnce'
    BY <1>0, <1>1, <1>3, <2>1, <2>2, <2>3 DEF AcquisitionInv, RssOnce
  <2>5. SearchOnce'
    BY <1>0, <1>1, <1>3, <2>1, WatchSame, SearchKept DEF AcquisitionInv
  <2>6. RoundsHold'
    <3>1. rss.step # "idle"
      BY <1>1, AcquisitionAssumption
    <3>2. QED
      BY <1>1, <3>1 DEF AcquisitionInv, RoundsHold, LastItemIsHandled
  <2>7. QED
    BY <2>2, <2>4, <2>5, <2>6 DEF AcquisitionInv
<1>4. QED
  BY <1>2, <1>3 DEF MarkMatched, Mark

\* A release is handled when its items are through.
LEMMA NextFeedItemKeeps ==
    ASSUME AcquisitionInv, NextFeedItem
    PROVE  AcquisitionInv'
<1>1. /\ UNCHANGED <<watch, jobs, unmarked, feed, loaded, lastItem, queue, search>>
      /\ rss.step = "match" /\ rss.items = {} /\ rss' = Idle
      /\ handled' = handled \cup {Head(fresh)} /\ fresh' = Tail(fresh)
  BY DEF NextFeedItem, tables, searchVars
<1>2. fresh # <<>> /\ fresh \in Seq(Releases)
  BY <1>1 DEF AcquisitionInv, AcquisitionTypes, RoundsHold
<1>3. /\ Head(fresh) \in Releases /\ Tail(fresh) \in Seq(Releases) /\ Head(fresh) = fresh[1]
      /\ Len(Tail(fresh)) = Len(fresh) - 1 /\ \A n \in 1..Len(Tail(fresh)) : Tail(fresh)[n] = fresh[n + 1]
  BY <1>2, HeadTailProperties
<1>4. AcquisitionTypes'
  BY <1>1, <1>3 DEF AcquisitionInv, AcquisitionTypes, Idle
<1>5. RssOnce'
  <2>1. rss.step \notin Items
    BY <1>1, AcquisitionAssumption
  <2>2. QED
    BY <1>1, <2>1 DEF AcquisitionInv, RssOnce, Idle
<1>6. SearchOnce'
  BY <1>1, WatchSame, SearchKept DEF AcquisitionInv
<1>7. RoundsHold'
  <2>1. Range(fresh) \subseteq {Head(fresh)} \cup Range(Tail(fresh))
    <3>1. ASSUME NEW n \in DOMAIN fresh PROVE fresh[n] \in {Head(fresh)} \cup Range(Tail(fresh))
      <4>1. n \in 1..Len(fresh) /\ Len(fresh) \in Nat
        BY <1>2
      <4>2. CASE n = 1
        BY <4>2, <1>3
      <4>3. CASE n # 1
        <5>1. n - 1 \in 1..Len(Tail(fresh)) /\ n - 1 + 1 = n
          BY <4>1, <4>3, <1>3
        <5>2. n - 1 \in DOMAIN Tail(fresh) /\ Tail(fresh)[n - 1] = fresh[n]
          BY <5>1, <1>3
        <5>3. QED
          BY <5>2 DEF Range
      <4>4. QED
        BY <4>2, <4>3
    <3>2. QED
      BY <3>1 DEF Range
  <2>2. handled \cup Range(fresh) \subseteq handled' \cup Range(fresh')
    BY <1>1, <2>1
  <2>3. lastItem \in {Guid(r) : r \in handled \cup Range(fresh)} \cup {NoGuid}
    BY DEF AcquisitionInv, RoundsHold, LastItemIsHandled
  <2>4. lastItem' \in {Guid(r) : r \in handled' \cup Range(fresh')} \cup {NoGuid}
    BY <1>1, <2>2, <2>3
  <2>5. QED
    BY <1>1, <2>4 DEF RoundsHold, LastItemIsHandled, Idle, Guid
<1>8. QED
  BY <1>4, <1>5, <1>6, <1>7 DEF AcquisitionInv

-----------------------------------------------------------------------------
\* performAutoSearch reads the wanted items, for which it added no job that was marked.
LEMMA StartRoundKeeps ==
    ASSUME AcquisitionInv, StartRound
    PROVE  AcquisitionInv'
<1>1. /\ UNCHANGED <<watch, jobs, unmarked, feed, loaded, lastItem, fresh, handled, rss>>
      /\ search = Idle /\ queue' = Wanted /\ search' = [step |-> "next", items |-> {}]
  BY DEF StartRound, tables, rssVars
<1>2. AcquisitionTypes'
  BY <1>1 DEF AcquisitionInv, AcquisitionTypes, Wanted
<1>3. SearchOnce'
  <2>1. search.step # "mark"
    BY <1>1 DEF Idle
  <2>2. \A i \in Items : search # [step |-> "mark", items |-> {i}]
    BY <2>1
  <2>3. QED
    BY <1>1, <2>2 DEF AcquisitionInv, SearchOnce, Wanted
<1>4. QED
  BY <1>1, <1>2, <1>3, WatchSame, RssKept, RoundsKept DEF AcquisitionInv

\* An item is skipped or searched: either way it leaves the queue.
LEMMA QueueKeeps ==
    ASSUME AcquisitionInv, NEW i \in Items, SkipItem(i) \/ SearchItem(i)
    PROVE  AcquisitionInv'
<1>1. /\ UNCHANGED <<watch, jobs, unmarked, feed, loaded, lastItem, fresh, handled, rss>>
      /\ search.step = "next" /\ i \in queue /\ queue' = queue \ {i}
      /\ search' = search \/ search' = [step |-> "search", items |-> {i}]
  BY DEF SkipItem, SearchItem, tables, rssVars
<1>2. AcquisitionTypes'
  BY <1>1 DEF AcquisitionInv, AcquisitionTypes
<1>3. SearchOnce'
  <2>1. \A k \in Items : search # [step |-> "mark", items |-> {k}]
    BY <1>1
  <2>2. search'.items \subseteq search.items \cup {i} /\ queue' \cap search'.items = {}
    BY <1>1 DEF AcquisitionInv, SearchOnce
  <2>3. QED
    BY <1>1, <2>1, <2>2 DEF AcquisitionInv, SearchOnce
<1>4. QED
  BY <1>1, <1>2, <1>3, WatchSame, RssKept, RoundsKept DEF AcquisitionInv

\* A search adds the one job of its item, links it, or finds nothing.
LEMMA SearchEndsKeeps ==
    ASSUME AcquisitionInv, NEW i \in Items, SearchEnds(i)
    PROVE  AcquisitionInv'
<1>1. /\ UNCHANGED <<watch, unmarked, feed, loaded, lastItem, fresh, handled, rss, queue>>
      /\ search = [step |-> "search", items |-> {i}]
      /\ \/ AddDownload(i, "search") /\ search' = [search EXCEPT !.step = "mark"]
         \/ search' = [search EXCEPT !.step = "mark"] /\ UNCHANGED jobs
         \/ search' = [step |-> "next", items |-> {}] /\ UNCHANGED jobs
  BY DEF SearchEnds, rssVars
<1>0. AcquisitionTypes /\ "rss" \in Loops /\ "search" \in Loops
  BY DEF AcquisitionInv, Loops
<1>2. /\ \A k \in Items : search # [step |-> "mark", items |-> {k}]
      /\ search.items = {i}
  BY <1>1
<1>3. \/ /\ AddDownload(i, "search") \/ UNCHANGED jobs
         /\ search' = [step |-> "mark", items |-> {i}]
      \/ search' = [step |-> "next", items |-> {}] /\ UNCHANGED jobs
  BY <1>1
<1>4. /\ jobs' \in [Items -> [Loops -> Nat]]
      /\ \A k \in Items : /\ jobs'[k]["rss"] = jobs[k]["rss"]
                          /\ k # i => jobs'[k]["search"] = jobs[k]["search"]
      /\ \/ jobs'[i]["search"] = jobs[i]["search"] /\ search' = [step |-> "next", items |-> {}]
         \/ jobs'[i]["search"] \in {jobs[i]["search"], jobs[i]["search"] + 1}
            /\ search' = [step |-> "mark", items |-> {i}]
  <2>1. CASE AddDownload(i, "search") /\ search' = [step |-> "mark", items |-> {i}]
    BY <2>1, <1>0, AddDownloadFacts
  <2>2. CASE UNCHANGED jobs
    BY <2>2, <1>3, <1>0 DEF AcquisitionTypes
  <2>3. QED
    BY <1>3, <2>1, <2>2
<1>5. AcquisitionTypes'
  BY <1>0, <1>1, <1>4 DEF AcquisitionTypes
<1>6. SearchOnce'
  <2>1. jobs[i]["search"] <= unmarked[i]["search"] /\ jobs[i]["search"] \in Nat /\ unmarked[i]["search"] \in Nat
    BY <1>0, <1>2 DEF AcquisitionInv, SearchOnce, AcquisitionTypes
  <2>2. search'.items \subseteq search.items
    BY <1>2, <1>4
  <2>3. jobs'[i]["search"] <= 1 + unmarked[i]["search"]
    BY <1>4, <2>1
  <2>4. search' = [step |-> "mark", items |-> {i}] \/ jobs'[i]["search"] <= unmarked[i]["search"]
    BY <1>4, <2>1
  <2>5. QED
    BY <1>1, <1>2, <1>4, <2>2, <2>3, <2>4 DEF AcquisitionInv, SearchOnce
<1>7. RssOnce'
  BY <1>1, <1>4, WatchSame, RssKept DEF AcquisitionInv
<1>8. QED
  BY <1>1, <1>5, <1>6, <1>7, RoundsKept DEF AcquisitionInv

\* The mark follows the job: the item is not wanted any more.
LEMMA FoundMarked ==
    ASSUME AcquisitionInv, NEW i \in Items, MarkFound(i), MarkComplete(i), UNCHANGED <<unmarked, faults>>
    PROVE  AcquisitionInv'
<1>1. /\ UNCHANGED <<jobs, unmarked, feed, loaded, lastItem, fresh, handled, rss, queue>>
      /\ search = [step |-> "mark", items |-> {i}] /\ MarkComplete(i)
      /\ search' = [step |-> "next", items |-> {}]
  BY DEF MarkFound, rssVars
<1>0. AcquisitionTypes
  BY DEF AcquisitionInv
<1>2. i \in search.items /\ watch[i] # "absent"
  BY <1>1 DEF AcquisitionInv, SearchOnce
<1>3. /\ watch' \in [Items -> {"absent", "wanted", "complete", "removed"}]
      /\ WatchMoves /\ watch'[i] \notin {"absent", "wanted"}
  BY <1>0, <1>1, <1>2, MarkCompleteFacts
<1>4. AcquisitionTypes'
  BY <1>0, <1>1, <1>3 DEF AcquisitionTypes
<1>5. SearchOnce'
  <2>1. i \notin queue
    BY <1>2 DEF AcquisitionInv, SearchOnce
  <2>2. \A k \in Items : k # i => search # [step |-> "mark", items |-> {k}]
    BY <1>1
  <2>3. search'.items = {}
    BY <1>1
  <2>4. QED
    BY <1>1, <1>3, <2>1, <2>2, <2>3 DEF AcquisitionInv, SearchOnce, WatchMoves
<1>6. QED
  BY <1>1, <1>3, <1>4, <1>5, RssKept, RoundsKept DEF AcquisitionInv

\* The item stays wanted, and may be searched once more.
LEMMA MarkFoundKeeps ==
    ASSUME AcquisitionInv, NEW i \in Items, MarkFound(i)
    PROVE  AcquisitionInv'
<1>0. AcquisitionTypes /\ "rss" \in Loops /\ "search" \in Loops /\ "rss" # "search"
  BY DEF AcquisitionInv, Loops
<1>1. /\ search = [step |-> "mark", items |-> {i}] /\ search' = [step |-> "next", items |-> {}]
      /\ UNCHANGED <<jobs, feed, loaded, lastItem, fresh, handled, rss, queue>>
  BY DEF MarkFound, rssVars
<1>2. CASE MarkComplete(i) /\ UNCHANGED <<unmarked, faults>>
  BY <1>2, FoundMarked
<1>3. CASE unmarked' = [unmarked EXCEPT ![i]["search"] = unmarked[i]["search"] + 1] /\ UNCHANGED watch
  <2>1. /\ unmarked' \in [Items -> [Loops -> Nat]] /\ unmarked'[i]["search"] = unmarked[i]["search"] + 1
        /\ \A k \in Items, m \in Loops : k # i \/ m # "search" => unmarked'[k][m] = unmarked[k][m]
    BY <1>0, <1>3, UnmarkedFacts
  <2>2. AcquisitionTypes'
    BY <1>0, <1>1, <1>3, <2>1 DEF AcquisitionTypes
  <2>3. \A k \in Items : jobs[k]["search"] \in Nat /\ unmarked[k]["search"] \in Nat
    BY <1>0 DEF AcquisitionTypes
  <2>4. search'.items = {} /\ \A k \in Items : k # i => search # [step |-> "mark", items |-> {k}]
    BY <1>1
  <2>5. SearchOnce'
    <3>1. /\ i \notin queue /\ watch' = watch /\ queue' = queue /\ jobs' = jobs
          /\ \A k \in Items : k # i => unmarked'[k]["search"] = unmarked[k]["search"]
      BY <1>0, <1>1, <1>3, <2>1 DEF AcquisitionInv, SearchOnce
    <3>2. jobs[i]["search"] <= unmarked'[i]["search"]
      BY <2>1, <2>3 DEF AcquisitionInv, SearchOnce
    <3>3. jobs[i]["search"] <= 1 + unmarked'[i]["search"]
      BY <2>1, <2>3 DEF AcquisitionInv, SearchOnce
    <3> SUFFICES ASSUME NEW k \in Items
                 PROVE  /\ jobs'[k]["search"] <= 1 + unmarked'[k]["search"]
                        /\ watch'[k] \in {"absent", "wanted"} \/ k \in queue' => jobs'[k]["search"] <= unmarked'[k]["search"]
                        /\ k \in queue' => watch'[k] # "absent"
      BY <1>1, <2>4 DEF SearchOnce
    <3>4. CASE k = i
      BY <3>1, <3>2, <3>3, <3>4
    <3>5. CASE k # i
      BY <2>4, <3>1, <3>5 DEF AcquisitionInv, SearchOnce
    <3>6. QED
      BY <3>4, <3>5
  <2>6. QED
    BY <1>0, <1>1, <1>3, <2>1, <2>2, <2>5, WatchSame, RssKept, RoundsKept DEF AcquisitionInv
<1>4. QED
  BY <1>2, <1>3 DEF MarkFound, Mark

\* A round is over.
LEMMA EndRoundKeeps ==
    ASSUME AcquisitionInv, EndRound
    PROVE  AcquisitionInv'
<1>1. /\ UNCHANGED <<watch, jobs, unmarked, feed, loaded, lastItem, fresh, handled, rss, queue>>
      /\ search.step = "next" /\ search' = Idle
  BY DEF EndRound, tables, rssVars
<1>2. AcquisitionTypes'
  BY <1>1 DEF AcquisitionInv, AcquisitionTypes, Idle
<1>3. SearchOnce'
  <2>1. \A k \in Items : search # [step |-> "mark", items |-> {k}]
    BY <1>1
  <2>2. search'.items = {}
    BY <1>1 DEF Idle
  <2>3. QED
    BY <1>1, <2>1, <2>2 DEF AcquisitionInv, SearchOnce
<1>4. QED
  BY <1>1, <1>2, <1>3, WatchSame, RssKept, RoundsKept DEF AcquisitionInv

\* The process ends: a job whose mark was to follow is counted as unmarked, and
\* nothing else of the loops is left.
LEMMA CrashKeeps ==
    ASSUME AcquisitionInv, Crash
    PROVE  AcquisitionInv'
<1>0. AcquisitionTypes /\ "rss" \in Loops /\ "search" \in Loops
  BY DEF AcquisitionInv, Loops
<1>1. /\ UNCHANGED <<watch, jobs, feed>> /\ loaded' = FALSE /\ lastItem' = NoGuid /\ fresh' = <<>>
      /\ handled' = {} /\ rss' = Idle /\ queue' = {} /\ search' = Idle
  BY DEF Crash
<1>2. \A i \in Items, l \in Loops : unmarked'[i][l] =
           IF \/ l = "rss" /\ rss.step = i
              \/ l = "search" /\ search = [step |-> "mark", items |-> {i}]
           THEN unmarked[i][l] + 1 ELSE unmarked[i][l]
  BY DEF Crash
<1>3. \A i \in Items, l \in Loops : unmarked[i][l] \in Nat /\ jobs[i][l] \in Nat
  BY <1>0 DEF AcquisitionTypes
<1>4. unmarked' \in [Items -> [Loops -> Nat]]
  <2>1. unmarked' = [i \in Items |-> [l \in Loops |-> unmarked'[i][l]]]
    BY DEF Crash
  <2>2. \A i \in Items, l \in Loops : unmarked'[i][l] \in Nat
    BY <1>2, <1>3
  <2>3. QED
    BY <2>1, <2>2
<1>5. AcquisitionTypes'
  <2>1. /\ Idle \in [step : {"idle", "match"} \cup Items, items : SUBSET Items]
        /\ Idle \in [step : {"idle", "next", "search", "mark"}, items : SUBSET Items]
    BY DEF Idle
  <2>2. fresh' \in Seq(Releases)
    BY <1>1
  <2>3. lastItem' \in Releases \cup {NoGuid} /\ handled' = {} /\ queue' = {} /\ loaded' = FALSE
    BY <1>1 DEF NoGuid
  <2>4. QED
    BY <1>0, <1>1, <1>4, <2>1, <2>2, <2>3 DEF AcquisitionTypes
<1>6. RssOnce'
  <2>1. rss'.items = {}
    BY <1>1 DEF Idle
  <2> SUFFICES ASSUME NEW i \in Items
               PROVE  /\ jobs[i]["rss"] <= 1 + unmarked'[i]["rss"]
                      /\ watch[i] \in {"absent", "wanted"} => jobs[i]["rss"] <= unmarked'[i]["rss"]
    BY <1>1, <2>1 DEF RssOnce
  <2>2. /\ jobs[i]["rss"] <= 1 + unmarked[i]["rss"]
        /\ watch[i] \in {"absent", "wanted"} => rss.step = i \/ jobs[i]["rss"] <= unmarked[i]["rss"]
    BY DEF AcquisitionInv, RssOnce
  <2>3. unmarked'[i]["rss"] = IF rss.step = i THEN unmarked[i]["rss"] + 1 ELSE unmarked[i]["rss"]
    BY <1>0, <1>2
  <2>4. QED
    BY <1>0, <1>3, <2>2, <2>3
<1>7. SearchOnce'
  <2>1. search'.items = {} /\ queue' = {}
    BY <1>1 DEF Idle
  <2> SUFFICES ASSUME NEW i \in Items
               PROVE  /\ jobs[i]["search"] <= 1 + unmarked'[i]["search"]
                      /\ watch[i] \in {"absent", "wanted"} => jobs[i]["search"] <= unmarked'[i]["search"]
    BY <1>1, <2>1 DEF SearchOnce
  <2>2. /\ jobs[i]["search"] <= 1 + unmarked[i]["search"]
        /\ watch[i] \in {"absent", "wanted"} => \/ search = [step |-> "mark", items |-> {i}]
                                                \/ jobs[i]["search"] <= unmarked[i]["search"]
    BY DEF AcquisitionInv, SearchOnce
  <2>3. unmarked'[i]["search"] = IF search = [step |-> "mark", items |-> {i}]
                                 THEN unmarked[i]["search"] + 1 ELSE unmarked[i]["search"]
    BY <1>0, <1>2
  <2>4. QED
    BY <1>0, <1>3, <2>2, <2>3
<1>8. RoundsHold'
  BY <1>1 DEF RoundsHold, LastItemIsHandled, Idle
<1>9. QED
  BY <1>5, <1>6, <1>7, <1>8 DEF AcquisitionInv

\* Every step of the loops, of the users, of the feed, and the end of the process keep
\* the invariant.
LEMMA AcquisitionStep == AcquisitionInv /\ [AcquisitionNext]_acquisitionVars => AcquisitionInv'
<1> SUFFICES ASSUME AcquisitionInv, [AcquisitionNext]_acquisitionVars PROVE AcquisitionInv'
    OBVIOUS
<1>1. ASSUME NEW i \in Items,
             \/ AddItem(i) \/ RemoveItem(i) \/ MatchItem(i)
             \/ SkipItem(i) \/ SearchItem(i) \/ SearchEnds(i) \/ MarkFound(i)
      PROVE  AcquisitionInv'
  BY <1>1, ItemsKeep, MatchItemKeeps, QueueKeeps, SearchEndsKeeps, MarkFoundKeeps
<1>2. ASSUME NEW r \in Releases, Publish(r) PROVE AcquisitionInv'
  BY <1>2, PublishKeeps
<1>3. CASE LoadFeeds \/ CheckFeed \/ ReadWatchlist \/ MarkMatched \/ NextFeedItem
  BY <1>3, LoadFeedsKeeps, CheckFeedKeeps, ReadWatchlistKeeps, MarkMatchedKeeps, NextFeedItemKeeps
<1>4. CASE StartRound \/ EndRound \/ Crash
  BY <1>4, StartRoundKeeps, EndRoundKeeps, CrashKeeps
<1>5. CASE UNCHANGED acquisitionVars
  <2>1. UNCHANGED <<watch, jobs, unmarked, feed, loaded, lastItem, fresh, handled, rss, queue, search>>
    BY <1>5 DEF acquisitionVars
  <2>2. AcquisitionTypes' = AcquisitionTypes
    BY <2>1 DEF AcquisitionTypes
  <2>3. QED
    BY <2>1, <2>2, WatchSame, RssKept, SearchKept, RoundsKept DEF AcquisitionInv
<1>6. QED
  BY <1>1, <1>2, <1>3, <1>4, <1>5 DEF AcquisitionNext

\* The invariant holds in every state.
LEMMA AcquisitionInvariant == AcquisitionSpec => []AcquisitionInv
<1>1. QED
  BY AcquisitionInvInit, AcquisitionStep, PTL DEF AcquisitionSpec

\* For any watchlist, feed and number of faults: a loop adds a second job for an item only if the
\* process ended between the first and its mark, or the mark failed (triggerDownload).
THEOREM OncePerLoop == AcquisitionSpec => []OnceForEachLoop
<1>1. AcquisitionInv => OnceForEachLoop
  BY DEF AcquisitionInv, RssOnce, SearchOnce, OnceForEachLoop, Loops
<1>2. QED
  BY <1>1, AcquisitionInvariant, PTL

\* For any feed: the release CheckFeed takes for seen is one this process has handled or has
\* still in hand, so none with a GUID is passed over (rss/client.go).
THEOREM LastItemHandled == AcquisitionSpec => []LastItemIsHandled
<1>1. AcquisitionInv => LastItemIsHandled
  BY DEF AcquisitionInv, RoundsHold
<1>2. QED
  BY <1>1, AcquisitionInvariant, PTL

\* The watchlist, the jobs and the loops are well typed, for any watchlist and feed.
THEOREM AcquisitionTyped == AcquisitionSpec => []AcquisitionTypeOK
<1>1. AcquisitionInv => AcquisitionTypeOK
  BY DEF AcquisitionInv, AcquisitionTypes, AcquisitionTypeOK
<1>2. QED
  BY <1>1, AcquisitionInvariant, PTL
=============================================================================
