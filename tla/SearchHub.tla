----------------------------- MODULE SearchHub -----------------------------
(***************************************************************************)
(* Interactive search over a websocket (search/websocket.go): HandleSearch *)
(* runs one session on one connection, startSearch asks every enabled      *)
(* indexer in a goroutine of its own, the goroutines put what they found   *)
(* into a channel, and the session's own goroutine drops the duplicates    *)
(* and tells the client.  All of them write to the same connection.        *)
(*                                                                         *)
(* The second half is the search over HTTP (search/manager.go and its four *)
(* handlers): the session is polled, and SearchAll hands every indexer a   *)
(* nil context.                                                            *)
(*                                                                         *)
(* An indexer is what the Indexer interface promises: it answers with a    *)
(* set of results, or with an error.  A result is the key the session      *)
(* compares, InfoHash and Guid.                                            *)
(***************************************************************************)
EXTENDS Naturals, Sequences, FiniteSets, SequencesExt

CONSTANTS Indexers,     \* the configured indexers
          Results,      \* the keys a result can have
          ChannelCap    \* capacity of the session's result channel (100)

Session == "session"   \* the session's goroutine, next to those of the indexers
ASSUME SearchAssumption ==
    ChannelCap \in Nat \ {0} /\ IsFiniteSet(Indexers) /\ Session \notin Indexers

VARIABLES
    enabled,    \* the indexers whose configuration is enabled
    main,       \* what the session's goroutine does next
    asked,      \* indexer -> what its goroutine does next
    found,      \* indexer -> the results it has still to put into the channel
    answered,   \* indexer -> what its Search returned, {} after an error
    channel,    \* the result channel
    closed,     \* the channel has been closed
    seen,       \* the keys the session has kept: seenHashes, s.Results
    saying,     \* writer -> the message it is writing, or Silent
    mixed,      \* the writers whose frames another writer has cut into
    told,       \* the messages the client has received
    open,       \* the client is still connected
    crash,      \* the process has ended with a panic
    http,       \* the session of the HTTP search: off (the search is one over
                \* the websocket), none, open or gone
    reply,      \* what the last request about it was answered with
    polling,    \* the indexers its goroutines have still to ask
    blamed      \* the indexers it has recorded a failure for

sessionVars == <<enabled, main, asked, found, answered, channel, closed, seen, saying,
          mixed, told, open, crash, http, reply, polling, blamed>>

Silent == [type |-> "silent"]
Writers == Indexers \cup {Session}

SearchInit ==
    /\ enabled \in SUBSET Indexers
    /\ asked = [i \in Indexers |-> "off"]
    /\ found = [i \in Indexers |-> {}]
    /\ answered = [i \in Indexers |-> {}]
    /\ channel = <<>> /\ closed = FALSE
    /\ seen = {}
    /\ saying = [w \in Writers |-> Silent] /\ mixed = {}
    /\ told = <<>> /\ open = TRUE /\ crash = FALSE
    /\ \/ main = "register" /\ http = "off"
       \/ main = "over" /\ http = "none"
    /\ reply = "none" /\ polling = {} /\ blamed = {}

-----------------------------------------------------------------------------
(* sendJSON.  WriteJSON is two steps, since nothing keeps a second writer  *)
(* out: gorilla panics when it notices one, and else the frames mix and    *)
(* the client can read neither message.  A write to a lost connection      *)
(* returns an error, which is logged.                                      *)

Writing == {w \in Writers : saying[w] # Silent}

Begin(w, message) ==
    /\ saying[w] = Silent
    /\ saying' = [saying EXCEPT ![w] = message]
    /\ IF Writing = {} THEN UNCHANGED <<mixed, crash>>
       ELSE mixed' = mixed \cup Writing \cup {w} /\ crash' \in BOOLEAN

End(w) ==
    /\ saying[w] # Silent
    /\ saying' = [saying EXCEPT ![w] = Silent]
    /\ mixed' = mixed \ {w}
    /\ told' = IF open /\ w \notin mixed THEN Append(told, saying[w]) ELSE told

Unsaid == UNCHANGED <<saying, mixed, crash>>

-----------------------------------------------------------------------------
(* The session's goroutine.                                                *)

\* HandleSearch hands the session to Hub.Run and greets the client
Greet ==
    /\ main = "register" /\ main' = "greet"
    /\ Begin(Session, [type |-> "session_start"])
    /\ UNCHANGED <<asked, found, answered, channel, closed, seen, told>>

\* startSearch tells how many indexers it will ask
Announce ==
    /\ main = "greet" /\ saying[Session] = Silent /\ main' = "launch"
    /\ Begin(Session, [type |-> "search_started", of |-> Cardinality(enabled)])
    /\ UNCHANGED <<asked, found, answered, channel, closed, seen, told>>

\* and starts their goroutines once that is written
Launch ==
    /\ main = "launch" /\ saying[Session] = Silent /\ main' = "collect"
    /\ asked' = [i \in Indexers |-> IF i \in enabled THEN "search" ELSE "off"]
    /\ UNCHANGED <<found, answered, channel, closed, seen, told>> /\ Unsaid

\* a result leaves the channel; one with a known key is dropped
Collect ==
    /\ main = "collect" /\ saying[Session] = Silent /\ channel # <<>>
    /\ channel' = Tail(channel)
    /\ LET r == Head(channel)
       IN  IF r \in seen THEN UNCHANGED seen /\ Unsaid
           ELSE /\ seen' = seen \cup {r}
                /\ Begin(Session, [type |-> "result", key |-> r])
    /\ UNCHANGED <<main, asked, found, answered, closed, told>>

\* the channel is drained and closed: sortResults, search_complete
Complete ==
    /\ main = "collect" /\ saying[Session] = Silent /\ channel = <<>> /\ closed
    /\ main' = "complete"
    /\ Begin(Session, [type |-> "search_complete", total |-> Cardinality(seen)])
    /\ UNCHANGED <<asked, found, answered, channel, closed, seen, told>>

\* Done is closed, HandleSearch unregisters, Hub.Run forgets the session and
\* closes the connection
Unregister ==
    /\ main = "complete" /\ saying[Session] = Silent /\ main' = "over"
    /\ open' = FALSE
    /\ UNCHANGED <<asked, found, answered, channel, closed, seen, told>> /\ Unsaid

-----------------------------------------------------------------------------
(* The goroutine of indexer i.  Cancel is only called by Hub.Run when the  *)
(* session has ended, so no goroutine ever sees a cancelled context.       *)

Answer(i, results) ==
    /\ asked[i] = "search" /\ asked' = [asked EXCEPT ![i] = "put"]
    /\ answered' = [answered EXCEPT ![i] = results]
    /\ found' = [found EXCEPT ![i] = results]
    /\ Begin(i, [type |-> "indexer_complete", of |-> i,
                 found |-> Cardinality(results)])
    /\ UNCHANGED <<main, channel, closed, seen, told>>

Fail(i) ==
    /\ asked[i] = "search" /\ asked' = [asked EXCEPT ![i] = "put"]
    /\ Begin(i, [type |-> "indexer_error", of |-> i])
    /\ UNCHANGED <<main, found, answered, channel, closed, seen, told>>

\* Fault: the channel has no limit.
PutAlways(i, r) ==
    /\ asked[i] = "put" /\ saying[i] = Silent /\ r \in found[i]
    /\ found' = [found EXCEPT ![i] = @ \ {r}]
    /\ channel' = Append(channel, r)
    /\ UNCHANGED <<main, asked, answered, closed, seen, told>> /\ Unsaid
Put(i, r) ==
    /\ asked[i] = "put" /\ saying[i] = Silent
    /\ r \in found[i] /\ Len(channel) < ChannelCap
    /\ found' = [found EXCEPT ![i] = @ \ {r}]
    /\ channel' = Append(channel, r)
    /\ UNCHANGED <<main, asked, answered, closed, seen, told>> /\ Unsaid

Leave(i) ==
    /\ asked[i] = "put" /\ saying[i] = Silent /\ found[i] = {}
    /\ asked' = [asked EXCEPT ![i] = "over"]
    /\ UNCHANGED <<main, found, answered, channel, closed, seen, told>> /\ Unsaid

\* Fault: the first goroutine that ends closes the channel.
CloseEarly ==
    /\ main = "collect" /\ ~closed
    /\ \E i \in enabled : asked[i] = "over"
    /\ closed' = TRUE
    /\ UNCHANGED <<main, asked, found, answered, channel, seen, told>> /\ Unsaid
\* the goroutine that waits for the group
CloseChannel ==
    /\ main = "collect" /\ ~closed
    /\ \A i \in enabled : asked[i] = "over"
    /\ closed' = TRUE
    /\ UNCHANGED <<main, asked, found, answered, channel, seen, told>> /\ Unsaid

Written(w) ==
    /\ End(w)
    /\ UNCHANGED <<main, asked, found, answered, channel, closed, seen, crash>>

\* nobody reads from the connection, so the search goes on
Disconnect ==
    /\ open /\ main # "over" /\ open' = FALSE
    /\ UNCHANGED <<main, asked, found, answered, channel, closed, seen, told>>
    /\ Unsaid

SessionStep ==
    \/ Greet \/ Announce \/ Launch \/ Collect \/ Complete \/ CloseChannel
    \/ \E w \in Writers : Written(w)
    \/ \E i \in Indexers : \/ Fail(i) \/ Leave(i)
                           \/ \E rs \in SUBSET Results : Answer(i, rs)
                           \/ \E r \in Results : Put(i, r)

-----------------------------------------------------------------------------
(* The HTTP search and its handlers in the server.  performSearch calls    *)
(* every enabled indexer with a nil context, which the request constructor *)
(* refuses: each of them is blamed and none is asked, so the session stays *)
(* empty.  A session id that is not in the map still counts as found, and  *)
(* the handler panics on it, which net/http recovers from.                 *)

\* handleManualSearch starts a search and answers with the session's id.
SearchAll == http = "none" /\ http' = "open" /\ polling' = enabled
ManualSearch == SearchAll /\ reply' = "searching" /\ UNCHANGED blamed

Refused(i) ==
    /\ i \in polling
    /\ polling' = polling \ {i}
    /\ blamed' = blamed \cup {i}
    /\ UNCHANGED <<http, reply>>

\* GetSession says it has found the session, whether there is one or not.
SessionIs(answer) == reply' = IF http = "open" THEN answer ELSE "panic"
OnSession == http \in {"open", "gone"} /\ UNCHANGED <<http, polling, blamed>>
GetSearchResults == OnSession /\ SessionIs("no results")
\* No index is one of a result, so nothing is downloaded and the session stays.
\* One below zero is refused before the session is looked at.
DownloadSearchResult ==
    LET refused == "invalid result index"
    IN  OnSession /\ (SessionIs(refused) \/ reply' = refused)
ClearSession == http' = "gone"
ClearSearchSession ==
    /\ http \in {"open", "gone"} /\ ClearSession /\ reply' = "cleared"
    /\ UNCHANGED <<polling, blamed>>

HttpStep ==
    \/ ManualSearch \/ GetSearchResults \/ DownloadSearchResult \/ ClearSearchSession
    \/ \E i \in Indexers : Refused(i)

SearchNext ==
    /\ ~crash
    /\ UNCHANGED enabled
    /\ \/ SessionStep /\ UNCHANGED <<open, http, reply, polling, blamed>>
       \/ (Unregister \/ Disconnect) /\ UNCHANGED <<http, reply, polling, blamed>>
       \/ HttpStep /\ UNCHANGED <<main, asked, found, answered, channel, closed,
                                  seen, saying, mixed, told, open, crash>>

SearchSpec == SearchInit /\ [][SearchNext]_sessionVars

-----------------------------------------------------------------------------
Replies == {"none", "searching", "no results", "invalid result index", "panic", "cleared"}
SearchTypeOK ==
    /\ enabled \subseteq Indexers /\ polling \subseteq Indexers
    /\ main \in {"register", "greet", "launch", "collect", "complete", "over"}
    /\ asked \in [Indexers -> {"off", "search", "put", "over"}]
    /\ found \in [Indexers -> SUBSET Results]
    /\ channel \in Seq(Results) /\ Len(channel) <= ChannelCap
    /\ seen \subseteq Results /\ blamed \subseteq Indexers
    /\ {open, crash, closed} \subseteq BOOLEAN
    /\ http \in {"off", "none", "open", "gone"}
    /\ reply \in Replies

ToldOf(type) == {n \in 1..Len(told) : told[n].type = type}

\* When the client reads search_complete, the search is complete: it is the
\* last message, and its total counts every key some indexer answered with,
\* once.  (The collector, the duplicates and the closing of the channel in
\* startSearch.)
CompleteTellsAll ==
    \A n \in ToldOf("search_complete") :
        /\ n = Len(told)
        /\ told[n].total = Cardinality(UNION {answered[i] : i \in Indexers})

\* One enabled indexer is not enough for two goroutines to write at a time:
\* its goroutine starts after the announcement, and the session writes again
\* only when it has received a result, after the indexer's message.
OneIndexerIsSafe == Cardinality(enabled) < 2 => ~crash /\ mixed = {}

=============================================================================
