---------------------------- MODULE Acquisition ----------------------------
(***************************************************************************)
(* How the watchlist becomes downloads (automation/manager.go): rssLoop    *)
(* checks the feeds and matches what is new in them, searchLoop asks the   *)
(* indexers for every item that is not complete.  Both are goroutines of   *)
(* one process that read the watchlist (monitor/watchlist.go), add a job   *)
(* and only then mark the item complete, while users add and remove items  *)
(* and the process may end between any two steps.                          *)
(*                                                                         *)
(* The feed state (rss/client.go) and the deduplicator live in memory.     *)
(* Searching for one movie and sharing its rows is MoviePool's; episodes   *)
(* are left out, since no code ever makes a row with status Missing.       *)
(***************************************************************************)
EXTENDS Integers, SequencesExt

CONSTANTS
    Items,        \* watchlist rows
    ByUser,       \* those a user adds: their media type and id are zero
    Releases,     \* what the feed publishes
    Unnamed,      \* releases without a GUID
    Matches,      \* <<item, release>>: matchItem holds
    FeedLength,   \* releases a feed keeps
    MaxFaults     \* ends of the process and marks that fail

ASSUME AcquisitionAssumption ==
    /\ ByUser \subseteq Items /\ Unnamed \subseteq Releases /\ Matches \subseteq Items \X Releases
    /\ FeedLength \in Nat \ {0} /\ MaxFaults \in Nat
    /\ {"idle", "match"} \cap Items = {}

VARIABLES
    watch,      \* item -> absent, wanted or complete (the table)
    jobs,       \* item -> loop -> the downloads it added (the table)
    feed,       \* the releases at the feed's address, newest first
    loaded,     \* the client knows the feed
    lastItem,   \* FeedState.LastItem, a GUID
    fresh,      \* releases of this check still to process
    handled,    \* releases this process has processed
    rss,        \* rssLoop: what it does next, for the items it has read
    queue,      \* searchLoop: the items of this round, as read at its start
    search,     \* searchLoop: what it does next
    searched,   \* the keys in SearchDeduplicator.searches: this round's and
    remembered, \* those of the round before that are not yet six hours old
    unmarked,   \* item -> loop -> its downloads that did not complete the item
    faults

acquisitionVars == <<watch, jobs, feed, loaded, lastItem, fresh, handled, rss, queue, search,
          searched, remembered, unmarked, faults>>
tables == <<watch, jobs, unmarked>>
rssVars == <<loaded, lastItem, fresh, handled, rss>>
searchVars == <<queue, search, searched, remembered>>

Loops == {"rss", "search"}
NoGuid == "none"
\* What the parser of a feed, RSS or Atom, keeps as the GUID of a release.
Guid(r) == IF r \in Unnamed THEN NoGuid ELSE r
Idle == [step |-> "idle", items |-> {}]

Key(i) == IF i \in ByUser THEN "zero" ELSE i
Wanted == {i \in Items : watch[i] = "wanted"}

AcquisitionInit ==
    /\ watch = [i \in Items |-> "absent"]
    /\ jobs = [i \in Items |-> [l \in Loops |-> 0]] /\ unmarked = jobs
    /\ feed = <<>> /\ faults = 0
    /\ loaded = FALSE /\ lastItem = NoGuid /\ fresh = <<>> /\ handled = {}
    /\ rss = Idle /\ queue = {} /\ search = Idle
    /\ searched = {} /\ remembered = {}

-----------------------------------------------------------------------------
(* The table's users, and the feed.                                        *)

\* handleAddWatchlist, AddToWatchlist and ImportFromMedia
AddItem(i) ==
    /\ watch[i] = "absent" /\ watch' = [watch EXCEPT ![i] = "wanted"]
    /\ UNCHANGED <<jobs, unmarked, feed, faults, rssVars, searchVars>>

RemoveItem(i) ==
    /\ watch[i] \in {"wanted", "complete"} /\ watch' = [watch EXCEPT ![i] = "removed"]
    /\ UNCHANGED <<jobs, unmarked, feed, faults, rssVars, searchVars>>

Publish(r) ==
    /\ r \notin Range(feed)
    /\ feed' = SubSeq(<<r>> \o feed, 1, IF Len(feed) < FeedLength THEN Len(feed) + 1
                                                                  ELSE FeedLength)
    /\ UNCHANGED <<tables, faults, rssVars, searchVars>>

-----------------------------------------------------------------------------
(* triggerDownload: a job is added, which can fail, then the item is read  *)
(* and written back complete, if it is still there.                        *)

AddDownload(i, loop) == jobs' = [jobs EXCEPT ![i][loop] = @ + 1]

\* Fault: the item is not written back.
LeaveWanted(i) == UNCHANGED watch
MarkComplete(i) ==
    watch' = IF watch[i] \in {"wanted", "complete"}
             THEN [watch EXCEPT ![i] = "complete"] ELSE watch
\* The error of UpdateWatchlistItem is not looked at: the item may stay as it was.
Mark(i, loop) ==
    \/ MarkComplete(i) /\ UNCHANGED <<unmarked, faults>>
    \/ /\ faults < MaxFaults /\ faults' = faults + 1
       /\ unmarked' = [unmarked EXCEPT ![i][loop] = @ + 1]
       /\ UNCHANGED watch

-----------------------------------------------------------------------------
(* rssLoop.                                                                *)

LoadFeeds ==
    /\ ~loaded /\ loaded' = TRUE
    /\ UNCHANGED <<tables, feed, faults, lastItem, fresh, handled, rss, searchVars>>

\* CheckFeed drops the item it saw first the last time, and only that one; at first, when
\* it has seen none, and after one without a GUID, all that have none.
\* Fault: the newest release counts as seen.
AllButNewest == Tail(feed)
NewItems ==
    LET new[n \in 0..Len(feed)] ==
            IF n = 0 THEN <<>>
            ELSE IF Guid(feed[n]) = lastItem THEN new[n - 1] ELSE Append(new[n - 1], feed[n])
    IN  new[Len(feed)]

CheckFeed ==
    /\ loaded /\ rss = Idle /\ fresh = <<>> /\ feed # <<>>
    /\ fresh' = NewItems
    /\ lastItem' = Guid(Head(feed))
    /\ UNCHANGED <<tables, feed, faults, loaded, handled, rss, searchVars>>

\* processRSSItem reads the watchlist anew for each of them
ReadWatchlist ==
    /\ rss = Idle /\ fresh # <<>>
    /\ rss' = [step |-> "match", items |-> Wanted]
    /\ UNCHANGED <<tables, feed, faults, loaded, lastItem, fresh, handled, searchVars>>

MatchItem(i) ==
    /\ rss.step = "match" /\ i \in rss.items
    /\ \/ /\ <<i, Head(fresh)>> \in Matches
          /\ AddDownload(i, "rss")
          /\ rss' = [rss EXCEPT !.step = i]
       \/ \* no match, or AddDownload failed
          rss' = [rss EXCEPT !.items = @ \ {i}] /\ UNCHANGED jobs
    /\ UNCHANGED <<watch, unmarked, feed, faults, loaded, lastItem, fresh, handled,
                   searchVars>>

MarkMatched ==
    /\ rss.step \in rss.items
    /\ Mark(rss.step, "rss")
    /\ rss' = [step |-> "match", items |-> rss.items \ {rss.step}]
    /\ UNCHANGED <<jobs, feed, loaded, lastItem, fresh, handled, searchVars>>

NextFeedItem ==
    /\ rss.step = "match" /\ rss.items = {}
    /\ rss' = Idle
    /\ handled' = handled \cup {Head(fresh)}
    /\ fresh' = Tail(fresh)
    /\ UNCHANGED <<tables, feed, faults, loaded, lastItem, searchVars>>

-----------------------------------------------------------------------------
(* searchLoop.  The ticker's period and the deduplicator's window are both *)
(* six hours: what the last round searched may or may not have expired,    *)
(* what an earlier one searched has.  SearchCount is never raised, so that *)
(* every incomplete item needs a search.                                   *)

StartRound ==
    /\ search = Idle
    /\ queue' = Wanted
    /\ search' = [step |-> "next", items |-> {}]
    /\ \E kept \in SUBSET searched : remembered' = kept
    /\ searched' = {}
    /\ UNCHANGED <<tables, feed, faults, rssVars>>

Recent(i) == Key(i) \in searched \cup remembered

SkipItem(i) ==
    /\ search.step = "next" /\ i \in queue /\ Recent(i)
    /\ queue' = queue \ {i}
    /\ UNCHANGED <<tables, feed, faults, rssVars, search, searched, remembered>>

SearchItem(i) ==
    /\ search.step = "next" /\ i \in queue /\ ~Recent(i)
    /\ search' = [step |-> "search", items |-> {i}]
    /\ searched' = searched \cup {Key(i)}
    /\ queue' = queue \ {i}
    /\ UNCHANGED <<tables, feed, faults, rssVars, remembered>>

\* searchForItem finds a release, finds none, or finds the item's movie in the
\* pool and links it
SearchEnds(i) ==
    /\ search = [step |-> "search", items |-> {i}]
    /\ \/ AddDownload(i, "search") /\ search' = [search EXCEPT !.step = "mark"]
       \/ /\ i \notin ByUser /\ search' = [search EXCEPT !.step = "mark"]
          /\ UNCHANGED jobs
       \/ search' = [step |-> "next", items |-> {}] /\ UNCHANGED jobs
    /\ UNCHANGED <<watch, unmarked, feed, faults, rssVars, queue, searched, remembered>>

MarkFound(i) ==
    /\ search = [step |-> "mark", items |-> {i}]
    /\ Mark(i, "search")
    /\ search' = [step |-> "next", items |-> {}]
    /\ UNCHANGED <<jobs, feed, rssVars, queue, searched, remembered>>

EndRound ==
    /\ search.step = "next" /\ queue = {}
    /\ search' = Idle
    /\ UNCHANGED <<tables, feed, faults, rssVars, queue, searched, remembered>>

-----------------------------------------------------------------------------
\* The process ends and starts again, with its tables.
Crash ==
    /\ faults < MaxFaults /\ faults' = faults + 1
    /\ unmarked' = [i \in Items |-> [l \in Loops |->
           IF \/ l = "rss" /\ rss.step = i
              \/ l = "search" /\ search = [step |-> "mark", items |-> {i}]
           THEN unmarked[i][l] + 1 ELSE unmarked[i][l]]]
    /\ loaded' = FALSE /\ lastItem' = NoGuid /\ fresh' = <<>> /\ handled' = {}
    /\ rss' = Idle /\ queue' = {} /\ search' = Idle
    /\ searched' = {} /\ remembered' = {}
    /\ UNCHANGED <<watch, jobs, feed>>

AcquisitionNext ==
    \/ \E i \in Items : \/ AddItem(i) \/ RemoveItem(i) \/ MatchItem(i)
                        \/ SkipItem(i) \/ SearchItem(i) \/ SearchEnds(i) \/ MarkFound(i)
    \/ \E r \in Releases : Publish(r)
    \/ LoadFeeds \/ CheckFeed \/ ReadWatchlist \/ MarkMatched \/ NextFeedItem
    \/ StartRound \/ EndRound \/ Crash

AcquisitionSpec == AcquisitionInit /\ [][AcquisitionNext]_acquisitionVars

-----------------------------------------------------------------------------
AcquisitionTypeOK ==
    /\ watch \in [Items -> {"absent", "wanted", "complete", "removed"}]
    /\ jobs \in [Items -> [Loops -> Nat]]
    /\ feed \in Seq(Releases) /\ fresh \in Seq(Releases) /\ handled \subseteq Releases
    /\ lastItem \in Releases \cup {NoGuid}
    /\ queue \subseteq Items /\ rss.items \subseteq Items /\ search.items \subseteq Items
    /\ loaded \in BOOLEAN

\* A loop downloads an item a second time only when the process ended between the first
\* job and its mark, or the mark failed, which nothing looks at: else the loop has marked or
\* dropped the item before it can see it wanted again (processRSSItem, performAutoSearch).  The other loop may hold a list it
\* read before the mark, so each loop has a count of its own.
OnceForEachLoop == \A i \in Items, l \in Loops : jobs[i][l] <= 1 + unmarked[i][l]

\* The one release CheckFeed leaves out is one this process has handled, or has still in
\* its hands: no release with a GUID is passed over.
LastItemIsHandled == lastItem \in {Guid(r) : r \in handled \cup Range(fresh)} \cup {NoGuid}

=============================================================================
