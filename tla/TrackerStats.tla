---------------------------- MODULE TrackerStats ----------------------------
(***************************************************************************)
(* The transfer counts of the private trackers (tracker/stats.go).  The    *)
(* cache has one entry for an info hash, although a torrent may be on      *)
(* several trackers: whoever names another tracker than the entry's starts *)
(* a new entry.  A read that finds no entry of its tracker unlocks and     *)
(* then stores an empty one over whatever is there by then.                *)
(*                                                                         *)
(* Uploaded and Downloaded are alike, so `count' stands for either; every  *)
(* report is of one unit, and so is the time of a seeding session.         *)
(***************************************************************************)
EXTENDS Naturals, FiniteSets

CONSTANTS Hashes, StatTrackers, Queriers,
          MaxReports   \* reports, sessions and settings of a hash

ASSUME StatsAssumption == MaxReports \in Nat

VARIABLES
    stats,      \* StatsManager.cache: info hash -> at most one entry
    reader,     \* GetStats' callers: <<>>, or the hash and tracker they are to store an entry for
    reported,   \* <<hash, tracker>> -> units reported since the counts were set or removed
    sessions,   \* <<hash, tracker>> -> sessions started
    users,      \* hash -> the trackers its counts were ever asked or reported for
    overwritten \* hashes written while a reader was about to store an empty entry

statsVars == <<stats, reader, reported, sessions, users, overwritten>>

TorrentAccounts == Hashes \X StatTrackers
Empty(t) == [tracker |-> t, count |-> 0, seedTime |-> 0, seeding |-> FALSE]

StatsInit ==
    /\ stats = [h \in Hashes |-> {}]
    /\ reader = [p \in Queriers |-> <<>>]
    /\ reported = [a \in TorrentAccounts |-> 0] /\ sessions = [a \in TorrentAccounts |-> 0]
    /\ users = [h \in Hashes |-> {}] /\ overwritten = {}

\* Fault: an entry of another tracker will do.
AnyEntry(h, t) == IF stats[h] = {} THEN Empty(t) ELSE CHOOSE e \in stats[h] : TRUE
\* The entry of the hash if it is the tracker's, and an empty one otherwise.
EntryOf(h, t) ==
    IF \E e \in stats[h] : e.tracker = t THEN CHOOSE e \in stats[h] : TRUE ELSE Empty(t)

Uses(h, t) ==
    /\ users' = [users EXCEPT ![h] = @ \cup {t}]
    /\ overwritten' = overwritten \cup {i \in {h} : \E p \in Queriers : reader[p] # <<>> /\ reader[p][1] = h}
Store(h, e) == stats' = [stats EXCEPT ![h] = {e}]

UpdateStats(h, t) ==
    /\ reported[<<h, t>>] < MaxReports
    /\ Store(h, [EntryOf(h, t) EXCEPT !.count = @ + 1]) /\ Uses(h, t)
    /\ reported' = [reported EXCEPT ![<<h, t>>] = @ + 1]
    /\ UNCHANGED <<reader, sessions>>

\* SetStats stores a new entry, without the seed time of the old.
SetStats(h, t, n) ==
    /\ Store(h, [Empty(t) EXCEPT !.count = n]) /\ Uses(h, t)
    /\ reported' = [reported EXCEPT ![<<h, t>>] = n]
    /\ UNCHANGED <<reader, sessions>>

StartSeeding(h, t) ==
    /\ sessions[<<h, t>>] < MaxReports
    /\ Store(h, [EntryOf(h, t) EXCEPT !.seeding = TRUE]) /\ Uses(h, t)
    /\ sessions' = [sessions EXCEPT ![<<h, t>>] = @ + 1]
    /\ UNCHANGED <<reader, reported>>

\* StopSeeding does not make an entry; a session that was not started adds nothing.
StopSeedingOf(h, t) ==
    /\ \E e \in stats[h] : e.tracker = t
    /\ LET e == EntryOf(h, t)
       IN  Store(h, [e EXCEPT !.seeding = FALSE, !.seedTime = IF e.seeding THEN @ + 1 ELSE @])
    /\ Uses(h, t)
    /\ UNCHANGED <<reader, reported, sessions>>

\* IncrementWarning: the number of warnings is left out, the entry it may replace is not.
IncrementWarning(h, t) ==
    /\ Store(h, EntryOf(h, t)) /\ Uses(h, t)
    /\ UNCHANGED <<reader, reported, sessions>>

\* RemoveStats takes the entry out, whichever tracker's it is.
RemoveStats(h) ==
    /\ stats' = [stats EXCEPT ![h] = {}]
    /\ reported' = [a \in TorrentAccounts |-> IF a[1] = h THEN 0 ELSE reported[a]]
    /\ UNCHANGED <<reader, sessions, users, overwritten>>

\* GetStats, GetRatio and GetSeedTime look under the read lock ...
LookUp(p, h, t) ==
    /\ reader[p] = <<>> /\ \A e \in stats[h] : e.tracker # t
    /\ reader' = [reader EXCEPT ![p] = <<h, t>>]
    /\ users' = [users EXCEPT ![h] = @ \cup {t}]
    /\ UNCHANGED <<stats, reported, sessions, overwritten>>
\* ... and store an empty entry under the write lock, without looking again.
StoreEmpty(p) ==
    /\ reader[p] # <<>>
    /\ Store(reader[p][1], Empty(reader[p][2]))
    /\ reader' = [reader EXCEPT ![p] = <<>>]
    /\ UNCHANGED <<reported, sessions, users, overwritten>>

StatsNext ==
    \/ \E h \in Hashes, t \in StatTrackers :
          \/ UpdateStats(h, t) \/ \E n \in 0..MaxReports : SetStats(h, t, n)
          \/ StartSeeding(h, t) \/ StopSeedingOf(h, t) \/ IncrementWarning(h, t)
          \/ \E p \in Queriers : LookUp(p, h, t)
    \/ \E h \in Hashes : RemoveStats(h)
    \/ \E p \in Queriers : StoreEmpty(p)

StatsSpec == StatsInit /\ [][StatsNext]_statsVars
-----------------------------------------------------------------------------
StatsTypeOK ==
    /\ \A h \in Hashes : /\ Cardinality(stats[h]) <= 1
                         /\ stats[h] \subseteq [tracker : StatTrackers, count : 0..MaxReports,
                                                seedTime : 0..MaxReports, seeding : BOOLEAN]
    /\ reader \in [Queriers -> {<<>>} \cup TorrentAccounts]
    /\ reported \in [TorrentAccounts -> 0..MaxReports] /\ sessions \in [TorrentAccounts -> 0..MaxReports]
    /\ users \in [Hashes -> SUBSET StatTrackers] /\ overwritten \subseteq Hashes

\* An entry counts what was reported for its own tracker and nothing twice, and no session
\* of seeding twice.  It counts all of it, unless the torrent is on a second tracker or
\* somebody wrote to it while a reader was about to store an empty entry.
CountsAreOwn ==
    \A h \in Hashes : \A e \in stats[h] :
        /\ e.count <= reported[<<h, e.tracker>>]
        /\ e.seedTime + (IF e.seeding THEN 1 ELSE 0) <= sessions[<<h, e.tracker>>]
        /\ e.count < reported[<<h, e.tracker>>] => Cardinality(users[h]) > 1 \/ h \in overwritten
=============================================================================
