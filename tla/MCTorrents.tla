----------------------------- MODULE MCTorrents -----------------------------
(***************************************************************************)
(* The peers of a torrent, and the private trackers that it may come from: *)
(* their sessions and their counts.  They share nothing, so a behaviour is *)
(* one of a single component, with the others at rest.                     *)
(***************************************************************************)
EXTENDS MCTorrentPeers, TrackerSessions, TrackerStats

CONSTANTS u1, u2, p1, p2

VARIABLE turn   \* the component this behaviour is one of

\* Two accounts; RED has a key, BTN a key and a password, the others a password.
Config(kind, u, password, apiKey, active) ==
    [kind |-> kind, account |-> u, password |-> password, apiKey |-> apiKey, enabled |-> active]
Red == Config("redacted", u1, FALSE, TRUE, TRUE)
MCConfigs ==
    {Red, Config("btn", u2, TRUE, TRUE, TRUE), Config("torrentleech", u1, TRUE, FALSE, TRUE),
     Config("anonamouse", u1, TRUE, FALSE, TRUE), Config("anonamouse", u2, TRUE, FALSE, FALSE)}
MCAskers == {p1, p2}

\* Every kind of tracker with two askers, or two of RED's with one.
OneTracker ==
    /\ turn = "tracker" /\ SessionsNext
    /\ tracker'[1] \in {0, 1} /\ tracker'[2] = 0
TwoTrackers ==
    /\ turn = "trackers" /\ SessionsNext
    /\ asker'[p2] = asker[p2]
    /\ \A n \in 1..2 : object'[n].kind = "redacted" /\ object'[n].conf.account = u1

torrentsVars == <<vars, sessionsVars, statsVars, turn>>

AtRest ==
    /\ turn = "tracker" => tracker = [i \in {1, 2} |-> 2 - i] /\ object[2] = Create(Red)
    /\ turn # "tracker" => object = [n \in {1, 2} |-> Create(Red)]
    /\ turn \notin {"tracker", "trackers"} => tracker = [i \in {1, 2} |-> 0]

TorrentsInit ==
    /\ turn \in {"peers", "tracker", "trackers", "counts"}
    /\ Init /\ TrackersInit /\ StatsInit /\ AtRest
TorrentsNext ==
    /\ UNCHANGED turn
    /\ \/ turn = "peers" /\ Next /\ UNCHANGED <<sessionsVars, statsVars>>
       \/ (OneTracker \/ TwoTrackers) /\ UNCHANGED <<vars, statsVars>>
       \/ turn = "counts" /\ StatsNext /\ UNCHANGED <<vars, sessionsVars>>
TorrentsSpec == TorrentsInit /\ [][TorrentsNext]_torrentsVars

\* All components are well typed.
Types == TypeOK /\ SessionsTypeOK /\ StatsTypeOK
=============================================================================
