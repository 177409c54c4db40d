----------------------------- MODULE MCServices -----------------------------
(***************************************************************************)
(* Components that share nothing: the websocket hub, the rate limiter of   *)
(* an indexer, the torrent client, its announces to trackers and the bytes *)
(* of its connections, the accounts of the server and its settings.  A     *)
(* behaviour is one of a single component with the others at rest, so that *)
(* one run checks them without the product of their states.  At rest no    *)
(* action a component is fair to is enabled.                               *)
(***************************************************************************)
EXTENDS WSHub, IndexerRateLimiter, TorrentClient, TrackerAnnounce, MCPeerWire, Accounts, Settings

VARIABLE turn   \* the component this behaviour is one of

CONSTANTS c1, c2, manual, socket, auto, r1, r2, a1, n1, b1, b2, s1, s2

MCClients == {c1, c2}
MCSearchers == {manual, socket, auto}
MCAutomatic == {auto}
MCCancellable == {socket}
MCRemovers == {r1, r2}
MCAddrs == {a1}
MCInbound == {n1}

\* Trackers of every kind; the last one refuses.
MCKind == <<"udp", "strict", "http", "other", "udp">>
MCNames == <<{a1}, {a1}, {c1, a1}, {}, {c1}>>

\* Two subjects with one address of mail.
MCEmail == [s \in {s1, s2} |-> "mail"]

\* Three patches, of one key or of both.
MCPatch == <<[k \in {"k", "l"} |-> "v"], [k \in {"k"} |-> "w"], [k \in {"k"} |-> "v"]>>

allVars == <<vars, limiterVars, clientVars, announceVars, wireVars, accountVars, settingsVars, turn>>

\* A component at rest starts in one state only.
AtRest ==
    /\ turn # "wire" => role = "dials" /\ kind = "ours"
    /\ turn # "accounts" => ~oidc /\ ~unique

ServicesInit ==
    /\ turn \in {"hub", "limiter", "torrents", "announce", "wire", "accounts", "settings"}
    /\ Init /\ LimiterInit /\ ClientInit /\ AnnounceInit
    /\ WireInit /\ AccountsInit /\ SettingsInit /\ AtRest
ServicesNext ==
    /\ UNCHANGED turn
    /\ \/ /\ turn = "hub" /\ Next
          /\ UNCHANGED <<limiterVars, clientVars, announceVars, wireVars, accountVars, settingsVars>>
       \/ /\ turn = "limiter" /\ LimiterNext
          /\ UNCHANGED <<vars, clientVars, announceVars, wireVars, accountVars, settingsVars>>
       \/ /\ turn = "torrents" /\ ClientNext
          /\ UNCHANGED <<vars, limiterVars, announceVars, wireVars, accountVars, settingsVars>>
       \/ /\ turn = "announce" /\ AnnounceNext
          /\ UNCHANGED <<vars, limiterVars, clientVars, wireVars, accountVars, settingsVars>>
       \/ /\ turn = "wire" /\ WireNext
          /\ UNCHANGED <<vars, limiterVars, clientVars, announceVars, accountVars, settingsVars>>
       \/ /\ turn = "accounts" /\ AccountsNext
          /\ UNCHANGED <<vars, limiterVars, clientVars, announceVars, wireVars, settingsVars>>
       \/ /\ turn = "settings" /\ SettingsNext
          /\ UNCHANGED <<vars, limiterVars, clientVars, announceVars, wireVars, accountVars>>

ServicesSpec ==
    /\ ServicesInit /\ [][ServicesNext]_allVars
    /\ Fairness /\ LimiterFairness

\* All components are well typed.
Types ==
    /\ TypeOK /\ LimiterTypeOK /\ ClientTypeOK /\ AnnounceTypeOK
    /\ WireTypeOK /\ AccountsTypeOK /\ SettingsTypeOK
=============================================================================
