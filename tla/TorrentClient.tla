--------------------------- MODULE TorrentClient ---------------------------
(***************************************************************************)
(* The torrent client (download/torrent/client.go) and a magnet link that  *)
(* is added, removed and added again: the registered torrent, its search   *)
(* for peers, the goroutines of its connections, and RemoveTorrent, which  *)
(* holds the client's lock while it waits for them.  Every AddMagnet makes *)
(* a torrent of its own, a number here.                                    *)
(*                                                                         *)
(* Nothing in the program gives a torrent its metadata: the DHT decodes no *)
(* packet, and a session that is to ask for the metadata cannot encode its *)
(* first message.  Torrents that have it are the module TorrentPeers.      *)
(***************************************************************************)
EXTENDS Integers, FiniteSets

CONSTANTS
    Removers,     \* goroutines that call RemoveTorrent
    Addrs,        \* addresses the trackers name
    Inbound,      \* connections from outside
    MaxTorrents, MaxPeers,
    MaxSessions   \* goroutines of outbound connections at a time

None == 0
Torrents == 1..MaxTorrents
FreeCaller == "free"

ASSUME ClientAssumption ==
    /\ MaxTorrents \in Nat /\ MaxPeers \in Nat \ {0} /\ MaxSessions \in Nat \ {0}
    /\ FreeCaller \notin Removers

VARIABLES
    reg,       \* Client.torrents: the torrent under the info hash
    made,      \* torrents made so far
    lock,      \* the caller that holds Client.mu across steps, or None
    caller,    \* a call of RemoveTorrent: its step and the torrent it has found
    seek,      \* a torrent's downloadMetadata goroutine
    toAdd,     \* the address it is connected to and about to add
    connected, \* Torrent.Peers
    closer,    \* the caller that has closed a torrent
    out,       \* running goroutines of outbound connections
    inb,       \* an inbound connection: its step, its torrent, and whether it is open
    crash      \* why the process has ended, or "no"

clientVars == <<reg, made, lock, caller, seek, toAdd, connected, closer, out, inb, crash>>

Idle == [at |-> "idle", of |-> None]
NotThere == [at |-> "off", of |-> None, open |-> FALSE]

ClientInit ==
    /\ reg = None /\ made = 0 /\ lock = FreeCaller /\ crash = "no"
    /\ caller = [r \in Removers |-> Idle] /\ closer = [t \in Torrents |-> FreeCaller]
    /\ seek = [t \in Torrents |-> "off"] /\ toAdd = [t \in Torrents |-> {}]
    /\ connected = [t \in Torrents |-> {}] /\ out = [t \in Torrents |-> 0]
    /\ inb = [c \in Inbound |-> NotThere]

Closed(t) == closer[t] # FreeCaller
Runs == crash = "no"
LockIsFree == Runs /\ lock = FreeCaller
Crashes(why) == crash' = why
-----------------------------------------------------------------------------
\* A magnet that is not registered: NewTorrent, then downloadMetadata starts.  (One that
\* is returns the torrent there is.  searchDHTPeers finds no peers; see DhtFinds.)
AddMagnet ==
    /\ LockIsFree /\ reg = None /\ made < MaxTorrents
    /\ made' = made + 1 /\ reg' = made' /\ seek' = [seek EXCEPT ![made'] = "announce"]
    /\ UNCHANGED <<lock, caller, toAdd, connected, closer, out, inb, crash>>

\* downloadMetadata: without peers after three attempts it ends; with some it goes on to
\* connect to them, every 15 s and whatever becomes of the torrent.
TrackersAnswer(t) ==
    /\ Runs /\ seek[t] = "announce"
    /\ seek' = [seek EXCEPT ![t] = "poll"] \/ seek' = [seek EXCEPT ![t] = "over"]
    /\ UNCHANGED <<reg, made, lock, caller, toAdd, connected, closer, out, inb, crash>>
\* What searchDHTPeers gets from the DHT, whose DecodeBencode returns an error.
DhtFinds == {}
\* connectToPeerWithMetadata dials a peer, and only then asks for the torrent's lock.
Dial(t) ==
    /\ LockIsFree /\ seek[t] = "poll" /\ toAdd[t] = {}
    /\ \E a \in Addrs \cup DhtFinds : toAdd' = [toAdd EXCEPT ![t] = {a}]
    /\ UNCHANGED <<reg, made, lock, caller, seek, connected, closer, out, inb, crash>>

\* AddPeer: an address that is there, and one too many, are not registered; in a closed
\* torrent the map is nil, and writing to it panics.
WithPeer(t, a) == IF Cardinality(connected[t]) >= MaxPeers THEN connected[t] ELSE connected[t] \cup {a}
AddPeer(t) ==
    /\ Runs /\ toAdd[t] # {} /\ out[t] < MaxSessions
    /\ toAdd' = [toAdd EXCEPT ![t] = {}]
    /\ IF Closed(t)
       THEN Crashes("peer after close") /\ UNCHANGED <<connected, out>>
       ELSE /\ \E a \in toAdd[t] : connected' = [connected EXCEPT ![t] = WithPeer(t, a)]
            /\ out' = [out EXCEPT ![t] = @ + 1] /\ UNCHANGED crash
    /\ UNCHANGED <<reg, made, lock, caller, seek, closer, inb>>

\* requestMetadataFromPeer gives up, since bencode.Encode does not know the type of the
\* extension handshake (map[string]interface{}); RequestPiece returns for a torrent
\* without metadata.
SessionEnds(t) ==
    /\ Runs /\ out[t] > 0 /\ out' = [out EXCEPT ![t] = @ - 1]
    /\ UNCHANGED <<reg, made, lock, caller, seek, toAdd, connected, closer, inb, crash>>
-----------------------------------------------------------------------------
\* handleInbound: the torrent is looked up, the peer added, ProcessPeer started in a
\* goroutine, and the connection closed as the handler returns.
InboundFinds(c) ==
    /\ LockIsFree /\ inb[c].at = "off" /\ reg # None
    /\ inb' = [inb EXCEPT ![c] = [at |-> "found", of |-> reg, open |-> TRUE]]
    /\ UNCHANGED <<reg, made, lock, caller, seek, toAdd, connected, closer, out, crash>>
InboundAdded(c) ==
    LET t == inb[c].of IN
    /\ Runs /\ inb[c].at = "found"
    /\ IF Closed(t)
       THEN Crashes("peer after close") /\ UNCHANGED <<connected, inb>>
       ELSE /\ connected' = [connected EXCEPT ![t] = WithPeer(t, c)] /\ UNCHANGED crash
            /\ inb' = [inb EXCEPT ![c].at = "serve", ![c].open = Cardinality(connected[t]) < MaxPeers]
    /\ UNCHANGED <<reg, made, lock, caller, seek, toAdd, closer, out>>
HandlerReturns(c) ==
    /\ Runs /\ inb[c].at = "serve" /\ inb[c].open /\ inb' = [inb EXCEPT ![c].open = FALSE]
    /\ UNCHANGED <<reg, made, lock, caller, seek, toAdd, connected, closer, out, crash>>
\* A message about pieces that is read before the handler has returned: PieceManager is nil.
ReadsMessage(c) ==
    /\ Runs /\ inb[c].at = "serve" /\ inb[c].open /\ Crashes("no piece manager")
    /\ UNCHANGED <<reg, made, lock, caller, seek, toAdd, connected, closer, out, inb>>
\* The read fails: RemovePeer, and the goroutine is over.
InboundReadFails(c) ==
    LET t == inb[c].of IN
    /\ Runs /\ inb[c].at = "serve" /\ ~inb[c].open
    /\ connected' = [connected EXCEPT ![t] = @ \ {c}] /\ inb' = [inb EXCEPT ![c] = NotThere]
    /\ UNCHANGED <<reg, made, lock, caller, seek, toAdd, closer, out, crash>>
-----------------------------------------------------------------------------
RemoveFinds(r) ==
    /\ LockIsFree /\ caller[r].at = "idle" /\ reg # None
    /\ caller' = [caller EXCEPT ![r] = [at |-> "found", of |-> reg]]
    /\ UNCHANGED <<reg, made, lock, seek, toAdd, connected, closer, out, inb, crash>>
\* The lock is taken again and Torrent.Close begins: closeCh, then the connections.
RemoveCloses(r) ==
    LET t == caller[r].of IN
    /\ LockIsFree /\ caller[r].at = "found"
    /\ IF Closed(t)
       THEN Crashes("closed twice") /\ UNCHANGED <<lock, caller, closer, connected, inb>>
       ELSE /\ lock' = r /\ caller' = [caller EXCEPT ![r].at = "wait"] /\ UNCHANGED crash
            /\ closer' = [closer EXCEPT ![t] = r] /\ connected' = [connected EXCEPT ![t] = {}]
            /\ inb' = [c \in Inbound |-> IF c \in connected[t] THEN [inb[c] EXCEPT !.open = FALSE] ELSE inb[c]]
    /\ UNCHANGED <<reg, made, seek, toAdd, out>>
\* Torrent.wg: the goroutines of its connections.
NoSession(t) == out[t] = 0 /\ \A c \in Inbound : ~(inb[c].at = "serve" /\ inb[c].of = t)
\* Fault: the torrent stays in the map.
KeepRegistered == UNCHANGED reg
Unregistered == reg' = None
\* All of them have ended: the info hash is deleted from the map and the lock released.
RemoveEnds(r) ==
    /\ Runs /\ caller[r].at = "wait" /\ NoSession(caller[r].of)
    /\ Unregistered /\ lock' = FreeCaller /\ caller' = [caller EXCEPT ![r].at = "idle"]
    /\ UNCHANGED <<made, seek, toAdd, connected, closer, out, inb, crash>>
-----------------------------------------------------------------------------
InboundStep(c) == InboundAdded(c) \/ HandlerReturns(c) \/ ReadsMessage(c) \/ InboundReadFails(c)
SeekStep(t) == TrackersAnswer(t) \/ Dial(t) \/ AddPeer(t)
RemoveStep(r) == RemoveCloses(r) \/ RemoveEnds(r)
ClientNext ==
    \/ AddMagnet
    \/ \E t \in Torrents : SeekStep(t) \/ SessionEnds(t)
    \/ \E c \in Inbound : InboundFinds(c) \/ InboundStep(c)
    \/ \E r \in Removers : RemoveFinds(r) \/ RemoveStep(r)

ClientSpec == ClientInit /\ [][ClientNext]_clientVars
-----------------------------------------------------------------------------
ClientTypeOK ==
    /\ reg \in {None} \cup 1..made /\ made \in 0..MaxTorrents
    /\ lock \in Removers \cup {FreeCaller}
    /\ caller \in [Removers -> [at : {"idle", "found", "wait"}, of : {None} \cup Torrents]]
    /\ seek \in [Torrents -> {"off", "announce", "poll", "over"}]
    /\ toAdd \in [Torrents -> SUBSET Addrs] /\ connected \in [Torrents -> SUBSET (Addrs \cup Inbound)]
    /\ closer \in [Torrents -> Removers \cup {FreeCaller}] /\ out \in [Torrents -> 0..MaxSessions]
    /\ inb \in [Inbound -> [at : {"off", "found", "serve"}, of : {None} \cup Torrents, open : BOOLEAN]]
    /\ crash \in {"no", "closed twice", "peer after close", "no piece manager"}

\* A torrent is closed a second time, which panics, only by a caller that had found it
\* before another one closed it: it is registered until its sessions have ended, and not
\* after that.
ClosedTwiceByTwo ==
    crash = "closed twice" =>
        \E r \in Removers : caller[r].at = "found" /\ closer[caller[r].of] \notin {r, FreeCaller}
=============================================================================
