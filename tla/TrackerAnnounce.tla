-------------------------- MODULE TrackerAnnounce --------------------------
(***************************************************************************)
(* How a magnet link gets its peers: downloadMetadata (download/torrent/   *)
(* client.go) asks the trackers in turn, up to three times, until one of   *)
(* them names a peer.  tracker.Client.Announce asks one, over HTTP, or     *)
(* over UDP with a connect and an announce, each sent once on a socket of  *)
(* its own.  Datagrams are lost, delayed and delivered twice.              *)
(*                                                                         *)
(* The connect starts with a constant that is not BEP 15's, in the other   *)
(* byte order: a tracker that looks at it ("strict") does not answer.      *)
(***************************************************************************)
EXTENDS Integers

CONSTANTS
    NumTrackers,   \* the trackers of the link are numbered in their order
    Kind,          \* "http", "udp", "strict", or "other": a scheme that is not supported
    Names,         \* the peers a tracker names when it is asked
    Refusing       \* the trackers that answer an announce with an error

Trackers == 1..NumTrackers
Kinds == {"http", "udp", "strict", "other"}
NamedPeers == UNION {Names[t] : t \in Trackers}
Attempts == 3

ASSUME TrackersAssumption ==
    /\ NumTrackers \in Nat /\ Kind \in [Trackers -> Kinds] /\ Refusing \subseteq Trackers

VARIABLES
    attempt, asked,   \* the attempt, and the tracker it is at
    step,             \* of the goroutine
    requests,         \* datagrams on their way to the tracker, by their action
    answers,          \* datagrams on their way back
    allPeers,
    rough,            \* the network has lost, doubled or delayed one of this announce
    failed            \* how often the network has failed an announce to a tracker

announceVars == <<attempt, asked, step, requests, answers, allPeers, rough, failed>>

AnnounceInit ==
    /\ attempt = 1 /\ asked = 1 /\ step = "ask" /\ requests = {} /\ answers = {}
    /\ allPeers = {} /\ rough = FALSE /\ failed = [t \in Trackers |-> 0]

\* An announce is over, and its socket closed.  An error goes on to the next tracker, as
\* does an answer without peers.
Concluded(peers, byNetwork) ==
    /\ allPeers' = allPeers \cup peers
    /\ IF allPeers' = {} THEN step' = "ask" /\ asked' = asked + 1
       ELSE step' = "found" /\ UNCHANGED asked
    /\ failed' = [failed EXCEPT ![asked] = @ + (IF byNetwork THEN 1 ELSE 0)]
    /\ requests' = {} /\ answers' = {} /\ rough' = FALSE
    /\ UNCHANGED attempt

Asks(kind) == step = "ask" /\ asked \in Trackers /\ Kind[asked] = kind

\* Announce does not know the scheme, or cannot parse the address.
NotSupported == Asks("other") /\ Concluded({}, FALSE)

\* httpAnnounce: an answer in bencode, whose peers are a list or a string; or the request
\* fails, is answered with another status, or with something that is not bencode.
HttpAnswers == Asks("http") /\ Concluded(IF asked \in Refusing THEN {} ELSE Names[asked], FALSE)
HttpFails == Asks("http") /\ Concluded({}, TRUE)
-----------------------------------------------------------------------------
\* udpConnect sends, and waits 15 s for one datagram.
UdpConnect ==
    /\ Asks("udp") \/ Asks("strict")
    /\ step' = "connect" /\ requests' = {"connect"}
    /\ UNCHANGED <<attempt, asked, answers, allPeers, rough, failed>>

\* A datagram is taken from the network, or delivered while a second copy is on its way.
Delivered(d, way) == \/ way' = way \ {d} /\ UNCHANGED rough
                     \/ UNCHANGED way /\ rough' = TRUE

\* The tracker answers what it gets.
AnswerTo(d) == IF Kind[asked] = "strict" THEN {}
               ELSE IF d = "announce" /\ asked \in Refusing THEN {"error"} ELSE {d}
TrackerAnswers ==
    /\ \E d \in requests : Delivered(d, requests) /\ answers' = answers \cup AnswerTo(d)
    /\ UNCHANGED <<attempt, asked, step, allPeers, failed>>
Lost ==
    /\ \/ \E d \in requests : requests' = requests \ {d} /\ UNCHANGED answers
       \/ \E d \in answers : answers' = answers \ {d} /\ UNCHANGED requests
    /\ rough' = TRUE /\ UNCHANGED <<attempt, asked, step, allPeers, failed>>

\* The answer to the connect: its length, its action and its transaction are compared.
\* On a new socket only the last can be another's, and is not.
ConnectAnswered ==
    /\ step = "connect"
    /\ \E d \in answers : d = "connect" /\ Delivered(d, answers)
    /\ step' = "announce" /\ requests' = requests \cup {"announce"}
    /\ UNCHANGED <<attempt, asked, allPeers, failed>>

\* udpAnnounceReq reads one datagram.  A second copy of the connect's answer is too short
\* for it, an error is not an announce, and either ends the announce.
AnnounceAnswered ==
    /\ step = "announce"
    /\ \E d \in answers :
         Concluded(IF d = "announce" THEN Names[asked] ELSE {}, rough)
TimesOut == step \in {"connect", "announce"} /\ Concluded({}, TRUE)
-----------------------------------------------------------------------------
\* Fault: what the last attempt has not found is given up an attempt earlier.
AttemptBefore == Attempts - 1
LastAttempt == Attempts
\* All trackers have been asked: a pause of 2 s, and another attempt, or none.
NextAttempt ==
    /\ step = "ask" /\ asked > NumTrackers
    /\ IF attempt < LastAttempt
       THEN attempt' = attempt + 1 /\ asked' = 1 /\ UNCHANGED step
       ELSE step' = "over" /\ UNCHANGED <<attempt, asked>>
    /\ UNCHANGED <<requests, answers, allPeers, rough, failed>>

AnnounceNext ==
    \/ NotSupported \/ HttpAnswers \/ HttpFails \/ UdpConnect \/ TrackerAnswers \/ Lost
    \/ ConnectAnswered \/ AnnounceAnswered \/ TimesOut \/ NextAttempt
AnnounceSpec == AnnounceInit /\ [][AnnounceNext]_announceVars
-----------------------------------------------------------------------------
AnnounceTypeOK ==
    /\ attempt \in 1..Attempts /\ asked \in 1..(NumTrackers + 1)
    /\ step \in {"ask", "connect", "announce", "found", "over"}
    /\ requests \subseteq {"connect", "announce"}
    /\ answers \subseteq {"connect", "announce", "error"}
    /\ allPeers \subseteq NamedPeers /\ rough \in BOOLEAN
    /\ failed \in [Trackers -> 0..Attempts]

\* A torrent is left without peers only if the network has failed all three announces to
\* each tracker that would have named one: a single exchange that is neither lost nor
\* delayed nor doubled is enough.
OneExchangeIsEnough ==
    step = "over" =>
        \A t \in Trackers \ Refusing :
            Kind[t] \in {"http", "udp"} /\ Names[t] # {} => failed[t] = Attempts
=============================================================================
