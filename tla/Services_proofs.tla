--------------------------- MODULE Services_proofs --------------------------
(***************************************************************************)
(* The components of MCServices that share nothing, for any clients,       *)
(* capacities, searchers, intervals, callers, torrents, peers, trackers,   *)
(* messages, browsers and patches.                                         *)
(*                                                                         *)
(* The hub implements EventFeed, and no channel is closed twice (Inv).     *)
(* The limiter's backoff is what Doubled says of its failures (LimiterInv); *)
(* what that recursive function is follows from its least counterexample.  *)
(* A torrent that is registered is closed only while its closer holds the  *)
(* client's lock (RegisteredInv), so a caller never finds one that is      *)
(* closed, least of all by itself: whoever closes a torrent again had found *)
(* it before another one closed it.                                        *)
(* A tracker's failures are counted against the announces it had           *)
(* (TriedInv), a connection's first byte gives its layout away (DialInv),  *)
(* logins without an account are remembered (LoginInv), and each key of a  *)
(* patch is ahead of it or done with (PatchInv).                           *)
(***************************************************************************)
EXTENDS MCServices, LeastNumber, FiniteSetTheorems, SequenceTheorems, TLAPS

-----------------------------------------------------------------------------
(* The websocket hub (WSHub).                                              *)

\* A connection that was not handled yet has an empty channel that nobody closed.
Fresh == \A c \in Clients : reader[c] = "new" => c \notin clients /\ closes[c] = 0 /\ send[c] = <<>>
Inv == TypeOK /\ Fresh /\ ChannelsCloseOnce /\ NoGap

LEMMA InitInv == Init => Inv
  BY HubAssumption DEF Init, Inv, TypeOK, Fresh, ChannelsCloseOnce, NoGap

LEMMA RegisterInv == ASSUME Inv, NEW c \in Clients, Register(c) PROVE Inv'
<1> USE DEF Inv
<1>1. send[c] = <<>> /\ closes[c] = 0 /\ c \notin clients
  BY DEF Register, Reader, Fresh
<1>2. TypeOK'
  BY DEF Register, Reader, TypeOK
<1>3. Fresh' /\ ChannelsCloseOnce'
  BY <1>1 DEF Register, Reader, TypeOK, Fresh, ChannelsCloseOnce
<1>4. NoGap'
  <2> SUFFICES ASSUME NEW d \in clients'
               PROVE  /\ Len(send'[d]) = handled' - taken'[d]
                      /\ \A i \in 1..Len(send'[d]) : send'[d][i] = taken'[d] + i
    BY DEF NoGap
  <2>1. CASE d = c
    BY <1>1, <2>1 DEF Register, TypeOK
  <2>2. CASE d # c
    BY <2>2 DEF Register, TypeOK, NoGap
  <2>3. QED
    BY <2>1, <2>2
<1>5. QED
  BY <1>2, <1>3, <1>4

LEMMA UnregisterInv == ASSUME Inv, NEW c \in Clients, Unregister(c) PROVE Inv'
<1> USE DEF Inv
<1>1. closes' \in [Clients -> Nat]
  BY DEF Unregister, CloseIfClient, TypeOK
<1>2. TypeOK'
  BY <1>1 DEF Unregister, Reader, TypeOK
<1>3. Fresh'
  BY DEF Unregister, Reader, CloseIfClient, TypeOK, Fresh
<1>4. ChannelsCloseOnce'
  BY DEF Unregister, CloseIfClient, TypeOK, ChannelsCloseOnce
<1>5. NoGap'
  BY DEF Unregister, NoGap
<1>6. QED
  BY <1>2, <1>3, <1>4, <1>5

\* Who is evicted was in the map, so its channel was open; who is not has room.
LEMMA BroadcastInv == ASSUME Inv, HandleBroadcast PROVE Inv'
<1> USE DEF Inv
<1> DEFINE kept == {c \in clients : ~Full(c)}
<1>1. /\ clients' = kept /\ handled' = handled + 1 /\ handled < sent
      /\ send' = [c \in Clients |-> IF c \in kept THEN Append(send[c], handled') ELSE send[c]]
      /\ closes' = [c \in Clients |-> IF c \in clients \ kept THEN closes[c] + 1 ELSE closes[c]]
      /\ UNCHANGED <<reader, writer, open, taken, sent>>
  BY DEF HandleBroadcast, PassOn, CloseAll, Full
<1>2. \A c \in kept : c \in clients /\ Len(send[c]) < SendCap
  BY HubAssumption DEF Full, TypeOK
<1> HIDE DEF kept
<1>3. \A c \in kept : /\ send'[c] \in Seq(Nat) /\ Len(send'[c]) = Len(send[c]) + 1
                      /\ \A i \in 1..Len(send'[c]) :
                            send'[c][i] = IF i = Len(send[c]) + 1 THEN handled + 1 ELSE send[c][i]
  BY <1>1, <1>2 DEF TypeOK
<1>4. \A c \in Clients : c \notin kept => send'[c] = send[c]
  BY <1>1
<1>5. send' \in [Clients -> Seq(Nat)] /\ \A c \in Clients : Len(send'[c]) <= SendCap
  <2>1. \A c \in Clients : send'[c] \in Seq(Nat) /\ Len(send'[c]) <= SendCap
    BY <1>2, <1>3, <1>4, HubAssumption DEF TypeOK
  <2>2. QED
    BY <1>1, <2>1
<1>6. closes' \in [Clients -> Nat] /\ clients' \in SUBSET Clients
  BY <1>1, <1>2 DEF TypeOK
<1>7. TypeOK'
  BY <1>1, <1>5, <1>6, HubAssumption DEF TypeOK
<1>8. Fresh'
  BY <1>1, <1>2, <1>4 DEF Fresh
<1>9. ChannelsCloseOnce'
  BY <1>1, <1>2 DEF ChannelsCloseOnce, TypeOK
<1>10. NoGap'
  <2> SUFFICES ASSUME NEW c \in kept
               PROVE  /\ Len(send'[c]) = handled' - taken'[c]
                      /\ \A i \in 1..Len(send'[c]) : send'[c][i] = taken'[c] + i
    BY <1>1 DEF NoGap
  <2>1. c \in clients /\ c \in Clients
    BY <1>2 DEF TypeOK
  <2>2. /\ Len(send[c]) = handled - taken[c] /\ Len(send[c]) \in Nat /\ taken[c] \in Nat /\ handled \in Nat
        /\ \A i \in 1..Len(send[c]) : send[c][i] = taken[c] + i
    BY <2>1 DEF NoGap, TypeOK
  <2>3. Len(send'[c]) = handled' - taken'[c] /\ Len(send[c]) + 1 = handled + 1 - taken[c]
    BY <1>1, <1>3, <2>2
  <2>4. ASSUME NEW i \in 1..Len(send'[c]) PROVE send'[c][i] = taken[c] + i
    <3>1. CASE i = Len(send[c]) + 1
      <4>1. send'[c][i] = handled + 1
        BY <1>3, <3>1
      <4>2. QED
        BY <2>2, <3>1, <4>1
    <3>2. CASE i # Len(send[c]) + 1
      <4>1. i \in 1..Len(send[c])
        BY <1>3, <2>2, <3>2
      <4>2. QED
        BY <1>3, <2>2, <3>2, <4>1
    <3>3. QED
      BY <3>1, <3>2
  <2>5. QED
    BY <1>1, <2>3, <2>4
<1>11. QED
  BY <1>7, <1>8, <1>9, <1>10

LEMMA WriteInv == ASSUME Inv, NEW c \in Clients, WriteMessage(c) PROVE Inv'
<1> USE DEF Inv
<1>1. /\ send' = [send EXCEPT ![c] = Tail(send[c])] /\ taken' = [taken EXCEPT ![c] = Head(send[c])]
      /\ UNCHANGED <<clients, closes, reader, open, sent, handled>> /\ send[c] # <<>>
  BY DEF WriteMessage
<1>2. /\ Tail(send[c]) \in Seq(Nat) /\ Len(Tail(send[c])) = Len(send[c]) - 1 /\ Head(send[c]) = send[c][1]
      /\ Head(send[c]) \in Nat /\ Len(send[c]) \in Nat \ {0}
      /\ \A i \in 1..Len(Tail(send[c])) : Tail(send[c])[i] = send[c][i + 1]
  BY <1>1 DEF TypeOK
<1>3. writer' \in [Clients -> {"off", "on", "over"}]
  BY DEF WriteMessage, TypeOK
<1>4. \A d \in Clients : Len(send'[d]) <= SendCap
  BY <1>1, <1>2, HubAssumption DEF TypeOK
<1>5. TypeOK'
  BY <1>1, <1>2, <1>3, <1>4 DEF TypeOK
<1>6. Fresh' /\ ChannelsCloseOnce'
  BY <1>1 DEF Fresh, ChannelsCloseOnce, TypeOK
<1>7. NoGap'
  <2> SUFFICES ASSUME NEW d \in clients
               PROVE  /\ Len(send'[d]) = handled - taken'[d]
                      /\ \A i \in 1..Len(send'[d]) : send'[d][i] = taken'[d] + i
    BY <1>1 DEF NoGap
  <2>1. /\ Len(send[d]) = handled - taken[d] /\ taken[d] \in Nat /\ handled \in Nat /\ d \in Clients
        /\ \A i \in 1..Len(send[d]) : send[d][i] = taken[d] + i
    BY DEF NoGap, TypeOK
  <2>2. CASE d = c
    <3>1. taken'[c] = taken[c] + 1 /\ send'[c] = Tail(send[c])
      BY <1>1, <1>2, <2>1, <2>2 DEF TypeOK
    <3>2. Len(send'[c]) = handled - taken'[c]
      BY <1>2, <2>1, <2>2, <3>1
    <3>3. ASSUME NEW i \in 1..Len(send'[c]) PROVE send'[c][i] = taken'[c] + i
      <4>1. i + 1 \in 1..Len(send[c]) /\ send'[c][i] = send[c][i + 1]
        BY <1>2, <3>1
      <4>2. QED
        BY <2>1, <2>2, <3>1, <4>1
    <3>4. QED
      BY <2>2, <3>2, <3>3
  <2>3. CASE d # c
    BY <1>1, <2>1, <2>3 DEF TypeOK
  <2>4. QED
    BY <2>2, <2>3
<1>8. QED
  BY <1>5, <1>6, <1>7

\* The other steps leave the map, the channels and the counters of messages alone.
LEMMA OtherInv ==
  ASSUME Inv, UNCHANGED <<clients, send, closes, taken, handled>>,
         sent' \in {sent, sent + 1}, sent' <= MaxMessages, sent' - handled <= BroadcastCap,
         reader' \in [Clients -> {"new", "registered", "reading", "leaving", "left", "over"}],
         \A c \in Clients : reader'[c] = "new" => reader[c] = "new",
         writer' \in [Clients -> {"off", "on", "over"}], open' \in SUBSET Clients
  PROVE  Inv'
  BY DEF Inv, TypeOK, Fresh, ChannelsCloseOnce, NoGap

LEMMA NextInv == Inv /\ [Next]_vars => Inv'
<1> SUFFICES ASSUME Inv, [Next]_vars PROVE Inv'
  OBVIOUS
<1>1. CASE Broadcast
  BY <1>1, OtherInv, HubAssumption DEF Broadcast, Inv, TypeOK
<1>2. CASE HandleBroadcast
  BY <1>2, BroadcastInv
<1>3. ASSUME NEW c \in Clients, Register(c) \/ Unregister(c) \/ WriteMessage(c) PROVE Inv'
  BY <1>3, RegisterInv, UnregisterInv, WriteInv
<1>4. ASSUME NEW c \in Clients, ConnFails(c) \/ PumpStep(c) \/ WriterCloses(c) PROVE Inv'
  <2>1. UNCHANGED <<clients, send, closes, taken, handled, sent>>
    BY <1>4 DEF ConnFails, PumpStep, StartPumps, ReadFails, ReaderCloses, WriterCloses
  <2>2. /\ reader' \in [Clients -> {"new", "registered", "reading", "leaving", "left", "over"}]
        /\ \A d \in Clients : reader'[d] = "new" => reader[d] = "new"
        /\ writer' \in [Clients -> {"off", "on", "over"}] /\ open' \in SUBSET Clients
    BY <1>4
    DEF ConnFails, PumpStep, StartPumps, ReadFails, ReaderCloses, WriterCloses, Reader, Inv, TypeOK
  <2>3. sent' \in {sent, sent + 1} /\ sent' <= MaxMessages /\ sent' - handled <= BroadcastCap
    BY <2>1 DEF Inv, TypeOK
  <2>4. QED
    BY <2>1, <2>2, <2>3, OtherInv
<1>5. CASE UNCHANGED vars
  BY <1>5 DEF vars, Inv, TypeOK, Fresh, ChannelsCloseOnce, NoGap
<1>6. QED
  BY <1>1, <1>2, <1>3, <1>4, <1>5 DEF Next

LEMMA Invariance == Spec => []Inv
  BY InitInv, NextInv, PTL DEF Spec

\* No send channel of a client is closed twice or written to after it was closed, so the
\* hub does not panic, for any number of clients.
THEOREM HubDoesNotPanic == Spec => []ChannelsCloseOnce
<1>1. Inv => ChannelsCloseOnce
  BY DEF Inv
<1>2. QED
  BY <1>1, Invariance, PTL

\* A client in the map misses no message since it was registered, whatever the capacities.
THEOREM ClientsMissNothing == Spec => []NoGap
<1>1. Inv => NoGap
  BY DEF Inv
<1>2. QED
  BY <1>1, Invariance, PTL
-----------------------------------------------------------------------------
\* What a client was passed on and has not taken follows what it has taken, also after it
\* left the map.
InOrder == \A c \in Clients : \A i \in 1..Len(send[c]) : send[c][i] = taken[c] + i

LEMMA InOrderInit == Init => InOrder
  BY DEF Init, InOrder

LEMMA InOrderNext == Inv /\ InOrder /\ [Next]_vars => InOrder'
<1> SUFFICES ASSUME Inv, InOrder, [Next]_vars PROVE InOrder'
  OBVIOUS
<1>1. TypeOK /\ Fresh /\ NoGap
  BY DEF Inv
<1>2. CASE UNCHANGED <<send, taken>>
  BY <1>2 DEF InOrder
<1>3. CASE HandleBroadcast
  <2> SUFFICES ASSUME NEW c \in Clients, NEW i \in 1..Len(send'[c]) PROVE send'[c][i] = taken'[c] + i
    BY DEF InOrder
  <2>1. /\ taken' = taken
        /\ send'[c] = send[c] \/ (c \in clients /\ send'[c] = Append(send[c], handled + 1))
    BY <1>3 DEF HandleBroadcast, PassOn
  <2>2. send[c] \in Seq(Nat) /\ taken[c] \in Nat /\ handled \in Nat
    BY <1>1 DEF TypeOK
  <2>3. CASE send'[c] = send[c]
    BY <2>1, <2>3 DEF InOrder
  <2>4. CASE c \in clients /\ send'[c] = Append(send[c], handled + 1)
    <3>1. Len(send[c]) = handled - taken[c] /\ Len(send'[c]) = Len(send[c]) + 1
      BY <1>1, <2>2, <2>4 DEF NoGap
    <3>2. CASE i = Len(send[c]) + 1
      <4>1. send'[c][i] = handled + 1
        BY <2>2, <2>4, <3>2
      <4>2. QED
        BY <2>1, <2>2, <3>1, <3>2, <4>1
    <3>3. CASE i \in 1..Len(send[c])
      <4>1. send'[c][i] = send[c][i]
        BY <2>2, <2>4, <3>3
      <4>2. QED
        BY <2>1, <3>3, <4>1 DEF InOrder
    <3>4. QED
      BY <2>2, <3>1, <3>2, <3>3
  <2>5. QED
    BY <2>1, <2>3, <2>4
<1>4. ASSUME NEW c \in Clients, Register(c) PROVE InOrder'
  <2>1. send' = send /\ send[c] = <<>> /\ taken' = [taken EXCEPT ![c] = handled]
    BY <1>1, <1>4 DEF Register, Reader, Fresh
  <2>2. \A d \in Clients : d # c => taken'[d] = taken[d]
    BY <2>1
  <2>3. QED
    BY <2>1, <2>2 DEF InOrder
<1>5. ASSUME NEW c \in Clients, WriteMessage(c) PROVE InOrder'
  <2> SUFFICES ASSUME NEW d \in Clients, NEW i \in 1..Len(send'[d]) PROVE send'[d][i] = taken'[d] + i
    BY DEF InOrder
  <2>1. /\ send' = [send EXCEPT ![c] = Tail(send[c])] /\ taken' = [taken EXCEPT ![c] = Head(send[c])]
        /\ send[c] # <<>>
    BY <1>5 DEF WriteMessage
  <2>2. send \in [Clients -> Seq(Nat)] /\ taken \in [Clients -> Nat]
    BY <1>1 DEF TypeOK
  <2>3. CASE d # c
    BY <2>1, <2>2, <2>3 DEF InOrder
  <2>4. CASE d = c
    <3>1. send'[c] = Tail(send[c]) /\ taken'[c] = send[c][1] /\ send[c] \in Seq(Nat)
      BY <2>1, <2>2
    <3>2. i + 1 \in 1..Len(send[c]) /\ send'[c][i] = send[c][i + 1] /\ 1 \in 1..Len(send[c])
      <4>1. /\ Len(Tail(send[c])) = Len(send[c]) - 1 /\ Len(send[c]) \in Nat \ {0}
            /\ \A k \in 1..Len(Tail(send[c])) : Tail(send[c])[k] = send[c][k + 1]
        BY <2>1, <3>1
      <4>2. i \in 1..Len(Tail(send[c]))
        BY <2>4, <3>1
      <4>3. QED
        BY <3>1, <4>1, <4>2
    <3>3. send[c][1] = taken[c] + 1 /\ send[c][i + 1] = taken[c] + (i + 1) /\ taken[c] \in Nat
      BY <2>2, <3>2 DEF InOrder
    <3>4. QED
      BY <2>4, <3>1, <3>2, <3>3
  <2>5. QED
    BY <2>3, <2>4
<1>6. CASE UNCHANGED vars
  BY <1>2, <1>6 DEF vars
<1>7. ASSUME NEW c \in Clients, Unregister(c) \/ ConnFails(c) \/ PumpStep(c) \/ WriterCloses(c)
      PROVE InOrder'
  BY <1>2, <1>7 DEF Unregister, ConnFails, PumpStep, StartPumps, ReadFails, ReaderCloses, WriterCloses
<1>8. CASE Broadcast
  BY <1>2, <1>8 DEF Broadcast
<1>9. QED
  BY <1>3, <1>4, <1>5, <1>6, <1>7, <1>8 DEF Next

\* Steps of the hub that move no message are steps of the feed or leave it alone.
LEMMA QuietStep ==
  ASSUME UNCHANGED <<clients, send, taken, handled, sent>> PROVE UNCHANGED Feed!feed
  BY DEF Feed!feed

\* A broadcast passes an event on to the members that are not thrown out.
LEMMA BroadcastRefines == Inv /\ HandleBroadcast => Feed!PassOn
<1> SUFFICES ASSUME Inv, HandleBroadcast PROVE Feed!PassOn
  OBVIOUS
<1> DEFINE kept == {c \in clients : ~Full(c)}
<1>1. /\ clients' = kept /\ handled' = handled + 1 /\ handled < sent /\ taken' = taken /\ sent' = sent
      /\ send' = [c \in Clients |-> IF c \in kept THEN Append(send[c], handled') ELSE send[c]]
  BY DEF HandleBroadcast, PassOn, Full
<1>2. clients \ kept \in SUBSET clients /\ clients' = clients \ (clients \ kept)
  BY <1>1
<1>3. ASSUME NEW c \in Clients
      PROVE  taken'[c] + Len(send'[c]) = IF c \in clients' THEN handled' ELSE taken[c] + Len(send[c])
  <2>1. send[c] \in Seq(Nat) /\ taken[c] \in Nat /\ handled \in Nat
    BY DEF Inv, TypeOK
  <2>2. CASE c \in kept
    <3>1. Len(send[c]) = handled - taken[c]
      BY <2>2 DEF Inv, NoGap
    <3>2. Len(send'[c]) = Len(send[c]) + 1
      BY <1>1, <2>1, <2>2
    <3>3. QED
      BY <1>1, <2>1, <2>2, <3>1, <3>2
  <2>3. CASE c \notin kept
    BY <1>1, <2>3
  <2>4. QED
    BY <2>2, <2>3
<1>4. [c \in Clients |-> taken[c] + Len(send[c])]'
         = [c \in Clients |-> IF c \in clients' THEN handled' ELSE [d \in Clients |-> taken[d] + Len(send[d])][c]]
  BY <1>3
<1>5. QED
  BY <1>1, <1>2, <1>4 DEF Feed!PassOn

\* A client that is registered joins: its channel is empty.
LEMMA RegisterRefines == ASSUME Inv, NEW c \in Clients, Register(c) PROVE Feed!Join(c)
<1>1. /\ c \notin clients /\ send[c] = <<>> /\ send' = send /\ clients' = clients \cup {c}
      /\ taken' = [taken EXCEPT ![c] = handled] /\ UNCHANGED <<handled, sent>>
  BY DEF Register, Reader, Inv, Fresh
<1>2. taken \in [Clients -> Nat] /\ handled \in Nat /\ Len(send[c]) = 0
  BY <1>1 DEF Inv, TypeOK
<1>3. \A d \in Clients : taken'[d] + Len(send'[d]) = IF d = c THEN handled ELSE taken[d] + Len(send[d])
  BY <1>1, <1>2
<1>4. [d \in Clients |-> taken[d] + Len(send[d])]'
         = [[d \in Clients |-> taken[d] + Len(send[d])] EXCEPT ![c] = handled]
  BY <1>3
<1>5. QED
  BY <1>1, <1>4 DEF Feed!Join

\* What a writePump takes is the next event that was due.
LEMMA WriteRefines == ASSUME Inv, InOrder, NEW c \in Clients, WriteMessage(c) PROVE Feed!Hear(c)
<1>1. /\ send' = [send EXCEPT ![c] = Tail(send[c])] /\ taken' = [taken EXCEPT ![c] = Head(send[c])]
      /\ send[c] # <<>> /\ UNCHANGED <<clients, handled, sent>>
  BY DEF WriteMessage
<1>2. send \in [Clients -> Seq(Nat)] /\ taken \in [Clients -> Nat] /\ send[c] \in Seq(Nat)
  BY DEF Inv, TypeOK
<1>3. Len(send[c]) \in Nat \ {0} /\ Len(Tail(send[c])) = Len(send[c]) - 1 /\ Head(send[c]) = taken[c] + 1
  BY <1>1, <1>2 DEF InOrder
<1>4. \A d \in Clients : taken'[d] + Len(send'[d]) = taken[d] + Len(send[d])
  BY <1>1, <1>2, <1>3
<1>5. [d \in Clients |-> taken[d] + Len(send[d])]' = [d \in Clients |-> taken[d] + Len(send[d])]
  BY <1>4
<1>6. taken' = [taken EXCEPT ![c] = taken[c] + 1]
  BY <1>1, <1>3
<1>7. taken[c] < taken[c] + Len(send[c])
  <2>1. taken[c] \in Nat
    BY <1>2
  <2>2. QED
    BY <1>3, <2>1
<1>8. QED
  BY <1>1, <1>5, <1>6, <1>7 DEF Feed!Hear

LEMMA StepRefines == Inv /\ InOrder /\ [Next]_vars => [Feed!Next]_(Feed!feed)
<1> SUFFICES ASSUME Inv, InOrder, [Next]_vars PROVE Feed!Next \/ UNCHANGED Feed!feed
  OBVIOUS
<1>1. CASE Broadcast
  <2>1. Feed!Publish
    BY <1>1 DEF Broadcast, Feed!Publish
  <2>2. QED
    BY <2>1 DEF Feed!Next
<1>2. CASE HandleBroadcast
  BY <1>2, BroadcastRefines DEF Feed!Next
<1>3. ASSUME NEW c \in Clients, Register(c) PROVE Feed!Next
  BY <1>3, RegisterRefines DEF Feed!Next
<1>4. ASSUME NEW c \in Clients, Unregister(c) PROVE Feed!Next
  <2>1. Feed!Leave(c)
    BY <1>4 DEF Unregister, Feed!Leave
  <2>2. QED
    BY <2>1 DEF Feed!Next
<1>5. ASSUME NEW c \in Clients, WriteMessage(c) PROVE Feed!Next
  BY <1>5, WriteRefines DEF Feed!Next
<1>6. ASSUME NEW c \in Clients, ConnFails(c) \/ PumpStep(c) \/ WriterCloses(c) PROVE UNCHANGED Feed!feed
  BY <1>6, QuietStep DEF ConnFails, PumpStep, StartPumps, ReadFails, ReaderCloses, WriterCloses
<1>7. CASE UNCHANGED vars
  BY <1>7, QuietStep DEF vars
<1>8. QED
  BY <1>1, <1>2, <1>3, <1>4, <1>5, <1>6, <1>7 DEF Next

LEMMA InitRefines == Init => Feed!Init
  BY DEF Init, Feed!Init

\* The hub implements the feed, for any clients, capacities and number of messages.
THEOREM HubKeepsFeed == Spec => KeepsFeed
<1>1. Inv /\ InOrder /\ [Next]_vars => (Inv /\ InOrder)'
  BY NextInv, InOrderNext
<1>2. Init => Inv /\ InOrder
  BY InitInv, InOrderInit
<1>3. Inv /\ InOrder /\ [Next]_vars => [Feed!Next]_(Feed!feed)
  BY StepRefines
<1>4. QED
  BY <1>1, <1>2, <1>3, InitRefines, PTL DEF Spec, KeepsFeed, Feed!Spec

-----------------------------------------------------------------------------
(* The rate limiter (IndexerRateLimiter).                                  *)

\* The recursion of Doubled up to k failures.
DoubledUpTo(g, k) == g = [n \in 0..k |-> IF n = 0 THEN MinInterval ELSE 2 * g[n - 1]]

\* There is a function that doubles, up to any number of failures: the least number for
\* which there is none would be one more than a number for which there is one.
LEMMA DoubledExists == \A k \in Nat : \E g : DoubledUpTo(g, k)
<1> DEFINE T == {k \in Nat : ~ \E g : DoubledUpTo(g, k)}
<1> SUFFICES ASSUME T # {} PROVE FALSE
    OBVIOUS
<1>1. PICK m \in T : \A k \in T : m <= k
  BY LeastNat
<1>2. CASE m = 0
  <2> DEFINE g == [n \in 0..0 |-> MinInterval]
  <2>1. DoubledUpTo(g, 0)
    BY DEF DoubledUpTo
  <2>2. QED
    BY <1>2, <2>1
<1>3. CASE m # 0
  <2>1. m - 1 \in Nat /\ m - 1 \notin T
    BY <1>1, <1>3
  <2>2. PICK g : DoubledUpTo(g, m - 1)
    BY <2>1
  <2> DEFINE h == [n \in 0..m |-> IF n = m THEN 2 * g[m - 1] ELSE g[n]]
  <2>3. DoubledUpTo(h, m)
    <3>1. \A n \in 0..m : h[n] = IF n = 0 THEN MinInterval ELSE 2 * h[n - 1]
      <4> SUFFICES ASSUME NEW n \in 0..m PROVE h[n] = IF n = 0 THEN MinInterval ELSE 2 * h[n - 1]
        OBVIOUS
      <4>1. CASE n = m
        BY <4>1, <1>3
      <4>2. CASE n # m
        <5>1. n \in 0..(m - 1) /\ h[n] = g[n]
          BY <4>2
        <5>2. g[n] = IF n = 0 THEN MinInterval ELSE 2 * g[n - 1]
          BY <5>1, <2>2 DEF DoubledUpTo
        <5>3. n # 0 => n - 1 \in 0..m /\ n - 1 # m
          BY <5>1
        <5>4. QED
          BY <5>1, <5>2, <5>3
      <4>3. QED
        BY <4>1, <4>2
    <3>2. h = [n \in 0..m |-> h[n]]
      OBVIOUS
    <3> HIDE DEF h
    <3>3. QED
      BY <3>1, <3>2 DEF DoubledUpTo
  <2>4. QED
    BY <2>3
<1>4. QED
  BY <1>2, <1>3

\* What Doubled is: it doubles, and is never less than the minimum interval.
LEMMA DoubledFacts ==
    /\ Doubled[0] = MinInterval
    /\ \A n \in 1..FailureCap : Doubled[n] = 2 * Doubled[n - 1]
    /\ \A n \in 0..FailureCap : Doubled[n] \in Nat /\ Doubled[n] >= MinInterval
<1> DEFINE D == CHOOSE g : DoubledUpTo(g, FailureCap)
<1>1. FailureCap \in Nat /\ MinInterval \in Nat
  BY LimiterAssumption
<1>2. DoubledUpTo(D, FailureCap)
  BY <1>1, DoubledExists
<1>3. Doubled = D
  BY DEF Doubled, DoubledUpTo
<1> HIDE DEF D
<1>4. \A n \in 0..FailureCap : Doubled[n] = IF n = 0 THEN MinInterval ELSE 2 * Doubled[n - 1]
  BY <1>2, <1>3 DEF DoubledUpTo
<1> DEFINE Good(n) == Doubled[n] \in Nat /\ Doubled[n] >= MinInterval
           T == {n \in 0..FailureCap : ~Good(n)}
<1>5. T = {}
  <2> SUFFICES ASSUME T # {} PROVE FALSE
    OBVIOUS
  <2>1. T \in SUBSET Nat
    OBVIOUS
  <2>2. PICK m \in T : \A k \in T : m <= k
    <3> HIDE DEF T
    <3>1. QED
      BY <2>1, LeastNat
  <2>3. m # 0
    BY <1>1, <1>4, <2>2
  <2>4. m - 1 \in 0..FailureCap /\ Good(m - 1)
    BY <1>1, <2>2, <2>3
  <2>5. Doubled[m] = 2 * Doubled[m - 1]
    BY <1>4, <2>2, <2>3
  <2>6. QED
    BY <1>1, <2>2, <2>4, <2>5
<1>6. QED
  BY <1>1, <1>4, <1>5

\* The inductive invariant of the limiter.
LimiterInv == LimiterTypeOK /\ BackoffFollowsFailures

\* The first state: no failure, no backoff.
LEMMA LimiterInitHolds == LimiterInit => LimiterInv
  BY LimiterAssumption DEF LimiterInit, LimiterInv, LimiterTypeOK, BackoffFollowsFailures, Never

\* What is left of the backoff is less than the limit.
LEMMA RemainingIsBounded == ASSUME LimiterInv PROVE Remaining \in 0..MaxBackoff
  BY LimiterAssumption DEF LimiterInv, LimiterTypeOK, Remaining, Never

\* Steps that leave the failures and the backoff alone.
LEMMA Quiet ==
    ASSUME LimiterInv, UNCHANGED <<backoff, failures>>,
           age' \in {Never} \cup 0..MaxBackoff, cool' \in 0..MaxBackoff,
           at' \in [Searchers -> {"idle", "wait", "sleep", "search"}], left' \in [Searchers -> 0..MaxBackoff]
    PROVE  LimiterInv'
  BY DEF LimiterInv, LimiterTypeOK, BackoffFollowsFailures

\* A searcher moves on.
LEMMA SearcherMoves ==
    ASSUME LimiterInv, NEW s \in Searchers, NEW to \in {"idle", "wait", "sleep", "search"}, LimiterGoto(s, to)
    PROVE  at' \in [Searchers -> {"idle", "wait", "sleep", "search"}]
  BY DEF LimiterInv, LimiterTypeOK, LimiterGoto

\* A failure doubles the backoff, up to the limit.
LEMMA FailureKeeps == ASSUME LimiterInv, NEW s \in Searchers, RecordFailure(s) PROVE LimiterInv'
<1> DEFINE last == Doubled[failures]
<1>1. /\ MinInterval \in Nat \ {0} /\ MaxBackoff \in Nat /\ FailureCap \in Nat /\ MinInterval <= MaxBackoff
      /\ Doubled[FailureCap] >= MaxBackoff
      /\ failures \in 0..FailureCap /\ backoff \in 0..MaxBackoff /\ cool \in 0..MaxBackoff
  BY LimiterAssumption DEF LimiterInv, LimiterTypeOK
<1>2. last \in Nat /\ last >= MinInterval /\ Doubled[0] = MinInterval
  BY <1>1, DoubledFacts
<1>3. backoff = IF failures = 0 THEN 0 ELSE Capped(last)
  BY DEF LimiterInv, BackoffFollowsFailures
<1>4. NewBackoff \in 0..MaxBackoff
  BY <1>1 DEF NewBackoff, Capped
<1>5. /\ failures' = (IF failures < FailureCap THEN failures + 1 ELSE failures)
      /\ backoff' = NewBackoff /\ cool' = IF failures' >= 3 THEN NewBackoff ELSE cool
      /\ LimiterGoto(s, "idle") /\ UNCHANGED <<age, left>>
  BY DEF RecordFailure
<1>6. failures' \in 0..FailureCap /\ backoff' \in 0..MaxBackoff /\ cool' \in 0..MaxBackoff
  BY <1>1, <1>4, <1>5
<1>7. LimiterTypeOK'
  <2>1. at' \in [Searchers -> {"idle", "wait", "sleep", "search"}]
    BY <1>5, SearcherMoves
  <2>2. QED
    BY <1>5, <1>6, <2>1 DEF LimiterInv, LimiterTypeOK
<1>8. BackoffFollowsFailures'
  <2>1. CASE failures = 0
    <3>1. Doubled[1] = 2 * MinInterval /\ failures' = 1
      BY <1>1, <1>5, <2>1, DoubledFacts, LimiterAssumption
    <3>2. NewBackoff = Capped(2 * MinInterval)
      BY <1>3, <2>1 DEF NewBackoff
    <3>3. QED
      BY <1>5, <3>1, <3>2 DEF BackoffFollowsFailures
  <2>2. CASE failures # 0 /\ failures < FailureCap
    <3>1. failures' = failures + 1 /\ failures + 1 \in 1..FailureCap /\ (failures + 1) - 1 = failures
      BY <1>1, <1>5, <2>2
    <3>2. Doubled[failures + 1] = 2 * last
      BY <3>1, DoubledFacts
    <3>3. backoff = Capped(last) /\ backoff # 0
      BY <1>1, <1>2, <1>3, <2>2 DEF Capped
    <3>4. NewBackoff = Capped(2 * last)
      <4>1. NewBackoff = Capped(2 * Capped(last))
        BY <3>3 DEF NewBackoff
      <4> HIDE DEF last
      <4>2. QED
        BY <1>1, <1>2, <4>1 DEF Capped
    <3>5. QED
      BY <1>1, <1>5, <3>1, <3>2, <3>4 DEF BackoffFollowsFailures
  <2>3. CASE failures = FailureCap
    <3>1. failures' = FailureCap /\ FailureCap # 0
      BY <1>5, <2>3, LimiterAssumption
    <3>2. last >= MaxBackoff
      BY <1>1, <2>3
    <3>3. backoff = MaxBackoff
      <4> HIDE DEF last
      <4>1. QED
        BY <1>1, <1>2, <1>3, <2>3, <3>1, <3>2 DEF Capped
    <3>4. NewBackoff = MaxBackoff /\ Capped(last) = MaxBackoff
      <4> HIDE DEF last
      <4>1. QED
        BY <1>1, <1>2, <3>2, <3>3 DEF NewBackoff, Capped
    <3>5. QED
      BY <1>5, <2>3, <3>1, <3>4 DEF BackoffFollowsFailures
  <2>4. QED
    BY <1>1, <2>1, <2>2, <2>3
<1>9. QED
  BY <1>7, <1>8 DEF LimiterInv

\* Time passes.
LEMMA TickKeeps == ASSUME LimiterInv, Tick PROVE LimiterInv'
<1>1. age' \in {Never} \cup 0..MaxBackoff
  BY LimiterAssumption DEF Tick, LimiterInv, LimiterTypeOK, Never, Capped
<1>2. cool' \in 0..MaxBackoff
  BY LimiterAssumption DEF Tick, LimiterInv, LimiterTypeOK, Less
<1>3. left' \in [Searchers -> 0..MaxBackoff]
  BY LimiterAssumption DEF Tick, LimiterInv, LimiterTypeOK, Less
<1>4. UNCHANGED <<backoff, failures, at>>
  BY DEF Tick
<1>5. QED
  BY <1>1, <1>2, <1>3, <1>4, Quiet DEF LimiterInv, LimiterTypeOK

\* A request is made, put off or given up.
LEMMA RequestKeeps ==
    ASSUME LimiterInv, NEW s \in Searchers, Allow(s) \/ IsCooldown(s) \/ Wait(s) \/ WakesUp(s) \/ Cancelled(s)
    PROVE  LimiterInv'
<1>1. StateKept
  BY DEF Allow, IsCooldown, Wait, WakesUp, Cancelled
<1>2. age' \in {Never} \cup 0..MaxBackoff
  BY LimiterAssumption DEF Allow, IsCooldown, Wait, WakesUp, Cancelled, GoAhead, Send, LimiterInv, LimiterTypeOK
<1>3. left' \in [Searchers -> 0..MaxBackoff]
  BY RemainingIsBounded DEF Allow, IsCooldown, Wait, WakesUp, Cancelled, LimiterInv, LimiterTypeOK
<1>4. \E to \in {"idle", "wait", "sleep", "search"} : LimiterGoto(s, to)
  BY DEF Allow, IsCooldown, Wait, WakesUp, Cancelled, GoAhead, Send
<1>5. at' \in [Searchers -> {"idle", "wait", "sleep", "search"}]
  BY <1>4, SearcherMoves
<1>6. QED
  BY <1>1, <1>2, <1>3, <1>5, Quiet DEF LimiterInv, LimiterTypeOK, StateKept

\* A success and a reset forget failures and backoff together.
LEMMA ForgetKeeps ==
    ASSUME LimiterInv, Reset \/ \E s \in Searchers : RecordSuccess(s) PROVE LimiterInv'
<1>1. failures' = 0 /\ backoff' = 0
  BY DEF Reset, RecordSuccess, ForgetAll
<1>2. age' \in {Never} \cup 0..MaxBackoff /\ cool' \in 0..MaxBackoff /\ left' = left
  BY LimiterAssumption DEF Reset, RecordSuccess, LimiterInv, LimiterTypeOK
<1>3. at' \in [Searchers -> {"idle", "wait", "sleep", "search"}]
  BY SearcherMoves DEF Reset, RecordSuccess, LimiterInv, LimiterTypeOK
<1>4. QED
  BY <1>1, <1>2, <1>3, LimiterAssumption DEF LimiterInv, LimiterTypeOK, BackoffFollowsFailures

\* One step of the limiter and its searchers.
LEMMA LimiterStep == LimiterInv /\ [LimiterNext]_limiterVars => LimiterInv'
<1> SUFFICES ASSUME LimiterInv, [LimiterNext]_limiterVars PROVE LimiterInv'
  OBVIOUS
<1>1. CASE Tick
  BY <1>1, TickKeeps
<1>2. CASE Reset
  BY <1>2, ForgetKeeps
<1>3. ASSUME NEW s \in Searchers, SearcherStep(s) \/ Allow(s) \/ IsCooldown(s) PROVE LimiterInv'
  BY <1>3, FailureKeeps, ForgetKeeps, RequestKeeps DEF SearcherStep, SearchEnds
<1>4. CASE UNCHANGED limiterVars
  BY <1>4 DEF limiterVars, LimiterInv, LimiterTypeOK, BackoffFollowsFailures
<1>5. QED
  BY <1>1, <1>2, <1>3, <1>4 DEF LimiterNext

\* The backoff of an indexer is its minimum interval doubled once for every failure since
\* the last success, up to the maximum (RecordFailure, RecordSuccess), for any number of
\* searchers, any interval and any maximum.
THEOREM BackoffFollows == LimiterSpec => []BackoffFollowsFailures
<1>1. LimiterInv => BackoffFollowsFailures
  BY DEF LimiterInv
<1>2. QED
  BY <1>1, LimiterInitHolds, LimiterStep, PTL DEF LimiterSpec

-----------------------------------------------------------------------------
(* Removing torrents from the client (TorrentClient).                      *)

Callers == [at : {"idle", "found", "wait"}, of : {None} \cup Torrents]
Inbounds == [at : {"off", "found", "serve"}, of : {None} \cup Torrents, open : BOOLEAN]

\* What a caller is at: the one that waits has the lock.
CallersInv ==
    \A r \in Removers : /\ caller[r].at # "idle" => caller[r].of \in Torrents /\ caller[r].of <= made
                        /\ caller[r].at = "wait" => lock = r
                        /\ caller[r].at = "found" => closer[caller[r].of] # r
ServedInv == \A c \in Inbound : inb[c].at # "off" => inb[c].of \in Torrents
\* A registered torrent that is closed is still being removed; numbers not yet given are
\* not closed.
RegisteredInv ==
    /\ reg # None /\ Closed(reg) => lock # FreeCaller
    /\ \A t \in Torrents : Closed(t) => t <= made

ClientInv == ClientTypeOK /\ CallersInv /\ ServedInv /\ RegisteredInv /\ ClosedTwiceByTwo

-----------------------------------------------------------------------------
\* The constants' part of the types.
LEMMA Numbers ==
    /\ MaxTorrents \in Nat /\ MaxPeers \in Nat /\ MaxSessions \in Nat
    /\ FreeCaller \notin Removers /\ None = 0
    /\ \A t \in Torrents : t \in Nat /\ t # None /\ t >= 1 /\ t <= MaxTorrents
  BY ClientAssumption DEF None, Torrents

\* The first state: nothing is registered, nobody calls.
LEMMA ClientInitHolds == ClientInit => ClientInv
<1> SUFFICES ASSUME ClientInit PROVE ClientInv
  OBVIOUS
<1>1. 0 \in 0..MaxTorrents /\ 0 \in 0..MaxSessions /\ MaxTorrents \in Nat /\ None = 0
  BY Numbers
<1> DEFINE idle == Idle
           off == NotThere
<1>2. idle \in Callers /\ idle.at = "idle" /\ off \in Inbounds /\ off.at = "off"
  BY DEF Idle, NotThere, Callers, Inbounds
<1>3. caller = [r \in Removers |-> idle] /\ inb = [c \in Inbound |-> off]
  BY DEF ClientInit
<1> HIDE DEF idle, off
<1>4. caller \in [Removers -> Callers] /\ inb \in [Inbound -> Inbounds]
  BY <1>2, <1>3
<1>5. /\ reg \in {None} \cup 1..made /\ made \in 0..MaxTorrents /\ lock \in Removers \cup {FreeCaller}
      /\ seek \in [Torrents -> {"off", "announce", "poll", "over"}]
      /\ toAdd \in [Torrents -> SUBSET Addrs] /\ connected \in [Torrents -> SUBSET (Addrs \cup Inbound)]
      /\ crash \in {"no", "closed twice", "peer after close", "no piece manager"}
  BY <1>1 DEF ClientInit
<1>6. closer \in [Torrents -> Removers \cup {FreeCaller}] /\ out \in [Torrents -> 0..MaxSessions]
  BY <1>1 DEF ClientInit
<1>7. ClientTypeOK
  BY <1>4, <1>5, <1>6 DEF ClientTypeOK, Callers, Inbounds
<1>8. CallersInv /\ ServedInv
  BY <1>2, <1>3 DEF CallersInv, ServedInv
<1>9. RegisteredInv /\ ClosedTwiceByTwo
  BY DEF ClientInit, RegisteredInv, Closed, ClosedTwiceByTwo
<1> QED BY <1>7, <1>8, <1>9 DEF ClientInv

-----------------------------------------------------------------------------
\* Steps that leave the registration, the callers and the closed torrents alone keep what is
\* known of them.
LEMMA OthersKeep ==
    ASSUME ClientInv, UNCHANGED <<reg, made, lock, caller, closer>>,
           crash' = "closed twice" => crash = "closed twice"
    PROVE  CallersInv' /\ RegisteredInv' /\ ClosedTwiceByTwo'
<1>1. CallersInv'
  BY DEF ClientInv, CallersInv
<1>2. RegisteredInv'
  BY DEF ClientInv, RegisteredInv, Closed
<1>3. ClosedTwiceByTwo'
  BY DEF ClientInv, ClosedTwiceByTwo
<1> QED BY <1>1, <1>2, <1>3

\* A new torrent has a number of its own, which is not closed.
LEMMA AddMagnetHolds == ASSUME ClientInv, AddMagnet PROVE ClientInv'
<1> DEFINE t == made + 1
<1>1. /\ made' = t /\ reg' = t /\ seek' = [seek EXCEPT ![t] = "announce"]
      /\ UNCHANGED <<lock, caller, toAdd, connected, closer, out, inb, crash>>
      /\ made < MaxTorrents /\ crash = "no" /\ lock = FreeCaller
  BY DEF AddMagnet, LockIsFree, Runs
<1>2. made \in 0..MaxTorrents
  BY DEF ClientInv, ClientTypeOK
<1>3. t \in Torrents /\ t \in 1..t /\ t \in 0..MaxTorrents /\ t > made
  BY <1>1, <1>2, Numbers DEF Torrents
<1>4. ~Closed(t)
  BY <1>2, <1>3 DEF ClientInv, RegisteredInv, Torrents
<1>5. \A u \in Torrents : u <= made => u <= t
  BY <1>2, Numbers
<1> HIDE DEF t
<1>6. ClientTypeOK'
  <2>1. seek' \in [Torrents -> {"off", "announce", "poll", "over"}]
    BY <1>1 DEF ClientInv, ClientTypeOK
  <2>2. reg' \in {None} \cup 1..made' /\ made' \in 0..MaxTorrents
    BY <1>1, <1>3
  <2> QED BY <1>1, <2>1, <2>2 DEF ClientInv, ClientTypeOK
<1>7. CallersInv' /\ ServedInv'
  BY <1>1, <1>5 DEF ClientInv, CallersInv, ServedInv
<1>8. RegisteredInv'
  BY <1>1, <1>4, <1>5 DEF ClientInv, RegisteredInv, Closed
<1>9. ClosedTwiceByTwo'
  BY <1>1 DEF ClosedTwiceByTwo
<1> QED BY <1>6, <1>7, <1>8, <1>9 DEF ClientInv

\* The search for peers and the sessions it starts.
LEMMA SearchHolds ==
    ASSUME ClientInv, NEW t \in Torrents, SeekStep(t) \/ SessionEnds(t)
    PROVE  ClientInv'
<1>1. /\ UNCHANGED <<reg, made, lock, caller, closer, inb>>
      /\ crash' \in {crash, "peer after close"}
  BY DEF SeekStep, SessionEnds, TrackersAnswer, Dial, AddPeer, Crashes
<1>2. CallersInv' /\ RegisteredInv' /\ ClosedTwiceByTwo'
  BY <1>1, OthersKeep
<1>3. ServedInv'
  BY <1>1 DEF ClientInv, ServedInv
<1>4. /\ seek \in [Torrents -> {"off", "announce", "poll", "over"}]
      /\ toAdd \in [Torrents -> SUBSET Addrs] /\ connected \in [Torrents -> SUBSET (Addrs \cup Inbound)]
      /\ out \in [Torrents -> 0..MaxSessions] /\ out[t] \in 0..MaxSessions
  BY DEF ClientInv, ClientTypeOK
<1>5. seek' \in [Torrents -> {"off", "announce", "poll", "over"}]
  BY <1>4 DEF SeekStep, SessionEnds, TrackersAnswer, Dial, AddPeer
<1>6. toAdd' \in [Torrents -> SUBSET Addrs]
  <2>1. CASE Dial(t)
    <3>1. PICK a \in Addrs : toAdd' = [toAdd EXCEPT ![t] = {a}]
      BY <2>1 DEF Dial, DhtFinds
    <3> QED BY <1>4, <3>1
  <2>2. CASE AddPeer(t)
    <3>1. toAdd' = [toAdd EXCEPT ![t] = {}]
      BY <2>2 DEF AddPeer
    <3> QED BY <1>4, <3>1
  <2>3. CASE TrackersAnswer(t) \/ SessionEnds(t)
    BY <1>4, <2>3 DEF TrackersAnswer, SessionEnds
  <2> QED BY <2>1, <2>2, <2>3 DEF SeekStep
<1>7. connected' \in [Torrents -> SUBSET (Addrs \cup Inbound)]
  <2>1. CASE AddPeer(t) /\ ~Closed(t)
    <3>1. PICK a \in toAdd[t] : connected' = [connected EXCEPT ![t] = WithPeer(t, a)]
      BY <2>1 DEF AddPeer
    <3>2. WithPeer(t, a) \in SUBSET (Addrs \cup Inbound)
      BY <1>4 DEF WithPeer
    <3> QED BY <1>4, <3>1, <3>2
  <2>2. CASE ~(AddPeer(t) /\ ~Closed(t))
    BY <1>4, <2>2 DEF SeekStep, SessionEnds, TrackersAnswer, Dial, AddPeer
  <2> QED BY <2>1, <2>2
<1>8. out' \in [Torrents -> 0..MaxSessions]
  <2>1. out' = out \/ \E k \in 0..MaxSessions : out' = [out EXCEPT ![t] = k]
    <3>1. CASE SessionEnds(t)
      <4>1. out[t] > 0 /\ out' = [out EXCEPT ![t] = out[t] - 1]
        BY <3>1 DEF SessionEnds
      <4>2. out[t] - 1 \in 0..MaxSessions
        BY <1>4, <4>1, Numbers
      <4> QED BY <4>1, <4>2
    <3>2. CASE AddPeer(t)
      <4>1. out[t] < MaxSessions /\ (out' = out \/ out' = [out EXCEPT ![t] = out[t] + 1])
        BY <3>2 DEF AddPeer
      <4>2. out[t] + 1 \in 0..MaxSessions
        BY <1>4, <4>1, Numbers
      <4> QED BY <4>1, <4>2
    <3>3. CASE TrackersAnswer(t) \/ Dial(t)
      BY <3>3 DEF TrackersAnswer, Dial
    <3> QED BY <3>1, <3>2, <3>3 DEF SeekStep
  <2> QED BY <1>4, <2>1
<1>9. ClientTypeOK'
  BY <1>1, <1>5, <1>6, <1>7, <1>8 DEF ClientInv, ClientTypeOK
<1> QED BY <1>2, <1>3, <1>9 DEF ClientInv

\* A connection from outside.
LEMMA InboundHolds ==
    ASSUME ClientInv, NEW c \in Inbound, InboundFinds(c) \/ InboundStep(c)
    PROVE  ClientInv'
<1>1. /\ UNCHANGED <<reg, made, lock, caller, closer, seek, toAdd, out>>
      /\ crash' \in {crash, "peer after close", "no piece manager"}
  BY DEF InboundFinds, InboundStep, InboundAdded, HandlerReturns, ReadsMessage, InboundReadFails, Crashes
<1>2. CallersInv' /\ RegisteredInv' /\ ClosedTwiceByTwo'
  BY <1>1, OthersKeep
<1>3. /\ inb \in [Inbound -> Inbounds] /\ inb[c] \in Inbounds
      /\ connected \in [Torrents -> SUBSET (Addrs \cup Inbound)]
      /\ reg \in {None} \cup 1..made /\ made \in 0..MaxTorrents
  BY DEF ClientInv, ClientTypeOK, Inbounds
<1>4. reg \in {None} \cup Torrents
  BY <1>3, Numbers DEF Torrents
<1>5. inb' = inb \/ \E k \in Inbounds : /\ inb' = [inb EXCEPT ![c] = k]
                                        /\ k.at # "off" => k.of \in Torrents
  <2>1. CASE InboundFinds(c)
    <3> DEFINE k == [at |-> "found", of |-> reg, open |-> TRUE]
    <3>1. reg \in Torrents /\ inb' = [inb EXCEPT ![c] = k]
      BY <1>4, <2>1 DEF InboundFinds
    <3>2. k \in Inbounds /\ k.of \in Torrents
      BY <3>1 DEF Inbounds
    <3> QED BY <3>1, <3>2
  <2>2. CASE InboundAdded(c) /\ inb' # inb
    <3> DEFINE b == Cardinality(connected[inb[c].of]) < MaxPeers
               k == [inb[c] EXCEPT !.at = "serve", !.open = b]
    <3>1. inb[c].at = "found" /\ inb' = [inb EXCEPT ![c] = k]
      BY <1>3, <2>2 DEF InboundAdded
    <3>0. b \in BOOLEAN
      OBVIOUS
    <3> HIDE DEF b
    <3>2. inb[c].of \in Torrents
      BY <3>1 DEF ClientInv, ServedInv
    <3>3. k \in Inbounds /\ k.of = inb[c].of
      BY <1>3, <3>0 DEF Inbounds
    <3> QED BY <3>1, <3>2, <3>3
  <2>3. CASE HandlerReturns(c)
    <3> DEFINE k == [inb[c] EXCEPT !.open = FALSE]
    <3>1. inb[c].at = "serve" /\ inb' = [inb EXCEPT ![c] = k]
      BY <1>3, <2>3 DEF HandlerReturns
    <3>2. inb[c].of \in Torrents
      BY <3>1 DEF ClientInv, ServedInv
    <3>3. k \in Inbounds /\ k.of = inb[c].of
      BY <1>3 DEF Inbounds
    <3> QED BY <3>1, <3>2, <3>3
  <2>4. CASE InboundReadFails(c)
    <3>1. inb' = [inb EXCEPT ![c] = NotThere] /\ NotThere \in Inbounds /\ NotThere.at = "off"
      BY <2>4 DEF InboundReadFails, NotThere, Inbounds
    <3> QED BY <3>1
  <2>5. CASE ReadsMessage(c)
    BY <2>5 DEF ReadsMessage
  <2> QED BY <2>1, <2>2, <2>3, <2>4, <2>5 DEF InboundStep
<1>6. inb' \in [Inbound -> Inbounds]
  BY <1>3, <1>5
<1>7. ServedInv'
  BY <1>3, <1>5 DEF ClientInv, ServedInv
<1>8. connected' \in [Torrents -> SUBSET (Addrs \cup Inbound)]
  <2>1. CASE InboundAdded(c)
    <3>1. WithPeer(inb[c].of, c) \in SUBSET (Addrs \cup Inbound) \/ inb[c].of \notin Torrents
      BY <1>3 DEF WithPeer
    <3>2. connected' = connected \/ connected' = [connected EXCEPT ![inb[c].of] = WithPeer(inb[c].of, c)]
      BY <2>1 DEF InboundAdded
    <3> QED BY <1>3, <3>1, <3>2
  <2>2. CASE InboundReadFails(c)
    <3>1. connected' = [connected EXCEPT ![inb[c].of] = connected[inb[c].of] \ {c}]
      BY <2>2 DEF InboundReadFails
    <3> QED BY <1>3, <3>1
  <2>3. CASE InboundFinds(c) \/ HandlerReturns(c) \/ ReadsMessage(c)
    BY <1>3, <2>3 DEF InboundFinds, HandlerReturns, ReadsMessage
  <2> QED BY <2>1, <2>2, <2>3 DEF InboundStep
<1>9. ClientTypeOK'
  BY <1>1, <1>6, <1>8 DEF ClientInv, ClientTypeOK, Inbounds
<1> QED BY <1>2, <1>7, <1>9 DEF ClientInv

-----------------------------------------------------------------------------
\* Whoever finds a torrent has not closed it: the lock is free.
LEMMA RemoveFindsHolds == ASSUME ClientInv, NEW r \in Removers, RemoveFinds(r) PROVE ClientInv'
<1> DEFINE k == [at |-> "found", of |-> reg]
<1>1. /\ caller' = [caller EXCEPT ![r] = k] /\ lock = FreeCaller /\ crash = "no" /\ reg # None
      /\ UNCHANGED <<reg, made, lock, seek, toAdd, connected, closer, out, inb, crash>>
  BY DEF RemoveFinds, LockIsFree, Runs
<1>2. caller \in [Removers -> Callers] /\ reg \in {None} \cup 1..made /\ made \in 0..MaxTorrents
  BY DEF ClientInv, ClientTypeOK, Callers
<1>3. reg \in Torrents /\ reg <= made
  BY <1>1, <1>2, Numbers DEF Torrents
<1>4. k \in Callers /\ k.at = "found" /\ k.of = reg
  BY <1>3 DEF Callers
<1> HIDE DEF k
<1>5. caller' \in [Removers -> Callers] /\ \A q \in Removers : caller'[q] = IF q = r THEN k ELSE caller[q]
  BY <1>1, <1>2, <1>4
<1>6. closer[reg] # r
  BY <1>1, Numbers DEF ClientInv, RegisteredInv, Closed
<1>7. ClientTypeOK'
  BY <1>1, <1>5 DEF ClientInv, ClientTypeOK, Callers
<1>8. CallersInv'
  BY <1>1, <1>3, <1>4, <1>5, <1>6 DEF ClientInv, CallersInv
<1>9. ServedInv' /\ RegisteredInv' /\ ClosedTwiceByTwo'
  BY <1>1 DEF ClientInv, ServedInv, RegisteredInv, Closed, ClosedTwiceByTwo
<1> QED BY <1>7, <1>8, <1>9 DEF ClientInv

\* The closer takes the lock, which nobody waits with; or the torrent is closed already, by
\* somebody else, and the process ends.
LEMMA RemoveClosesHolds == ASSUME ClientInv, NEW r \in Removers, RemoveCloses(r) PROVE ClientInv'
<1> DEFINE t == caller[r].of
<1>1. lock = FreeCaller /\ crash = "no" /\ caller[r].at = "found"
      /\ UNCHANGED <<reg, made, seek, toAdd, out>>
  BY DEF RemoveCloses, LockIsFree, Runs
<1>2. t \in Torrents /\ closer[t] # r /\ t <= made
  BY <1>1 DEF ClientInv, CallersInv
<1>3. CASE Closed(t)
  <2>1. crash' = "closed twice" /\ UNCHANGED <<lock, caller, closer, connected, inb>>
    BY <1>3 DEF RemoveCloses, Crashes
  <2>2. ClientTypeOK'
    BY <1>1, <2>1 DEF ClientInv, ClientTypeOK
  <2>3. CallersInv' /\ ServedInv' /\ RegisteredInv'
    BY <1>1, <2>1 DEF ClientInv, CallersInv, ServedInv, RegisteredInv, Closed
  <2>4. ClosedTwiceByTwo'
    BY <1>1, <1>2, <1>3, <2>1 DEF ClosedTwiceByTwo, Closed
  <2> QED BY <2>2, <2>3, <2>4 DEF ClientInv
<1>4. CASE ~Closed(t)
  <2> DEFINE k == [caller[r] EXCEPT !.at = "wait"]
  <2>1. /\ lock' = r /\ caller' = [caller EXCEPT ![r].at = "wait"] /\ crash' = crash
        /\ closer' = [closer EXCEPT ![t] = r] /\ connected' = [connected EXCEPT ![t] = {}]
        /\ inb' = [c \in Inbound |-> IF c \in connected[t] THEN [inb[c] EXCEPT !.open = FALSE] ELSE inb[c]]
    BY <1>4 DEF RemoveCloses
  <2>2. /\ caller \in [Removers -> Callers] /\ caller[r] \in Callers
        /\ inb \in [Inbound -> Inbounds] /\ closer \in [Torrents -> Removers \cup {FreeCaller}]
        /\ connected \in [Torrents -> SUBSET (Addrs \cup Inbound)]
        /\ reg \in {None} \cup 1..made /\ made \in 0..MaxTorrents
    BY DEF ClientInv, ClientTypeOK, Callers, Inbounds
  <2>3. caller' = [caller EXCEPT ![r] = k] /\ k \in Callers /\ k.at = "wait" /\ k.of = t
    BY <2>1, <2>2 DEF Callers
  <2> HIDE DEF k
  <2>4. caller' \in [Removers -> Callers] /\ \A q \in Removers : caller'[q] = IF q = r THEN k ELSE caller[q]
    BY <2>2, <2>3
  <2>5. \A c \in Inbound : inb'[c] \in Inbounds /\ inb'[c].at = inb[c].at /\ inb'[c].of = inb[c].of
    BY <2>1, <2>2 DEF Inbounds
  <2>6. inb' \in [Inbound -> Inbounds]
    BY <2>1, <2>5
  <2>7. /\ closer' \in [Torrents -> Removers \cup {FreeCaller}]
        /\ connected' \in [Torrents -> SUBSET (Addrs \cup Inbound)]
    BY <1>2, <2>1, <2>2
  <2>8. \A u \in Torrents : closer'[u] = IF u = t THEN r ELSE closer[u]
    BY <2>1, <2>2
  <2>9. ClientTypeOK'
    BY <1>1, <2>1, <2>4, <2>6, <2>7 DEF ClientInv, ClientTypeOK, Callers, Inbounds
  <2>10. ServedInv'
    BY <2>5 DEF ClientInv, ServedInv
  <2> HIDE DEF t
  <2>11. CallersInv'
    <3> SUFFICES ASSUME NEW q \in Removers
                 PROVE  /\ caller'[q].at # "idle" => caller'[q].of \in Torrents /\ caller'[q].of <= made'
                        /\ caller'[q].at = "wait" => lock' = q
                        /\ caller'[q].at = "found" => closer'[caller'[q].of] # q
      BY DEF CallersInv
    <3>1. CASE q = r
      BY <1>1, <1>2, <2>1, <2>3, <2>4, <3>1
    <3>2. CASE q # r
      <4>1. caller'[q] = caller[q]
        BY <2>4, <3>2
      <4>2. /\ caller[q].at # "idle" => caller[q].of \in Torrents /\ caller[q].of <= made
            /\ caller[q].at = "wait" => lock = q
            /\ caller[q].at = "found" => closer[caller[q].of] # q
        BY DEF ClientInv, CallersInv
      <4> QED BY <1>1, <2>8, <3>2, <4>1, <4>2, Numbers
    <3> QED BY <3>1, <3>2
  <2>12. RegisteredInv'
    <3>1. lock' # FreeCaller
      BY <2>1, Numbers
    <3> QED BY <1>1, <1>2, <2>8, <3>1, Numbers DEF ClientInv, RegisteredInv, Closed
  <2>13. ClosedTwiceByTwo'
    BY <1>1, <2>1 DEF ClosedTwiceByTwo
  <2> QED BY <2>9, <2>10, <2>11, <2>12, <2>13 DEF ClientInv
<1> QED BY <1>3, <1>4

\* The removal is over: nothing is registered any more.
LEMMA RemoveEndsHolds == ASSUME ClientInv, NEW r \in Removers, RemoveEnds(r) PROVE ClientInv'
<1> DEFINE k == [caller[r] EXCEPT !.at = "idle"]
<1>1. /\ caller' = [caller EXCEPT ![r].at = "idle"] /\ reg' = None /\ lock' = FreeCaller
      /\ UNCHANGED <<made, seek, toAdd, connected, closer, out, inb, crash>>
      /\ caller[r].at = "wait" /\ crash = "no"
  BY DEF RemoveEnds, Unregistered, Runs
<1>2. caller \in [Removers -> Callers] /\ caller[r] \in Callers
  BY DEF ClientInv, ClientTypeOK, Callers
<1>3. caller' = [caller EXCEPT ![r] = k] /\ k \in Callers /\ k.at = "idle"
  BY <1>1, <1>2 DEF Callers
<1> HIDE DEF k
<1>4. caller' \in [Removers -> Callers] /\ \A q \in Removers : caller'[q] = IF q = r THEN k ELSE caller[q]
  BY <1>2, <1>3
<1>5. lock = r
  BY <1>1 DEF ClientInv, CallersInv
<1>6. ClientTypeOK'
  BY <1>1, <1>4 DEF ClientInv, ClientTypeOK, Callers
<1>7. CallersInv'
  BY <1>1, <1>3, <1>4, <1>5 DEF ClientInv, CallersInv
<1>8. ServedInv' /\ RegisteredInv' /\ ClosedTwiceByTwo'
  BY <1>1 DEF ClientInv, ServedInv, RegisteredInv, Closed, ClosedTwiceByTwo
<1> QED BY <1>6, <1>7, <1>8 DEF ClientInv

\* Every step keeps the invariant.
LEMMA ClientStep == ClientInv /\ [ClientNext]_clientVars => ClientInv'
<1> SUFFICES ASSUME ClientInv, [ClientNext]_clientVars PROVE ClientInv'
  OBVIOUS
<1>1. CASE AddMagnet
  BY <1>1, AddMagnetHolds
<1>2. ASSUME NEW t \in Torrents, SeekStep(t) \/ SessionEnds(t) PROVE ClientInv'
  BY <1>2, SearchHolds
<1>3. ASSUME NEW c \in Inbound, InboundFinds(c) \/ InboundStep(c) PROVE ClientInv'
  BY <1>3, InboundHolds
<1>4. ASSUME NEW r \in Removers, RemoveFinds(r) PROVE ClientInv'
  BY <1>4, RemoveFindsHolds
<1>5. ASSUME NEW r \in Removers, RemoveStep(r) PROVE ClientInv'
  BY <1>5, RemoveClosesHolds, RemoveEndsHolds DEF RemoveStep
<1>6. CASE UNCHANGED clientVars
  <2>1. /\ UNCHANGED <<reg, made, lock, caller, closer>> /\ crash' = crash
        /\ inb' = inb /\ seek' = seek /\ toAdd' = toAdd /\ connected' = connected /\ out' = out
    BY <1>6 DEF clientVars
  <2>2. CallersInv' /\ RegisteredInv' /\ ClosedTwiceByTwo'
    BY <2>1, OthersKeep
  <2>3. ClientTypeOK' /\ ServedInv'
    BY <2>1 DEF ClientInv, ClientTypeOK, ServedInv
  <2> QED BY <2>2, <2>3 DEF ClientInv
<1> QED BY <1>1, <1>2, <1>3, <1>4, <1>5, <1>6 DEF ClientNext

LEMMA ClientInvHolds == ClientSpec => []ClientInv
<1>1. ClientInit => ClientInv
  BY ClientInitHolds
<1>2. ClientInv /\ [ClientNext]_clientVars => ClientInv'
  BY ClientStep
<1> QED BY <1>1, <1>2, PTL DEF ClientSpec

-----------------------------------------------------------------------------
\* The client, its torrents and the callers of RemoveTorrent keep their types (client.go).
THEOREM ClientTypes == ClientSpec => []ClientTypeOK
<1>1. ClientInv => ClientTypeOK
  BY DEF ClientInv
<1> QED BY <1>1, ClientInvHolds, PTL

\* A caller of RemoveTorrent closes what another has closed, and panics, only if it had found
\* the torrent first: a registered torrent is open whenever the lock is free.
THEOREM SecondCloseIsOvertaken == ClientSpec => []ClosedTwiceByTwo
<1>1. ClientInv => ClosedTwiceByTwo
  BY DEF ClientInv
<1> QED BY <1>1, ClientInvHolds, PTL

-----------------------------------------------------------------------------
(* The announces of a magnet link (TrackerAnnounce).                       *)

Good(t) == t \notin Refusing /\ Kind[t] \in {"http", "udp"} /\ Names[t] # {}
\* The announces to a tracker that are over.
Due(t) == IF t < asked THEN attempt ELSE attempt - 1
Exchanging == step \in {"connect", "announce"}

\* What is on the network belongs to the announce there is, and, while that is not rough,
\* to its present half.
NetworkInv ==
    /\ ~Exchanging => requests = {} /\ answers = {} /\ ~rough
    /\ Exchanging => asked \in Trackers /\ Kind[asked] \in {"udp", "strict"}
    /\ step = "connect" => requests \cup answers \subseteq {"connect"}
    /\ step = "connect" /\ ~rough => requests \cap answers = {}
    /\ step = "announce" /\ ~rough => "connect" \notin requests \cup answers
    /\ "error" \in answers => asked \in Refusing
\* Every announce to a tracker that would have named a peer was failed by the network.
TriedInv ==
    /\ step # "found" => allPeers = {}
    /\ step = "over" => asked = NumTrackers + 1 /\ attempt = Attempts
    /\ \A t \in Trackers : failed[t] <= Due(t) \/ step = "found"
    /\ \A t \in Trackers : Good(t) /\ step # "found" => failed[t] = Due(t)
AnnounceInv == AnnounceTypeOK /\ NetworkInv /\ TriedInv

LEMMA AnnounceInitHolds == AnnounceInit => AnnounceInv
<1> SUFFICES ASSUME AnnounceInit PROVE AnnounceInv
  OBVIOUS
<1>1. NumTrackers \in Nat /\ attempt = 1 /\ asked = 1 /\ step = "ask" /\ allPeers = {}
  BY TrackersAssumption DEF AnnounceInit
<1>2. \A t \in Trackers : failed[t] = 0 /\ Due(t) = 0
  BY <1>1 DEF AnnounceInit, Due, Trackers
<1>3. failed \in [Trackers -> 0..3]
  BY DEF AnnounceInit
<1>4. AnnounceTypeOK
  <2>1. attempt \in 1..3 /\ asked \in 1..(NumTrackers + 1) /\ allPeers \subseteq NamedPeers
    BY <1>1
  <2>2. requests = {} /\ answers = {} /\ rough = FALSE
    BY DEF AnnounceInit
  <2> QED BY <1>1, <1>3, <2>1, <2>2 DEF AnnounceTypeOK, Attempts
<1>5. NetworkInv /\ TriedInv
  BY <1>1, <1>2 DEF AnnounceInit, NetworkInv, TriedInv, Exchanging
<1> QED BY <1>4, <1>5 DEF AnnounceInv

\* An announce that is over, by an answer or without one.
LEMMA ConcludedKeeps ==
    ASSUME AnnounceInv, NEW peers \in SUBSET NamedPeers, NEW byNetwork \in BOOLEAN,
           asked \in Trackers, step \in {"ask", "connect", "announce"},
           Good(asked) => byNetwork \/ peers # {},
           Concluded(peers, byNetwork)
    PROVE  AnnounceInv'
<1>1. /\ NumTrackers \in Nat /\ asked \in Nat /\ 1 <= asked /\ asked <= NumTrackers
      /\ attempt \in 1..3 /\ allPeers = {} /\ failed \in [Trackers -> 0..3]
  BY TrackersAssumption DEF Trackers, AnnounceInv, AnnounceTypeOK, TriedInv, Attempts
<1>2. /\ allPeers' = peers /\ attempt' = attempt /\ requests' = {} /\ answers' = {} /\ rough' = FALSE
      /\ failed' = [failed EXCEPT ![asked] = @ + (IF byNetwork THEN 1 ELSE 0)]
      /\ IF peers = {} THEN step' = "ask" /\ asked' = asked + 1 ELSE step' = "found" /\ asked' = asked
  BY <1>1 DEF Concluded
<1>3. \A t \in Trackers : failed'[t] = IF t = asked THEN failed[t] + (IF byNetwork THEN 1 ELSE 0) ELSE failed[t]
  BY <1>1, <1>2
<1>4. \A t \in Trackers : t \in Nat /\ failed[t] \in 0..3 /\ failed[t] <= Due(t) /\ (Good(t) => failed[t] = Due(t))
  BY <1>1 DEF AnnounceInv, TriedInv, Trackers
<1>5. Due(asked) = attempt - 1
  BY <1>1 DEF Due
<1>6. failed' \in [Trackers -> 0..3]
  <2>1. failed[asked] + (IF byNetwork THEN 1 ELSE 0) \in 0..3
    BY <1>1, <1>4, <1>5
  <2> QED BY <1>1, <1>2, <2>1
<1>7. AnnounceTypeOK'
  <2>1. attempt' \in 1..3 /\ asked' \in 1..(NumTrackers + 1)
    BY <1>1, <1>2
  <2>2. step' \in {"ask", "found"} /\ allPeers' \subseteq NamedPeers
    BY <1>2
  <2> QED BY <1>2, <1>6, <2>1, <2>2 DEF AnnounceTypeOK, Attempts
<1>8. NetworkInv'
  BY <1>2 DEF NetworkInv, Exchanging
<1>9. TriedInv'
  <2>1. CASE peers = {}
    <3>1. \A t \in Trackers : Due(t)' = IF t = asked THEN attempt ELSE Due(t)
      BY <1>1, <1>2, <1>4, <2>1 DEF Due
    <3>2. \A t \in Trackers : failed'[t] <= Due(t)' /\ (Good(t) => failed'[t] = Due(t)')
      BY <1>1, <1>3, <1>4, <1>5, <2>1, <3>1
    <3> QED BY <1>2, <2>1, <3>2 DEF TriedInv, Good
  <2>2. CASE peers # {}
    BY <1>2, <2>2 DEF TriedInv
  <2> QED BY <2>1, <2>2
<1> QED BY <1>7, <1>8, <1>9 DEF AnnounceInv

\* Steps that leave the counts alone.
LEMMA CountsKept ==
    ASSUME AnnounceInv, UNCHANGED <<attempt, asked, allPeers, failed>>,
           step' \in {"connect", "announce"}, step # "found"
    PROVE  TriedInv'
  BY DEF AnnounceInv, TriedInv, Due, Good

LEMMA AnnounceStep == AnnounceInv /\ [AnnounceNext]_announceVars => AnnounceInv'
<1> SUFFICES ASSUME AnnounceInv, [AnnounceNext]_announceVars PROVE AnnounceInv'
  OBVIOUS
<1>0. \A t \in Trackers : Names[t] \in SUBSET NamedPeers
  BY DEF NamedPeers
<1>1. CASE NotSupported
  BY <1>1, ConcludedKeeps DEF NotSupported, Asks, Good
<1>2. CASE HttpAnswers
  <2> DEFINE peers == IF asked \in Refusing THEN {} ELSE Names[asked]
  <2>1. asked \in Trackers /\ step = "ask" /\ Concluded(peers, FALSE)
    BY <1>2 DEF HttpAnswers, Asks
  <2>2. peers \in SUBSET NamedPeers /\ (Good(asked) => peers # {})
    BY <1>0, <2>1 DEF Good
  <2> HIDE DEF peers
  <2> QED BY <2>1, <2>2, ConcludedKeeps
<1>3. CASE HttpFails
  BY <1>3, ConcludedKeeps DEF HttpFails, Asks
<1>4. CASE UdpConnect
  <2>1. step' = "connect" /\ step = "ask" /\ asked \in Trackers /\ Kind[asked] \in {"udp", "strict"}
        /\ requests' = {"connect"} /\ UNCHANGED <<attempt, asked, answers, allPeers, rough, failed>>
    BY <1>4 DEF UdpConnect, Asks
  <2>2. AnnounceTypeOK' /\ NetworkInv'
    BY <2>1 DEF AnnounceInv, AnnounceTypeOK, NetworkInv, Exchanging
  <2> QED BY <2>1, <2>2, CountsKept DEF AnnounceInv
<1>5. CASE TrackerAnswers
  <2>1. PICK d \in requests : Delivered(d, requests) /\ answers' = answers \cup AnswerTo(d)
    BY <1>5 DEF TrackerAnswers
  <2>2. UNCHANGED <<attempt, asked, step, allPeers, failed>>
    BY <1>5 DEF TrackerAnswers
  <2>3. Exchanging /\ asked \in Trackers /\ step # "found" /\ d \in {"connect", "announce"}
    BY <2>1 DEF AnnounceInv, AnnounceTypeOK, NetworkInv, Exchanging
  <2>4. AnnounceTypeOK'
    BY <2>1, <2>2, <2>3 DEF AnnounceInv, AnnounceTypeOK, Delivered, AnswerTo
  <2>5. NetworkInv'
    BY <2>1, <2>2, <2>3 DEF AnnounceInv, AnnounceTypeOK, NetworkInv, Exchanging, Delivered, AnswerTo
  <2> QED BY <2>2, <2>3, <2>4, <2>5, CountsKept DEF AnnounceInv, Exchanging
<1>6. CASE Lost
  <2>1. /\ requests' \subseteq requests /\ answers' \subseteq answers /\ rough' = TRUE
        /\ UNCHANGED <<attempt, asked, step, allPeers, failed>> /\ requests \cup answers # {}
    BY <1>6 DEF Lost
  <2>2. Exchanging /\ step # "found"
    BY <2>1 DEF AnnounceInv, NetworkInv, Exchanging
  <2>3. AnnounceTypeOK' /\ NetworkInv'
    BY <2>1, <2>2 DEF AnnounceInv, AnnounceTypeOK, NetworkInv, Exchanging
  <2> QED BY <2>1, <2>2, <2>3, CountsKept DEF AnnounceInv, Exchanging
<1>7. CASE ConnectAnswered
  <2>1. /\ step = "connect" /\ "connect" \in answers /\ Delivered("connect", answers)
        /\ step' = "announce" /\ requests' = requests \cup {"announce"}
        /\ UNCHANGED <<attempt, asked, allPeers, failed>>
    BY <1>7 DEF ConnectAnswered
  <2>2. AnnounceTypeOK /\ NetworkInv
    BY DEF AnnounceInv
  <2>3. answers' \subseteq answers /\ rough' \in BOOLEAN
        /\ (~rough' => ~rough /\ answers' = answers \ {"connect"})
    BY <2>1, <2>2 DEF Delivered, AnnounceTypeOK
  <2>4. AnnounceTypeOK'
    BY <2>1, <2>2, <2>3 DEF AnnounceTypeOK
  <2>5. NetworkInv'
    BY <2>1, <2>2, <2>3 DEF NetworkInv, Exchanging
  <2> QED BY <2>1, <2>4, <2>5, CountsKept DEF AnnounceInv
<1>8. CASE AnnounceAnswered
  <2>1. PICK d \in answers : Concluded(IF d = "announce" THEN Names[asked] ELSE {}, rough)
    BY <1>8 DEF AnnounceAnswered
  <2> DEFINE peers == IF d = "announce" THEN Names[asked] ELSE {}
  <2>2. step = "announce" /\ asked \in Trackers /\ rough \in BOOLEAN
    BY <1>8 DEF AnnounceAnswered, AnnounceInv, AnnounceTypeOK, NetworkInv, Exchanging
  <2>3. peers \in SUBSET NamedPeers
    BY <1>0, <2>2
  <2>4. Good(asked) => rough \/ peers # {}
    BY <2>2 DEF Good, AnnounceInv, AnnounceTypeOK, NetworkInv
  <2>5. Concluded(peers, rough)
    BY <2>1
  <2> HIDE DEF peers
  <2> QED BY <2>2, <2>3, <2>4, <2>5, ConcludedKeeps
<1>9. CASE TimesOut
  BY <1>9, ConcludedKeeps DEF TimesOut, AnnounceInv, NetworkInv, Exchanging
<1>10. CASE NextAttempt
  <2>1. /\ step = "ask" /\ asked = NumTrackers + 1 /\ attempt \in 1..3 /\ NumTrackers \in Nat
        /\ UNCHANGED <<requests, answers, allPeers, rough, failed>>
    BY <1>10, TrackersAssumption DEF NextAttempt, AnnounceInv, AnnounceTypeOK, Attempts
  <2>2. \/ attempt < 3 /\ attempt' = attempt + 1 /\ asked' = 1 /\ step' = "ask"
        \/ attempt = 3 /\ step' = "over" /\ attempt' = attempt /\ asked' = asked
    BY <1>10, <2>1 DEF NextAttempt, LastAttempt, Attempts
  <2>3. AnnounceTypeOK' /\ NetworkInv'
    BY <2>1, <2>2 DEF AnnounceInv, AnnounceTypeOK, NetworkInv, Exchanging, Attempts
  <2>4. \A t \in Trackers : Due(t)' = Due(t) /\ Due(t) = attempt
    BY <2>1, <2>2 DEF Due, Trackers
  <2>5. TriedInv'
    BY <2>1, <2>2, <2>4 DEF AnnounceInv, TriedInv, Good, Attempts
  <2> QED BY <2>3, <2>5 DEF AnnounceInv
<1>11. CASE UNCHANGED announceVars
  BY <1>11 DEF announceVars, AnnounceInv, AnnounceTypeOK, NetworkInv, TriedInv, Due, Good, Exchanging
<1> QED BY <1>1, <1>2, <1>3, <1>4, <1>5, <1>6, <1>7, <1>8, <1>9, <1>10, <1>11 DEF AnnounceNext

\* Whatever trackers a link has, and whatever becomes of its datagrams, the torrent stays
\* without peers only if the network has failed each announce to each tracker that would
\* have named one (downloadMetadata of client.go, tracker/client.go).
THEOREM EachTrackerHadItsChances == AnnounceSpec => []OneExchangeIsEnough
<1>1. AnnounceInv => OneExchangeIsEnough
  <2> SUFFICES ASSUME AnnounceInv, step = "over", NEW t \in Trackers \ Refusing,
                      Kind[t] \in {"http", "udp"}, Names[t] # {}
               PROVE  failed[t] = Attempts
    BY DEF OneExchangeIsEnough
  <2>1. asked = NumTrackers + 1 /\ attempt = Attempts /\ failed[t] = Due(t)
    BY DEF AnnounceInv, TriedInv, Good
  <2>2. t < asked
    BY <2>1, TrackersAssumption DEF Trackers
  <2> QED BY <2>1, <2>2 DEF Due
<1> QED BY <1>1, AnnounceInitHolds, AnnounceStep, PTL DEF AnnounceSpec

-----------------------------------------------------------------------------
(* The accounts of the server (Accounts).                                  *)

\* Two logins of a subject at a time are remembered, and so is one that had found no account
\* when another one has inserted it since.
LoginInv ==
    /\ \A b, c \in Browsers : b # c /\ login[b] = login[c] /\ login[b] # NoLogin => login[b] \in overlapped
    /\ \A b \in Browsers : login[b] # NoLogin /\ AccountsOf(login[b]) # {} => login[b] \in overlapped
AccountsInv == AccountsTypeOK /\ LoginInv /\ OneAccountEach

LEMMA AccountsInitHolds == AccountsInit => AccountsInv
  BY AccountsAssumption
  DEF AccountsInit, AccountsInv, AccountsTypeOK, LoginInv, OneAccountEach, AccountsOf, Nobody, Roles, NoKey

\* The row of a key, or nobody's, is an identity.
LEMMA UserOfType ==
    ASSUME AccountsTypeOK, NEW k, NEW c
    PROVE  UserOf(k, c) \in [id : Nat, role : Roles, oidc : BOOLEAN]
<1>1. ASSUME NEW n \in 1..Len(users) PROVE Known(n) \in [id : Nat, role : Roles, oidc : BOOLEAN]
  <2>1. users[n] \in User /\ n \in Nat /\ oidc \in BOOLEAN
    BY DEF AccountsTypeOK
  <2>2. users[n].role \in Roles
    BY <2>1 DEF User
  <2> QED BY <2>1, <2>2 DEF Known
<1>2. ASSUME NEW key, WithKey(key) # {} PROVE First(WithKey(key)) \in 1..Len(users)
  <2>1. WithKey(key) \subseteq Nat
    BY DEF WithKey, AccountsTypeOK
  <2>2. PICK n \in WithKey(key) : \A m \in WithKey(key) : n <= m
    BY <1>2, <2>1, LeastNat
  <2>3. First(WithKey(key)) \in WithKey(key)
    BY <2>2 DEF First
  <2> QED BY <2>3 DEF WithKey
<1>3. Nobody \in [id : Nat, role : Roles, oidc : BOOLEAN] /\ DefaultAdmin \in [id : Nat, role : Roles, oidc : BOOLEAN]
  BY DEF Nobody, DefaultAdmin, Roles
<1> QED BY <1>1, <1>2, <1>3 DEF UserOf

\* A login finds an account, or remembers the others that look for one.
LEMMA FindUserHolds ==
    ASSUME AccountsInv, NEW b \in Browsers, NEW s \in Subjects, FindUser(b, s) PROVE AccountsInv'
<1>1. UNCHANGED <<oidc, unique, users, keys, identity>> /\ login[b] = NoLogin
  BY DEF FindUser
<1>2. AccountsOf(s) \subseteq 1..Len(users) /\ AccountsOf(s) \subseteq Nat
  BY DEF AccountsOf, AccountsInv, AccountsTypeOK
<1>3. CASE AccountsOf(s) # {}
  <2>1. First(AccountsOf(s)) \in AccountsOf(s)
    <3>1. PICK n \in AccountsOf(s) : \A m \in AccountsOf(s) : n <= m
      BY <1>2, <1>3, LeastNat
    <3> QED BY <3>1 DEF First
  <2>2. users[First(AccountsOf(s))].key \in NoKey..MaxKeys
    <3>1. users[First(AccountsOf(s))] \in User
      BY <1>2, <2>1 DEF AccountsInv, AccountsTypeOK
    <3> QED BY <3>1, AccountsAssumption DEF User, NoKey
  <2>3. /\ cookie' = [cookie EXCEPT ![b] = users[First(AccountsOf(s))].key]
        /\ UNCHANGED <<login, overlapped>>
    BY <1>3 DEF FindUser, FoundUsers
  <2>4. AccountsTypeOK'
    BY <1>1, <2>2, <2>3 DEF AccountsInv, AccountsTypeOK
  <2> QED BY <1>1, <2>3, <2>4 DEF AccountsInv, LoginInv, OneAccountEach, AccountsOf
<1>4. CASE AccountsOf(s) = {}
  <2>1. /\ login' = [login EXCEPT ![b] = s] /\ cookie' = cookie
        /\ overlapped' = overlapped \cup {t \in {s} : \E c \in Browsers : login[c] = t}
    BY <1>4 DEF FindUser, FoundUsers
  <2>2. AccountsTypeOK'
    BY <1>1, <2>1 DEF AccountsInv, AccountsTypeOK
  <2>3. \A c \in Browsers : login'[c] = IF c = b THEN s ELSE login[c]
    BY <2>1 DEF AccountsInv, AccountsTypeOK
  <2>4. \A t : AccountsOf(t)' = AccountsOf(t)
    BY <1>1 DEF AccountsOf
  <2>5. LoginInv'
    BY <1>1, <1>4, <2>1, <2>3, <2>4 DEF AccountsInv, LoginInv
  <2>6. OneAccountEach'
    BY <1>1, <2>1, <2>4 DEF AccountsInv, OneAccountEach
  <2> QED BY <2>2, <2>5, <2>6 DEF AccountsInv
<1> QED BY <1>3, <1>4

\* An account is inserted, or was refused.
LEMMA InsertUserHolds == ASSUME AccountsInv, NEW b \in Browsers, InsertUser(b) PROVE AccountsInv'
<1>0. PICK s : s = login[b]
  OBVIOUS
<1> DEFINE u == NewUser(s)
<1>1. /\ s # NoLogin /\ keys < MaxKeys /\ keys' = keys + 1
      /\ users' = users \/ (~(unique /\ IsThere(u)) /\ users' = Append(users, u))
      /\ cookie' = [cookie EXCEPT ![b] = u.key] /\ login' = [login EXCEPT ![b] = NoLogin]
      /\ UNCHANGED <<oidc, unique, identity, overlapped>>
  BY <1>0 DEF InsertUser
<1>2. /\ s \in Subjects /\ keys \in 0..MaxKeys /\ MaxKeys \in Nat /\ users \in Seq(User)
      /\ login \in [Browsers -> Subjects \cup {NoLogin}] /\ cookie \in [Browsers -> NoKey..MaxKeys]
  BY <1>0, <1>1, AccountsAssumption DEF AccountsInv, AccountsTypeOK
<1>3. u \in User /\ u.key \in NoKey..MaxKeys /\ u.subject = s
  BY <1>1, <1>2, AccountsAssumption DEF NewUser, User, Roles, NoKey
<1> HIDE DEF u
<1>4. \A c \in Browsers : login'[c] = IF c = b THEN NoLogin ELSE login[c]
  BY <1>1, <1>2
<1>5. users' \in Seq(User)
  BY <1>1, <1>2, <1>3
<1>6. AccountsTypeOK'
  BY <1>1, <1>2, <1>3, <1>5 DEF AccountsInv, AccountsTypeOK
<1>7. CASE users' = users
  <2>1. \A t : AccountsOf(t)' = AccountsOf(t)
    BY <1>7 DEF AccountsOf
  <2>2. LoginInv' /\ OneAccountEach'
    BY <1>1, <1>4, <2>1 DEF AccountsInv, LoginInv, OneAccountEach
  <2> QED BY <1>6, <2>2 DEF AccountsInv
<1>8. CASE ~(unique /\ IsThere(u)) /\ users' = Append(users, u)
  <2>1. Len(users') = Len(users) + 1 /\ users'[Len(users) + 1] = u
        /\ \A n \in 1..Len(users) : users'[n] = users[n]
    BY <1>2, <1>3, <1>8
  <2>2. \A t : t # s => AccountsOf(t)' = AccountsOf(t)
    BY <1>2, <1>3, <2>1 DEF AccountsOf
  <2>3. AccountsOf(s)' = AccountsOf(s) \cup {Len(users) + 1}
    BY <1>2, <1>3, <2>1 DEF AccountsOf
  <2>4. unique => AccountsOf(s) = {}
    BY <1>3, <1>8 DEF IsThere, AccountsOf
  <2>5. LoginInv'
    <3>1. (\A c, d \in Browsers : c # d /\ login[c] = login[d] /\ login[c] # NoLogin => login[c] \in overlapped)'
      BY <1>1, <1>4 DEF AccountsInv, LoginInv
    <3>2. ASSUME NEW c \in Browsers, (login[c] # NoLogin /\ AccountsOf(login[c]) # {})'
          PROVE  (login[c] \in overlapped)'
      <4>1. c # b /\ login'[c] = login[c]
        BY <1>4, <3>2
      <4>2. CASE login[c] = s
        BY <1>0, <1>1, <4>1, <4>2 DEF AccountsInv, LoginInv
      <4>3. CASE login[c] # s
        <5>1. PICK t : t = login[c]
          OBVIOUS
        <5>2. AccountsOf(t)' # {}
          BY <3>2, <4>1, <5>1 DEF AccountsOf
        <5>3. AccountsOf(t) # {}
          BY <2>2, <4>3, <5>1, <5>2
        <5> QED BY <1>1, <3>2, <4>1, <5>1, <5>3 DEF AccountsInv, LoginInv
      <4> QED BY <4>2, <4>3
    <3> QED BY <3>1, <3>2 DEF LoginInv
  <2>6. OneAccountEach'
    <3> SUFFICES ASSUME NEW t \in Subjects, NEW m \in AccountsOf(t)', NEW n \in AccountsOf(t)', m # n
                 PROVE  t \in overlapped' /\ ~unique'
      BY DEF OneAccountEach
    <3>1. CASE t = s
      <4>1. AccountsOf(s) # {}
        BY <2>3, <3>1
      <4>2. s \in overlapped
        BY <1>0, <1>1, <4>1 DEF AccountsInv, LoginInv
      <4> QED BY <1>1, <2>4, <3>1, <4>1, <4>2
    <3>2. CASE t # s
      BY <1>1, <2>2, <3>2 DEF AccountsInv, OneAccountEach
    <3> QED BY <3>1, <3>2
  <2> QED BY <1>6, <2>5, <2>6 DEF AccountsInv
<1> QED BY <1>1, <1>7, <1>8

LEMMA AccountsStep == AccountsInv /\ [AccountsNext]_accountVars => AccountsInv'
<1> SUFFICES ASSUME AccountsInv, [AccountsNext]_accountVars PROVE AccountsInv'
  OBVIOUS
<1>1. ASSUME NEW b \in Browsers, InsertUser(b) PROVE AccountsInv'
  BY <1>1, InsertUserHolds
<1>2. ASSUME NEW b \in Browsers, NEW s \in Subjects, FindUser(b, s) PROVE AccountsInv'
  BY <1>2, FindUserHolds
<1>3. ASSUME NEW b \in Browsers, Logout(b) PROVE AccountsInv'
  BY <1>3, AccountsAssumption
  DEF Logout, AccountsInv, AccountsTypeOK, LoginInv, OneAccountEach, AccountsOf, NoKey
<1>4. ASSUME NEW b \in Browsers, NEW k \in NoKey..MaxKeys, Request(b, k) PROVE AccountsInv'
  <2>1. UNCHANGED <<oidc, unique, users, keys, login, cookie, overlapped>>
        /\ identity' \in [id : Nat, role : Roles, oidc : BOOLEAN]
    BY <1>4, UserOfType DEF Request, AccountsInv
  <2> QED BY <2>1 DEF AccountsInv, AccountsTypeOK, LoginInv, OneAccountEach, AccountsOf
<1>5. CASE Restarts
  BY <1>5 DEF Restarts, AccountsInv, AccountsTypeOK, LoginInv, OneAccountEach, AccountsOf
<1>6. CASE UNCHANGED accountVars
  BY <1>6 DEF accountVars, AccountsInv, AccountsTypeOK, LoginInv, OneAccountEach, AccountsOf
<1> QED BY <1>1, <1>2, <1>3, <1>4, <1>5, <1>6 DEF AccountsNext

\* For any browsers and subjects, a subject that never had two logins at a time without an
\* account has one account at most (handleOIDCCallback).
THEOREM OnlyOverlapsDuplicate == AccountsSpec => []OneAccountEach
<1>1. AccountsInv => OneAccountEach
  BY DEF AccountsInv
<1> QED BY <1>1, AccountsInitHolds, AccountsStep, PTL DEF AccountsSpec

\* With OIDC no request is an administrator's, whoever has logged in before or since
\* (getCurrentUser, adminMiddleware).
THEOREM NobodyIsAdmin == AccountsSpec => []NoAdminByLogin
<1> DEFINE Ordinary == /\ \A n \in 1..Len(users) : users[n].role = "user"
                       /\ NoAdminByLogin
<1>1. AccountsInit => Ordinary
  BY DEF AccountsInit, NoAdminByLogin, Nobody
<1>2. Ordinary /\ AccountsInv /\ [AccountsNext]_accountVars => Ordinary'
  <2> SUFFICES ASSUME Ordinary, AccountsInv, [AccountsNext]_accountVars PROVE Ordinary'
    OBVIOUS
  <2>1. ASSUME NEW b \in Browsers, InsertUser(b) PROVE Ordinary'
    <3> DEFINE u == NewUser(login[b])
    <3>1. users \in Seq(User) /\ u.role = "user" /\ identity' = identity
          /\ (users' = users \/ users' = Append(users, u))
      BY <2>1 DEF InsertUser, NewUser, AccountsInv, AccountsTypeOK
    <3> HIDE DEF u
    <3> QED BY <3>1 DEF NoAdminByLogin
  <2>2. ASSUME NEW b \in Browsers, NEW k \in NoKey..MaxKeys, Request(b, k) PROVE Ordinary'
    <3>1. users' = users /\ identity' = UserOf(k, cookie[b])
      BY <2>2 DEF Request
    <3>2. ASSUME NEW key, WithKey(key) # {} PROVE Known(First(WithKey(key))).role = "user"
      <4>1. WithKey(key) \subseteq 1..Len(users) /\ WithKey(key) \subseteq Nat
        BY DEF WithKey, AccountsInv, AccountsTypeOK
      <4>2. PICK n \in WithKey(key) : \A m \in WithKey(key) : n <= m
        BY <3>2, <4>1, LeastNat
      <4>3. First(WithKey(key)) \in WithKey(key)
        BY <4>2 DEF First
      <4> QED BY <4>1, <4>3 DEF Known
    <3> QED BY <3>1, <3>2 DEF UserOf, Nobody, DefaultAdmin, NoAdminByLogin
  <2>3. CASE \E b \in Browsers : Logout(b) \/ \E s \in Subjects : FindUser(b, s)
    BY <2>3 DEF Logout, FindUser, NoAdminByLogin
  <2>4. CASE Restarts \/ UNCHANGED accountVars
    BY <2>4 DEF Restarts, accountVars, NoAdminByLogin
  <2> QED BY <2>1, <2>2, <2>3, <2>4 DEF AccountsNext
<1> QED BY <1>1, <1>2, AccountsInitHolds, AccountsStep, PTL DEF AccountsSpec

-----------------------------------------------------------------------------
(* The settings (Settings).                                                *)

Requests == [at : RequestSteps, key : SettingKeys \cup {NoKeyYet}, value : SettingValues \cup {NoValue}]
Patching == {"patch", "update", "insert", "updated"}
Writing(a) == request[a].at \in {"update", "insert", "rollback"}
\* A key that a patch has still to write.
Ahead(a, k) == k \in todo[a] \/ (request[a].at \in {"update", "insert"} /\ request[a].key = k)
DoneWith(a, k) ==
    \/ <<a, k>> \in stored \cup broken
    \/ <<a, k>> \in refused /\ \E b \in Admins \ {a} : <<b, k>> \in stored

RequestsInv ==
    \A a \in Admins :
        /\ Writing(a) => request[a].key \in SettingKeys /\ request[a].value \in SettingValues
        /\ request[a].at = "chosen" => request[a].key \in SettingKeys
        /\ request[a].at \notin {"patch", "update", "insert"} => todo[a] = {}
        /\ todo[a] \subseteq DOMAIN Patch[a]
        /\ request[a].at \in {"update", "insert"} => request[a].key \notin todo[a]
\* A value that is there was written by a request, and a request writes a key once.
WrittenInv ==
    /\ \A k \in SettingKeys : Present(k) => \E b \in Admins : <<b, k>> \in stored
    /\ \A a \in Admins : \A k \in SettingKeys :
         Ahead(a, k) \/ request[a].at = "idle" => <<a, k>> \notin stored
PatchInv ==
    \A a \in Admins : request[a].at \in Patching =>
        \A k \in DOMAIN Patch[a] : Ahead(a, k) \/ DoneWith(a, k)
SettingsInv == SettingsTypeOK /\ RequestsInv /\ WrittenInv /\ PatchInv

LEMMA SettingsInitHolds == SettingsInit => SettingsInv
<1> SUFFICES ASSUME SettingsInit PROVE SettingsInv
  OBVIOUS
<1> DEFINE idle == At("idle", NoKeyYet, NoValue)
<1>1. idle \in Requests /\ idle.at = "idle"
  BY DEF At, Requests, RequestSteps
<1>2. request = [a \in Admins |-> idle]
  BY DEF SettingsInit
<1> HIDE DEF idle
<1>3. SettingsTypeOK
  BY <1>1, <1>2 DEF SettingsInit, SettingsTypeOK, Requests
<1>4. RequestsInv /\ WrittenInv /\ PatchInv
  BY <1>1, <1>2 DEF SettingsInit, RequestsInv, WrittenInv, PatchInv, Writing, Present, Patching
<1> QED BY <1>3, <1>4 DEF SettingsInv

\* A request moves to a step, of a key and with a value.
LEMMA MoveIs ==
    ASSUME SettingsTypeOK, NEW a \in Admins, NEW to \in Requests, Moves(a, to)
    PROVE  /\ request' \in [Admins -> Requests]
           /\ \A b \in Admins : request'[b] = IF b = a THEN to ELSE request[b]
  BY DEF SettingsTypeOK, Moves, Requests

\* A written value is the key's newest.
LEMMA StoreIs ==
    ASSUME SettingsTypeOK, NEW a \in Admins, NEW k \in SettingKeys, request[a].value \in SettingValues, Stores(a, k)
    PROVE  /\ past' \in [SettingKeys -> Seq(SettingValues)] /\ stored' = stored \cup {<<a, k>>}
           /\ \A l \in SettingKeys \ {k} : past'[l] = past[l]
  BY DEF SettingsTypeOK, Stores

\* What a step of a patch may leave behind: it moves to "patch" and is done with its key.
LEMMA KeyDone ==
    ASSUME SettingsInv, NEW a \in Admins, request[a].at \in {"update", "insert"}, Moves(a, Between),
           UNCHANGED <<version, todo>>,
           NEW k, k = request[a].key,
           \/ Stores(a, k) /\ UNCHANGED <<refused, broken>>
           \/ broken' = broken \cup {<<a, k>>} /\ UNCHANGED <<past, stored, refused>>
           \/ /\ refused' = refused \cup {<<a, k>>} /\ UNCHANGED <<past, stored, broken>>
              /\ Present(k)
    PROVE  SettingsInv'
<1>1. /\ k \in SettingKeys /\ request[a].value \in SettingValues /\ SettingsTypeOK
      /\ Ahead(a, k) /\ <<a, k>> \notin stored
  BY DEF SettingsInv, RequestsInv, WrittenInv, Writing, Ahead
<1> DEFINE to == Between
<1>2. to \in Requests /\ to.at = "patch"
  BY DEF Between, At, Requests, RequestSteps
<1> HIDE DEF to
<1>3. /\ request' \in [Admins -> Requests]
      /\ \A b \in Admins : request'[b] = IF b = a THEN to ELSE request[b]
  BY <1>1, <1>2, MoveIs DEF to
<1>4. /\ stored \subseteq stored' /\ stored' \subseteq stored \cup {<<a, k>>}
      /\ refused \subseteq refused' /\ broken \subseteq broken' /\ stored' \subseteq Pairs
      /\ refused' \subseteq Pairs /\ broken' \subseteq Pairs
      /\ past' \in [SettingKeys -> Seq(SettingValues)]
      /\ \A l \in SettingKeys : past'[l] # past[l] => l = k /\ <<a, k>> \in stored'
  BY <1>1, StoreIs DEF SettingsTypeOK, Pairs
<1>5. SettingsTypeOK'
  BY <1>1, <1>3, <1>4 DEF SettingsTypeOK, Requests
<1>6. RequestsInv'
  BY <1>2, <1>3 DEF SettingsInv, RequestsInv, Writing
<1>7. todo' = todo /\ k \notin todo[a]
  BY DEF SettingsInv, RequestsInv
<1>8. \A b \in Admins : \A l : Ahead(b, l)' <=> Ahead(b, l) /\ <<b, l>> # <<a, k>>
  BY <1>2, <1>3, <1>7 DEF Ahead
<1>9. WrittenInv'
  <2>1. ASSUME NEW l \in SettingKeys, Present(l)' PROVE \E b \in Admins : <<b, l>> \in stored'
    BY <1>4, <2>1 DEF SettingsInv, WrittenInv, Present
  <2>2. ASSUME NEW b \in Admins, NEW l \in SettingKeys, Ahead(b, l)' \/ request'[b].at = "idle"
        PROVE  <<b, l>> \notin stored'
    <3>1. <<b, l>> # <<a, k>> /\ (Ahead(b, l) \/ request[b].at = "idle")
      BY <1>2, <1>3, <1>8, <2>2, <1>1 DEF SettingsInv, WrittenInv, Ahead
    <3> QED BY <1>4, <3>1 DEF SettingsInv, WrittenInv
  <2> QED BY <2>1, <2>2 DEF WrittenInv
<1>10. DoneWith(a, k)'
  <2>1. CASE <<a, k>> \in stored' \cup broken'
    BY <2>1 DEF DoneWith
  <2>2. CASE Present(k) /\ <<a, k>> \in refused'
    <3>1. PICK b \in Admins : <<b, k>> \in stored
      BY <1>1, <2>2 DEF SettingsInv, WrittenInv
    <3> QED BY <1>1, <1>4, <2>2, <3>1 DEF DoneWith
  <2> QED BY <1>1, <2>1, <2>2, StoreIs
<1>11. \A b \in Admins : \A l : DoneWith(b, l) => DoneWith(b, l)'
  BY <1>4 DEF DoneWith
<1>12. PatchInv'
  <2> SUFFICES ASSUME NEW b \in Admins, request'[b].at \in Patching, NEW l \in DOMAIN Patch[b]
               PROVE  Ahead(b, l)' \/ DoneWith(b, l)'
    BY DEF PatchInv
  <2>1. request[b].at \in Patching
    BY <1>3 DEF Patching
  <2> QED BY <1>8, <1>10, <1>11, <2>1 DEF SettingsInv, PatchInv
<1> QED BY <1>5, <1>6, <1>9, <1>12 DEF SettingsInv

\* Steps that write nothing, by which a request keeps or loses no key that is ahead of it.
LEMMA NothingWritten ==
    ASSUME SettingsInv, UNCHANGED <<past, stored, refused, broken>>, NEW a \in Admins, NEW to \in Requests,
           Moves(a, to), version' \in [Admins -> Nat], todo' \in [Admins -> SUBSET SettingKeys],
           \A b \in Admins \ {a} : todo'[b] = todo[b],
           to.at \in {"update", "insert", "rollback"} => to.key \in SettingKeys /\ to.value \in SettingValues,
           to.at = "chosen" => to.key \in SettingKeys,
           to.at \notin {"patch", "update", "insert"} => todo'[a] = {}, todo'[a] \subseteq DOMAIN Patch[a],
           to.at \in {"update", "insert"} => to.key \notin todo'[a],
           to.at # "idle",
           \A k \in SettingKeys : Ahead(a, k)' => Ahead(a, k) \/ request[a].at = "idle",
           to.at \in Patching => \A k \in DOMAIN Patch[a] :
                Ahead(a, k)' \/ (request[a].at \in Patching /\ ~Ahead(a, k))
    PROVE  SettingsInv'
<1>1. /\ request' \in [Admins -> Requests]
      /\ \A b \in Admins : request'[b] = IF b = a THEN to ELSE request[b]
  BY MoveIs DEF SettingsInv
<1>2. SettingsTypeOK'
  BY <1>1 DEF SettingsInv, SettingsTypeOK, Requests
<1>3. RequestsInv'
  BY <1>1 DEF SettingsInv, RequestsInv, Writing
<1>4. \A b \in Admins \ {a} : \A k : Ahead(b, k)' <=> Ahead(b, k)
  BY <1>1 DEF Ahead
<1>5. WrittenInv'
  <2>1. ASSUME NEW k \in SettingKeys, Present(k)' PROVE \E b \in Admins : <<b, k>> \in stored'
    BY <2>1 DEF SettingsInv, WrittenInv, Present
  <2>2. ASSUME NEW b \in Admins, NEW k \in SettingKeys, Ahead(b, k)' \/ request'[b].at = "idle"
        PROVE  <<b, k>> \notin stored'
    BY <1>1, <1>4, <2>2 DEF SettingsInv, WrittenInv
  <2> QED BY <2>1, <2>2 DEF WrittenInv
<1>6. PatchInv'
  <2> SUFFICES ASSUME NEW b \in Admins, request'[b].at \in Patching, NEW k \in DOMAIN Patch[b]
               PROVE  Ahead(b, k)' \/ DoneWith(b, k)'
    BY DEF PatchInv
  <2>1. DoneWith(b, k) => DoneWith(b, k)'
    BY DEF DoneWith
  <2>2. CASE b = a
    BY <1>1, <2>1, <2>2 DEF SettingsInv, PatchInv
  <2>3. CASE b # a
    BY <1>1, <1>4, <2>1, <2>3 DEF SettingsInv, PatchInv
  <2> QED BY <2>2, <2>3
<1> QED BY <1>2, <1>3, <1>5, <1>6 DEF SettingsInv

\* A patch begins, looks a key up, and is answered.
LEMMA PatchHolds ==
    ASSUME SettingsInv, NEW a \in Admins, StartPatch(a) \/ AnswerUpdated(a) \/ \E k \in SettingKeys : LookUp(a, k)
    PROVE  SettingsInv'
<1>1. /\ SettingsTypeOK /\ request[a] \in Requests /\ todo \in [Admins -> SUBSET SettingKeys]
      /\ DOMAIN Patch[a] \subseteq SettingKeys /\ \A k \in DOMAIN Patch[a] : Patch[a][k] \in SettingValues
  BY SettingsAssumption DEF SettingsInv, SettingsTypeOK, Requests
<1>2. CASE StartPatch(a)
  <2> DEFINE to == Between
  <2>1. to \in Requests /\ to.at = "patch"
    BY DEF Between, At, Requests, RequestSteps
  <2>2. /\ Moves(a, to) /\ request[a].at = "idle" /\ todo' = [todo EXCEPT ![a] = DOMAIN Patch[a]]
        /\ UNCHANGED <<past, version, stored, refused, broken>>
    BY <1>2 DEF StartPatch
  <2> HIDE DEF to
  <2>3. request'[a] = to
    BY <1>1, <2>1, <2>2, MoveIs
  <2>4. \A k : Ahead(a, k)' <=> k \in DOMAIN Patch[a]
    BY <1>1, <2>1, <2>2, <2>3 DEF Ahead
  <2>5. todo' \in [Admins -> SUBSET SettingKeys] /\ \A b \in Admins \ {a} : todo'[b] = todo[b]
    BY <1>1, <2>2
  <2>6. version' \in [Admins -> Nat]
    BY <1>1, <2>2 DEF SettingsTypeOK
  <2> QED BY <2>1, <2>2, <2>4, <2>5, <2>6, NothingWritten
<1>3. ASSUME NEW k \in SettingKeys, LookUp(a, k) PROVE SettingsInv'
  <2> DEFINE to == At(IF Present(k) THEN "update" ELSE "insert", k, Patch[a][k])
  <2>1. /\ Moves(a, to) /\ request[a].at = "patch" /\ k \in todo[a] /\ todo' = [todo EXCEPT ![a] = @ \ {k}]
        /\ UNCHANGED <<past, version, stored, refused, broken>>
    BY <1>3 DEF LookUp
  <2>2. k \in DOMAIN Patch[a]
    BY <2>1 DEF SettingsInv, RequestsInv
  <2>3. to \in Requests /\ to.at \in {"update", "insert"} /\ to.key = k /\ to.value \in SettingValues
    BY <1>1, <2>2 DEF At, Requests, RequestSteps
  <2> HIDE DEF to
  <2>4. request'[a] = to
    BY <1>1, <2>1, <2>3, MoveIs
  <2>5. todo'[a] = todo[a] \ {k} /\ todo' \in [Admins -> SUBSET SettingKeys]
        /\ \A b \in Admins \ {a} : todo'[b] = todo[b]
    BY <1>1, <2>1
  <2>6. todo'[a] \subseteq DOMAIN Patch[a]
    BY <2>5 DEF SettingsInv, RequestsInv
  <2>7. \A l : Ahead(a, l)' <=> Ahead(a, l)
    BY <2>1, <2>3, <2>4, <2>5 DEF Ahead
  <2>8. version' \in [Admins -> Nat] /\ request[a].at \in Patching
    BY <1>1, <2>1 DEF SettingsTypeOK, Patching
  <2>9. to.at # "idle" /\ to.at # "updated" /\ to.at # "chosen" /\ to.key \notin todo'[a]
    BY <2>3, <2>5
  <2> QED BY <2>1, <2>3, <2>5, <2>6, <2>7, <2>8, <2>9, NothingWritten
<1>4. CASE AnswerUpdated(a)
  <2> DEFINE to == At("updated", NoKeyYet, NoValue)
  <2>1. to \in Requests /\ to.at = "updated"
    BY DEF At, Requests, RequestSteps
  <2>2. /\ Moves(a, to) /\ request[a].at = "patch" /\ todo[a] = {}
        /\ UNCHANGED <<past, version, todo, stored, refused, broken>>
    BY <1>4 DEF AnswerUpdated
  <2> HIDE DEF to
  <2>3. request'[a] = to
    BY <1>1, <2>1, <2>2, MoveIs
  <2>4. \A k : ~Ahead(a, k) /\ ~Ahead(a, k)'
    BY <2>1, <2>2, <2>3 DEF Ahead
  <2>5. version' \in [Admins -> Nat] /\ request[a].at \in Patching
    BY <1>1, <2>2 DEF SettingsTypeOK, Patching
  <2> QED BY <1>1, <2>1, <2>2, <2>4, <2>5, NothingWritten
<1> QED BY <1>2, <1>3, <1>4

\* A rollback chooses a version, reads it and writes it back.
LEMMA RollbackHolds ==
    ASSUME SettingsInv, NEW a \in Admins, ReadVersion(a) \/ WriteBack(a) \/ \E k \in SettingKeys : ListVersions(a, k)
    PROVE  SettingsInv'
<1>1. /\ SettingsTypeOK /\ request[a] \in Requests /\ todo \in [Admins -> SUBSET SettingKeys]
      /\ request[a].at \in {"idle", "chosen", "rollback"} /\ version \in [Admins -> Nat]
      /\ todo[a] = {}
  BY DEF SettingsInv, SettingsTypeOK, RequestsInv, Requests, ReadVersion, WriteBack, ListVersions
<1>2. ASSUME NEW to \in Requests, to.at \in {"chosen", "rollback", "rolled back", "failed"}, Moves(a, to),
             todo' = todo
      PROVE  \A k \in SettingKeys : Ahead(a, k)' => Ahead(a, k) \/ request[a].at = "idle"
  BY <1>1, <1>2, MoveIs DEF Ahead
<1>3. ASSUME NEW k \in SettingKeys, ListVersions(a, k) PROVE SettingsInv'
  <2> DEFINE to == At("chosen", k, NoValue)
  <2>1. to \in Requests /\ to.at = "chosen" /\ to.key = k
    BY DEF At, Requests, RequestSteps
  <2>2. Moves(a, to) /\ UNCHANGED <<past, todo, stored, refused, broken>>
    BY <1>3 DEF ListVersions
  <2>3. PICK n \in Kept(k) : version' = [version EXCEPT ![a] = n]
    BY <1>3 DEF ListVersions
  <2>4. n \in Nat
    BY DEF Kept
  <2>5. version' \in [Admins -> Nat]
    BY <1>1, <2>3, <2>4
  <2> HIDE DEF to
  <2> QED BY <1>1, <1>2, <2>1, <2>2, <2>5, NothingWritten DEF Patching
<1>4. CASE ReadVersion(a)
  <2>1. PICK k \in SettingKeys : k = request[a].key
    BY <1>4 DEF ReadVersion, SettingsInv, RequestsInv
  <2> DEFINE to == IF version[a] \in Kept(k) THEN At("rollback", k, past[k][version[a]])
                   ELSE At("failed", NoKeyYet, NoValue)
  <2>2. Moves(a, to) /\ UNCHANGED <<past, version, todo, stored, refused, broken>>
    BY <1>4, <2>1 DEF ReadVersion
  <2>3. version[a] \in Kept(k) => past[k][version[a]] \in SettingValues
    BY <1>1 DEF Kept, SettingsTypeOK
  <2>4. /\ to \in Requests /\ to.at \in {"rollback", "failed"}
        /\ to.at = "rollback" => to.key \in SettingKeys /\ to.value \in SettingValues
    BY <2>1, <2>3 DEF At, Requests, RequestSteps
  <2> HIDE DEF to
  <2> QED BY <1>1, <1>2, <2>2, <2>4, NothingWritten DEF Patching
<1>5. CASE WriteBack(a)
  <2>1. CASE Moves(a, At("failed", NoKeyYet, NoValue)) /\ UNCHANGED <<past, stored>>
    <3> DEFINE to == At("failed", NoKeyYet, NoValue)
    <3>1. to \in Requests /\ to.at = "failed"
      BY DEF At, Requests, RequestSteps
    <3>2. Moves(a, to) /\ UNCHANGED <<past, version, todo, stored, refused, broken>>
      BY <1>5, <2>1 DEF WriteBack
    <3> HIDE DEF to
    <3> QED BY <1>1, <1>2, <3>1, <3>2, NothingWritten DEF Patching
  <2>2. CASE Stores(a, request[a].key) /\ Moves(a, At("rolled back", request[a].key, request[a].value))
    <3>1. PICK k \in SettingKeys : k = request[a].key
      BY <1>5 DEF WriteBack, SettingsInv, RequestsInv, Writing
    <3>2. request[a].value \in SettingValues /\ request[a].at = "rollback"
          /\ UNCHANGED <<version, todo, refused, broken>>
      BY <1>5 DEF WriteBack, SettingsInv, RequestsInv, Writing
    <3> DEFINE to == At("rolled back", k, request[a].value)
    <3>3. to \in Requests /\ to.at = "rolled back" /\ Moves(a, to)
      BY <2>2, <3>1, <3>2 DEF At, Requests, RequestSteps
    <3> HIDE DEF to
    <3>4. /\ request' \in [Admins -> Requests]
          /\ \A b \in Admins : request'[b] = IF b = a THEN to ELSE request[b]
      BY <1>1, <3>3, MoveIs
    <3>5. /\ past' \in [SettingKeys -> Seq(SettingValues)] /\ stored' = stored \cup {<<a, k>>}
          /\ \A l \in SettingKeys \ {k} : past'[l] = past[l]
      BY <1>1, <2>2, <3>1, <3>2, StoreIs
    <3>6. SettingsTypeOK'
      BY <1>1, <3>2, <3>4, <3>5 DEF SettingsTypeOK, Requests, Pairs
    <3>7. RequestsInv'
      BY <3>2, <3>3, <3>4 DEF SettingsInv, RequestsInv, Writing
    <3>8. \A b \in Admins : \A l : (Ahead(b, l)' => Ahead(b, l)) /\ (b # a => Ahead(b, l)' = Ahead(b, l))
      BY <3>2, <3>3, <3>4 DEF Ahead
    <3>9. \A l : ~Ahead(a, l)'
      BY <3>2, <3>3, <3>4 DEF Ahead, SettingsInv, RequestsInv
    <3>10. WrittenInv'
      <4>1. ASSUME NEW l \in SettingKeys, Present(l)' PROVE \E b \in Admins : <<b, l>> \in stored'
        <5>1. CASE l = k
          BY <3>5, <5>1
        <5>2. CASE l # k
          BY <3>5, <4>1, <5>2 DEF SettingsInv, WrittenInv, Present
        <5> QED BY <5>1, <5>2
      <4>2. ASSUME NEW b \in Admins, NEW l \in SettingKeys, Ahead(b, l)' \/ request'[b].at = "idle"
            PROVE  <<b, l>> \notin stored'
        <5>1. b # a
          BY <3>3, <3>4, <3>9, <4>2
        <5> QED BY <3>4, <3>5, <3>8, <4>2, <5>1 DEF SettingsInv, WrittenInv
      <4> QED BY <4>1, <4>2 DEF WrittenInv
    <3>11. PatchInv'
      <4> SUFFICES ASSUME NEW b \in Admins, request'[b].at \in Patching, NEW l \in DOMAIN Patch[b]
                   PROVE  Ahead(b, l)' \/ DoneWith(b, l)'
        BY DEF PatchInv
      <4>1. b # a /\ request[b].at \in Patching
        BY <3>3, <3>4 DEF Patching
      <4>2. DoneWith(b, l) => DoneWith(b, l)'
        BY <3>2, <3>5 DEF DoneWith
      <4> QED BY <3>8, <4>1, <4>2 DEF SettingsInv, PatchInv
    <3> QED BY <3>6, <3>7, <3>10, <3>11 DEF SettingsInv
  <2> QED BY <1>5, <2>1, <2>2 DEF WriteBack
<1> QED BY <1>3, <1>4, <1>5

\* A patch writes a key, or fails to.
LEMMA WriteHolds ==
    ASSUME SettingsInv, NEW a \in Admins, UpdateSetting(a) \/ InsertSetting(a) PROVE SettingsInv'
<1>1. PICK k : k = request[a].key
  OBVIOUS
<1>2. request[a].at \in {"update", "insert"} /\ Moves(a, Between) /\ UNCHANGED <<version, todo>>
  BY DEF UpdateSetting, InsertSetting, GoesOn
<1>3. \/ Stores(a, k) /\ UNCHANGED <<refused, broken>>
      \/ broken' = broken \cup {<<a, k>>} /\ UNCHANGED <<past, stored, refused>>
      \/ /\ refused' = refused \cup {<<a, k>>} /\ UNCHANGED <<past, stored, broken>>
         /\ Present(k)
  BY <1>1 DEF UpdateSetting, InsertSetting, GoesOn
<1> QED BY <1>1, <1>2, <1>3, KeyDone

LEMMA SettingsStep == SettingsInv /\ [SettingsNext]_settingsVars => SettingsInv'
<1> SUFFICES ASSUME SettingsInv, [SettingsNext]_settingsVars PROVE SettingsInv'
  OBVIOUS
<1>1. CASE UNCHANGED settingsVars
  <2>1. UNCHANGED <<past, request, version, todo, stored, refused, broken>>
    BY <1>1 DEF settingsVars
  <2> QED BY <2>1 DEF SettingsInv, SettingsTypeOK, RequestsInv, WrittenInv, PatchInv,
                      Writing, Present, Ahead, DoneWith
<1> QED BY <1>1, PatchHolds, RollbackHolds, WriteHolds DEF SettingsNext

\* For any requests and patches: a patch answered "updated" has written every key whose
\* write did not fail and that no other request inserted meanwhile (handlePatchSettings).
THEOREM PatchesAreWhole == SettingsSpec => []UpdatedIsWritten
<1>1. SettingsInv => UpdatedIsWritten
  <2> SUFFICES ASSUME SettingsInv, NEW a \in Admins, request[a].at = "updated", NEW k \in DOMAIN Patch[a]
               PROVE  DoneWith(a, k)
    BY DEF UpdatedIsWritten, DoneWith
  <2>1. todo[a] = {} /\ request[a].at \in Patching
    BY DEF SettingsInv, RequestsInv, Patching
  <2> QED BY <2>1 DEF SettingsInv, PatchInv, Ahead
<1> QED BY <1>1, SettingsInitHolds, SettingsStep, PTL DEF SettingsSpec

-----------------------------------------------------------------------------
(* The bytes of a connection (PeerWire).                                   *)

Sides == {"standard", "ours", "mirror"}
\* What a client of BEP 3 and a process of this program answer a handshake with begins with
\* another byte than a handshake of this program does.
FirstByte == IF kind = "standard" THEN 19 ELSE 0
DialInv ==
    role = "dials" =>
        /\ here # "found" /\ (there = "greet" => inBytes = <<>>)
        /\ kind # "mirror" =>
             /\ here \in {"greet", "reply", "over"}
             /\ here \in {"greet", "reply"} /\ inBytes # <<>> => inBytes[1] = FirstByte
             /\ here \in {"greet", "reply"} /\ there # "greet" => inBytes # <<>>
\* What a listener sends is an unchoke, once.
ListenInv ==
    role = "listens" =>
        /\ outBytes \in {<<>>, Welcome}
        /\ here \in {"greet", "found"} => outBytes = <<>>
        /\ kind # "mirror" => there # "talk"
WireInv == WireTypeOK /\ DialInv /\ ListenInv

\* Bytes joined, and the first of them.
LEMMA Joined ==
    ASSUME NEW s \in Seq(Nat), NEW t \in Seq(Nat)
    PROVE  /\ s \o t \in Seq(Nat) /\ Len(s \o t) = Len(s) + Len(t)
           /\ s # <<>> => (s \o t)[1] = s[1]
<1>1. /\ s \o t \in Seq(Nat) /\ Len(s \o t) = Len(s) + Len(t)
      /\ \A i \in 1..(Len(s) + Len(t)) : (s \o t)[i] = IF i <= Len(s) THEN s[i] ELSE t[i - Len(s)]
  BY ConcatProperties
<1>2. Len(s) \in Nat /\ Len(t) \in Nat /\ (s # <<>> => Len(s) >= 1)
  OBVIOUS
<1> QED BY <1>1, <1>2

LEMMA FirstBytes ==
    ASSUME NEW s \in Seq(Nat), NEW n \in Nat, n >= 1, n <= Len(s)
    PROVE  SubSeq(s, 1, n) \in Seq(Nat) /\ Len(SubSeq(s, 1, n)) = n /\ SubSeq(s, 1, n)[1] = s[1]
<1>1. SubSeq(s, 1, n) \in Seq(Nat)
  OBVIOUS
<1>2. Len(SubSeq(s, 1, n)) = n
  OBVIOUS
<1>3. SubSeq(s, 1, n)[1] = s[1]
  OBVIOUS
<1> QED BY <1>1, <1>2, <1>3

\* The handshakes are bytes, of which the first tells them apart.
LEMMA Handshakes ==
    /\ Bytes \in Seq(Nat) /\ Len(Bytes) = 68 /\ Bytes[1] = 100
    /\ Standard \in Seq(Nat) /\ Len(Standard) = 68 /\ Standard[1] = 19
<1>1. \A i \in 0..68 : FieldByte(i) \in Nat
  BY DEF FieldByte
<1>2. FieldByte(1) = 100
  BY DEF FieldByte
<1>3. Bytes \in [1..68 -> Nat] /\ Bytes[1] = 100
  BY <1>1, <1>2 DEF Bytes
<1>4. Standard \in [1..68 -> Nat] /\ Standard[1] = 19
  BY <1>1 DEF Standard
<1>5. Bytes \in Seq(Nat) /\ Len(Bytes) = 68
  BY <1>1 DEF Bytes
<1>6. Standard \in Seq(Nat) /\ Len(Standard) = 68
  BY <1>1 DEF Standard
<1> QED BY <1>3, <1>4, <1>5, <1>6

LEMMA WelcomeBytes == Welcome \in Seq(Nat) /\ Len(Welcome) = 5 /\ Welcome[1] = 0
<1> DEFINE head == <<0, 0, 0, 1>>
           type == <<1>>
           none == <<>>
<1>1. /\ head \in Seq(Nat) /\ Len(head) = 4 /\ head[1] = 0 /\ head # <<>>
      /\ type \in Seq(Nat) /\ Len(type) = 1 /\ none \in Seq(Nat) /\ Len(none) = 0
  OBVIOUS
<1>2. Welcome = (head \o type) \o none
  <2>1. Len(Unchoke.payload) + 1 = 1 /\ Unchoke.payload = none /\ Unchoke.type = 1
    BY DEF Unchoke
  <2>2. FourBytes(1) = head
    BY DEF FourBytes
  <2> HIDE DEF head, none
  <2> QED BY <2>1, <2>2 DEF Welcome, Frame
<1> HIDE DEF head, type, none
<1>3. head \o type \in Seq(Nat) /\ Len(head \o type) = Len(head) + Len(type) /\ (head \o type)[1] = head[1]
  BY <1>1, Joined, Zenon
<1>4. head \o type # <<>>
  BY <1>1, <1>3
<1>5. /\ (head \o type) \o none \in Seq(Nat)
      /\ Len((head \o type) \o none) = Len(head \o type) + Len(none)
      /\ ((head \o type) \o none)[1] = (head \o type)[1]
  BY <1>1, <1>3, <1>4, Joined, Zenon
<1> QED BY <1>1, <1>2, <1>3, <1>5

\* A message's frame.
LEMMA FrameType == ASSUME NEW m \in [type : Nat, payload : Seq(Nat)] PROVE Frame(m) \in Seq(Nat)
<1>1. Len(m.payload) \in Nat /\ m.type \in Nat /\ m.payload \in Seq(Nat)
  OBVIOUS
<1> DEFINE n == Len(m.payload) + 1
<1>2. n \in Nat
  BY <1>1
<1> HIDE DEF n
<1>3. n \div 16777216 \in Nat /\ (n \div 65536) % 256 \in Nat /\ (n \div 256) % 256 \in Nat /\ n % 256 \in Nat
  BY <1>2
<1>4. FourBytes(n) \in Seq(Nat)
  BY <1>3 DEF FourBytes
<1> QED BY <1>1, <1>4 DEF Frame, n

\* Bytes that begin with another byte are no handshake of this program.
LEMMA NoAgreement ==
    ASSUME NEW data \in Seq(Nat), Len(data) >= 68, data[1] # 100 PROVE ~Agrees(SubSeq(data, 1, 68))
<1> DEFINE head == SubSeq(data, 1, 68)
<1>1. head \in Seq(Nat) /\ Len(head) = 68 /\ head[1] = data[1]
  <2>1. 68 \in Nat /\ 68 >= 1 /\ 68 <= Len(data)
    OBVIOUS
  <2> QED BY <2>1, FirstBytes, Zenon
<1> HIDE DEF head
<1>2. SubSeq(head, 1, 19)[1] = head[1]
  BY <1>1, FirstBytes
<1>3. SubSeq(Bytes, 1, 19)[1] = 100
  BY Handshakes, FirstBytes
<1> QED BY <1>1, <1>2, <1>3 DEF Agrees, ProtocolOf, head

LEMMA NoBytes == <<>> \in Seq(Nat) /\ Len(<<>>) = 0
  OBVIOUS

LEMMA SomeBytes == Standard # <<>> /\ Welcome # <<>> /\ Bytes # <<>>
<1>1. Len(Standard) # 0 /\ Len(Welcome) # 0 /\ Len(Bytes) # 0
  BY Handshakes, WelcomeBytes
<1> QED BY <1>1, NoBytes, Zenon

\* The first state: nothing was sent.
LEMMA WireInitHolds == WireInit => WireInv
<1> SUFFICES ASSUME WireInit PROVE WireInv
  OBVIOUS
<1>1. \A S : <<>> \in Seq(S)
  OBVIOUS
<1>2. /\ inBytes \in Seq(Nat) /\ outBytes \in Seq(Nat) /\ wrote \in Seq(Messages)
      /\ heard \in Seq([type : Nat, payload : Seq(Nat)])
  BY <1>1 DEF WireInit
<1>3. WireTypeOK
  BY <1>2 DEF WireInit, WireTypeOK
<1>4. DialInv /\ ListenInv
  BY DEF WireInit, DialInv, ListenInv
<1> QED BY <1>3, <1>4 DEF WireInv

\* What is left of the bytes, and what a message of them is.
LEMMA RestType == ASSUME NEW s \in Seq(Nat), NEW n \in Nat PROVE SubSeq(s, n + 1, Len(s)) \in Seq(Nat)
  OBVIOUS

LEMMA HeardType ==
    ASSUME WireTypeOK, AllThere, LengthRead # 1
    PROVE  HeardMessage \in [type : Nat, payload : Seq(Nat)] /\ Needed \in Nat
<1>1. inBytes \in Seq(Nat) /\ Len(inBytes) >= 4 /\ Len(inBytes) >= 4 + Needed
  BY DEF WireTypeOK, AllThere
<1>2. inBytes[1] \in Nat /\ inBytes[2] \in Nat /\ inBytes[3] \in Nat /\ inBytes[4] \in Nat
  BY <1>1
<1>3. LengthRead \in Nat
  BY <1>2 DEF LengthRead
<1>4. Needed \in Nat
  BY <1>3 DEF Needed
<1>5. CASE LengthRead = 0
  BY <1>4, <1>5 DEF HeardMessage, Choke
<1>6. CASE LengthRead # 0
  <2>1. Needed >= 1
    BY <1>3, <1>6 DEF Needed
  <2> DEFINE last == 4 + Needed
  <2>2. last \in Nat /\ last >= 5 /\ last <= Len(inBytes)
    BY <1>1, <1>4, <2>1
  <2> HIDE DEF last
  <2>3. inBytes[5] \in Nat
    BY <1>1, <2>2
  <2>4. SubSeq(inBytes, 6, last) \in Seq(Nat)
    BY <1>1, <2>2
  <2> QED BY <1>4, <1>6, <2>3, <2>4 DEF HeardMessage, last
<1> QED BY <1>5, <1>6

\* A step keeps the types.
LEMMA WireTypes == ASSUME WireTypeOK, WireNext PROVE WireTypeOK'
<1>1. /\ inBytes \in Seq(Nat) /\ outBytes \in Seq(Nat) /\ wrote \in Seq(Messages)
      /\ heard \in Seq([type : Nat, payload : Seq(Nat)])
  BY DEF WireTypeOK
<1>2. /\ role' = role /\ kind' = kind /\ cut' \in BOOLEAN
      /\ here' \in {"greet", "reply", "found", "session", "panicked", "over"}
      /\ there' \in {"greet", "wait", "talk", "over"}
  BY DEF WireTypeOK, WireNext, ThisSide, OtherSide, Greet, ReadReply, ReplyFails, HearHandshake, HearFails,
         WriteUnchoke, HandlerCloses, ReadMessage, ReadPanics, MessageFails, OtherGreets, OtherAnswers,
         OtherReadsReply, OtherCloses, OtherSends
<1>3. inBytes' \in Seq(Nat)
  <2>1. CASE Greet \/ ReplyFails \/ HearFails \/ WriteUnchoke \/ MessageFails \/ OtherReadsReply \/ OtherCloses
    BY <1>1, <2>1 DEF Greet, ReplyFails, HearFails, WriteUnchoke, MessageFails, OtherReadsReply, OtherCloses
  <2>2. CASE ReadReply
    <3>1. inBytes' = SubSeq(inBytes, 68 + 1, Len(inBytes))
      BY <2>2 DEF ReadReply
    <3> QED BY <1>1, <3>1, RestType
  <2>3. CASE HearHandshake
    <3>1. PICK n \in {10, 68} : inBytes' = SubSeq(inBytes, n + 1, Len(inBytes))
      BY <2>3 DEF HearHandshake
    <3> QED BY <1>1, <3>1, RestType
  <2>4. CASE HandlerCloses
    BY <2>4 DEF HandlerCloses
  <2>5. CASE ReadMessage
    <3>1. inBytes' = Rest(4 + Needed) /\ 4 + Needed \in Nat
      BY <2>5, HeardType DEF ReadMessage
    <3> QED BY <1>1, <3>1, RestType DEF Rest
  <2>6. CASE ReadPanics
    <3>1. inBytes' = SubSeq(inBytes, 4 + 1, Len(inBytes))
      BY <2>6 DEF ReadPanics, Rest
    <3> QED BY <1>1, <3>1, RestType
  <2>7. CASE OtherGreets
    BY <2>7, Handshakes DEF OtherGreets, Greeting
  <2>8. CASE OtherAnswers
    <3>1. Reply \in Seq(Nat)
      BY Handshakes, WelcomeBytes DEF Reply, WireTypeOK
    <3>2. inBytes' = inBytes \o Reply
      BY <2>8 DEF OtherAnswers
    <3>3. inBytes \o Reply \in Seq(Nat)
      BY <1>1, <3>1, Joined
    <3> QED BY <3>2, <3>3
  <2>9. ASSUME NEW m \in Messages, OtherSends(m) PROVE inBytes' \in Seq(Nat)
    <3>1. Frame(m) \in Seq(Nat)
      BY WireAssumption, FrameType
    <3>2. inBytes' = inBytes \o Frame(m)
      BY <2>9 DEF OtherSends
    <3>3. inBytes \o Frame(m) \in Seq(Nat)
      BY <1>1, <3>1, Joined
    <3> QED BY <3>2, <3>3
  <2> QED BY <2>1, <2>2, <2>3, <2>4, <2>5, <2>6, <2>7, <2>8, <2>9 DEF WireNext, ThisSide, OtherSide
<1>4. outBytes' \in Seq(Nat)
  <2>1. CASE WriteUnchoke /\ outBytes' # outBytes
    <3>1. outBytes' = outBytes \o Welcome
      BY <2>1 DEF WriteUnchoke
    <3>2. outBytes \o Welcome \in Seq(Nat)
      BY <1>1, WelcomeBytes, Joined
    <3> QED BY <3>1, <3>2
  <2>2. CASE Greet \/ OtherAnswers
    <3>1. outBytes' = Bytes \/ outBytes' = <<>>
      BY <2>2 DEF Greet, OtherAnswers
    <3> QED BY <3>1, Handshakes, NoBytes
  <2>3. CASE outBytes' = outBytes
    BY <1>1, <2>3
  <2> QED BY <2>1, <2>2, <2>3
      DEF WireNext, ThisSide, OtherSide, ReadReply, ReplyFails, HearHandshake, HearFails,
          HandlerCloses, ReadMessage, ReadPanics, MessageFails, OtherGreets,
          OtherReadsReply, OtherCloses, OtherSends
<1>5. wrote' \in Seq(Messages)
  <2>1. wrote' = wrote \/ \E m \in Messages : wrote' = Append(wrote, m)
    BY DEF WireNext, ThisSide, OtherSide, Greet, ReadReply, ReplyFails, HearHandshake, HearFails,
           WriteUnchoke, HandlerCloses, ReadMessage, ReadPanics, MessageFails, OtherGreets, OtherAnswers,
           OtherReadsReply, OtherCloses, OtherSends
  <2>2. \A m \in Messages : Append(wrote, m) \in Seq(Messages)
    BY <1>1, AppendProperties
  <2> QED BY <1>1, <2>1, <2>2
<1>6. heard' \in Seq([type : Nat, payload : Seq(Nat)])
  <2>1. heard' = heard \/ ReadMessage
    BY DEF WireNext, ThisSide, OtherSide, Greet, ReadReply, ReplyFails, HearHandshake, HearFails,
           WriteUnchoke, HandlerCloses, ReadPanics, MessageFails, OtherGreets, OtherAnswers,
           OtherReadsReply, OtherCloses, OtherSends
  <2>2. CASE ReadMessage
    <3> DEFINE M == [type : Nat, payload : Seq(Nat)]
    <3>1. HeardMessage \in M /\ heard' = Append(heard, HeardMessage)
      BY <2>2, HeardType DEF ReadMessage
    <3> HIDE DEF M
    <3>2. heard \in Seq(M)
      BY <1>1 DEF M
    <3> QED BY <3>1, <3>2, AppendProperties DEF M
  <2> QED BY <1>1, <2>1, <2>2
<1> QED BY <1>2, <1>3, <1>4, <1>5, <1>6 DEF WireTypeOK

\* Who dials hears no handshake of its own from a client of BEP 3 or another process.
LEMMA DialHolds == ASSUME WireInv, WireNext PROVE DialInv'
<1> SUFFICES ASSUME role = "dials" PROVE DialInv'
  BY DEF DialInv, WireNext, ThisSide, OtherSide, Greet, ReadReply, ReplyFails, HearHandshake, HearFails,
         WriteUnchoke, HandlerCloses, ReadMessage, ReadPanics, MessageFails, OtherGreets, OtherAnswers,
         OtherReadsReply, OtherCloses, OtherSends
<1>1. WireTypeOK /\ DialInv /\ inBytes \in Seq(Nat) /\ here # "found" /\ role = "dials"
  BY DEF WireInv, DialInv, WireTypeOK
<1>2. CASE Greet \/ ReplyFails \/ MessageFails \/ OtherCloses
  BY <1>1, <1>2 DEF DialInv, FirstByte, Greet, ReplyFails, MessageFails, OtherCloses
<1>3. CASE ReadReply
  <2>1. /\ here = "reply" /\ Len(inBytes) >= 68 /\ inBytes # <<>>
        /\ UNCHANGED <<role, kind, there, outBytes, wrote, heard>>
        /\ here' \in {"session", "over"}
        /\ here' = "session" => Agrees(SubSeq(inBytes, 1, 68))
    BY <1>1, <1>3 DEF ReadReply
  <2>2. kind # "mirror" => inBytes[1] # 100
    BY <1>1, <2>1 DEF DialInv, FirstByte
  <2>3. kind # "mirror" => here' = "over"
    BY <1>1, <2>1, <2>2, NoAgreement
  <2>4. there # "greet"
    BY <1>1, <2>1 DEF DialInv
  <2> QED BY <1>1, <2>1, <2>3, <2>4 DEF DialInv, FirstByte
<1>4. CASE ReadMessage \/ ReadPanics
  <2>1. /\ here = "session" /\ here' \in {"session", "panicked"} /\ inBytes # <<>>
        /\ UNCHANGED <<role, kind, there>>
    BY <1>1, <1>4 DEF ReadMessage, ReadPanics, AllThere
  <2> QED BY <1>1, <2>1 DEF DialInv
<1>5. CASE OtherAnswers
  <2>1. /\ there = "greet" /\ inBytes = <<>> /\ inBytes' = inBytes \o Reply /\ there' = "talk"
        /\ UNCHANGED <<role, kind, here>>
    BY <1>1, <1>5 DEF OtherAnswers, DialInv
  <2>2. Reply \in Seq(Nat) /\ Reply # <<>>
    <3>1. Reply \in {Standard, Welcome, Bytes}
      BY <1>1 DEF Reply, WireTypeOK
    <3> QED BY <3>1, SomeBytes, Handshakes, WelcomeBytes
  <2>3. inBytes' = Reply
    BY <2>1, <2>2, ConcatEmptySeq
  <2>4. kind # "mirror" => Reply[1] = FirstByte
    BY <1>1, Handshakes, WelcomeBytes DEF Reply, FirstByte, WireTypeOK
  <2> QED BY <1>1, <2>1, <2>2, <2>3, <2>4 DEF DialInv, FirstByte
<1>6. ASSUME NEW m \in Messages, OtherSends(m) PROVE DialInv'
  <2>1. /\ there = "talk" /\ inBytes' = inBytes \o Frame(m)
        /\ UNCHANGED <<role, kind, here, there>>
    BY <1>6 DEF OtherSends
  <2>2. Frame(m) \in Seq(Nat)
    BY WireAssumption, FrameType
  <2>3. /\ inBytes \o Frame(m) \in Seq(Nat) /\ Len(inBytes \o Frame(m)) = Len(inBytes) + Len(Frame(m))
        /\ inBytes # <<>> => (inBytes \o Frame(m))[1] = inBytes[1]
    BY <1>1, <2>2, Joined
  <2>4. inBytes # <<>> => inBytes \o Frame(m) # <<>>
    BY <1>1, <2>2, <2>3
  <2> QED BY <1>1, <2>1, <2>3, <2>4 DEF DialInv, FirstByte
<1> QED BY <1>1, <1>2, <1>3, <1>4, <1>5, <1>6
    DEF WireNext, ThisSide, OtherSide, HearHandshake, HearFails, HandlerCloses, WriteUnchoke, OtherGreets, OtherReadsReply

\* Who listens never sends a handshake.
LEMMA ListenHolds == ASSUME WireInv, WireNext PROVE ListenInv'
<1> SUFFICES ASSUME role = "listens" PROVE ListenInv'
  BY DEF ListenInv, WireNext, ThisSide, OtherSide, Greet, ReadReply, ReplyFails, HearHandshake, HearFails,
         WriteUnchoke, HandlerCloses, ReadMessage, ReadPanics, MessageFails, OtherGreets, OtherAnswers,
         OtherReadsReply, OtherCloses, OtherSends
<1>1. WireTypeOK /\ ListenInv
  BY DEF WireInv
<1>2. CASE WriteUnchoke
  <2>1. here = "found" /\ outBytes = <<>> /\ here' \in {"session", "over"} /\ UNCHANGED <<role, kind, there>>
    BY <1>1, <1>2 DEF WriteUnchoke, ListenInv
  <2>2. <<>> \o Welcome = Welcome
    BY WelcomeBytes, ConcatEmptySeq
  <2>3. outBytes' \in {<<>>, Welcome}
    BY <1>2, <2>1, <2>2 DEF WriteUnchoke
  <2> QED BY <1>1, <2>1, <2>3 DEF ListenInv
<1>3. CASE OtherReadsReply
  <2>1. Len(outBytes) < 68
    <3>1. outBytes = <<>> \/ outBytes = Welcome
      BY <1>1 DEF ListenInv
    <3>2. Len(outBytes) = 0 \/ Len(outBytes) = 5
      BY <3>1, WelcomeBytes, NoBytes, Zenon
    <3>3. PICK n \in {0, 5} : Len(outBytes) = n
      BY <3>2
    <3>4. n < 68
      OBVIOUS
    <3> QED BY <3>3, <3>4, Zenon
  <2> QED BY <1>1, <1>3, <2>1 DEF OtherReadsReply, ListenInv
<1>4. CASE OtherGreets \/ HearHandshake \/ HearFails \/ HandlerCloses
  BY <1>1, <1>4 DEF OtherGreets, HearHandshake, HearFails, HandlerCloses, ListenInv
<1>5. CASE ReadReply \/ ReplyFails \/ ReadMessage \/ ReadPanics \/ MessageFails
  BY <1>1, <1>5 DEF ReadReply, ReplyFails, ReadMessage, ReadPanics, MessageFails, ListenInv
<1>6. CASE OtherCloses \/ \E m \in Messages : OtherSends(m)
  BY <1>1, <1>6 DEF OtherCloses, OtherSends, ListenInv
<1> QED BY <1>1, <1>2, <1>3, <1>4, <1>5, <1>6 DEF WireNext, ThisSide, OtherSide, Greet, OtherAnswers

LEMMA WireStep == WireInv /\ [WireNext]_wireVars => WireInv'
<1>1. CASE UNCHANGED wireVars
  BY <1>1 DEF wireVars, WireInv, WireTypeOK, DialInv, ListenInv, FirstByte
<1> QED BY <1>1, WireTypes, DialHolds, ListenHolds DEF WireInv

\* Whatever messages are sent, and wherever the connection breaks: the two sides of one are
\* never both past a handshake unless the other one copies this program's (DialPeer,
\* handleInbound).
THEOREM HandshakesDoNotMeet == WireSpec => []OnlyMirrorsTalk
<1>1. WireInv => OnlyMirrorsTalk
  BY DEF WireInv, WireTypeOK, DialInv, ListenInv, OnlyMirrorsTalk
<1> QED BY <1>1, WireInitHolds, WireStep, PTL DEF WireSpec

-----------------------------------------------------------------------------
(* The components together (MCServices).                                   *)

\* The limiter's record of an indexer keeps its types, for any searchers and intervals.
THEOREM LimiterTyped == LimiterSpec => []LimiterTypeOK
<1>1. LimiterInv => LimiterTypeOK
  BY DEF LimiterInv
<1>2. QED
  BY <1>1, LimiterInitHolds, LimiterStep, PTL DEF LimiterSpec

\* Whichever component a behaviour is one of, all seven are well typed.
THEOREM ServicesTyped == ServicesSpec => []Types
<1> DEFINE All == /\ Inv /\ LimiterInv /\ ClientInv
                  /\ AnnounceInv /\ WireInv /\ AccountsInv /\ SettingsInv
<1>1. ServicesInit => All
  BY InitInv, LimiterInitHolds, ClientInitHolds,
     AnnounceInitHolds, WireInitHolds, AccountsInitHolds, SettingsInitHolds DEF ServicesInit
<1>2. All /\ [ServicesNext]_allVars => All'
  <2> SUFFICES ASSUME All, [ServicesNext]_allVars PROVE All'
    OBVIOUS
  <2>1. /\ [Next]_vars /\ [LimiterNext]_limiterVars /\ [ClientNext]_clientVars
        /\ [AnnounceNext]_announceVars /\ [WireNext]_wireVars
        /\ [AccountsNext]_accountVars /\ [SettingsNext]_settingsVars
    BY DEF ServicesNext, allVars
  <2>2. QED
    BY <2>1, NextInv, LimiterStep, ClientStep, AnnounceStep, WireStep, AccountsStep, SettingsStep
<1>3. All => Types
  BY DEF Inv, LimiterInv, ClientInv, AnnounceInv, WireInv, AccountsInv, SettingsInv, Types
<1>4. QED
  BY <1>1, <1>2, <1>3, PTL DEF ServicesSpec
=============================================================================
