--------------------------- MODULE UsenetClient ---------------------------
(***************************************************************************)
(* The usenet client (download/usenet/client.go, yenc.go) and the provider *)
(* goroutines of the worker that download with it.  The NZBClient is       *)
(* shared: every job calls Connect, which replaces the connection of all,  *)
(* and a job takes the current one for every segment.  Sending locks the   *)
(* connection, reading the answer does not, so that two jobs that wait on  *)
(* one connection race for its lines.                                      *)
(*                                                                         *)
(* A line is what it says (kind) of which article (of).  A server answers  *)
(* the commands of a connection in their order.  A line that starts with   *)
(* a dot is sent with a second dot ("dotted").  Authenticate, Group and    *)
(* the other commands have no caller.                                      *)
(***************************************************************************)
EXTENDS Integers, SequencesExt

CONSTANTS
    Grabs,
    Segments,        \* an NZB: the number of segments of each of its files
    Servers,      \* the number of configured servers
    Missing,      \* articles the servers do not have
    Dotted,       \* articles with a line that starts with a dot
    Plain,        \* articles that are not yEnc
    MaxAttempts   \* attempts of a job (each resume is one)

Articles == UNION {{<<j, f, s>> : j \in Grabs, s \in 1..Segments[f]} : f \in DOMAIN Segments}

ASSUME UsenetAssumption ==
    /\ Segments \in Seq(Nat \ {0}) /\ Segments # <<>> /\ Servers \in Nat \ {0}
    /\ MaxAttempts \in Nat \ {0}
    /\ Missing \subseteq Articles /\ Dotted \subseteq Articles /\ Plain \subseteq Articles

VARIABLES
    client,    \* NZBClient.client: a connection, 0 before the first
    current,   \* NZBClient.current: the server the next Connect tries first
    wire,      \* of every connection made: the lines not read yet
    alive,     \* the connections that are up
    grabAt,        \* a job's step
    on,        \* the connection it waits on
    pos,       \* <<file, segment>> it is at
    attempts,
    disk,      \* what it has written: for every segment asked for, the lines it got
    crossed    \* connections on which an answer was cut short or two jobs have waited

usenetVars == <<client, current, wire, alive, grabAt, on, pos, attempts, disk, crossed>>

Line(kind, a) == [kind |-> kind, of |-> a]
NoArticle == <<>>

UsenetInit ==
    /\ client = 0 /\ current = 1 /\ wire = <<>> /\ alive = {} /\ crossed = {}
    /\ grabAt = [j \in Grabs |-> "idle"] /\ on = [j \in Grabs |-> 0]
    /\ pos = [j \in Grabs |-> <<1, 1>>] /\ attempts = [j \in Grabs |-> 0]
    /\ disk = [j \in Grabs |-> <<>>]
-----------------------------------------------------------------------------
\* The servers in the order Connect tries them.
Tried(i) == ((current + i - 1) % Servers) + 1
FirstUp(up) == CHOOSE i \in 0..(Servers - 1) : Tried(i) \in up /\ \A k \in 0..(i - 1) : Tried(k) \notin up
\* Fault: the welcome line is left to the first answer.
WelcomeUnread == <<Line("status", NoArticle)>>
\* What is left to read of a new connection: Connect reads the welcome line.
AfterWelcome == <<>>
Connect(j) ==
    /\ grabAt[j] = "idle" /\ attempts[j] < MaxAttempts
    /\ attempts' = [attempts EXCEPT ![j] = @ + 1] /\ pos' = [pos EXCEPT ![j] = <<1, 1>>]
    /\ \E up \in SUBSET (1..Servers) :
        IF up = {}
        THEN UNCHANGED <<client, current, wire, alive, grabAt>>
        ELSE /\ current' = Tried(FirstUp(up)) /\ wire' = Append(wire, AfterWelcome)
             /\ client' = Len(wire') /\ alive' = alive \cup {client'}
             /\ grabAt' = [grabAt EXCEPT ![j] = "send"]
    /\ UNCHANGED <<on, disk, crossed>>
\* The NZB cannot be fetched or parsed, or a file cannot be opened.
GiveUp(j) ==
    /\ grabAt[j] = "send" /\ grabAt' = [grabAt EXCEPT ![j] = "idle"]
    /\ UNCHANGED <<client, current, wire, alive, on, pos, attempts, disk, crossed>>

Asked(j) == <<j, pos[j][1], pos[j][2]>>
Body(a) ==
    (IF a \in Plain THEN <<>> ELSE <<Line("ybegin", a)>>) \o <<Line("data", a)>>
        \o (IF a \in Dotted THEN <<Line("dotted", a), Line("data", a)>> ELSE <<>>)
ServerAnswer(a) ==
    IF a \in Missing THEN <<Line("error", a)>>
    ELSE <<Line("status", a)>> \o Body(a) \o <<Line("end", a)>>
Readers(c) == {j \in Grabs : grabAt[j] = "read" /\ on[j] = c}
\* DownloadSegment: the current connection is taken, and ARTICLE is sent on it.
Send(j) ==
    /\ grabAt[j] = "send"
    /\ IF client \notin alive
       THEN grabAt' = [grabAt EXCEPT ![j] = "idle"] /\ UNCHANGED <<wire, on, crossed>>
       ELSE /\ grabAt' = [grabAt EXCEPT ![j] = "read"] /\ on' = [on EXCEPT ![j] = client]
            /\ wire' = [wire EXCEPT ![client] = @ \o ServerAnswer(Asked(j))]
            /\ crossed' = IF Readers(client) # {} \/ Asked(j) \in Dotted
                          THEN crossed \cup {client} ELSE crossed
    /\ UNCHANGED <<client, current, alive, pos, attempts, disk>>

\* readResponseMultiLine: an answer of several lines ends before the first that starts
\* with a dot; if the first is not a status line it is the whole answer.
Many(lines) == lines[1].kind = "status"
EndsAt(lines, n) == lines[n].kind \in {"dotted", "end"} /\ \A k \in 1..(n - 1) : lines[k].kind \notin {"dotted", "end"}
AnswerEnd(lines) == IF Many(lines) THEN CHOOSE n \in DOMAIN lines : EndsAt(lines, n) ELSE 1
Got(lines) == IF Many(lines) THEN SubSeq(lines, 2, AnswerEnd(lines) - 1) ELSE <<lines[1]>>
\* DecodeYEnc keeps what follows =ybegin; what is not yEnc is written as it came.
Decoded(lines) == IF lines # <<>> /\ Head(lines).kind = "ybegin" THEN Tail(lines) ELSE lines

NextSegment(p) == IF p[2] < Segments[p[1]] THEN <<p[1], p[2] + 1>> ELSE <<p[1] + 1, 1>>
\* O_APPEND: a segment is written behind what the file has, of whatever attempt.
WriteSegment(j, lines) ==
    /\ disk' = [disk EXCEPT ![j] = Append(@, [asked |-> Asked(j), lines |-> Decoded(lines), via |-> on[j]])]
    /\ pos' = [pos EXCEPT ![j] = NextSegment(@)]
    /\ grabAt' = [grabAt EXCEPT ![j] = IF NextSegment(pos[j])[1] \in DOMAIN Segments THEN "send" ELSE "done"]
Read(j) ==
    LET c == on[j] IN
    /\ grabAt[j] = "read" /\ Readers(c) = {j} /\ c \in alive /\ wire[c] # <<>>
    /\ Many(wire[c]) => \E n \in DOMAIN wire[c] : EndsAt(wire[c], n)
    /\ WriteSegment(j, Got(wire[c]))
    /\ wire' = [wire EXCEPT ![c] = SubSeq(@, AnswerEnd(wire[c]) + 1, Len(@))]
    /\ UNCHANGED <<client, current, alive, on, attempts, crossed>>
\* Two jobs in the bufio.Reader of one connection: each may get anything, or an error.
ReadRaced(j) ==
    LET c == on[j] IN
    /\ grabAt[j] = "read" /\ Readers(c) # {j} /\ c \in alive
    /\ \E n \in 0..Len(wire[c]) : wire' = [wire EXCEPT ![c] = SubSeq(@, n + 1, Len(@))]
    /\ \/ WriteSegment(j, <<Line("garbled", NoArticle)>>)
       \/ grabAt' = [grabAt EXCEPT ![j] = "idle"] /\ UNCHANGED <<disk, pos>>
    /\ UNCHANGED <<client, current, alive, on, attempts, crossed>>
ReadFails(j) ==
    /\ grabAt[j] = "read" /\ on[j] \notin alive /\ grabAt' = [grabAt EXCEPT ![j] = "idle"]
    /\ UNCHANGED <<client, current, wire, alive, on, pos, attempts, disk, crossed>>
\* readResponseMultiLine looks at three bytes of the first line: a blank one, as an answer
\* that was cut short or two readers may leave it, ends the program.  The jobs that were not
\* done are begun again by the next.
ReadPanics(j) ==
    LET c == on[j] IN
    /\ grabAt[j] = "read" /\ c \in alive
    /\ Readers(c) # {j} \/ (wire[c] # <<>> /\ Head(wire[c]).kind = "data")
    /\ grabAt' = [k \in Grabs |-> IF grabAt[k] = "done" THEN "done" ELSE "idle"]
    /\ client' = 0 /\ current' = 1 /\ alive' = {}
    /\ UNCHANGED <<wire, on, pos, attempts, disk, crossed>>
-----------------------------------------------------------------------------
ConnectionLost(c) ==
    /\ c \in alive /\ alive' = alive \ {c}
    /\ UNCHANGED <<client, current, wire, grabAt, on, pos, attempts, disk, crossed>>
\* Manager.Stop closes the client: the current connection is closed and forgotten.
CloseUsenet ==
    /\ client # 0 /\ client' = 0 /\ alive' = alive \ {client}
    /\ UNCHANGED <<current, wire, grabAt, on, pos, attempts, disk, crossed>>

GrabStep(j) ==
    \/ Connect(j) \/ GiveUp(j) \/ Send(j) \/ Read(j) \/ ReadRaced(j) \/ ReadFails(j) \/ ReadPanics(j)
UsenetNext == (\E j \in Grabs : GrabStep(j)) \/ (\E c \in alive : ConnectionLost(c)) \/ CloseUsenet

UsenetSpec == UsenetInit /\ [][UsenetNext]_usenetVars
-----------------------------------------------------------------------------
Kinds == {"status", "ybegin", "data", "dotted", "end", "error", "garbled"}
Lines == [kind : Kinds, of : Articles \cup {NoArticle}]
UsenetTypeOK ==
    /\ client \in 0..Len(wire) /\ current \in 1..Servers
    /\ wire \in Seq(Seq(Lines)) /\ alive \subseteq 1..Len(wire) /\ crossed \subseteq 1..Len(wire)
    /\ grabAt \in [Grabs -> {"idle", "send", "read", "done"}] /\ on \in [Grabs -> 0..Len(wire)]
    /\ pos \in [Grabs -> (1..(Len(Segments) + 1)) \X (Nat \ {0})]
    /\ attempts \in [Grabs -> 0..MaxAttempts]
    /\ disk \in [Grabs -> Seq([asked : Articles, lines : Seq(Lines), via : Nat])]

\* What a segment is on the servers; that of a missing article is the error line, which
\* is written in its place.
Segment(a) == IF a \in Missing THEN <<Line("error", a)>> ELSE <<Line("data", a)>>
\* Before a connection has been waited on by two jobs or has cut an answer short, what a
\* job writes is the segment it asked for, whichever jobs shared the connection and
\* however often it was replaced between the segments (DownloadAndAssembleNZB).
WrittenAsAsked ==
    \A j \in Grabs : \A i \in DOMAIN disk[j] :
        disk[j][i].via \notin crossed => disk[j][i].lines = Segment(disk[j][i].asked)
=============================================================================
