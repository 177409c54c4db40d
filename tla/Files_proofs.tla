---------------------------- MODULE Files_proofs ----------------------------
(***************************************************************************)
(* The components that write files: the usenet client, the storage manager *)
(* and the media files, for any jobs, articles, servers, locations, movers, *)
(* movies and layouts; and the types of all components of MCLibrary.       *)
(*                                                                         *)
(* A segment is the one that was asked for because a connection that one   *)
(* job at a time has waited on, and whose answers were read to their end,  *)
(* holds no lines but those of the answer being waited for (WireOwn).      *)
(*                                                                         *)
(* A file that is moved is whole at its source until it is whole at its    *)
(* target, as long as no other mover was given either place (MovesHold);   *)
(* a place shares its file with no other (OnePlace).                       *)
(*                                                                         *)
(* A file of the library is whole because a download alone writes its inode *)
(* (SoleWriter), of the organizers one at most fills a target              *)
(* (PerTarget), and on two devices the inodes of downloads and those of    *)
(* the library are different (TwoDevices).  That none is lost follows it   *)
(* from one name to the other (NoneLost); a target that is taken, and a    *)
(* row with no path, are another organizer's work (TakenByOthers).         *)
(* Downloads of one name share an inode, which is remembered, and so is    *)
(* what is copied from it.                                                 *)
(***************************************************************************)
EXTENDS Library_proofs, MCLibrary, FunctionTheorems

-----------------------------------------------------------------------------
(* The usenet client (UsenetClient).                                       *)

\* Two sequences of known members, joined.
LEMMA OneAndMore ==
    ASSUME NEW x, NEW y, NEW z, NEW u
    PROVE  /\ <<x>> \o <<y>> = <<x, y>>
           /\ <<x, y>> \o <<z>> = <<x, y, z>>
           /\ <<x>> \o <<y, z>> = <<x, y, z>>
<1> DEFINE S == {x, y, z, u}
<1>1. <<x>> \in Seq(S) /\ <<y>> \in Seq(S) /\ <<x, y>> \in Seq(S)
      /\ <<z>> \in Seq(S) /\ <<y, z>> \in Seq(S) /\ <<x, y, z>> \in Seq(S) /\ <<u>> \in Seq(S) /\ <<x, y, z, u>> \in Seq(S)
  OBVIOUS
<1>2. <<x>> \o <<y>> = <<x, y>>
  <2> DEFINE s == <<x>> \o <<y>>
  <2>1. /\ s \in Seq(S) /\ Len(s) = 2
        /\ \A i \in 1..2 : s[i] = IF i <= 1 THEN <<x>>[i] ELSE <<y>>[i - 1]
    BY <1>1, ConcatProperties
  <2> HIDE DEF s
  <2>2. \A i \in 1..2 : s[i] = <<x, y>>[i]
    BY <2>1
  <2>3. QED
    BY <1>1, <2>1, <2>2, SeqEqual DEF s
<1>3. <<x, y>> \o <<z>> = <<x, y, z>>
  <2> DEFINE s == <<x, y>> \o <<z>>
  <2>1. /\ s \in Seq(S) /\ Len(s) = 3
        /\ \A i \in 1..3 : s[i] = IF i <= 2 THEN <<x, y>>[i] ELSE <<z>>[i - 2]
    BY <1>1, ConcatProperties
  <2> HIDE DEF s
  <2>2. \A i \in 1..3 : s[i] = <<x, y, z>>[i]
    BY <2>1
  <2>3. QED
    BY <1>1, <2>1, <2>2, SeqEqual DEF s
<1>5. <<x>> \o <<y, z>> = <<x, y, z>>
  <2> DEFINE s == <<x>> \o <<y, z>>
  <2>1. /\ s \in Seq(S) /\ Len(s) = 3
        /\ \A i \in 1..3 : s[i] = IF i <= 1 THEN <<x>>[i] ELSE <<y, z>>[i - 1]
    BY <1>1, ConcatProperties
  <2> HIDE DEF s
  <2>2. \A i \in 1..3 : s[i] = <<x, y, z>>[i]
    BY <2>1
  <2>3. QED
    BY <1>1, <2>1, <2>2, SeqEqual DEF s
<1>6. QED
  BY <1>2, <1>3, <1>5

\* Three lines and one more.
LEMMA FourLines == ASSUME NEW x, NEW y, NEW z, NEW u PROVE <<x, y, z>> \o <<u>> = <<x, y, z, u>>
<1> DEFINE S == {x, y, z, u}
           s == <<x, y, z>> \o <<u>>
<1>1. <<x, y, z>> \in Seq(S) /\ <<u>> \in Seq(S) /\ <<x, y, z, u>> \in Seq(S)
  OBVIOUS
<1>2. /\ s \in Seq(S) /\ Len(s) = 4
      /\ \A i \in 1..4 : s[i] = IF i <= 3 THEN <<x, y, z>>[i] ELSE <<u>>[i - 3]
  BY <1>1, ConcatProperties
<1> HIDE DEF s
<1>3. \A i \in 1..4 : s[i] = <<x, y, z, u>>[i]
  BY <1>2
<1>4. QED
  BY <1>1, <1>2, <1>3, SeqEqual DEF s

\* An answer without its status line and its end.
LEMMA Middle ==
    ASSUME NEW x, NEW y, NEW z, NEW u
    PROVE  SubSeq(<<x, y, z>>, 2, 2) = <<y>> /\ SubSeq(<<x, y, z, u>>, 2, 3) = <<y, z>>
<1> DEFINE S == {x, y, z, u}
<1>1. SubSeq(<<x, y, z>>, 2, 2) = <<y>>
  <2> DEFINE t == <<x, y, z>>
  <2>1. \A i \in 2..2 : t[i] \in S
    OBVIOUS
  <2>2. t[2] = y
    OBVIOUS
  <2> HIDE DEF t
  <2>3. /\ SubSeq(t, 2, 2) \in Seq(S) /\ Len(SubSeq(t, 2, 2)) = 1
        /\ \A i \in 1..1 : SubSeq(t, 2, 2)[i] = t[2 + i - 1]
    BY <2>1, SubSeqProperties
  <2>4. SubSeq(t, 2, 2)[1] = y
    BY <2>2, <2>3
  <2>5. <<y>> \in Seq(S) /\ Len(<<y>>) = 1 /\ <<y>>[1] = y
    OBVIOUS
  <2>6. \A i \in 1..1 : SubSeq(t, 2, 2)[i] = <<y>>[i]
    BY <2>4, <2>5
  <2>7. QED
    BY <2>3, <2>5, <2>6, SeqEqual DEF t
<1>2. SubSeq(<<x, y, z, u>>, 2, 3) = <<y, z>>
  <2> DEFINE t == <<x, y, z, u>>
  <2>1. \A i \in 2..3 : t[i] \in S
    OBVIOUS
  <2>2. t[2] = y /\ t[3] = z
    OBVIOUS
  <2> HIDE DEF t
  <2>3. /\ SubSeq(t, 2, 3) \in Seq(S) /\ Len(SubSeq(t, 2, 3)) = 2
        /\ \A i \in 1..2 : SubSeq(t, 2, 3)[i] = t[2 + i - 1]
    BY <2>1, SubSeqProperties
  <2>4. SubSeq(t, 2, 3)[1] = y /\ SubSeq(t, 2, 3)[2] = z
    BY <2>2, <2>3
  <2>5. <<y, z>> \in Seq(S) /\ Len(<<y, z>>) = 2 /\ <<y, z>>[1] = y /\ <<y, z>>[2] = z
    OBVIOUS
  <2>6. \A i \in 1..2 : SubSeq(t, 2, 3)[i] = <<y, z>>[i]
    BY <2>4, <2>5
  <2>7. QED
    BY <2>3, <2>5, <2>6, SeqEqual DEF t
<1>3. QED
  BY <1>1, <1>2
\* The fields of a line.
LEMMA LineFacts ==
    ASSUME NEW k, NEW a
    PROVE  Line(k, a).kind = k /\ Line(k, a).of = a
  BY DEF Line

\* The answer to an article without a line that starts with a dot, in full.
LEMMA AnswerOf ==
    ASSUME NEW a, a \notin Dotted
    PROVE  ServerAnswer(a) = IF a \in Missing THEN <<Line("error", a)>>
                             ELSE IF a \in Plain THEN <<Line("status", a), Line("data", a), Line("end", a)>>
                             ELSE <<Line("status", a), Line("ybegin", a), Line("data", a), Line("end", a)>>
<1>1. CASE a \in Missing
  BY <1>1 DEF ServerAnswer
<1> DEFINE st == Line("status", a)  yb == Line("ybegin", a)  da == Line("data", a)  en == Line("end", a)
<1>0. <<>> \o <<da>> = <<da>> /\ <<da>> \o <<>> = <<da>> /\ <<yb, da>> \o <<>> = <<yb, da>>
  OBVIOUS
<1>2. CASE a \notin Missing /\ a \in Plain
  <2>1. Body(a) = <<da>>
    BY <1>0, <1>2 DEF Body
  <2>2. <<st>> \o <<da>> = <<st, da>> /\ <<st, da>> \o <<en>> = <<st, da, en>>
    BY OneAndMore
  <2> HIDE DEF st, da, en
  <2>3. ServerAnswer(a) = <<st, da, en>>
    BY <1>2, <2>1, <2>2 DEF ServerAnswer, st, da, en
  <2>4. QED
    BY <1>2, <2>3 DEF st, da, en
<1>3. CASE a \notin Missing /\ a \notin Plain
  <2>1. <<yb>> \o <<da>> = <<yb, da>>
    BY OneAndMore
  <2>2. Body(a) = <<yb, da>>
    BY <1>0, <1>3, <2>1 DEF Body
  <2>3. <<st>> \o <<yb, da>> = <<st, yb, da>>
    BY OneAndMore
  <2> HIDE DEF st, yb, da, en
  <2>4. <<st, yb, da>> \o <<en>> = <<st, yb, da, en>>
    BY FourLines
  <2>5. ServerAnswer(a) = <<st, yb, da, en>>
    BY <1>3, <2>2, <2>3, <2>4 DEF ServerAnswer, st, en
  <2>6. QED
    BY <1>3, <2>5 DEF st, yb, da, en
<1>4. QED
  BY <1>1, <1>2, <1>3

\* A whole answer without dots is read as the segment, to its end
LEMMA WholeAnswer ==
    ASSUME NEW a, a \notin Dotted
    PROVE  LET w == ServerAnswer(a)
           IN  Decoded(Got(w)) = Segment(a) /\ SubSeq(w, AnswerEnd(w) + 1, Len(w)) = <<>>
<1> DEFINE w == ServerAnswer(a)
<1>1. CASE a \in Missing
  <2>1. w = <<Line("error", a)>>
    BY <1>1, AnswerOf
  <2>2. ~Many(w)
    BY <2>1, LineFacts DEF Many
  <2>3. Got(w) = <<Line("error", a)>> /\ AnswerEnd(w) = 1
    BY <2>1, <2>2 DEF Got, AnswerEnd
  <2>4. Decoded(Got(w)) = Segment(a)
    BY <1>1, <2>3, LineFacts DEF Decoded, Segment
  <2>5. SubSeq(w, 2, 1) = <<>>
    BY <2>1
  <2>6. QED
    BY <2>1, <2>3, <2>4, <2>5
<1>2. CASE a \notin Missing /\ a \in Plain
  <2>1. w = <<Line("status", a), Line("data", a), Line("end", a)>>
    BY <1>2, AnswerOf
  <2>2. /\ Len(w) = 3 /\ DOMAIN w = 1..3 /\ w[1].kind = "status" /\ w[2].kind = "data" /\ w[3].kind = "end"
        /\ w[2] = Line("data", a)
    BY <2>1, LineFacts
  <2> HIDE DEF w
  <2>3. AnswerEnd(w) = 3
    <3>1. EndsAt(w, 3)
      BY <2>2 DEF EndsAt
    <3>2. \A n \in DOMAIN w : EndsAt(w, n) => n = 3
      BY <2>2 DEF EndsAt
    <3>3. QED
      BY <2>2, <3>1, <3>2 DEF AnswerEnd, Many
  <2>4. Got(w) = <<Line("data", a)>>
    <3>1. SubSeq(w, 2, 2) = <<Line("data", a)>>
      BY <2>1, Middle
    <3>2. QED
      BY <2>2, <2>3, <3>1 DEF Got, Many
  <2>5. Decoded(Got(w)) = <<Line("data", a)>>
    BY <2>4, LineFacts DEF Decoded
  <2>6. SubSeq(w, 4, 3) = <<>>
    BY <2>1
  <2>7. QED
    BY <1>2, <2>2, <2>3, <2>5, <2>6 DEF Segment, w
<1>3. CASE a \notin Missing /\ a \notin Plain
  <2>1. w = <<Line("status", a), Line("ybegin", a), Line("data", a), Line("end", a)>>
    BY <1>3, AnswerOf
  <2>2. /\ Len(w) = 4 /\ DOMAIN w = 1..4 /\ w[1].kind = "status" /\ w[2].kind = "ybegin"
        /\ w[3].kind = "data" /\ w[4].kind = "end"
    BY <2>1, LineFacts
  <2> HIDE DEF w
  <2>3. AnswerEnd(w) = 4
    <3>1. EndsAt(w, 4)
      BY <2>2 DEF EndsAt
    <3>2. \A n \in DOMAIN w : EndsAt(w, n) => n = 4
      BY <2>2 DEF EndsAt
    <3>3. QED
      BY <2>2, <3>1, <3>2 DEF AnswerEnd, Many
  <2>4. Got(w) = <<Line("ybegin", a), Line("data", a)>>
    <3>1. SubSeq(w, 2, 3) = <<Line("ybegin", a), Line("data", a)>>
      BY <2>1, Middle
    <3>2. QED
      BY <2>2, <2>3, <3>1 DEF Got, Many
  <2>5. Decoded(Got(w)) = <<Line("data", a)>>
    <3>1. /\ <<Line("ybegin", a), Line("data", a)>> # <<>>
          /\ Head(<<Line("ybegin", a), Line("data", a)>>).kind = "ybegin"
          /\ Tail(<<Line("ybegin", a), Line("data", a)>>) = <<Line("data", a)>>
      BY LineFacts
    <3>2. QED
      BY <2>4, <3>1 DEF Decoded
  <2>6. SubSeq(w, 5, 4) = <<>>
    BY <2>1
  <2>7. QED
    BY <1>3, <2>2, <2>3, <2>5, <2>6 DEF Segment, w
<1>4. QED
  BY <1>1, <1>2, <1>3

\* Connect tries every server in its turn: the one it starts with first, then those behind it, then
\* those before it.
LEMMA TriedAll ==
    ASSUME current \in 1..Servers, NEW u \in 1..Servers
    PROVE  \E i \in 0..(Servers - 1) : Tried(i) = u
<1>0. Servers \in Nat /\ Servers # 0
  BY UsenetAssumption
<1>1. CASE u >= current
  <2>1. (u - 1) % Servers = u - 1
    BY <1>0
  <2>2. Tried(u - current) = u
    BY <1>0, <2>1 DEF Tried
  <2>3. QED
    BY <1>0, <1>1, <2>2
<1>2. CASE u < current
  <2>1. (u - 1 + Servers) % Servers = u - 1
    BY <1>0
  <2>2. Tried(u - current + Servers) = u
    BY <1>0, <2>1 DEF Tried
  <2>3. QED
    BY <1>0, <1>2, <2>2
<1>3. QED
  BY <1>0, <1>1, <1>2

-----------------------------------------------------------------------------
\* What is written of a segment.
SegmentWritten == [asked : Articles, lines : Seq(Lines), via : Nat]
\* The types of UsenetClient, but for the lines of what is read.
UsenetTypes ==
    /\ client \in 0..Len(wire) /\ current \in 1..Servers
    /\ wire \in Seq(Seq(Lines)) /\ alive \subseteq 1..Len(wire) /\ crossed \subseteq 1..Len(wire)
    /\ grabAt \in [Grabs -> {"idle", "send", "read", "done"}] /\ on \in [Grabs -> 0..Len(wire)]
    /\ pos \in [Grabs -> (1..(Len(Segments) + 1)) \X (Nat \ {0})]
    /\ attempts \in [Grabs -> 0..MaxAttempts]
    /\ disk \in [Grabs -> Seq(SegmentWritten)]

\* A job that is not done is at a segment of the NZB.
AtSegment ==
    \A j \in Grabs : grabAt[j] # "done" =>
        pos[j][1] \in 1..Len(Segments) /\ pos[j][2] \in 1..Segments[pos[j][1]]

\* Job j waits for an answer on connection c.
Waits(j, c) == grabAt[j] = "read" /\ on[j] = c

\* What is left to read of a connection that is up and was not crossed is the answer to
\* the one job that waits on it.
WireOwn ==
    \A c \in alive \ crossed :
        /\ \A j, k \in Grabs : Waits(j, c) /\ Waits(k, c) => j = k
        /\ \A j \in Grabs : Waits(j, c) => Asked(j) \notin Dotted /\ wire[c] = ServerAnswer(Asked(j))
        /\ (\A j \in Grabs : ~Waits(j, c)) => wire[c] = <<>>

\* The inductive invariant of the usenet client.
UsenetInv == UsenetTypes /\ AtSegment /\ WireOwn /\ WrittenAsAsked

\* An NZB has files, and they have segments.
LEMMA SegmentsFacts ==
    /\ Len(Segments) \in Nat /\ Len(Segments) >= 1 /\ DOMAIN Segments = 1..Len(Segments)
    /\ \A f \in 1..Len(Segments) : Segments[f] \in Nat /\ Segments[f] >= 1
<1>1. Segments \in Seq(Nat \ {0}) /\ Segments # <<>>
  BY UsenetAssumption
<1>2. Len(Segments) \in Nat /\ Len(Segments) # 0 /\ DOMAIN Segments = 1..Len(Segments)
  BY <1>1, EmptySeq
<1>3. \A f \in 1..Len(Segments) : Segments[f] \in Nat \ {0}
  BY <1>1
<1>4. QED
  BY <1>2, <1>3

\* A client without a connection and jobs that have not started satisfy the invariant.
LEMMA UsenetInvInit == UsenetInit => UsenetInv
<1> SUFFICES ASSUME UsenetInit PROVE UsenetInv
    OBVIOUS
<1>0. /\ client = 0 /\ current = 1 /\ wire = <<>> /\ alive = {} /\ crossed = {}
      /\ grabAt = [j \in Grabs |-> "idle"] /\ on = [j \in Grabs |-> 0]
      /\ pos = [j \in Grabs |-> <<1, 1>>] /\ attempts = [j \in Grabs |-> 0]
      /\ disk = [j \in Grabs |-> <<>>]
  BY DEF UsenetInit
<1>1. wire \in Seq(Seq(Lines)) /\ Len(wire) = 0
  BY <1>0
<1>2. pos \in [Grabs -> (1..(Len(Segments) + 1)) \X (Nat \ {0})]
  BY <1>0, SegmentsFacts
<1>3. current \in 1..Servers /\ attempts \in [Grabs -> 0..MaxAttempts]
  BY <1>0, UsenetAssumption
<1>4. disk \in [Grabs -> Seq(SegmentWritten)]
  BY <1>0
<1>5. UsenetTypes
  BY <1>0, <1>1, <1>2, <1>3, <1>4 DEF UsenetTypes
<1>6. AtSegment
  BY <1>0, SegmentsFacts DEF AtSegment
<1>7. WireOwn /\ WrittenAsAsked
  BY <1>0 DEF WireOwn, WrittenAsAsked
<1>8. QED
  BY <1>5, <1>6, <1>7 DEF UsenetInv

-----------------------------------------------------------------------------
(* What the operators return.                                              *)

\* A job that is not done is at a segment of the NZB.
LEMMA AskedFacts ==
    ASSUME AtSegment, NEW j \in Grabs, grabAt[j] # "done"
    PROVE  Asked(j) \in Articles
<1>1. pos[j][1] \in DOMAIN Segments /\ pos[j][2] \in 1..Segments[pos[j][1]]
  BY SegmentsFacts DEF AtSegment
<1>2. QED
  BY <1>1 DEF Asked, Articles

\* What a server answers are lines.
LEMMA AnswerTyped ==
    ASSUME NEW a \in Articles
    PROVE  ServerAnswer(a) \in Seq(Lines)
<1>1. \A k \in Kinds : <<Line(k, a)>> \in Seq(Lines)
  <2>1. \A k \in Kinds : Line(k, a) \in Lines
    BY DEF Line, Lines
  <2>2. QED
    BY <2>1
<1>2. <<Line("dotted", a), Line("data", a)>> \in Seq(Lines)
  <2>1. Line("dotted", a) \in Lines /\ Line("data", a) \in Lines
    BY DEF Line, Lines, Kinds
  <2>2. QED
    BY <2>1
<1>3. Body(a) \in Seq(Lines)
  <2> DEFINE x == IF a \in Plain THEN <<>> ELSE <<Line("ybegin", a)>>
             y == IF a \in Dotted THEN <<Line("dotted", a), Line("data", a)>> ELSE <<>>
  <2>1. x \in Seq(Lines) /\ y \in Seq(Lines) /\ <<Line("data", a)>> \in Seq(Lines)
    BY <1>1, <1>2 DEF Kinds
  <2> HIDE DEF x, y
  <2>2. (x \o <<Line("data", a)>>) \o y \in Seq(Lines)
    BY <2>1, ConcatProperties
  <2>3. QED
    BY <2>2 DEF Body, x, y
<1>4. (<<Line("status", a)>> \o Body(a)) \o <<Line("end", a)>> \in Seq(Lines)
  <2>1. <<Line("status", a)>> \in Seq(Lines) /\ <<Line("end", a)>> \in Seq(Lines)
    BY <1>1 DEF Kinds
  <2>2. <<Line("status", a)>> \o Body(a) \in Seq(Lines)
    BY <2>1, <1>3, ConcatProperties
  <2>3. QED
    BY <2>1, <2>2, ConcatProperties
<1>5. QED
  BY <1>1, <1>4 DEF ServerAnswer, Kinds

\* Of what is there, an answer is read and the rest is left
LEMMA ReadTyped ==
    ASSUME NEW w \in Seq(Lines), w # <<>>, Many(w) => \E n \in DOMAIN w : EndsAt(w, n)
    PROVE  /\ Decoded(Got(w)) \in Seq(Lines)
           /\ SubSeq(w, AnswerEnd(w) + 1, Len(w)) \in Seq(Lines)
<1>1. Len(w) \in Nat /\ Len(w) >= 1 /\ DOMAIN w = 1..Len(w) /\ \A n \in 1..Len(w) : w[n] \in Lines
  BY EmptySeq
<1>2. AnswerEnd(w) \in 1..Len(w)
  BY <1>1 DEF AnswerEnd
<1>3. Got(w) \in Seq(Lines)
  <2>1. SubSeq(w, 2, AnswerEnd(w) - 1) \in Seq(Lines)
    <3>1. \A i \in 2..(AnswerEnd(w) - 1) : w[i] \in Lines
      BY <1>1, <1>2
    <3>2. AnswerEnd(w) - 1 \in Int /\ 2 \in Int
      BY <1>2
    <3>3. QED
      BY <3>1, <3>2, SubSeqProperties
  <2>2. <<w[1]>> \in Seq(Lines)
    BY <1>1
  <2>3. QED
    BY <2>1, <2>2 DEF Got
<1>4. Decoded(Got(w)) \in Seq(Lines)
  BY <1>3, HeadTailProperties DEF Decoded
<1>5. SubSeq(w, AnswerEnd(w) + 1, Len(w)) \in Seq(Lines)
  <2>1. \A i \in (AnswerEnd(w) + 1)..Len(w) : w[i] \in Lines
    BY <1>1, <1>2
  <2>2. AnswerEnd(w) + 1 \in Int /\ Len(w) \in Int
    BY <1>1, <1>2
  <2>3. QED
    BY <2>1, <2>2, SubSeqProperties
<1>6. QED
  BY <1>4, <1>5

\* A segment is written, and the job goes on behind it
LEMMA WriteSegmentFacts ==
    ASSUME UsenetTypes, AtSegment, WrittenAsAsked, NEW j \in Grabs, grabAt[j] = "read",
           NEW lines, Decoded(lines) \in Seq(Lines), WriteSegment(j, lines), crossed' = crossed,
           on[j] \notin crossed => Decoded(lines) = Segment(Asked(j))
    PROVE  /\ pos' \in [Grabs -> (1..(Len(Segments) + 1)) \X (Nat \ {0})]
           /\ grabAt' \in [Grabs -> {"idle", "send", "read", "done"}]
           /\ disk' \in [Grabs -> Seq(SegmentWritten)]
           /\ AtSegment' /\ WrittenAsAsked'
           /\ grabAt'[j] # "read"
           /\ \A k \in Grabs \ {j} : grabAt'[k] = grabAt[k] /\ pos'[k] = pos[k]
<1> DEFINE p == pos[j]
           w == [asked |-> Asked(j), lines |-> Decoded(lines), via |-> on[j]]
<1>1. /\ p \in (1..(Len(Segments) + 1)) \X (Nat \ {0})
      /\ p[1] \in 1..Len(Segments) /\ p[2] \in 1..Segments[p[1]]
  BY DEF UsenetTypes, AtSegment
<1>2. /\ NextSegment(p)[1] \in 1..(Len(Segments) + 1) /\ NextSegment(p)[2] \in Nat \ {0}
      /\ NextSegment(p) \in (1..(Len(Segments) + 1)) \X (Nat \ {0})
      /\ NextSegment(p)[1] \in 1..Len(Segments) => NextSegment(p)[2] \in 1..Segments[NextSegment(p)[1]]
  <2>1. CASE p[2] < Segments[p[1]]
    <3>1. NextSegment(p) = <<p[1], p[2] + 1>>
      BY <2>1 DEF NextSegment
    <3>2. QED
      BY <1>1, <2>1, <3>1, SegmentsFacts
  <2>2. CASE ~(p[2] < Segments[p[1]])
    <3>1. NextSegment(p) = <<p[1] + 1, 1>>
      BY <2>2 DEF NextSegment
    <3>2. QED
      BY <1>1, <3>1, SegmentsFacts
  <2>3. QED
    BY <2>1, <2>2
<1>3. /\ pos' = [pos EXCEPT ![j] = NextSegment(p)]
      /\ grabAt' = [grabAt EXCEPT ![j] = IF NextSegment(p)[1] \in DOMAIN Segments THEN "send" ELSE "done"]
      /\ disk' = [disk EXCEPT ![j] = Append(@, w)]
  BY DEF WriteSegment
<1>4. w \in SegmentWritten
  <2>1. Asked(j) \in Articles /\ on[j] \in Nat
    BY AskedFacts DEF UsenetTypes
  <2>2. QED
    BY <2>1 DEF SegmentWritten
<1>5. w.via = on[j] /\ w.lines = Decoded(lines) /\ w.asked = Asked(j)
  OBVIOUS
<1> HIDE DEF p, w
<1>6. pos' \in [Grabs -> (1..(Len(Segments) + 1)) \X (Nat \ {0})]
  BY <1>2, <1>3 DEF UsenetTypes
<1>7. grabAt' \in [Grabs -> {"idle", "send", "read", "done"}]
  BY <1>3 DEF UsenetTypes
<1>8. /\ pos'[j] = NextSegment(p) /\ grabAt'[j] \in {"send", "done"}
      /\ grabAt'[j] = "send" <=> NextSegment(p)[1] \in 1..Len(Segments)
      /\ \A k \in Grabs \ {j} : grabAt'[k] = grabAt[k] /\ pos'[k] = pos[k]
  BY <1>3, SegmentsFacts DEF UsenetTypes
<1>9. AtSegment'
  BY <1>2, <1>8 DEF AtSegment
<1>10. disk[j] \in Seq(SegmentWritten) /\ Append(disk[j], w) \in Seq(SegmentWritten)
  BY <1>4, AppendProperties DEF UsenetTypes
<1>11. disk' \in [Grabs -> Seq(SegmentWritten)]
  BY <1>3, <1>10 DEF UsenetTypes
<1>12. WrittenAsAsked'
  <2> SUFFICES ASSUME NEW k \in Grabs, NEW i \in DOMAIN disk'[k], disk'[k][i].via \notin crossed
               PROVE  disk'[k][i].lines = Segment(disk'[k][i].asked)
    BY DEF WrittenAsAsked, Segment
  <2>1. CASE k # j
    BY <2>1, <1>3 DEF WrittenAsAsked, UsenetTypes
  <2>2. CASE k = j
    <3>1. disk'[k] = Append(disk[j], w)
      BY <2>2, <1>3 DEF UsenetTypes
    <3>2. /\ Len(Append(disk[j], w)) = Len(disk[j]) + 1 /\ Len(disk[j]) \in Nat
          /\ Append(disk[j], w)[Len(disk[j]) + 1] = w
          /\ \A n \in 1..Len(disk[j]) : Append(disk[j], w)[n] = disk[j][n]
      BY <1>4, <1>10, AppendProperties
    <3>3. i \in 1..(Len(disk[j]) + 1)
      BY <3>1, <3>2, <1>10
    <3>4. CASE i = Len(disk[j]) + 1
      BY <3>1, <3>2, <3>4, <1>5
    <3>5. CASE i # Len(disk[j]) + 1
      <4>1. i \in 1..Len(disk[j]) /\ i \in DOMAIN disk[j]
        BY <3>2, <3>3, <3>5, <1>10
      <4>2. disk'[k][i] = disk[j][i]
        BY <3>1, <3>2, <4>1
      <4>3. QED
        BY <4>1, <4>2 DEF WrittenAsAsked
    <3>6. QED
      BY <3>4, <3>5
  <2>3. QED
    BY <2>1, <2>2
<1>13. QED
  BY <1>6, <1>7, <1>8, <1>9, <1>11, <1>12

-----------------------------------------------------------------------------
\* Connect adds a connection with nothing to read; the old ones keep their lines and those who
\* wait on them.
LEMMA ConnectKeeps ==
    ASSUME UsenetInv, NEW j \in Grabs, Connect(j)
    PROVE  UsenetInv'
<1>0. UsenetTypes
  BY DEF UsenetInv
<1>1. /\ grabAt[j] = "idle" /\ attempts[j] < MaxAttempts
      /\ attempts' = [attempts EXCEPT ![j] = @ + 1] /\ pos' = [pos EXCEPT ![j] = <<1, 1>>]
      /\ UNCHANGED <<on, disk, crossed>>
  BY DEF Connect
<1>2. attempts' \in [Grabs -> 0..MaxAttempts] /\ pos' \in [Grabs -> (1..(Len(Segments) + 1)) \X (Nat \ {0})]
  <2>1. attempts[j] + 1 \in 0..MaxAttempts
    BY <1>0, <1>1, UsenetAssumption DEF UsenetTypes
  <2>2. <<1, 1>> \in (1..(Len(Segments) + 1)) \X (Nat \ {0})
    BY SegmentsFacts
  <2>3. QED
    BY <1>0, <1>1, <2>1, <2>2 DEF UsenetTypes
<1>3. WrittenAsAsked'
  BY <1>1 DEF UsenetInv, WrittenAsAsked, Segment
<1>4. /\ \A k \in Grabs \ {j} : pos'[k] = pos[k]
      /\ pos'[j][1] = 1 /\ pos'[j][2] = 1
  BY <1>0, <1>1 DEF UsenetTypes
<1>5. CASE UNCHANGED <<client, current, wire, alive, grabAt>>
  <2>1. UsenetTypes'
    BY <1>0, <1>1, <1>2, <1>5 DEF UsenetTypes
  <2>2. AtSegment'
    BY <1>4, <1>5, SegmentsFacts DEF UsenetInv, AtSegment
  <2>3. WireOwn'
    BY <1>1, <1>4, <1>5 DEF UsenetInv, WireOwn, Waits, Asked
  <2>4. QED
    BY <1>3, <2>1, <2>2, <2>3 DEF UsenetInv
<1>6. ASSUME NEW up \in SUBSET (1..Servers), up # {},
             current' = Tried(FirstUp(up)), wire' = Append(wire, AfterWelcome),
             client' = Len(wire'), alive' = alive \cup {client'},
             grabAt' = [grabAt EXCEPT ![j] = "send"]
      PROVE  UsenetInv'
  <2>1. current' \in 1..Servers
    <3> USE UsenetAssumption
    <3>1. Servers \in Nat /\ Servers # 0
      OBVIOUS
    <3>2. \E i \in 0..(Servers - 1) : Tried(i) \in up
      BY <1>0, <1>6, TriedAll DEF UsenetTypes
    <3>3. FirstUp(up) \in 0..(Servers - 1)
      <4> DEFINE T == {i \in 0..(Servers - 1) : Tried(i) \in up}
      <4>1. T \in SUBSET Nat /\ T # {}
        BY <3>1, <3>2
      <4>2. PICK m \in T : \A k \in T : m <= k
        <5> HIDE DEF T
        <5>1. QED
          BY <4>1, LeastNat
      <4>3. m \in 0..(Servers - 1) /\ Tried(m) \in up /\ \A k \in 0..(m - 1) : Tried(k) \notin up
        BY <3>1, <4>2
      <4>4. QED
        BY <4>3 DEF FirstUp
    <3>4. current \in 1..Servers
      BY <1>0 DEF UsenetTypes
    <3>5. QED
      BY <1>6, <3>1, <3>3, <3>4 DEF Tried
  <2>2. /\ wire' \in Seq(Seq(Lines)) /\ Len(wire') = Len(wire) + 1 /\ Len(wire) \in Nat
        /\ wire'[Len(wire) + 1] = <<>>
        /\ \A c \in 1..Len(wire) : wire'[c] = wire[c]
    <3>1. <<>> \in Seq(Lines) /\ wire \in Seq(Seq(Lines)) /\ wire' = Append(wire, <<>>)
      BY <1>0, <1>6 DEF UsenetTypes, AfterWelcome
    <3>2. QED
      BY <3>1, AppendProperties
  <2>3. client' \in 0..Len(wire') /\ alive' \subseteq 1..Len(wire') /\ crossed' \subseteq 1..Len(wire')
        /\ on' \in [Grabs -> 0..Len(wire')]
    <3>1. Len(wire') \in Nat /\ client' = Len(wire')
      BY <1>6, <2>2
    <3>2. 1..Len(wire) \subseteq 1..Len(wire') /\ 0..Len(wire) \subseteq 0..Len(wire')
      BY <2>2
    <3>3. alive \subseteq 1..Len(wire) /\ crossed \subseteq 1..Len(wire) /\ on \in [Grabs -> 0..Len(wire)]
      BY <1>0 DEF UsenetTypes
    <3>4. client' \in 0..Len(wire') /\ client' \in 1..Len(wire')
      BY <2>2, <3>1
    <3>5. alive' \subseteq 1..Len(wire')
      BY <1>6, <3>2, <3>3, <3>4
    <3>6. on' \in [Grabs -> 0..Len(wire')]
      BY <1>1, <3>2, <3>3
    <3>7. QED
      BY <1>1, <3>2, <3>3, <3>4, <3>5, <3>6
  <2>4. grabAt' \in [Grabs -> {"idle", "send", "read", "done"}] /\ disk' \in [Grabs -> Seq(SegmentWritten)]
    BY <1>0, <1>1, <1>6 DEF UsenetTypes
  <2>5. UsenetTypes'
    BY <1>2, <2>1, <2>2, <2>3, <2>4 DEF UsenetTypes
  <2>6. grabAt'[j] = "send" /\ \A k \in Grabs \ {j} : grabAt'[k] = grabAt[k]
    BY <1>0, <1>6 DEF UsenetTypes
  <2>7. AtSegment'
    BY <1>4, <2>6, SegmentsFacts DEF UsenetInv, AtSegment
  <2>8. WireOwn'
    <3> SUFFICES ASSUME NEW c \in alive' \ crossed
                 PROVE  /\ \A k, l \in Grabs : Waits(k, c)' /\ Waits(l, c)' => k = l
                        /\ \A k \in Grabs : Waits(k, c)' =>
                               Asked(k)' \notin Dotted /\ wire'[c] = ServerAnswer(Asked(k)')
                        /\ (\A k \in Grabs : ~Waits(k, c)') => wire'[c] = <<>>
      BY <1>1 DEF WireOwn, ServerAnswer, Body, Line
    <3>1. \A k \in Grabs : /\ Waits(k, c)' <=> Waits(k, c)
                           /\ Waits(k, c) => Asked(k)' = Asked(k)
      BY <1>1, <1>4, <2>6 DEF Waits, Asked
    <3>2. CASE c = Len(wire) + 1
      <4>1. \A k \in Grabs : on[k] # c
        BY <1>0, <2>2, <3>2 DEF UsenetTypes
      <4>2. QED
        BY <2>2, <3>1, <3>2, <4>1 DEF Waits
    <3>3. CASE c # Len(wire) + 1
      <4>1. c \in alive \ crossed /\ wire'[c] = wire[c]
        BY <1>0, <1>6, <2>2, <3>3 DEF UsenetTypes
      <4>2. QED
        BY <3>1, <4>1 DEF UsenetInv, WireOwn
    <3>4. QED
      BY <3>2, <3>3
  <2>9. QED
    BY <1>3, <2>5, <2>7, <2>8 DEF UsenetInv
<1>7. QED
  BY <1>5, <1>6 DEF Connect

\* A job leaves its connection, or has none, and nothing else changes
LEMMA LeavesKeeps ==
    ASSUME UsenetInv, NEW j \in Grabs, grabAt[j] # "done",
           grabAt[j] = "read" => on[j] \notin alive, grabAt' = [grabAt EXCEPT ![j] = "idle"],
           UNCHANGED <<client, current, wire, alive, on, pos, attempts, disk, crossed>>
    PROVE  UsenetInv'
<1>0. UsenetTypes
  BY DEF UsenetInv
<1>1. UsenetTypes'
  BY <1>0 DEF UsenetTypes
<1>2. grabAt'[j] = "idle" /\ \A k \in Grabs \ {j} : grabAt'[k] = grabAt[k]
  BY <1>0 DEF UsenetTypes
<1>3. AtSegment'
  BY <1>2 DEF UsenetInv, AtSegment
<1>4. \A c \in alive, k \in Grabs : Waits(k, c)' <=> Waits(k, c)
  BY <1>2 DEF Waits
<1>5. WireOwn'
  <2> SUFFICES ASSUME NEW c \in alive \ crossed
               PROVE  /\ \A k, l \in Grabs : Waits(k, c)' /\ Waits(l, c)' => k = l
                      /\ \A k \in Grabs : Waits(k, c)' => Asked(k) \notin Dotted /\ wire[c] = ServerAnswer(Asked(k))
                      /\ (\A k \in Grabs : ~Waits(k, c)') => wire[c] = <<>>
    BY DEF WireOwn, Asked, ServerAnswer, Body, Line
  <2>1. QED
    BY <1>4 DEF UsenetInv, WireOwn
<1>6. WrittenAsAsked'
  BY DEF UsenetInv, WrittenAsAsked, Segment
<1>7. QED
  BY <1>1, <1>3, <1>5, <1>6 DEF UsenetInv

\* ARTICLE is sent on the current connection: on one nobody waits on, its answer is all there
\* is to read.
LEMMA SendKeeps ==
    ASSUME UsenetInv, NEW j \in Grabs, Send(j)
    PROVE  UsenetInv'
<1>0. UsenetTypes /\ grabAt[j] = "send"
  BY DEF UsenetInv, Send
<1>1. UNCHANGED <<client, current, alive, pos, attempts, disk>>
  BY DEF Send
<1>2. CASE client \notin alive
  <2>1. grabAt' = [grabAt EXCEPT ![j] = "idle"] /\ UNCHANGED <<wire, on, crossed>>
    BY <1>2 DEF Send
  <2>2. QED
    BY <1>0, <1>1, <2>1, LeavesKeeps
<1>3. CASE client \in alive
  <2>1. /\ grabAt' = [grabAt EXCEPT ![j] = "read"] /\ on' = [on EXCEPT ![j] = client]
        /\ wire' = [wire EXCEPT ![client] = @ \o ServerAnswer(Asked(j))]
        /\ crossed' = IF Readers(client) # {} \/ Asked(j) \in Dotted
                      THEN crossed \cup {client} ELSE crossed
    BY <1>3 DEF Send
  <2>2. client \in 1..Len(wire) /\ wire \in Seq(Seq(Lines)) /\ wire[client] \in Seq(Lines)
    BY <1>0, <1>3 DEF UsenetTypes
  <2>3. Asked(j) \in Articles
    BY <1>0, AskedFacts DEF UsenetInv
  <2>4. wire[client] \o ServerAnswer(Asked(j)) \in Seq(Lines)
    BY <2>2, <2>3, AnswerTyped, ConcatProperties
  <2>5. /\ wire' \in Seq(Seq(Lines)) /\ Len(wire') = Len(wire)
        /\ wire'[client] = wire[client] \o ServerAnswer(Asked(j))
        /\ \A c \in (1..Len(wire)) \ {client} : wire'[c] = wire[c]
    BY <2>1, <2>2, <2>4
  <2>6. on' \in [Grabs -> 0..Len(wire)] /\ grabAt' \in [Grabs -> {"idle", "send", "read", "done"}]
    BY <1>0, <2>1 DEF UsenetTypes
  <2>7. crossed' \subseteq 1..Len(wire) /\ crossed \subseteq crossed'
    BY <1>0, <2>1, <2>2 DEF UsenetTypes
  <2>8. UsenetTypes'
    BY <1>0, <1>1, <2>5, <2>6, <2>7 DEF UsenetTypes
  <2>9. AtSegment'
    <3>1. \A k \in Grabs : grabAt'[k] # "done" => grabAt[k] # "done"
      BY <1>0, <2>1 DEF UsenetTypes
    <3>2. QED
      BY <1>1, <3>1 DEF UsenetInv, AtSegment
  <2>10. WrittenAsAsked'
    BY <1>1, <2>7 DEF UsenetInv, WrittenAsAsked, Segment
  <2>11. /\ grabAt'[j] = "read" /\ on'[j] = client
         /\ \A k \in Grabs \ {j} : grabAt'[k] = grabAt[k] /\ on'[k] = on[k]
    BY <1>0, <2>1 DEF UsenetTypes
  <2>12. WireOwn'
    <3> SUFFICES ASSUME NEW c \in alive \ crossed'
                 PROVE  /\ \A k, l \in Grabs : Waits(k, c)' /\ Waits(l, c)' => k = l
                        /\ \A k \in Grabs : Waits(k, c)' =>
                               Asked(k) \notin Dotted /\ wire'[c] = ServerAnswer(Asked(k))
                        /\ (\A k \in Grabs : ~Waits(k, c)') => wire'[c] = <<>>
      BY <1>1 DEF WireOwn, Asked, ServerAnswer, Body, Line
    <3>1. c \in alive \ crossed
      BY <2>7
    <3>2. CASE c # client
      <4>1. wire'[c] = wire[c] /\ \A k \in Grabs : Waits(k, c)' <=> Waits(k, c)
        BY <1>0, <2>5, <2>11, <3>2 DEF UsenetTypes, Waits
      <4>2. QED
        BY <3>1, <4>1 DEF UsenetInv, WireOwn
    <3>3. CASE c = client
      <4>1. Readers(client) = {} /\ Asked(j) \notin Dotted
        BY <2>1, <3>3
      <4>2. \A k \in Grabs : ~Waits(k, c)
        BY <4>1, <3>3 DEF Readers, Waits
      <4>3. wire[c] = <<>>
        BY <3>1, <4>2 DEF UsenetInv, WireOwn
      <4>4. wire'[c] = ServerAnswer(Asked(j))
        BY <2>3, <2>5, <3>3, <4>3, AnswerTyped, ConcatEmptySeq
      <4>5. \A k \in Grabs : Waits(k, c)' <=> k = j
        BY <2>11, <3>3, <4>2 DEF Waits
      <4>6. QED
        BY <4>1, <4>4, <4>5
    <3>4. QED
      BY <3>2, <3>3
  <2>13. QED
    BY <2>8, <2>9, <2>10, <2>12 DEF UsenetInv
<1>4. QED
  BY <1>2, <1>3

\* A job that alone waits on a connection reads its own answer, to the end.
LEMMA ReadKeeps ==
    ASSUME UsenetInv, NEW j \in Grabs, Read(j)
    PROVE  UsenetInv'
<1> DEFINE c == on[j]
           w == wire[c]
           rest == SubSeq(w, AnswerEnd(w) + 1, Len(w))
<1>0. UsenetTypes
  BY DEF UsenetInv
<1>1. /\ grabAt[j] = "read" /\ Readers(c) = {j} /\ c \in alive /\ w # <<>>
      /\ Many(w) => \E n \in DOMAIN w : EndsAt(w, n)
      /\ WriteSegment(j, Got(w)) /\ wire' = [wire EXCEPT ![c] = rest]
      /\ UNCHANGED <<client, current, alive, on, attempts, crossed>>
  BY DEF Read
<1>2. c \in 1..Len(wire) /\ wire \in Seq(Seq(Lines)) /\ w \in Seq(Lines)
  BY <1>0, <1>1 DEF UsenetTypes
<1>3. Decoded(Got(w)) \in Seq(Lines) /\ rest \in Seq(Lines)
  BY <1>1, <1>2, ReadTyped
<1>4. c \notin crossed => Decoded(Got(w)) = Segment(Asked(j)) /\ rest = <<>>
  <2>1. ASSUME c \notin crossed PROVE Asked(j) \notin Dotted /\ w = ServerAnswer(Asked(j))
    BY <1>1, <2>1 DEF UsenetInv, WireOwn, Waits
  <2>2. QED
    BY <2>1, WholeAnswer
<1>5. /\ pos' \in [Grabs -> (1..(Len(Segments) + 1)) \X (Nat \ {0})]
      /\ grabAt' \in [Grabs -> {"idle", "send", "read", "done"}]
      /\ disk' \in [Grabs -> Seq(SegmentWritten)]
      /\ AtSegment' /\ WrittenAsAsked'
      /\ grabAt'[j] # "read"
      /\ \A k \in Grabs \ {j} : grabAt'[k] = grabAt[k] /\ pos'[k] = pos[k]
  BY <1>0, <1>1, <1>3, <1>4, WriteSegmentFacts DEF UsenetInv
<1> HIDE DEF rest
<1>6. /\ wire' \in Seq(Seq(Lines)) /\ Len(wire') = Len(wire) /\ wire'[c] = rest
      /\ \A d \in (1..Len(wire)) \ {c} : wire'[d] = wire[d]
  BY <1>1, <1>2, <1>3
<1>7. UsenetTypes'
  BY <1>0, <1>1, <1>5, <1>6 DEF UsenetTypes
<1>8. WireOwn'
  <2> SUFFICES ASSUME NEW d \in alive \ crossed
               PROVE  /\ \A k, l \in Grabs : Waits(k, d)' /\ Waits(l, d)' => k = l
                      /\ \A k \in Grabs : Waits(k, d)' =>
                             Asked(k)' \notin Dotted /\ wire'[d] = ServerAnswer(Asked(k)')
                      /\ (\A k \in Grabs : ~Waits(k, d)') => wire'[d] = <<>>
    BY <1>1 DEF WireOwn, ServerAnswer, Body, Line
  <2>1. \A k \in Grabs : /\ Waits(k, d)' <=> Waits(k, d) /\ k # j
                         /\ k # j => Asked(k)' = Asked(k)
    BY <1>1, <1>5 DEF Waits, Asked
  <2>2. CASE d = c
    <3>1. \A k \in Grabs : ~Waits(k, d)'
      BY <1>1, <2>1, <2>2 DEF Readers, Waits
    <3>2. QED
      BY <3>1, <2>2, <1>4, <1>6
  <2>3. CASE d # c
    <3>1. ~Waits(j, d) /\ wire'[d] = wire[d]
      BY <1>0, <1>6, <2>3 DEF Waits, UsenetTypes
    <3>2. \A k \in Grabs : /\ Waits(k, d)' <=> Waits(k, d)
                           /\ Waits(k, d)' => Asked(k)' = Asked(k)
      BY <2>1, <3>1
    <3>3. QED
      BY <3>1, <3>2 DEF UsenetInv, WireOwn
  <2>4. QED
    BY <2>2, <2>3
<1>9. QED
  BY <1>5, <1>7, <1>8 DEF UsenetInv

\* Two jobs that read one connection may get anything: the connection is crossed for good.
LEMMA ReadRacedKeeps ==
    ASSUME UsenetInv, NEW j \in Grabs, ReadRaced(j)
    PROVE  UsenetInv'
<1> DEFINE c == on[j]
           w == wire[c]
           garbled == <<Line("garbled", NoArticle)>>
<1>0. UsenetTypes
  BY DEF UsenetInv
<1>1. /\ grabAt[j] = "read" /\ Readers(c) # {j} /\ c \in alive
      /\ \E n \in 0..Len(w) : wire' = [wire EXCEPT ![c] = SubSeq(w, n + 1, Len(w))]
      /\ \/ WriteSegment(j, garbled)
         \/ grabAt' = [grabAt EXCEPT ![j] = "idle"] /\ UNCHANGED <<disk, pos>>
      /\ UNCHANGED <<client, current, alive, on, attempts, crossed>>
  BY DEF ReadRaced
<1>2. c \in 1..Len(wire) /\ wire \in Seq(Seq(Lines)) /\ w \in Seq(Lines)
  BY <1>0, <1>1 DEF UsenetTypes
<1>3. c \in crossed
  <2> SUFFICES ASSUME c \notin crossed PROVE FALSE
    OBVIOUS
  <2>1. j \in Readers(c)
    BY <1>1 DEF Readers
  <2>2. PICK k \in Readers(c) : k # j
    BY <1>1, <2>1
  <2>3. k \in Grabs /\ Waits(k, c) /\ Waits(j, c)
    BY <1>1, <2>2 DEF Readers, Waits
  <2>4. c \in alive \ crossed
    BY <1>1
  <2>5. QED
    BY <2>2, <2>3, <2>4 DEF UsenetInv, WireOwn
<1>4. /\ wire' \in Seq(Seq(Lines)) /\ Len(wire') = Len(wire)
      /\ \A d \in (1..Len(wire)) \ {c} : wire'[d] = wire[d]
  <2>1. PICK n \in 0..Len(w) : wire' = [wire EXCEPT ![c] = SubSeq(w, n + 1, Len(w))]
    BY <1>1
  <2>2. SubSeq(w, n + 1, Len(w)) \in Seq(Lines)
    <3>1. Len(w) \in Nat /\ \A i \in 1..Len(w) : w[i] \in Lines
      BY <1>2
    <3>2. \A i \in (n + 1)..Len(w) : w[i] \in Lines
      BY <3>1
    <3>3. QED
      BY <3>1, <3>2, SubSeqProperties
  <2>3. QED
    BY <1>2, <2>1, <2>2
<1>5. /\ pos' \in [Grabs -> (1..(Len(Segments) + 1)) \X (Nat \ {0})]
      /\ grabAt' \in [Grabs -> {"idle", "send", "read", "done"}]
      /\ disk' \in [Grabs -> Seq(SegmentWritten)]
      /\ AtSegment' /\ WrittenAsAsked'
      /\ grabAt'[j] # "read"
      /\ \A k \in Grabs \ {j} : grabAt'[k] = grabAt[k] /\ pos'[k] = pos[k]
  <2>1. CASE WriteSegment(j, garbled)
    <3>1. Decoded(garbled) = garbled
      BY LineFacts DEF Decoded
    <3>2. garbled \in Seq(Lines)
      <4>1. Line("garbled", NoArticle) \in Lines
        BY DEF Line, Lines, Kinds
      <4>2. QED
        BY <4>1
    <3> HIDE DEF garbled
    <3>3. QED
      BY <1>0, <1>1, <1>3, <2>1, <3>1, <3>2, WriteSegmentFacts DEF UsenetInv
  <2>2. CASE grabAt' = [grabAt EXCEPT ![j] = "idle"] /\ UNCHANGED <<disk, pos>>
    <3>1. grabAt' \in [Grabs -> {"idle", "send", "read", "done"}] /\ grabAt'[j] = "idle"
          /\ \A k \in Grabs \ {j} : grabAt'[k] = grabAt[k]
      BY <1>0, <2>2 DEF UsenetTypes
    <3>2. AtSegment'
      BY <1>1, <2>2, <3>1 DEF UsenetInv, AtSegment
    <3>3. WrittenAsAsked'
      BY <1>1, <2>2 DEF UsenetInv, WrittenAsAsked, Segment
    <3>4. QED
      BY <1>0, <2>2, <3>1, <3>2, <3>3 DEF UsenetTypes
  <2>3. QED
    BY <1>1, <2>1, <2>2
<1>6. UsenetTypes'
  BY <1>0, <1>1, <1>4, <1>5 DEF UsenetTypes
<1>7. WireOwn'
  <2> SUFFICES ASSUME NEW d \in alive \ crossed
               PROVE  /\ \A k, l \in Grabs : Waits(k, d)' /\ Waits(l, d)' => k = l
                      /\ \A k \in Grabs : Waits(k, d)' =>
                             Asked(k)' \notin Dotted /\ wire'[d] = ServerAnswer(Asked(k)')
                      /\ (\A k \in Grabs : ~Waits(k, d)') => wire'[d] = <<>>
    BY <1>1 DEF WireOwn, ServerAnswer, Body, Line
  <2>1. d # c
    BY <1>3
  <2>2. ~Waits(j, d) /\ wire'[d] = wire[d]
    BY <1>0, <1>4, <2>1 DEF Waits, UsenetTypes
  <2>3. \A k \in Grabs : /\ Waits(k, d)' <=> Waits(k, d)
                         /\ Waits(k, d)' => Asked(k)' = Asked(k)
    BY <1>1, <1>5, <2>2 DEF Waits, Asked
  <2>4. QED
    BY <2>2, <2>3 DEF UsenetInv, WireOwn
<1>8. QED
  BY <1>5, <1>6, <1>7 DEF UsenetInv

\* Connections lost, and nothing sent or read.
LEMMA WireSame ==
    ASSUME WireOwn, alive' \subseteq alive, UNCHANGED <<wire, grabAt, on, pos, crossed>>
    PROVE  WireOwn'
<1>1. \A k \in Grabs : Asked(k)' = Asked(k) /\ \A d \in alive : Waits(k, d)' <=> Waits(k, d)
  BY DEF Asked, Waits
<1> SUFFICES ASSUME NEW d \in alive' \ crossed
             PROVE  /\ \A k, l \in Grabs : Waits(k, d)' /\ Waits(l, d)' => k = l
                    /\ \A k \in Grabs : Waits(k, d)' =>
                           Asked(k)' \notin Dotted /\ wire'[d] = ServerAnswer(Asked(k)')
                    /\ (\A k \in Grabs : ~Waits(k, d)') => wire'[d] = <<>>
  BY DEF WireOwn, ServerAnswer, Body, Line
<1>2. d \in alive \ crossed
  OBVIOUS
<1>3. QED
  BY <1>1, <1>2 DEF WireOwn

\* A connection is lost, or closed with the client.
LEMMA LostKeeps ==
    ASSUME UsenetInv, NEW c, alive' = alive \ {c}, client' \in {0, client},
           UNCHANGED <<current, wire, grabAt, on, pos, attempts, disk, crossed>>
    PROVE  UsenetInv'
<1>1. UsenetTypes'
  <2>1. 0 \in 0..Len(wire) /\ client' \in 0..Len(wire)
    BY DEF UsenetInv, UsenetTypes
  <2>2. alive' \subseteq 1..Len(wire)
    BY DEF UsenetInv, UsenetTypes
  <2>3. QED
    BY <2>1, <2>2 DEF UsenetInv, UsenetTypes
<1>2. AtSegment' /\ WrittenAsAsked'
  BY DEF UsenetInv, AtSegment, WrittenAsAsked, Segment
<1>3. WireOwn'
  BY WireSame DEF UsenetInv
<1>4. QED
  BY <1>1, <1>2, <1>3 DEF UsenetInv

\* The program ends and is started again: no connection is left.
LEMMA PanicKeeps == ASSUME UsenetInv, NEW j \in Grabs, ReadPanics(j) PROVE UsenetInv'
<1>1. /\ grabAt' = [k \in Grabs |-> IF grabAt[k] = "done" THEN "done" ELSE "idle"]
      /\ client' = 0 /\ current' = 1 /\ alive' = {}
      /\ UNCHANGED <<wire, on, pos, attempts, disk, crossed>>
  BY DEF ReadPanics
<1>2. UsenetTypes'
  <2>1. 0 \in 0..Len(wire) /\ 1 \in 1..Servers
    BY UsenetAssumption DEF UsenetInv, UsenetTypes
  <2>2. QED
    BY <1>1, <2>1 DEF UsenetInv, UsenetTypes
<1>3. AtSegment' /\ WrittenAsAsked' /\ WireOwn'
  BY <1>1 DEF UsenetInv, AtSegment, WrittenAsAsked, Segment, WireOwn
<1>4. QED
  BY <1>2, <1>3 DEF UsenetInv

\* Every step of the jobs and of the connections keeps the invariant.
LEMMA UsenetStep == UsenetInv /\ [UsenetNext]_usenetVars => UsenetInv'
<1> SUFFICES ASSUME UsenetInv, [UsenetNext]_usenetVars PROVE UsenetInv'
    OBVIOUS
<1>1. ASSUME NEW j \in Grabs, GrabStep(j) PROVE UsenetInv'
  <2>1. CASE GiveUp(j) \/ ReadFails(j)
    BY <2>1, LeavesKeeps DEF GiveUp, ReadFails
  <2>2. QED
    BY <1>1, <2>1, ConnectKeeps, SendKeeps, ReadKeeps, ReadRacedKeeps, PanicKeeps DEF GrabStep
<1>2. ASSUME NEW c \in alive, ConnectionLost(c) PROVE UsenetInv'
  BY <1>2, LostKeeps DEF ConnectionLost
<1>3. CASE CloseUsenet
  BY <1>3, LostKeeps DEF CloseUsenet
<1>4. CASE UNCHANGED usenetVars
  <2>1. UNCHANGED <<client, current, wire, alive, grabAt, on, pos, attempts, disk, crossed>>
    BY <1>4 DEF usenetVars
  <2>2. UsenetTypes' /\ AtSegment' /\ WrittenAsAsked'
    BY <2>1 DEF UsenetInv, UsenetTypes, AtSegment, WrittenAsAsked, Segment
  <2>3. WireOwn'
    BY <2>1, WireSame DEF UsenetInv
  <2>4. QED
    BY <2>2, <2>3 DEF UsenetInv
<1>5. QED
  BY <1>1, <1>2, <1>3, <1>4 DEF UsenetNext

\* The invariant holds in every state.
LEMMA UsenetInvariant == UsenetSpec => []UsenetInv
<1>1. QED
  BY UsenetInvInit, UsenetStep, PTL DEF UsenetSpec

\* For any number of jobs, servers, files and segments, and whatever connection is lost or replaced
\* when: a job writes the segment it asked for, unless two jobs waited on the connection or
\* an answer on it was cut short by a line with a dot.
THEOREM SegmentsAreOwn == UsenetSpec => []WrittenAsAsked
<1>1. UsenetInv => WrittenAsAsked
  BY DEF UsenetInv
<1>2. QED
  BY <1>1, UsenetInvariant, PTL

\* The usenet client is well typed, for any number of jobs, servers and segments.
THEOREM UsenetTyped == UsenetSpec => []UsenetTypeOK
<1>1. UsenetInv => UsenetTypeOK
  BY DEF UsenetInv, UsenetTypes, UsenetTypeOK, SegmentWritten
<1>2. QED
  BY <1>1, UsenetInvariant, PTL

-----------------------------------------------------------------------------
(* Moves between locations (StorageManager).                               *)

\* The chunks of files, and the roots of locations.
Chunk == Files \X (1..Chunks)
Roots == {l.root : l \in Locations}
\* Movers that have been given two places, and those that have not.
Given == [step : {"read", "write", "copy", "delete", "over"}, src : Places, dst : Places,
          in : Nat, out : Nat, pos : Nat]
NotGiven == [step : {"idle", "over"}]
\* A mover that has been given two places.
Started(m) == "src" \in DOMAIN move[m]

\* The types of StorageManager.
StorageTypes ==
    /\ \A i \in DOMAIN backends : backends[i] \in Roots
    /\ body \in Seq(Seq(Chunk))
    /\ path \in [Places -> 0..Len(body)]
    /\ move \in [Movers -> Given \cup NotGiven]
    /\ \A m \in Movers : Started(m) =>
          /\ move[m].step \in {"write", "copy"} => move[m].in \in 1..Len(body)
          /\ move[m].step = "copy" => move[m].out \in 1..Len(body)

\* A file has one place.
OnePlace == \A p, q \in Places : path[p] = path[q] /\ path[p] # 0 => p = q

\* No two movers share a place.
Apart == \A m, n \in Movers : m # n => Ends(m) \cap Ends(n) = {}
\* A place has the whole of a file.
IsAt(p, f) == path[p] # 0 /\ body[path[p]] = Whole(f)
\* The first n chunks of a file.
Part(f, n) == [k \in 1..n |-> <<f, k>>]

\* A mover that is alone at its places works on the files that are there, ...
OpenHere(m) ==
    /\ move[m].step \in {"write", "copy"} => move[m].in = path[move[m].src] /\ move[m].in # 0
    /\ move[m].step = "copy" => move[m].out = path[move[m].dst] /\ move[m].out # 0
\* ... and what it moves is at the source until the target is a whole copy.
Moving(m, f) ==
    /\ move[m].step \in {"read", "write", "copy"} => IsAt(move[m].src, f)
    /\ move[m].step \in {"read", "write"} => move[m].pos = 0
    /\ move[m].step = "copy" => move[m].pos \in 0..Chunks /\ body[move[m].out] = Part(f, move[m].pos)
    /\ move[m].step = "delete" => IsAt(move[m].dst, f)
    /\ move[m].step = "over" => IsAt(move[m].src, f) \/ IsAt(move[m].dst, f)
\* What a mover does to its own file, and to no other.
MoverHolds(m) ==
    Started(m) => /\ OpenHere(m)
                  /\ \A f \in Files : Home(f) = move[m].src /\ move[m].src # move[m].dst => Moving(m, f)
\* A file no mover was given stays where it was.
FileStays(f) == (\A m \in Movers : Home(f) \notin Ends(m)) => IsAt(Home(f), f)

\* While no two movers share a place, every move and every file that is not moved is as it
\* should be.
MovesHold == Apart => (\A m \in Movers : MoverHolds(m)) /\ (\A f \in Files : FileStays(f))

\* The inductive invariant of the storage.
StorageInv == StorageTypes /\ OnePlace /\ MovesHold

-----------------------------------------------------------------------------
\* Which mover records have places.
LEMMA MoverRecords ==
    /\ \A r \in Given : "src" \in DOMAIN r
    /\ \A r \in NotGiven : "src" \notin DOMAIN r
<1>1. ASSUME NEW r \in Given PROVE "src" \in DOMAIN r
  BY DEF Given
<1>2. ASSUME NEW r \in NotGiven PROVE "src" \notin DOMAIN r
  BY DEF NotGiven
<1>3. QED
  BY <1>1, <1>2

\* A file that was stored has one home, a place.
LEMMA Homes == \A f \in Files : Home(f) \in DOMAIN Stored /\ Home(f) \in Places /\ Stored[Home(f)] = f
<1> SUFFICES ASSUME NEW f \in Files PROVE Home(f) \in DOMAIN Stored /\ Stored[Home(f)] = f
  BY StorageAssumption
<1>1. \E p \in DOMAIN Stored : Stored[p] = f
  BY DEF Files, Range
<1>2. QED
  BY <1>1 DEF Home

\* Inodes numbers the places of the stored files.
LEMMA InodesNumber ==
    /\ Cardinality(DOMAIN Stored) \in Nat
    /\ DOMAIN Inodes = 1..Cardinality(DOMAIN Stored)
    /\ \A n \in DOMAIN Inodes : Inodes[n] \in DOMAIN Stored
    /\ \A p \in DOMAIN Stored : \E n \in DOMAIN Inodes : Inodes[n] = p
<1> DEFINE N == Cardinality(DOMAIN Stored)
           D == DOMAIN Stored
<1>1. IsFiniteSet(D)
  BY StorageAssumption
<1>2. N \in Nat /\ ExistsBijection(1..N, D)
  BY <1>1, FS_CardinalityType
<1> HIDE DEF N, D
<1>3. PICK s \in [1..N -> D] : \A p \in D : \E n \in 1..N : s[n] = p
  BY <1>2 DEF ExistsBijection, Bijection, Surjection
<1>4. Range(s) = D
  BY <1>3 DEF Range
<1>5. Inodes \in [1..N -> D] /\ Range(Inodes) = D
  <2>1. Inodes = CHOOSE t \in [1..N -> D] : Range(t) = D
    BY DEF Inodes, N, D
  <2>2. QED
    BY <1>4, <2>1
<1>6. \A p \in D : \E n \in 1..N : Inodes[n] = p
  BY <1>5 DEF Range
<1>7. QED
  BY <1>2, <1>5, <1>6 DEF N, D

\* The first state: every stored file is in its place.
LEMMA StorageInvInit == StorageInit => StorageInv
<1> SUFFICES ASSUME StorageInit PROVE StorageInv
  OBVIOUS
<1> DEFINE N == Cardinality(DOMAIN Stored)
<1>1. /\ N \in Nat /\ DOMAIN Inodes = 1..N
      /\ \A n \in 1..N : Inodes[n] \in DOMAIN Stored
      /\ \A p \in DOMAIN Stored : \E n \in 1..N : Inodes[n] = p
  BY InodesNumber
<1> HIDE DEF N
<1>2. body = [n \in 1..N |-> Whole(Stored[Inodes[n]])]
  BY <1>1 DEF StorageInit
<1>3. \A n \in 1..N : Whole(Stored[Inodes[n]]) \in Seq(Chunk)
  <2> SUFFICES ASSUME NEW n \in 1..N PROVE Whole(Stored[Inodes[n]]) \in Seq(Chunk)
    OBVIOUS
  <2>1. Stored[Inodes[n]] \in Files
    BY <1>1 DEF Files, Range
  <2>2. \A k \in 1..Chunks : <<Stored[Inodes[n]], k>> \in Chunk
    BY <2>1 DEF Chunk
  <2>3. QED
    BY <2>2, StorageAssumption DEF Whole
<1>4. body \in Seq(Seq(Chunk)) /\ Len(body) = N
  BY <1>1, <1>2, <1>3
<1>5. \A p \in Places : IF p \in DOMAIN Stored THEN path[p] \in 1..N /\ Inodes[path[p]] = p ELSE path[p] = 0
  <2>1. path = [p \in Places |-> IF p \in DOMAIN Stored
                                THEN CHOOSE n \in 1..N : Inodes[n] = p ELSE 0]
    BY <1>1 DEF StorageInit
  <2>2. QED
    BY <1>1, <2>1
<1>6. path \in [Places -> 0..N]
  <2>1. path = [p \in Places |-> path[p]]
    BY DEF StorageInit
  <2>2. \A p \in Places : path[p] \in 0..N
    BY <1>1, <1>5
  <2>3. QED
    BY <2>1, <2>2
<1>7. \A m \in Movers : move[m] \in NotGiven /\ ~Started(m)
  <2>1. \A m \in Movers : move[m] = [step |-> "idle"]
    BY DEF StorageInit
  <2>2. \A m \in Movers : move[m] \in NotGiven
    BY <2>1 DEF NotGiven
  <2>3. QED
    BY <2>2, MoverRecords DEF Started
<1>8. move \in [Movers -> Given \cup NotGiven]
  <2>1. move = [m \in Movers |-> move[m]]
    BY DEF StorageInit
  <2>2. QED
    BY <1>7, <2>1
<1>9. \A i \in DOMAIN backends : backends[i] \in Roots
  <2>1. PICK b \in BOOLEAN : backends = Loaded(b)
    BY DEF StorageInit
  <2>2. ASSUME NEW i \in DOMAIN backends PROVE backends[i] \in Roots
    <3>1. i \in {0} \cup DOMAIN DbRoots /\ backends[i] = IF i = 0 THEN ConfigRoots[Len(ConfigRoots)] ELSE DbRoots[i]
      BY <2>1, <2>2 DEF Loaded
    <3>2. CASE i = 0
      <4>1. Len(ConfigRoots) \in DOMAIN ConfigRoots
        BY StorageAssumption, EmptySeq
      <4>2. ConfigRoots[Len(ConfigRoots)] \in Range(ConfigRoots)
        BY <4>1 DEF Range
      <4>3. [id |-> 0, root |-> ConfigRoots[Len(ConfigRoots)]] \in Locations
        BY <4>2 DEF Locations
      <4>4. QED
        BY <3>1, <3>2, <4>3 DEF Roots
    <3>3. CASE i # 0
      <4>1. [id |-> i, root |-> DbRoots[i]] \in Locations
        BY <3>1, <3>3 DEF Locations
      <4>2. QED
        BY <3>1, <3>3, <4>1 DEF Roots
    <3>4. QED
      BY <3>2, <3>3
  <2>3. QED
    BY <2>2
<1>10. StorageTypes
  BY <1>4, <1>6, <1>7, <1>8, <1>9 DEF StorageTypes
<1>11. OnePlace
  BY <1>5 DEF OnePlace
<1>12. MovesHold
  <2>1. \A f \in Files : IsAt(Home(f), f)
    <3> SUFFICES ASSUME NEW f \in Files PROVE IsAt(Home(f), f)
      OBVIOUS
    <3>1. Home(f) \in Places /\ Home(f) \in DOMAIN Stored /\ Stored[Home(f)] = f
      BY Homes
    <3>2. path[Home(f)] \in 1..N /\ Inodes[path[Home(f)]] = Home(f)
      BY <1>5, <3>1
    <3>3. QED
      BY <1>1, <1>2, <3>1, <3>2 DEF IsAt
  <2>2. QED
    BY <1>7, <2>1 DEF MovesHold, MoverHolds, FileStays
<1>13. QED
  BY <1>10, <1>11, <1>12 DEF StorageInv

-----------------------------------------------------------------------------
\* What the types say of one mover.
LEMMA MoverFacts ==
    ASSUME StorageTypes, NEW m \in Movers
    PROVE  /\ Started(m) => move[m] \in Given /\ Ends(m) = {move[m].src, move[m].dst}
           /\ ~Started(m) => move[m] \in NotGiven /\ Ends(m) = {}
           /\ move[m].step \notin {"idle", "over"} => Started(m)
<1>1. move[m] \in Given \cup NotGiven
  BY DEF StorageTypes
<1>2. Started(m) => move[m] \in Given
  BY <1>1, MoverRecords DEF Started
<1>3. ~Started(m) => move[m] \in NotGiven
  BY <1>1, MoverRecords DEF Started
<1>4. move[m] \in NotGiven => move[m].step \in {"idle", "over"}
  BY DEF NotGiven
<1>5. QED
  BY <1>2, <1>3, <1>4 DEF Ends, Started

\* The record of a mover that has its places, at another step.
LEMMA MoverGoes ==
    ASSUME StorageTypes, NEW m \in Movers, Started(m),
           NEW step \in {"read", "write", "copy", "delete", "over"}, MoveGoes(m, step)
    PROVE  /\ move' \in [Movers -> Given \cup NotGiven]
           /\ move'[m] \in Given /\ move'[m].step = step
           /\ move'[m].src = move[m].src /\ move'[m].dst = move[m].dst
           /\ move'[m].in = move[m].in /\ move'[m].out = move[m].out /\ move'[m].pos = move[m].pos
           /\ \A n \in Movers : n # m => move'[n] = move[n]
<1>1. move[m] \in Given
  BY MoverFacts
<1>2. [move[m] EXCEPT !.step = step] \in Given
  BY <1>1 DEF Given
<1>3. move' = [move EXCEPT ![m] = [move[m] EXCEPT !.step = step]] /\ move \in [Movers -> Given \cup NotGiven]
  BY DEF MoveGoes, StorageTypes
<1>4. move'[m] = [move[m] EXCEPT !.step = step]
  BY <1>3
<1>5. QED
  BY <1>1, <1>2, <1>3, <1>4 DEF Given

\* Movers that stay apart were apart: what a mover has is never taken from it.
LEMMA ApartBefore ==
    ASSUME StorageTypes, NEW m \in Movers, Ends(m) \subseteq Ends(m)',
           \A n \in Movers : n # m => move'[n] = move[n], Apart'
    PROVE  Apart /\ \A n \in Movers : n # m => Ends(n)' = Ends(n)
<1>1. \A n \in Movers : n # m => Ends(n)' = Ends(n)
  BY DEF Ends
<1>2. \A n \in Movers : Ends(n) \subseteq Ends(n)'
  BY <1>1
<1>3. \A n, o \in Movers : n # o => Ends(n)' \cap Ends(o)' = {}
  BY DEF Apart
<1>4. \A n, o \in Movers : n # o => Ends(n) \cap Ends(o) = {}
  BY <1>2, <1>3
<1>5. QED
  BY <1>1, <1>4 DEF Apart

\* A step of a mover that changes one of its own places, or the file there, is not
\* seen by the others.
LEMMA OtherMoversHold ==
    ASSUME StorageInv, NEW m \in Movers, Apart, Apart', NEW q,
           Ends(m) \subseteq Ends(m)', q \in Ends(m) \/ (path' = path /\ body' = body),
           \A n \in Movers : n # m => move'[n] = move[n],
           \A p \in Places : p # q => /\ path'[p] = path[p]
                                      /\ path[p] # 0 => body'[path[p]] = body[path[p]]
    PROVE  /\ \A n \in Movers : n # m => MoverHolds(n)'
           /\ \A f \in Files : FileStays(f)'
<1>1. /\ StorageTypes /\ \A n \in Movers : MoverHolds(n)
      /\ \A f \in Files : FileStays(f)
  BY DEF StorageInv, MovesHold
<1>2. \A n \in Movers : n # m => Ends(n)' = Ends(n)
  BY DEF Ends
<1>3. \A p \in Places : (\E n \in Movers : n # m /\ p \in Ends(n)) \/ (\A n \in Movers : p \notin Ends(n)) =>
          path'[p] = path[p] /\ (path[p] # 0 => body'[path[p]] = body[path[p]])
  <2> SUFFICES ASSUME NEW p \in Places, (\E n \in Movers : n # m /\ p \in Ends(n)) \/ (\A n \in Movers : p \notin Ends(n))
               PROVE  path'[p] = path[p] /\ (path[p] # 0 => body'[path[p]] = body[path[p]])
    OBVIOUS
  <2>1. CASE path' = path /\ body' = body
    BY <2>1
  <2>2. CASE q \in Ends(m)
    <3>1. p # q
      BY <2>2 DEF Apart
    <3>2. QED
      BY <3>1
  <2>3. QED
    BY <2>1, <2>2
<1>4. \A p \in Places, f \in Files :
          (\E n \in Movers : n # m /\ p \in Ends(n)) \/ (\A n \in Movers : p \notin Ends(n)) =>
              (IsAt(p, f) => IsAt(p, f)')
  BY <1>3 DEF IsAt
<1>5. ASSUME NEW n \in Movers, n # m PROVE MoverHolds(n)'
  <2> SUFFICES ASSUME Started(n)'
               PROVE  /\ OpenHere(n)'
                      /\ \A f \in Files : Home(f) = move'[n].src /\ move'[n].src # move'[n].dst => Moving(n, f)'
    BY DEF MoverHolds
  <2>1. move'[n] = move[n] /\ Started(n)
    BY <1>5 DEF Started
  <2>2. move[n] \in Given /\ Ends(n) = {move[n].src, move[n].dst}
    BY <1>1, <2>1, MoverFacts
  <2>3. /\ move[n].src \in Places /\ move[n].src \in Ends(n)
        /\ move[n].dst \in Places /\ move[n].dst \in Ends(n)
    BY <2>2 DEF Given
  <2>4. path'[move[n].src] = path[move[n].src] /\ path'[move[n].dst] = path[move[n].dst]
    BY <1>3, <1>5, <2>3
  <2>5. OpenHere(n) /\ \A f \in Files : Home(f) = move[n].src /\ move[n].src # move[n].dst => Moving(n, f)
    BY <1>1, <2>1 DEF MoverHolds
  <2>6. OpenHere(n)'
    BY <2>1, <2>4, <2>5 DEF OpenHere
  <2>7. ASSUME NEW f \in Files, Moving(n, f) PROVE Moving(n, f)'
    <3>1. PICK s \in Places, d \in Places : s = move[n].src /\ d = move[n].dst
      BY <2>3
    <3>2. (IsAt(s, f) => IsAt(s, f)') /\ (IsAt(d, f) => IsAt(d, f)')
      BY <1>4, <1>5, <2>3, <3>1
    <3>3. move[n].step = "copy" => body'[move[n].out] = body[move[n].out]
      BY <1>3, <1>5, <2>3, <2>5 DEF OpenHere
    <3>4. move'[n].src = s /\ move'[n].dst = d
      BY <2>1, <3>1
    <3>5. QED
      BY <2>1, <2>7, <3>1, <3>2, <3>3, <3>4 DEF Moving, IsAt
  <2>8. QED
    BY <2>1, <2>5, <2>6, <2>7
<1>6. ASSUME NEW f \in Files PROVE FileStays(f)'
  <2> SUFFICES ASSUME \A n \in Movers : Home(f) \notin Ends(n)' PROVE IsAt(Home(f), f)'
    BY DEF FileStays, Home
  <2>1. \A n \in Movers : Home(f) \notin Ends(n)
    BY <1>2
  <2>2. IsAt(Home(f), f)
    BY <1>1, <2>1 DEF FileStays
  <2>3. IsAt(Home(f), f)'
    BY <1>4, <2>1, <2>2, Homes DEF IsAt, Home
  <2>4. QED
    BY <2>3
<1>7. QED
  BY <1>5, <1>6

\* The invariant from its parts, after a step of mover m.
LEMMA MoverStep ==
    ASSUME StorageInv, NEW m \in Movers, StorageTypes', OnePlace', NEW q,
           Ends(m) \subseteq Ends(m)', q \in Ends(m) \/ (path' = path /\ body' = body),
           \A n \in Movers : n # m => move'[n] = move[n],
           Apart => \A p \in Places : p # q => /\ path'[p] = path[p]
                                               /\ path[p] # 0 => body'[path[p]] = body[path[p]],
           Apart /\ Apart' => MoverHolds(m)'
    PROVE  StorageInv'
<1>1. ASSUME Apart' PROVE (\A n \in Movers : MoverHolds(n)') /\ (\A f \in Files : FileStays(f)')
  <2>1. Apart
    BY <1>1, ApartBefore DEF StorageInv
  <2>2. /\ \A n \in Movers : n # m => MoverHolds(n)'
        /\ \A f \in Files : FileStays(f)'
    BY <1>1, <2>1, OtherMoversHold
  <2>3. QED
    BY <1>1, <2>1, <2>2
<1>2. MovesHold'
  BY <1>1 DEF MovesHold
<1>3. QED
  BY <1>2 DEF StorageInv

\* A move begins: its places are places.
LEMMA BeginTyped ==
    ASSUME StorageTypes, NEW m \in Movers, NEW from \in Locations, NEW to \in Locations,
           NEW k \in Keys, NEW l \in Keys, BeginMove(m, from, to, k, l)
    PROVE  StorageTypes' /\ (Started(m)' => move'[m].step = "read" /\ move'[m].pos = 0)
<1>1. RootFor(from) \in Roots /\ RootFor(to) \in Roots
  BY DEF RootFor, Roots, StorageTypes
<1>2. UNCHANGED <<path, body>> /\ move[m].step = "idle"
  BY DEF BeginMove, MoveIsAt
<1>3. ~Started(m) /\ move[m] \in NotGiven
  <2>1. move[m] \in Given => move[m].step # "idle"
    BY DEF Given
  <2>2. QED
    BY <1>2, <2>1, MoverFacts
<1> DEFINE missing == {x \in {from, to} : x.id \notin DOMAIN backends}
<1>4. CASE panicked' = TRUE /\ MoveGoes(m, "over") /\ UNCHANGED backends
  <2>1. [move[m] EXCEPT !.step = "over"] \in NotGiven
    BY <1>3 DEF NotGiven
  <2>2. move' = [move EXCEPT ![m] = [move[m] EXCEPT !.step = "over"]]
    BY <1>4 DEF MoveGoes
  <2>3. move'[m] \in NotGiven /\ move' \in [Movers -> Given \cup NotGiven]
    BY <2>1, <2>2 DEF StorageTypes
  <2>4. ~Started(m)'
    BY <2>3, MoverRecords DEF Started
  <2>5. \A n \in Movers : n # m => move'[n] = move[n]
    BY <2>2 DEF StorageTypes
  <2>6. \A n \in Movers : Started(n)' =>
          /\ move'[n].step \in {"write", "copy"} => move'[n].in \in 1..Len(body)
          /\ move'[n].step = "copy" => move'[n].out \in 1..Len(body)
    BY <2>4, <2>5 DEF StorageTypes, Started
  <2>7. QED
    BY <1>2, <1>4, <2>3, <2>4, <2>6 DEF StorageTypes
<1>5. CASE /\ backends' = Added(missing)
           /\ move' = [move EXCEPT ![m] =
                       [step |-> "read", src |-> <<RootFor(from), k>>,
                        dst |-> <<RootFor(to), l>>, in |-> 0, out |-> 0, pos |-> 0]]
  <2> DEFINE r == [step |-> "read", src |-> <<RootFor(from), k>>,
                   dst |-> <<RootFor(to), l>>, in |-> 0, out |-> 0, pos |-> 0]
  <2>1. r \in Given /\ r.step = "read" /\ r.pos = 0
    <3>1. <<RootFor(from), k>> \in Places /\ <<RootFor(to), l>> \in Places
      BY <1>1 DEF Places, Roots
    <3>2. QED
      BY <3>1 DEF Given
  <2> HIDE DEF r
  <2>2. move' = [move EXCEPT ![m] = r]
    BY <1>5 DEF r
  <2>3. move'[m] = r /\ move' \in [Movers -> Given \cup NotGiven]
    BY <2>1, <2>2 DEF StorageTypes
  <2>4. \A n \in Movers : n # m => move'[n] = move[n]
    BY <2>2 DEF StorageTypes
  <2>5. \A n \in Movers : Started(n)' =>
          /\ move'[n].step \in {"write", "copy"} => move'[n].in \in 1..Len(body)
          /\ move'[n].step = "copy" => move'[n].out \in 1..Len(body)
    BY <2>1, <2>3, <2>4 DEF StorageTypes, Started
  <2>6. \A i \in DOMAIN backends' : backends'[i] \in Roots
    <3> SUFFICES ASSUME NEW i \in DOMAIN backends' PROVE backends'[i] \in Roots
      OBVIOUS
    <3>1. /\ i \in DOMAIN backends \cup {x.id : x \in missing}
          /\ backends'[i] = IF i \in DOMAIN backends THEN backends[i] ELSE (CHOOSE x \in missing : x.id = i).root
      BY <1>5 DEF Added
    <3>2. CASE i \in DOMAIN backends
      BY <3>1, <3>2 DEF StorageTypes
    <3>3. CASE i \notin DOMAIN backends
      <4>1. \E x \in missing : x.id = i
        BY <3>1, <3>3
      <4>2. (CHOOSE x \in missing : x.id = i) \in missing
        BY <4>1
      <4>3. (CHOOSE x \in missing : x.id = i) \in Locations
        BY <4>2
      <4>4. QED
        BY <3>1, <3>3, <4>3 DEF Roots
    <3>4. QED
      BY <3>2, <3>3
  <2>7. QED
    BY <1>2, <2>1, <2>3, <2>5, <2>6 DEF StorageTypes
<1>6. QED
  BY <1>4, <1>5 DEF BeginMove

\* What a mover starts to move is still at home when nobody else was there.
LEMMA BeginHolds ==
    ASSUME StorageInv, NEW m \in Movers, NEW from \in Locations, NEW to \in Locations,
           NEW k \in Keys, NEW l \in Keys, BeginMove(m, from, to, k, l)
    PROVE  StorageInv'
<1>1. StorageTypes /\ StorageTypes' /\ (Started(m)' => move'[m].step = "read" /\ move'[m].pos = 0)
  BY BeginTyped DEF StorageInv
<1>2. UNCHANGED <<path, body>> /\ move[m].step = "idle"
  BY DEF BeginMove, MoveIsAt
<1>3. \A n \in Movers : n # m => move'[n] = move[n]
  BY <1>1 DEF BeginMove, MoveGoes, StorageTypes
<1>4. Ends(m) = {}
  <2>1. move[m] \in Given => move[m].step # "idle"
    BY DEF Given
  <2>2. QED
    BY <1>1, <1>2, <2>1, MoverFacts
<1>5. OnePlace'
  BY <1>2 DEF StorageInv, OnePlace
<1>6. ASSUME Apart, Apart' PROVE MoverHolds(m)'
  <2> SUFFICES ASSUME Started(m)'
               PROVE  /\ OpenHere(m)'
                      /\ \A f \in Files : Home(f) = move'[m].src /\ move'[m].src # move'[m].dst => Moving(m, f)'
    BY DEF MoverHolds, Home
  <2>1. move'[m].step = "read" /\ move'[m].pos = 0
    BY <1>1
  <2>2. OpenHere(m)'
    BY <2>1 DEF OpenHere
  <2>3. ASSUME NEW f \in Files, Home(f) = move'[m].src PROVE Moving(m, f)'
    <3>1. \A n \in Movers : n # m => Home(f) \notin Ends(n)
      <4> SUFFICES ASSUME NEW n \in Movers, n # m PROVE Home(f) \notin Ends(n)
        OBVIOUS
      <4>1. Home(f) \in Ends(m)'
        BY <2>3 DEF Ends, Started
      <4>2. Ends(n)' = Ends(n)
        BY <1>3 DEF Ends
      <4>3. QED
        BY <1>6, <4>1, <4>2 DEF Apart
    <3>2. IsAt(Home(f), f)
      BY <1>4, <1>6, <3>1 DEF StorageInv, MovesHold, FileStays
    <3>3. QED
      BY <1>2, <2>1, <2>3, <3>2 DEF Moving, IsAt
  <2>4. QED
    BY <2>2, <2>3
<1>7. QED
  BY <1>1, <1>2, <1>3, <1>4, <1>5, <1>6, MoverStep

\* The types after a step that leaves the backends alone and keeps the number of inodes
\* or adds to it.
LEMMA StorageTypesAfter ==
    ASSUME StorageTypes, NEW m \in Movers, backends' = backends,
           body' \in Seq(Seq(Chunk)), Len(body') >= Len(body),
           path' \in [Places -> 0..Len(body')],
           move' \in [Movers -> Given \cup NotGiven],
           move'[m].step \in {"write", "copy"} => move'[m].in \in 1..Len(body'),
           move'[m].step = "copy" => move'[m].out \in 1..Len(body'),
           \A n \in Movers : n # m => move'[n] = move[n]
    PROVE  StorageTypes'
<1>1. \A n \in Movers : n # m => (Started(n)' => Started(n))
  BY DEF Started
<1>2. Len(body) \in Nat /\ Len(body') \in Nat
  BY DEF StorageTypes
<1>3. \A n \in Movers : n # m => (Started(n)' =>
          /\ move'[n].step \in {"write", "copy"} => move'[n].in \in 1..Len(body')
          /\ move'[n].step = "copy" => move'[n].out \in 1..Len(body'))
  BY <1>1, <1>2 DEF StorageTypes
<1>4. \A i \in DOMAIN backends' : backends'[i] \in Roots
  BY DEF StorageTypes
<1>5. QED
  BY <1>3, <1>4 DEF StorageTypes

\* The source is opened.
LEMMA OpenSourceHolds == ASSUME StorageInv, NEW m \in Movers, OpenSource(m) PROVE StorageInv'
<1>1. StorageTypes /\ OnePlace /\ MovesHold
  BY DEF StorageInv
<1>2. Started(m) /\ move[m] \in Given /\ Ends(m) = {move[m].src, move[m].dst} /\ move[m].step = "read"
  BY <1>1, MoverFacts DEF OpenSource, MoveIsAt
<1>3. UNCHANGED <<backends, path, body>>
  BY DEF OpenSource
<1> DEFINE i == path[move[m].src]
<1>4. i \in 0..Len(body) /\ Len(body) \in Nat
  BY <1>1, <1>2 DEF StorageTypes, Given
<1>5. /\ move' \in [Movers -> Given \cup NotGiven] /\ move'[m] \in Given
      /\ move'[m].src = move[m].src /\ move'[m].dst = move[m].dst
      /\ \A n \in Movers : n # m => move'[n] = move[n]
      /\ move'[m].step = (IF i = 0 THEN "over" ELSE "write") /\ (i # 0 => move'[m].in = i)
      /\ move'[m].pos = move[m].pos
  <2>1. CASE i = 0
    <3>1. MoveGoes(m, "over")
      BY <2>1 DEF OpenSource
    <3>2. QED
      BY <1>1, <1>2, <2>1, <3>1, MoverGoes
  <2>2. CASE i # 0
    <3>1. move' = [move EXCEPT ![m] = [[move[m] EXCEPT !.step = "write"] EXCEPT !.in = i]]
      BY <2>2 DEF OpenSource
    <3> DEFINE r == [[move[m] EXCEPT !.step = "write"] EXCEPT !.in = i]
    <3>2. i \in Nat
      BY <1>4
    <3> HIDE DEF i
    <3>3. r \in Given /\ r.step = "write" /\ r.in = i /\ r.src = move[m].src /\ r.dst = move[m].dst
          /\ r.pos = move[m].pos
      BY <1>2, <3>2 DEF Given
    <3> HIDE DEF r
    <3>4. move' = [move EXCEPT ![m] = r] /\ move \in [Movers -> Given \cup NotGiven]
      BY <1>1, <3>1 DEF r, StorageTypes
    <3>5. move'[m] = r /\ \A n \in Movers : n # m => move'[n] = move[n]
      BY <3>4
    <3>6. QED
      BY <2>2, <3>3, <3>4, <3>5
  <2>3. QED
    BY <2>1, <2>2
<1>6. StorageTypes'
  <2>1. /\ body' \in Seq(Seq(Chunk)) /\ Len(body') >= Len(body) /\ path' \in [Places -> 0..Len(body')]
    BY <1>1, <1>3, <1>4 DEF StorageTypes
  <2>2. /\ move'[m].step \in {"write", "copy"} => move'[m].in \in 1..Len(body')
        /\ move'[m].step # "copy"
    BY <1>3, <1>4, <1>5
  <2>3. QED
    BY <1>1, <1>3, <1>5, <2>1, <2>2, StorageTypesAfter
<1>7. OnePlace'
  BY <1>1, <1>3 DEF OnePlace
<1>8. ASSUME Apart PROVE MoverHolds(m)'
  <2>1. MoverHolds(m)
    BY <1>1, <1>8 DEF MovesHold
  <2>2. OpenHere(m)'
    BY <1>3, <1>5 DEF OpenHere
  <2>3. ASSUME NEW f \in Files, Home(f) = move[m].src, move[m].src # move[m].dst PROVE Moving(m, f)'
    <3>1. IsAt(move[m].src, f) /\ move[m].pos = 0
      BY <1>2, <2>1, <2>3 DEF MoverHolds, Moving
    <3>2. path[move[m].src] # 0 /\ body[path[move[m].src]] = Whole(f)
      BY <3>1 DEF IsAt
    <3>3. QED
      BY <1>3, <1>5, <3>1, <3>2 DEF Moving, IsAt
  <2>4. QED
    BY <1>5, <2>2, <2>3 DEF MoverHolds, Home
<1>9. Ends(m) \subseteq Ends(m)'
  BY <1>2, <1>5, MoverRecords DEF Ends
<1>10. QED
  BY <1>3, <1>5, <1>6, <1>7, <1>8, <1>9, MoverStep

\* A write that fails ends the move with the source in its place.
LEMMA WriteFailsHolds == ASSUME StorageInv, NEW m \in Movers, WriteFails(m) PROVE StorageInv'
<1>1. StorageTypes /\ OnePlace /\ MovesHold
  BY DEF StorageInv
<1>2. /\ Started(m) /\ move[m] \in Given /\ Ends(m) = {move[m].src, move[m].dst}
      /\ move[m].step \in {"write", "copy"}
  BY <1>1, MoverFacts DEF WriteFails
<1>3. UNCHANGED <<backends, path, body>> /\ MoveGoes(m, "over")
  BY DEF WriteFails
<1>4. /\ move' \in [Movers -> Given \cup NotGiven] /\ move'[m] \in Given
      /\ move'[m].src = move[m].src /\ move'[m].dst = move[m].dst /\ move'[m].step = "over"
      /\ \A n \in Movers : n # m => move'[n] = move[n]
  BY <1>1, <1>2, <1>3, MoverGoes
<1>5. StorageTypes'
  <2>1. /\ body' \in Seq(Seq(Chunk)) /\ Len(body') >= Len(body) /\ path' \in [Places -> 0..Len(body')]
    BY <1>1, <1>3 DEF StorageTypes
  <2>2. QED
    BY <1>1, <1>3, <1>4, <2>1, StorageTypesAfter
<1>6. OnePlace'
  BY <1>1, <1>3 DEF OnePlace
<1>7. ASSUME Apart PROVE MoverHolds(m)'
  <2>1. MoverHolds(m)
    BY <1>1, <1>7 DEF MovesHold
  <2>2. OpenHere(m)'
    BY <1>4 DEF OpenHere
  <2>3. ASSUME NEW f \in Files, Home(f) = move[m].src, move[m].src # move[m].dst PROVE Moving(m, f)'
    <3>1. IsAt(move[m].src, f)
      BY <1>2, <2>1, <2>3 DEF MoverHolds, Moving
    <3>2. path[move[m].src] # 0 /\ body[path[move[m].src]] = Whole(f)
      BY <3>1 DEF IsAt
    <3>3. QED
      BY <1>3, <1>4, <3>2 DEF Moving, IsAt
  <2>4. QED
    BY <1>4, <2>2, <2>3 DEF MoverHolds, Home
<1>8. Ends(m) \subseteq Ends(m)'
  BY <1>2, <1>4, MoverRecords DEF Ends
<1>9. QED
  BY <1>3, <1>4, <1>5, <1>6, <1>7, <1>8, MoverStep

\* The source is removed, or stays: the target has been a whole copy since the copying ended.
LEMMA DeleteSourceHolds == ASSUME StorageInv, NEW m \in Movers, DeleteSource(m) PROVE StorageInv'
<1>1. StorageTypes /\ OnePlace /\ MovesHold
  BY DEF StorageInv
<1>2. /\ Started(m) /\ move[m] \in Given /\ Ends(m) = {move[m].src, move[m].dst}
      /\ move[m].step = "delete"
  BY <1>1, MoverFacts DEF DeleteSource, MoveIsAt
<1>3. /\ UNCHANGED <<backends, body>> /\ MoveGoes(m, "over")
      /\ path' = [path EXCEPT ![move[m].src] = 0] \/ path' = path
  BY DEF DeleteSource
<1>4. /\ move' \in [Movers -> Given \cup NotGiven] /\ move'[m] \in Given
      /\ move'[m].src = move[m].src /\ move'[m].dst = move[m].dst /\ move'[m].step = "over"
      /\ \A n \in Movers : n # m => move'[n] = move[n]
  BY <1>1, <1>2, <1>3, MoverGoes
<1>5. StorageTypes'
  <2>1. /\ body' \in Seq(Seq(Chunk)) /\ Len(body') >= Len(body) /\ path' \in [Places -> 0..Len(body')]
    <3>1. Len(body) \in Nat /\ 0 \in 0..Len(body) /\ body \in Seq(Seq(Chunk)) /\ path \in [Places -> 0..Len(body)]
      BY <1>1 DEF StorageTypes
    <3>2. path' \in [Places -> 0..Len(body)]
      BY <1>3, <3>1
    <3>3. QED
      BY <1>3, <3>1, <3>2
  <2>2. QED
    BY <1>1, <1>3, <1>4, <2>1, StorageTypesAfter
<1>6. \A p \in Places : path'[p] = path[p] \/ (p = move[m].src /\ path'[p] = 0)
  BY <1>1, <1>3 DEF StorageTypes
<1>7. OnePlace'
  BY <1>1, <1>6 DEF OnePlace
<1>8. ASSUME Apart PROVE MoverHolds(m)'
  <2>1. MoverHolds(m)
    BY <1>1, <1>8 DEF MovesHold
  <2>2. OpenHere(m)'
    BY <1>4 DEF OpenHere
  <2>3. ASSUME NEW f \in Files, Home(f) = move[m].src, move[m].src # move[m].dst PROVE Moving(m, f)'
    <3>1. IsAt(move[m].dst, f)
      BY <1>2, <2>1, <2>3 DEF MoverHolds, Moving
    <3>2. path[move[m].dst] # 0 /\ body[path[move[m].dst]] = Whole(f)
      BY <3>1 DEF IsAt
    <3>3. path'[move[m].dst] = path[move[m].dst]
      BY <1>2, <1>6, <2>3 DEF Given
    <3>4. QED
      BY <1>3, <1>4, <3>2, <3>3 DEF Moving, IsAt
  <2>4. QED
    BY <1>4, <2>2, <2>3 DEF MoverHolds, Home
<1>9. Ends(m) \subseteq Ends(m)' /\ move[m].src \in Ends(m)
  BY <1>2, <1>4, MoverRecords DEF Ends
<1>10. QED
  BY <1>3, <1>4, <1>5, <1>6, <1>7, <1>8, <1>9, MoverStep

\* Part, one chunk at a time.
LEMMA PartFacts ==
    /\ \A f : Part(f, 0) = <<>> /\ Part(f, Chunks) = Whole(f)
    /\ \A f \in Files, n \in 0..Chunks : Part(f, n) \in Seq(Chunk) /\ Len(Part(f, n)) = n
    /\ \A f \in Files, n \in 1..Chunks : Append(Part(f, n - 1), <<f, n>>) = Part(f, n)
<1>1. Chunks \in Nat
  BY StorageAssumption
<1>2. ASSUME NEW f PROVE Part(f, 0) = <<>> /\ Part(f, Chunks) = Whole(f)
  BY DEF Part, Whole
<1>3. ASSUME NEW f \in Files, NEW n \in 0..Chunks PROVE Part(f, n) \in Seq(Chunk) /\ Len(Part(f, n)) = n
  <2>1. \A k \in 1..n : <<f, k>> \in Chunk
    BY <1>1 DEF Chunk
  <2>2. QED
    BY <1>1, <2>1 DEF Part
<1>4. ASSUME NEW f \in Files, NEW n \in 1..Chunks PROVE Append(Part(f, n - 1), <<f, n>>) = Part(f, n)
  <2>1. n - 1 \in 0..Chunks /\ n \in 0..Chunks
    BY <1>1
  <2>2. /\ Part(f, n - 1) \in Seq(Chunk) /\ Len(Part(f, n - 1)) = n - 1
        /\ Part(f, n) \in Seq(Chunk) /\ Len(Part(f, n)) = n
    BY <1>3, <2>1
  <2>3. <<f, n>> \in Chunk
    BY <1>1 DEF Chunk
  <2> DEFINE a == Append(Part(f, n - 1), <<f, n>>)
  <2>4. /\ a \in Seq(Chunk) /\ Len(a) = n /\ a[n] = <<f, n>>
        /\ \A k \in 1..(n - 1) : a[k] = Part(f, n - 1)[k]
    BY <1>1, <2>2, <2>3, AppendProperties
  <2> HIDE DEF a
  <2>5. \A k \in 1..n : a[k] = Part(f, n)[k]
    BY <2>4 DEF Part
  <2>6. a = Part(f, n)
    BY <2>2, <2>4, <2>5, SeqEqual
  <2>7. QED
    BY <2>6 DEF a
<1>5. QED
  BY <1>2, <1>3, <1>4

\* The target is created, or truncated.
LEMMA CreateTargetHolds == ASSUME StorageInv, NEW m \in Movers, CreateTarget(m) PROVE StorageInv'
<1>1. StorageTypes /\ OnePlace /\ MovesHold
  BY DEF StorageInv
<1>2. /\ Started(m) /\ move[m] \in Given /\ Ends(m) = {move[m].src, move[m].dst}
      /\ move[m].step = "write"
  BY <1>1, MoverFacts DEF CreateTarget, MoveIsAt
<1> DEFINE p == move[m].dst
           i == IF path[p] = 0 THEN Len(body) + 1 ELSE path[p]
<1>3. p \in Places /\ path[p] \in 0..Len(body) /\ Len(body) \in Nat /\ body \in Seq(Seq(Chunk))
  BY <1>1, <1>2 DEF StorageTypes, Given
<1>4. /\ backends' = backends
      /\ body' = (IF path[p] = 0 THEN Append(body, <<>>) ELSE [body EXCEPT ![i] = <<>>])
      /\ path' = [path EXCEPT ![p] = i]
      /\ move' = [move EXCEPT ![m].step = "copy", ![m].out = i]
  BY DEF CreateTarget
<1>5. i \in Nat /\ i # 0 /\ (path[p] # 0 => i = path[p])
  BY <1>3
<1>6. /\ body' \in Seq(Seq(Chunk)) /\ Len(body') >= Len(body) /\ i \in 1..Len(body') /\ body'[i] = <<>>
      /\ \A j \in 1..Len(body) : j # i => body'[j] = body[j]
  <2>1. CASE path[p] = 0
    <3>1. <<>> \in Seq(Chunk)
      OBVIOUS
    <3>2. QED
      BY <1>3, <1>4, <2>1, <3>1, AppendProperties
  <2>2. CASE path[p] # 0
    <3>1. <<>> \in Seq(Chunk) /\ i \in 1..Len(body)
      BY <1>3, <2>2
    <3>2. QED
      BY <1>3, <1>4, <2>2, <3>1
  <2>3. QED
    BY <2>1, <2>2
<1>7. \A q \in Places : q # p => path[q] \in 0..Len(body) /\ path[q] # i
  <2> SUFFICES ASSUME NEW q \in Places, q # p, path[q] = i PROVE FALSE
    BY <1>1 DEF StorageTypes
  <2>1. path[q] \in 0..Len(body)
    BY <1>1 DEF StorageTypes
  <2>2. QED
    BY <1>1, <1>3, <1>5, <2>1 DEF OnePlace
<1> DEFINE r == [[move[m] EXCEPT !.step = "copy"] EXCEPT !.out = i]
<1>8. r \in Given /\ r.step = "copy" /\ r.out = i /\ r.in = move[m].in /\ r.pos = move[m].pos
      /\ r.src = move[m].src /\ r.dst = move[m].dst
  <2> HIDE DEF i
  <2>1. QED
    BY <1>2, <1>5 DEF Given
<1>9. move' = [move EXCEPT ![m] = r]
  BY <1>4
<1> HIDE DEF r, i
<1>10. path' \in [Places -> 0..Len(body')] /\ \A q \in Places : path'[q] = IF q = p THEN i ELSE path[q]
  <2>1. path \in [Places -> 0..Len(body)]
    BY <1>1 DEF StorageTypes
  <2>2. Len(body') \in Nat
    BY <1>6
  <2>3. path \in [Places -> 0..Len(body')]
    BY <1>3, <1>6, <2>1, <2>2
  <2>4. i \in 0..Len(body')
    BY <1>6
  <2>5. QED
    BY <1>3, <1>4, <2>3, <2>4
<1>11. /\ move' \in [Movers -> Given \cup NotGiven] /\ move'[m] = r
       /\ \A n \in Movers : n # m => move'[n] = move[n]
  BY <1>1, <1>8, <1>9 DEF StorageTypes
<1>12. StorageTypes'
  <2>1. move[m].in \in 1..Len(body)
    BY <1>1, <1>2 DEF StorageTypes
  <2>2. move'[m].in \in 1..Len(body')
    BY <1>3, <1>6, <1>8, <1>11, <2>1
  <2>3. QED
    BY <1>1, <1>4, <1>6, <1>8, <1>10, <1>11, <2>2, StorageTypesAfter
<1>13. OnePlace'
  BY <1>1, <1>7, <1>10 DEF OnePlace
<1>14. \A q \in Places : q # p => path'[q] = path[q] /\ (path[q] # 0 => body'[path[q]] = body[path[q]])
  <2> SUFFICES ASSUME NEW q \in Places, q # p
               PROVE  path'[q] = path[q] /\ (path[q] # 0 => body'[path[q]] = body[path[q]])
    OBVIOUS
  <2>1. path'[q] = path[q] /\ path[q] \in 0..Len(body) /\ path[q] # i
    BY <1>7, <1>10
  <2>2. path[q] # 0 => path[q] \in 1..Len(body)
    BY <1>3, <2>1
  <2>3. QED
    BY <1>6, <2>1, <2>2
<1>15. ASSUME Apart PROVE MoverHolds(m)'
  <2>1. MoverHolds(m) /\ OpenHere(m)
    BY <1>1, <1>2, <1>15 DEF MovesHold, MoverHolds
  <2>2. OpenHere(m)'
    <3>1. move[m].in = path[move[m].src] /\ move[m].in # 0 /\ move[m].src \in Places
      BY <1>2, <2>1 DEF OpenHere, Given
    <3>2. path'[move[m].src] = move[m].in
      BY <1>5, <1>10, <3>1
    <3>3. path'[p] = i
      BY <1>3, <1>10
    <3>4. QED
      BY <1>5, <1>8, <1>11, <3>1, <3>2, <3>3 DEF OpenHere
  <2>3. ASSUME NEW f \in Files, Home(f) = move[m].src, move[m].src # p PROVE Moving(m, f)'
    <3>1. IsAt(move[m].src, f) /\ move[m].pos = 0 /\ move[m].src \in Places
      BY <1>2, <2>1, <2>3 DEF MoverHolds, Moving, Given
    <3>2. path[move[m].src] # 0 /\ body[path[move[m].src]] = Whole(f)
      BY <3>1 DEF IsAt
    <3>3. path'[move[m].src] # 0 /\ body'[path'[move[m].src]] = Whole(f)
      BY <1>14, <2>3, <3>1, <3>2
    <3>4. body'[i] = Part(f, 0) /\ 0 \in 0..Chunks
      BY <1>6, PartFacts, StorageAssumption
    <3>5. QED
      BY <1>8, <1>11, <3>1, <3>3, <3>4 DEF Moving, IsAt
  <2>4. QED
    BY <1>8, <1>11, <2>2, <2>3 DEF MoverHolds, Home
<1>16. Ends(m) \subseteq Ends(m)' /\ p \in Ends(m)
  BY <1>2, <1>8, <1>11, MoverRecords DEF Ends
<1>17. QED
  BY <1>11, <1>12, <1>13, <1>14, <1>15, <1>16, MoverStep

\* A chunk is copied, or the copy is complete.
LEMMA CopyChunkHolds == ASSUME StorageInv, NEW m \in Movers, CopyChunk(m) PROVE StorageInv'
<1>1. StorageTypes /\ OnePlace /\ MovesHold
  BY DEF StorageInv
<1>2. /\ Started(m) /\ move[m] \in Given /\ Ends(m) = {move[m].src, move[m].dst}
      /\ move[m].step = "copy"
  BY <1>1, MoverFacts DEF CopyChunk, MoveIsAt
<1> DEFINE in == move[m].in
           out == move[m].out
           n == move[m].pos + 1
<1>3. /\ in \in 1..Len(body) /\ out \in 1..Len(body) /\ n \in Nat \ {0} /\ body \in Seq(Seq(Chunk))
      /\ move[m].src \in Places /\ move[m].dst \in Places
  BY <1>1, <1>2 DEF StorageTypes, Given
<1>4. UNCHANGED <<backends, path>>
  BY DEF CopyChunk
<1>5. body[in] \in Seq(Chunk) /\ body[out] \in Seq(Chunk)
  BY <1>3
<1>6. OnePlace'
  BY <1>1, <1>4 DEF OnePlace
<1>7. CASE n <= Len(body[in])
  <2> DEFINE c == body[in][n]
             data == PutChunk(body[out], n, c)
             r == [move[m] EXCEPT !.pos = n]
  <2>1. body' = [body EXCEPT ![out] = data] /\ move' = [move EXCEPT ![m] = r]
    BY <1>7 DEF CopyChunk
  <2>2. c \in Chunk
    BY <1>3, <1>5, <1>7
  <2>3. data \in Seq(Chunk)
    <3> HIDE DEF c
    <3>1. CASE n <= Len(body[out])
      BY <1>3, <1>5, <2>2, <3>1 DEF PutChunk
    <3>2. CASE ~(n <= Len(body[out]))
      BY <1>5, <2>2, <3>2, AppendProperties DEF PutChunk
    <3>3. QED
      BY <3>1, <3>2
  <2>4. /\ r \in Given /\ r.step = "copy" /\ r.in = in /\ r.out = out /\ r.pos = n
        /\ r.src = move[m].src /\ r.dst = move[m].dst
    BY <1>2, <1>3 DEF Given
  <2> HIDE DEF data, r, c
  <2>5. /\ body' \in Seq(Seq(Chunk)) /\ Len(body') = Len(body) /\ body'[out] = data
        /\ \A j \in 1..Len(body) : j # out => body'[j] = body[j]
    BY <1>3, <2>1, <2>3
  <2>6. /\ move' \in [Movers -> Given \cup NotGiven] /\ move'[m] = r
        /\ \A o \in Movers : o # m => move'[o] = move[o]
    BY <1>1, <2>1, <2>4 DEF StorageTypes
  <2>7. StorageTypes'
    <3>1. path' \in [Places -> 0..Len(body')] /\ Len(body') >= Len(body)
      BY <1>1, <1>3, <1>4, <2>5 DEF StorageTypes
    <3>2. move'[m].in \in 1..Len(body') /\ move'[m].out \in 1..Len(body')
      BY <1>3, <2>4, <2>5, <2>6
    <3>3. QED
      BY <1>1, <1>4, <2>5, <2>6, <3>1, <3>2, StorageTypesAfter
  <2>8. ASSUME Apart
        PROVE  \A p \in Places : p # move[m].dst =>
                  path'[p] = path[p] /\ (path[p] # 0 => body'[path[p]] = body[path[p]])
    <3>1. out = path[move[m].dst] /\ out # 0
      BY <1>1, <1>2, <2>8 DEF MovesHold, MoverHolds, OpenHere
    <3>2. \A p \in Places : path[p] \in 0..Len(body)
      BY <1>1 DEF StorageTypes
    <3>3. QED
      BY <1>1, <1>3, <1>4, <2>5, <3>1, <3>2 DEF OnePlace
  <2>9. ASSUME Apart PROVE MoverHolds(m)'
    <3>1. MoverHolds(m) /\ OpenHere(m)
      BY <1>1, <1>2, <2>9 DEF MovesHold, MoverHolds
    <3>2. OpenHere(m)'
      BY <1>2, <1>4, <2>4, <2>6, <3>1 DEF OpenHere
    <3>3. ASSUME NEW f \in Files, Home(f) = move[m].src, move[m].src # move[m].dst PROVE Moving(m, f)'
      <4>1. /\ IsAt(move[m].src, f) /\ move[m].pos \in 0..Chunks
            /\ body[out] = Part(f, move[m].pos)
        BY <1>2, <3>1, <3>3 DEF MoverHolds, Moving
      <4>2. /\ path[move[m].src] # 0 /\ body[path[move[m].src]] = Whole(f)
            /\ in = path[move[m].src]
        BY <1>2, <3>1, <4>1 DEF IsAt, OpenHere
      <4>3. path'[move[m].src] # 0 /\ body'[path'[move[m].src]] = Whole(f)
        BY <1>3, <2>8, <2>9, <3>3, <4>2
      <4>4. Whole(f) = Part(f, Chunks) /\ Chunks \in Nat
        BY PartFacts, StorageAssumption
      <4>5. Len(Whole(f)) = Chunks /\ Len(Part(f, move[m].pos)) = move[m].pos
        BY <4>1, <4>4, PartFacts
      <4>6. n \in 1..Chunks /\ ~(n <= Len(body[out])) /\ n - 1 = move[m].pos
        <5>1. move[m].pos \in Nat /\ n = move[m].pos + 1 /\ n >= 1 /\ n - 1 = move[m].pos
          BY <4>1, <4>4
        <5>2. n <= Chunks
          BY <1>7, <4>2, <4>5
        <5>3. Len(body[out]) = move[m].pos
          BY <4>1, <4>5
        <5> HIDE DEF n, out
        <5>4. QED
          BY <4>4, <5>1, <5>2, <5>3
      <4>7. c = <<f, n>>
        BY <4>2, <4>6 DEF c, Whole
      <4>8. data = Append(Part(f, n - 1), <<f, n>>)
        BY <4>1, <4>6, <4>7 DEF data, PutChunk
      <4>9. body'[out] = Part(f, n)
        BY <2>5, <4>6, <4>8, PartFacts
      <4>10. n \in 0..Chunks
        BY <4>6
      <4>11. QED
        BY <2>4, <2>6, <4>3, <4>9, <4>10 DEF Moving, IsAt
    <3>4. QED
      BY <2>4, <2>6, <3>2, <3>3 DEF MoverHolds, Home
  <2>10. Ends(m) \subseteq Ends(m)' /\ move[m].dst \in Ends(m)
    BY <1>2, <2>4, <2>6, MoverRecords DEF Ends
  <2>11. QED
    BY <1>6, <2>6, <2>7, <2>8, <2>9, <2>10, MoverStep
<1>8. CASE ~(n <= Len(body[in]))
  <2>1. MoveGoes(m, "delete") /\ body' = body
    BY <1>8 DEF CopyChunk
  <2>2. /\ move' \in [Movers -> Given \cup NotGiven] /\ move'[m] \in Given
        /\ move'[m].src = move[m].src /\ move'[m].dst = move[m].dst /\ move'[m].step = "delete"
        /\ \A o \in Movers : o # m => move'[o] = move[o]
    BY <1>1, <1>2, <2>1, MoverGoes
  <2>3. StorageTypes'
    <3>1. /\ body' \in Seq(Seq(Chunk)) /\ Len(body') >= Len(body) /\ path' \in [Places -> 0..Len(body')]
      BY <1>1, <1>4, <2>1 DEF StorageTypes
    <3>2. QED
      BY <1>1, <1>4, <2>2, <3>1, StorageTypesAfter
  <2>4. ASSUME Apart PROVE MoverHolds(m)'
    <3>1. MoverHolds(m) /\ OpenHere(m)
      BY <1>1, <1>2, <2>4 DEF MovesHold, MoverHolds
    <3>2. OpenHere(m)'
      BY <2>2 DEF OpenHere
    <3>3. ASSUME NEW f \in Files, Home(f) = move[m].src, move[m].src # move[m].dst PROVE Moving(m, f)'
      <4>1. /\ IsAt(move[m].src, f) /\ move[m].pos \in 0..Chunks
            /\ body[out] = Part(f, move[m].pos)
        BY <1>2, <3>1, <3>3 DEF MoverHolds, Moving
      <4>2. body[in] = Whole(f) /\ out = path[move[m].dst] /\ out # 0
        BY <1>2, <3>1, <4>1 DEF IsAt, OpenHere
      <4>3. Whole(f) = Part(f, Chunks) /\ Len(Part(f, Chunks)) = Chunks /\ Chunks \in Nat
        <5>1. Chunks \in 0..Chunks /\ Chunks \in Nat
          BY StorageAssumption
        <5>2. QED
          BY <5>1, PartFacts
      <4>4. move[m].pos = Chunks
        BY <1>3, <1>8, <4>1, <4>2, <4>3
      <4>5. path[move[m].dst] # 0 /\ body[path[move[m].dst]] = Whole(f)
        BY <4>1, <4>2, <4>3, <4>4
      <4>6. QED
        BY <1>4, <2>1, <2>2, <4>5 DEF Moving, IsAt
    <3>4. QED
      BY <2>2, <3>2, <3>3 DEF MoverHolds, Home
  <2>5. Ends(m) \subseteq Ends(m)'
    BY <1>2, <2>2, MoverRecords DEF Ends
  <2>6. QED
    BY <1>4, <1>6, <2>1, <2>2, <2>3, <2>4, <2>5, MoverStep
<1>9. QED
  BY <1>7, <1>8

\* Nothing that the invariant looks at changes when the storage is closed, or at rest.
LEMMA NoMove ==
    ASSUME StorageInv, UNCHANGED <<path, body, move>>, backends' \in {backends, <<>>}
    PROVE  StorageInv'
<1>1. \A i \in DOMAIN backends' : backends'[i] \in Roots
  BY DEF StorageInv, StorageTypes
<1>2. StorageTypes'
  BY <1>1 DEF StorageInv, StorageTypes, Started
<1>3. OnePlace'
  BY DEF StorageInv, OnePlace
<1>4. Apart' => Apart
  BY DEF Apart, Ends
<1>5. (\A m \in Movers : MoverHolds(m)) => (\A m \in Movers : MoverHolds(m)')
  BY DEF MoverHolds, Started, OpenHere, Moving, IsAt, Home
<1>6. (\A f \in Files : FileStays(f)) => (\A f \in Files : FileStays(f)')
  BY DEF FileStays, Ends, IsAt, Home
<1>7. QED
  BY <1>2, <1>3, <1>4, <1>5, <1>6 DEF StorageInv, MovesHold

\* One step of the storage manager.
LEMMA StorageStep == StorageInv /\ [StorageNext]_storageVars => StorageInv'
<1> SUFFICES ASSUME StorageInv, [StorageNext]_storageVars PROVE StorageInv'
  OBVIOUS
<1>1. ASSUME NEW m \in Movers, NEW from \in Locations, NEW to \in Locations, NEW k \in Keys, NEW l \in Keys,
             BeginMove(m, from, to, k, l)
      PROVE  StorageInv'
  BY <1>1, BeginHolds
<1>2. ASSUME NEW m \in Movers,
             OpenSource(m) \/ CreateTarget(m) \/ CopyChunk(m) \/ WriteFails(m) \/ DeleteSource(m)
      PROVE  StorageInv'
  BY <1>2, OpenSourceHolds, CreateTargetHolds, CopyChunkHolds, WriteFailsHolds, DeleteSourceHolds
<1>3. CASE CloseStorage
  BY <1>3, NoMove DEF CloseStorage
<1>4. CASE UNCHANGED storageVars
  BY <1>4, NoMove DEF storageVars
<1>5. QED
  BY <1>1, <1>2, <1>3, <1>4 DEF StorageNext

\* The invariant holds in every state.
LEMMA StorageInvariant == StorageSpec => []StorageInv
  BY StorageInvInit, StorageStep, PTL DEF StorageSpec

\* Moving a file between locations (MoveFile) does not lose it, whichever step fails and
\* however the steps of any number of callers interleave, unless a caller was told to write
\* where the file was or two callers share a place.
THEOREM MovedIsKept == StorageSpec => []MoveKeepsContent
<1>1. StorageInv => MoveKeepsContent
  <2> SUFFICES ASSUME StorageInv, NEW f \in Files, Apart,
                      \A m \in Movers : move[m].step # "idle" => Home(f) \notin Ends(m) \/ move[m].dst # Home(f)
               PROVE  Kept(f)
    BY DEF MoveKeepsContent, Apart
  <2>1. StorageTypes /\ (\A m \in Movers : MoverHolds(m)) /\ FileStays(f)
    BY DEF StorageInv, MovesHold
  <2>2. CASE \A m \in Movers : Home(f) \notin Ends(m)
    BY <2>1, <2>2, Homes DEF FileStays, IsAt, Kept
  <2>3. ASSUME NEW m \in Movers, Home(f) \in Ends(m) PROVE Kept(f)
    <3>1. Started(m) /\ move[m] \in Given /\ Ends(m) = {move[m].src, move[m].dst}
      BY <2>1, <2>3, MoverFacts
    <3>2. /\ move[m].src \in Places /\ move[m].dst \in Places
          /\ move[m].step \in {"read", "write", "copy", "delete", "over"}
      BY <3>1 DEF Given
    <3>3. move[m].step # "idle"
      BY <3>2
    <3>4. Home(f) = move[m].src /\ move[m].src # move[m].dst
      BY <2>3, <3>1, <3>3
    <3>5. Moving(m, f)
      BY <2>1, <3>1, <3>4 DEF MoverHolds
    <3>6. IsAt(move[m].src, f) \/ IsAt(move[m].dst, f)
      BY <3>2, <3>5 DEF Moving
    <3>7. QED
      BY <3>2, <3>6 DEF IsAt, Kept
  <2>4. QED
    BY <2>2, <2>3
<1>2. QED
  BY <1>1, StorageInvariant, PTL

-----------------------------------------------------------------------------
(* The files of the library (MediaFiles).                                  *)

\* The steps of an organizer, and the first members of a sequence.
Steps == {"off", "begin", "stat", "target", "place", "link", "copy", "unlink", "clean", "row", "rows", "over"}
Prefix(s, n) == [m \in 1..n |-> s[m]]
StartsWith(s, t) == Len(t) <= Len(s) /\ \A n \in 1..Len(t) : s[n] = t[n]
Contents == Seq(Jobs \X (0..Parts))

\* The types of MediaFiles.
MediaTypes ==
    /\ linkable \in BOOLEAN /\ source \in Layouts
    /\ inodes \in Seq(Contents) /\ wrote \in [Jobs -> Contents]
    /\ entry \in [Paths -> 0..Len(inodes)]
    /\ load \in [Jobs -> 0..Ended] /\ writesTo \in [Jobs -> 0..Len(inodes)]
    /\ org \in [Jobs -> [step : Steps, path : Targets \cup {None}, from : Nat, to : Nat, pos : Nat]]
    /\ row \in [Movies -> [status : {"queued", "available", "deleted"}, path : Targets \cup {None}]]
    /\ shared \subseteq 1..Len(inodes)

\* What a job's download and organizer have done by the step they are at.
InTurn(j) ==
    /\ load[j] = 0 \/ j \in Torrents => writesTo[j] = 0
    /\ load[j] = 0 => wrote[j] = <<>>
    /\ load[j] \in 1..(Parts + 1) => writesTo[j] # 0 /\ j \notin Torrents
    /\ org[j].step # "off" => load[j] = Ended /\ (j \notin Torrents => writesTo[j] # 0)
    /\ org[j].step \notin {"off", "begin", "stat", "over"} => j \notin Torrents
    /\ org[j].step = "copy" => /\ ~linkable /\ org[j].from \in 1..Len(inodes)
                               /\ org[j].to \in 1..Len(inodes)

\* Two downloads write one inode only if it is noted as shared.
SoleWriter == \A j, k \in Jobs : j # k /\ writesTo[j] = writesTo[k] /\ writesTo[j] # 0 => writesTo[j] \in shared
\* An inode that is not shared has what its download has written, and nothing else.
OwnParts(j) == writesTo[j] # 0 /\ writesTo[j] \notin shared => inodes[writesTo[j]] = wrote[j]
\* Until a job is through with its file, its name is of its own inode, of none, or of a shared one.
OwnName(j) == UnderWay(j) /\ j \notin Torrents => entry[source[j]] \in {0, writesTo[j]} \cup shared

\* A download writes the inode.
IsWritten(i) == \E j \in Jobs : writesTo[j] = i
\* On two devices the inodes of downloads and those of the library are different, the
\* targets have one inode each, and a copy goes from the first kind to the second.
TwoDevices ==
    ~linkable =>
        /\ \A s \in Sources : entry[s] # 0 => IsWritten(entry[s])
        /\ \A p \in Targets : entry[p] # 0 => ~IsWritten(entry[p])
        /\ \A p, q \in Targets : entry[p] # 0 /\ entry[p] = entry[q] => p = q
        /\ \A j \in Jobs : org[j].step = "copy" =>
              /\ IsWritten(org[j].from) /\ ~IsWritten(org[j].to)
              /\ \A p \in Targets : entry[p] = org[j].to => p = Dst(j)

\* An organizer has found the target free and not filled it, or not put a file there.
Takes(j, p) == Dst(j) = p /\ org[j].step \in {"place", "link", "copy"}
Fills(j, p) == Dst(j) = p /\ org[j].step \in {"place", "link"}
\* A row, or an organizer that is through with the file, names the target.
Claimed(p) ==
    \/ \E m \in Movies : row[m].path = p
    \/ \E j \in Jobs : org[j].path = p \/ (Dst(j) = p /\ org[j].step \in {"unlink", "clean", "row"})
\* The target of the job has all that it has written.
InPlace(j) ==
    /\ entry[Dst(j)] # 0 /\ inodes[entry[Dst(j)]] = wrote[j]
    /\ linkable => entry[Dst(j)] = writesTo[j]
\* The target has a whole download, or a shared inode.
Good(p) == entry[p] # 0 /\ (entry[p] \in shared \/ \E j \in Finished : Dst(j) = p /\ InPlace(j))
\* A copy has the parts up to its position, of a source that has them all.
CopyIsGood(j) ==
    \/ org[j].to \in shared
    \/ /\ org[j].pos <= Len(wrote[j]) /\ inodes[org[j].to] = Prefix(wrote[j], org[j].pos)
       /\ org[j].from = writesTo[j] /\ StartsWith(inodes[org[j].from], wrote[j])
\* A target two organizers did not both find free: one at most fills it, nobody claims it
\* before it is filled, and then it is good; it is free until a file is put there, and a copy
\* into it is under its name.
TargetHolds(p) ==
    p \notin overlapped =>
        /\ \A j, k \in Jobs : Takes(j, p) /\ Takes(k, p) => j = k
        /\ \A j \in Jobs : Takes(j, p) => ~Claimed(p)
        /\ \A j \in Jobs : Fills(j, p) => entry[p] = 0
        /\ Claimed(p) => Good(p)
        /\ \A j \in Jobs : Dst(j) = p /\ org[j].step = "copy" => entry[p] = org[j].to /\ CopyIsGood(j)

\* What holds of every job, and of every target.
PerJob == \A j \in Jobs : InTurn(j) /\ OwnParts(j) /\ OwnName(j)
PerTarget == \A p \in Targets : TargetHolds(p)
\* The inductive invariant of the media files; that no download is lost and that a target
\* has been filled by somebody, which rest on it, come after it.
MediaInv == MediaTypes /\ PerJob /\ SoleWriter /\ TwoDevices /\ PerTarget

-----------------------------------------------------------------------------
\* The names of downloads and those of the library are different.
LEMMA Names ==
    /\ Parts \in Nat \ {0} /\ Ended = Parts + 2 /\ Ended \in Nat
    /\ \A j \in Jobs : MovieOf[j] \in Movies /\ Dst(j) \in Targets /\ Dst(j) \in Paths
    /\ \A p \in Targets : p \in Paths /\ p \notin Sources /\ p # None
    /\ \A p \in Sources : p \in Paths
<1>1. Parts \in Nat \ {0} /\ MovieOf \in [Jobs -> Movies]
  BY MediaFilesAssumption
<1>2. \A j \in Jobs : MovieOf[j] \in Movies /\ Dst(j) \in Targets
  BY <1>1 DEF Dst, Targets
<1>3. \A p \in Targets : p \notin Sources /\ p # None
  BY MediaFilesAssumption DEF Targets, Sources
<1>4. QED
  BY <1>1, <1>2, <1>3 DEF Ended, Paths

\* What a job writes has a name of its own kind.
LEMMA SourceIsOne == ASSUME MediaTypes, NEW j \in Jobs
                     PROVE  source[j] \in Sources /\ source[j] \in Paths /\ source[j] \notin Targets
  BY Names DEF MediaTypes, Sources

\* What an organizer is.
OrgRecord == [step : Steps, path : Targets \cup {None}, from : Nat, to : Nat, pos : Nat]

\* The first state: no file, no download.
LEMMA MediaInvInit == MediaFilesInit => MediaInv
<1> SUFFICES ASSUME MediaFilesInit PROVE MediaInv
  OBVIOUS
<1>1. Parts \in Nat \ {0} /\ Ended \in Nat
  BY Names
<1> DEFINE off == At("off")
<1>2. off \in OrgRecord /\ off.step = "off" /\ off.path = None
  BY DEF At, OrgRecord, Steps
<1>3. org = [j \in Jobs |-> off]
  BY DEF MediaFilesInit
<1> HIDE DEF off
<1>4. org \in [Jobs -> OrgRecord] /\ \A j \in Jobs : org[j].step = "off" /\ org[j].path = None
  BY <1>2, <1>3
<1> DEFINE first == [status |-> "queued", path |-> None]
<1>5. first \in [status : {"queued", "available", "deleted"}, path : Targets \cup {None}] /\ first.path = None
  OBVIOUS
<1>6. row = [m \in Movies |-> first]
  BY DEF MediaFilesInit
<1> HIDE DEF first
<1>7. /\ row \in [Movies -> [status : {"queued", "available", "deleted"}, path : Targets \cup {None}]]
      /\ \A m \in Movies : row[m].path = None
  BY <1>5, <1>6
<1>8. /\ linkable \in BOOLEAN /\ source \in Layouts /\ inodes = <<>> /\ Len(inodes) = 0
      /\ inodes \in Seq(Contents) /\ wrote = [j \in Jobs |-> <<>>] /\ wrote \in [Jobs -> Contents]
      /\ entry = [p \in Paths |-> 0] /\ load = [j \in Jobs |-> 0] /\ writesTo = [j \in Jobs |-> 0]
      /\ shared = {} /\ overlapped = {}
  BY DEF MediaFilesInit, Contents
<1>9. MediaTypes
  BY <1>1, <1>4, <1>7, <1>8 DEF MediaTypes, OrgRecord
<1>10. PerJob
  <2>1. \A j \in Jobs : load[j] = 0 /\ writesTo[j] = 0 /\ wrote[j] = <<>> /\ org[j].step = "off"
    BY <1>4, <1>8
  <2>2. QED
    BY <1>1, <2>1 DEF PerJob, InTurn, OwnParts, OwnName, UnderWay
<1>11. SoleWriter /\ TwoDevices
  <2>1. \A p \in Paths : entry[p] = 0
    BY <1>8
  <2>2. \A j \in Jobs : writesTo[j] = 0 /\ org[j].step # "copy"
    BY <1>4, <1>8
  <2>3. QED
    BY <2>1, <2>2, Names DEF SoleWriter, TwoDevices
<1>12. PerTarget
  <2>1. \A p \in Targets : ~Claimed(p)
    BY <1>4, <1>7, Names DEF Claimed
  <2>2. \A j \in Jobs : org[j].step = "off"
    BY <1>4
  <2>3. QED
    BY <2>1, <2>2 DEF PerTarget, TargetHolds, Takes, Fills
<1>13. QED
  BY <1>9, <1>10, <1>11, <1>12 DEF MediaInv

-----------------------------------------------------------------------------
\* What the types say of an organizer, and of one that goes to another step.
LEMMA OrgGoes ==
    ASSUME MediaTypes, NEW j \in Jobs, NEW step \in Steps, OrganizerGoes(j, step)
    PROVE  /\ org' \in [Jobs -> OrgRecord] /\ org'[j].step = step
           /\ org'[j].path = org[j].path /\ org'[j].from = org[j].from
           /\ org'[j].to = org[j].to /\ org'[j].pos = org[j].pos
           /\ \A k \in Jobs : k # j => org'[k] = org[k]
<1>1. org \in [Jobs -> OrgRecord] /\ org[j] \in OrgRecord
  BY DEF MediaTypes, OrgRecord
<1>2. [org[j] EXCEPT !.step = step] \in OrgRecord
  BY <1>1 DEF OrgRecord
<1>3. org' = [org EXCEPT ![j] = [org[j] EXCEPT !.step = step]]
  BY DEF OrganizerGoes
<1>4. org'[j] = [org[j] EXCEPT !.step = step]
  BY <1>1, <1>3
<1>5. QED
  BY <1>1, <1>2, <1>3, <1>4 DEF OrgRecord

\* A target keeps what is said of it while nothing about it changes but that organizers
\* stop taking it.
LEMMA TargetKept ==
    ASSUME NEW p, TargetHolds(p), p \notin overlapped' => p \notin overlapped,
           p \notin overlapped' =>
              /\ entry'[p] = entry[p]
              /\ \A k \in Jobs : (Takes(k, p)' => Takes(k, p)) /\ (Fills(k, p)' => Fills(k, p))
              /\ Claimed(p)' => Claimed(p)
              /\ Claimed(p) /\ Good(p) => Good(p)'
              /\ \A k \in Jobs : Dst(k) = p /\ org'[k].step = "copy" =>
                    org[k].step = "copy" /\ org'[k].to = org[k].to /\ (CopyIsGood(k) => CopyIsGood(k)')
    PROVE  TargetHolds(p)'
  BY DEF TargetHolds

\* Good and CopyIsGood look at files and at who wrote them.
LEMMA FilesSame ==
    ASSUME UNCHANGED <<linkable, fileVars, writesTo, wrote, shared>>,
           \A k \in Jobs : org[k].step # "off" => org'[k].step # "off"
    PROVE  /\ \A p : Good(p) => Good(p)'
           /\ \A k \in Jobs : org'[k] = org[k] /\ CopyIsGood(k) => CopyIsGood(k)'
  BY DEF fileVars, Good, InPlace, Finished, CopyIsGood

\* A step of a job that leaves the files alone.
LEMMA QuietKeeps ==
    ASSUME MediaInv, UNCHANGED <<device, fileVars, writesTo, wrote, shared>>, NEW j \in Jobs,
           load' \in [Jobs -> 0..Ended], org' \in [Jobs -> OrgRecord],
           row' \in [Movies -> [status : {"queued", "available", "deleted"}, path : Targets \cup {None}]],
           \A k \in Jobs : k # j => load'[k] = load[k] /\ org'[k] = org[k],
           InTurn(j)',
           load'[j] \in 1..(Parts + 1) => load'[j] = load[j],
           UnderWay(j)' => UnderWay(j) \/ j \in Torrents,
           org'[j].step = "copy" => org'[j] = org[j],
           PerTarget'
    PROVE  MediaInv'
<1>1. MediaTypes /\ PerJob /\ SoleWriter /\ TwoDevices
  BY DEF MediaInv
<1>2. MediaTypes'
  BY <1>1 DEF MediaTypes, device, fileVars, OrgRecord
<1>3. SoleWriter'
  BY <1>1 DEF SoleWriter
<1>4. TwoDevices'
  BY <1>1 DEF TwoDevices, device, fileVars, IsWritten
<1>5. ASSUME NEW k \in Jobs PROVE InTurn(k)'
  <2>1. CASE k # j
    BY <1>1, <2>1 DEF PerJob, InTurn, device, fileVars
  <2>2. QED
    BY <2>1
<1>6. ASSUME NEW k \in Jobs PROVE OwnParts(k)'
  BY <1>1 DEF PerJob, OwnParts, fileVars
<1>7. ASSUME NEW k \in Jobs PROVE OwnName(k)'
  <2>1. OwnName(k)
    BY <1>1 DEF PerJob
  <2>2. UnderWay(k)' => UnderWay(k) \/ k \in Torrents
    BY DEF UnderWay
  <2>3. QED
    BY <2>1, <2>2 DEF OwnName, device, fileVars
<1>8. QED
  BY <1>2, <1>3, <1>4, <1>5, <1>6, <1>7 DEF MediaInv, PerJob

\* The parts of the invariant that a step of a job starts from.
LEMMA JobFacts ==
    ASSUME MediaInv, NEW j \in Jobs
    PROVE  /\ MediaTypes /\ InTurn(j) /\ OwnParts(j) /\ OwnName(j)
           /\ org[j] \in OrgRecord /\ load[j] \in 0..Ended
           /\ \A p \in Targets : TargetHolds(p)
           /\ load \in [Jobs -> 0..Ended] /\ org \in [Jobs -> OrgRecord]
           /\ row \in [Movies -> [status : {"queued", "available", "deleted"}, path : Targets \cup {None}]]
  BY DEF MediaInv, MediaTypes, PerJob, PerTarget, OrgRecord

\* A quiet step claims no target, takes none and goes on with its copy, if any.
LEMMA QuietTargets ==
    ASSUME MediaInv, UNCHANGED <<linkable, fileVars, writesTo, wrote, shared>>, NEW j \in Jobs, overlapped' = overlapped,
           \A k \in Jobs : k # j => org'[k] = org[k],
           org'[j].step \in {"place", "link", "copy"} => org'[j].step = org[j].step,
           org[j].step # "off" => org'[j].step # "off",
           org'[j].step = "copy" => org'[j] = org[j],
           \A p \in Targets : Claimed(p)' => Claimed(p)
    PROVE  PerTarget'
<1> SUFFICES ASSUME NEW p \in Targets PROVE TargetHolds(p)'
  BY DEF PerTarget
<1>1. TargetHolds(p)
  BY JobFacts
<1>2. \A k \in Jobs : (Takes(k, p)' => Takes(k, p)) /\ (Fills(k, p)' => Fills(k, p))
  BY DEF Takes, Fills
<1>3. \A k \in Jobs : org'[k].step = "copy" => org'[k] = org[k]
  OBVIOUS
<1>4. entry' = entry /\ (Good(p) => Good(p)') /\ \A k \in Jobs : org'[k] = org[k] /\ CopyIsGood(k) => CopyIsGood(k)'
  BY FilesSame DEF fileVars
<1>5. QED
  BY <1>1, <1>2, <1>3, <1>4, TargetKept

\* A download that fails leaves its file, and no organizer will run.
LEMMA DownloadFailsHolds == ASSUME MediaInv, NEW j \in Jobs, DownloadFails(j) PROVE MediaInv'
<1>1. /\ load[j] \in 0..Parts /\ load' = [load EXCEPT ![j] = Ended] /\ org' = org /\ row' = row
      /\ UNCHANGED <<device, fileVars, writesTo, wrote, shared>> /\ overlapped' = overlapped
  BY DEF DownloadFails, historyVars, marks
<1>2. load[j] # Ended /\ Ended \notin 1..(Parts + 1) /\ Ended \in 0..Ended
  BY <1>1, Names
<1>3. load' \in [Jobs -> 0..Ended] /\ load'[j] = Ended /\ \A k \in Jobs : k # j => load'[k] = load[k]
  BY <1>1, <1>2, JobFacts
<1>4. org[j].step = "off"
  BY <1>2, JobFacts DEF InTurn
<1>5. InTurn(j)'
  <2>1. load'[j] # 0
    BY <1>3, Names
  <2>2. j \in Torrents => writesTo'[j] = 0
    BY <1>1, JobFacts DEF InTurn
  <2>3. QED
    BY <1>1, <1>2, <1>3, <1>4, <2>1, <2>2 DEF InTurn
<1>6. PerTarget'
  <2>1. \A p \in Targets : Claimed(p)' => Claimed(p)
    BY <1>1 DEF Claimed
  <2>2. QED
    BY <1>1, <2>1, QuietTargets DEF device
<1>7. UnderWay(j)' => UnderWay(j)
  BY <1>1, <1>2, <1>3 DEF UnderWay
<1>8. QED
  BY <1>1, <1>2, <1>3, <1>4, <1>5, <1>6, <1>7, JobFacts, QuietKeeps

\* The organizer of a download that succeeded starts with a whole file.
LEMMA DownloadEndsHolds == ASSUME MediaInv, NEW j \in Jobs, DownloadEnds(j) PROVE MediaInv'
<1>1. /\ load[j] = (IF j \in Torrents THEN 0 ELSE Parts + 1) /\ load' = [load EXCEPT ![j] = Ended]
      /\ org' = [org EXCEPT ![j] = At("begin")] /\ row' = row
      /\ UNCHANGED <<device, fileVars, writesTo, wrote, shared>> /\ overlapped' = overlapped
  BY DEF DownloadEnds, historyVars, marks
<1>2. load[j] # Ended /\ Ended \notin 1..(Parts + 1) /\ Ended \in 0..Ended /\ Ended # 0
  BY <1>1, Names
<1>3. load' \in [Jobs -> 0..Ended] /\ load'[j] = Ended /\ \A k \in Jobs : k # j => load'[k] = load[k]
  BY <1>1, <1>2, JobFacts
<1>4. org[j].step = "off"
  BY <1>2, JobFacts DEF InTurn
<1> DEFINE begin == At("begin")
<1>5. begin \in OrgRecord /\ begin.step = "begin" /\ begin.path = None
  BY DEF At, OrgRecord, Steps
<1>6. org' = [org EXCEPT ![j] = begin]
  BY <1>1
<1> HIDE DEF begin
<1>7. /\ org' \in [Jobs -> OrgRecord] /\ org'[j].step = "begin" /\ org'[j].path = None
      /\ \A k \in Jobs : k # j => org'[k] = org[k]
  BY <1>5, <1>6, JobFacts
<1>8. InTurn(j)'
  <2>1. j \notin Torrents => load[j] \in 1..(Parts + 1)
    BY <1>1, Names
  <2>2. (j \notin Torrents => writesTo'[j] # 0) /\ (j \in Torrents => writesTo'[j] = 0)
    BY <1>1, <2>1, JobFacts DEF InTurn
  <2>3. QED
    BY <1>2, <1>3, <1>7, <2>2 DEF InTurn
<1>9. PerTarget'
  <2>1. \A p \in Targets : Claimed(p)' => Claimed(p)
    BY <1>1, <1>7, Names DEF Claimed
  <2>2. QED
    BY <1>1, <1>7, <2>1, QuietTargets DEF device
<1>10. UnderWay(j)' => UnderWay(j) \/ j \in Torrents
  <2>1. j \notin Torrents => load[j] \in 1..(Parts + 1)
    BY <1>1, Names
  <2>2. QED
    BY <2>1 DEF UnderWay
<1>11. QED
  BY <1>1, <1>2, <1>3, <1>4, <1>7, <1>8, <1>9, <1>10, JobFacts, QuietKeeps

\* The organizer's record holds the path of a row, which is claimed already.
LEMMA ReadRowHolds == ASSUME MediaInv, NEW j \in Jobs, ReadRow(j) PROVE MediaInv'
<1>1. /\ org[j].step = "begin" /\ row' = row /\ load' = load
      /\ UNCHANGED <<device, fileVars, writesTo, wrote, shared>> /\ overlapped' = overlapped
  BY DEF ReadRow, historyVars, marks, Still, Begins
<1>2. row[MovieOf[j]].path \in Targets \cup {None}
  BY JobFacts, Names
<1> DEFINE named == row[MovieOf[j]].path
<1>3. /\ org' \in [Jobs -> OrgRecord] /\ \A k \in Jobs : k # j => org'[k] = org[k]
      /\ \/ org'[j].step = "over" /\ org'[j].path = org[j].path
         \/ org'[j].step = "stat" /\ org'[j].path = named
  <2>1. CASE row[MovieOf[j]].status = "deleted"
    <3>1. OrganizerGoes(j, "over")
      BY <2>1 DEF ReadRow
    <3>2. "over" \in Steps
      BY DEF Steps
    <3>3. QED
      BY <3>1, <3>2, JobFacts, OrgGoes
  <2>2. CASE row[MovieOf[j]].status # "deleted"
    <3> DEFINE r == [At("stat") EXCEPT !.path = named]
    <3>1. org' = [org EXCEPT ![j] = r]
      BY <2>2 DEF ReadRow
    <3>2. r \in OrgRecord /\ r.step = "stat" /\ r.path = named
      <4> HIDE DEF named
      <4>1. named \in Targets \cup {None}
        BY <1>2 DEF named
      <4>2. QED
        BY <4>1 DEF At, OrgRecord, Steps
    <3> HIDE DEF r
    <3>3. QED
      BY <3>1, <3>2, JobFacts
  <2>3. QED
    BY <2>1, <2>2
<1>4. org'[j].step \in {"over", "stat"}
  BY <1>3
<1>5. InTurn(j)'
  BY <1>1, <1>4, JobFacts DEF InTurn
<1>6. PerTarget'
  <2>1. ASSUME NEW p \in Targets, Claimed(p)' PROVE Claimed(p)
    <3>1. MovieOf[j] \in Movies
      BY Names
    <3>2. QED
      BY <1>1, <1>3, <2>1, <3>1 DEF Claimed
  <2>2. QED
    BY <1>1, <1>3, <1>4, <2>1, QuietTargets DEF device
<1>7. UnderWay(j)' => UnderWay(j)
  BY <1>1 DEF UnderWay
<1>8. QED
  BY <1>1, <1>3, <1>4, <1>5, <1>6, <1>7, JobFacts, QuietKeeps

\* A source that is gone, or is a directory, is not organized.
LEMMA StatSourceHolds == ASSUME MediaInv, NEW j \in Jobs, StatSource(j) PROVE MediaInv'
<1> DEFINE step == IF j \in Torrents \/ entry[source[j]] = 0 THEN "over" ELSE "target"
<1>1. /\ org[j].step = "stat" /\ row' = row /\ load' = load /\ OrganizerGoes(j, step) /\ step \in Steps
      /\ UNCHANGED <<device, fileVars, writesTo, wrote, shared>> /\ overlapped' = overlapped
  BY DEF StatSource, historyVars, marks, Still, Begins, Steps
<1>2. /\ org' \in [Jobs -> OrgRecord] /\ \A k \in Jobs : k # j => org'[k] = org[k]
      /\ org'[j].step = step /\ org'[j].path = org[j].path
  <2> HIDE DEF step
  <2>1. QED
    BY <1>1, JobFacts, OrgGoes
<1>3. InTurn(j)'
  BY <1>1, <1>2, JobFacts DEF InTurn
<1>4. PerTarget'
  <2>1. \A p \in Targets : Claimed(p)' => Claimed(p)
    BY <1>1, <1>2 DEF Claimed
  <2>2. QED
    BY <1>1, <1>2, <2>1, QuietTargets DEF device
<1>5. UnderWay(j)' => UnderWay(j)
  BY <1>1 DEF UnderWay
<1>6. QED
  BY <1>1, <1>2, <1>3, <1>4, <1>5, JobFacts, QuietKeeps

\* A target that is free, and that nobody else takes, is one that nothing promises.
LEMMA StatTargetHolds == ASSUME MediaInv, NEW j \in Jobs, StatTarget(j) PROVE MediaInv'
<1> DEFINE step == IF entry[Dst(j)] # 0 THEN "rows" ELSE "place"
<1>1. /\ org[j].step = "target" /\ row' = row /\ load' = load /\ OrganizerGoes(j, step) /\ step \in Steps
      /\ UNCHANGED <<device, fileVars, writesTo, wrote, shared>>
      /\ overlapped' = IF entry[Dst(j)] = 0 /\ Takers(j) # {} THEN overlapped \cup {Dst(j)} ELSE overlapped
      /\ linkable' = linkable
  BY DEF StatTarget, Still, Begins, Steps, device
<1>2. /\ org' \in [Jobs -> OrgRecord] /\ \A k \in Jobs : k # j => org'[k] = org[k]
      /\ org'[j].step = step /\ org'[j].path = org[j].path
  <2> HIDE DEF step
  <2>1. QED
    BY <1>1, JobFacts, OrgGoes
<1>3. InTurn(j)'
  BY <1>1, <1>2, JobFacts DEF InTurn
<1>4. PerTarget'
  <2> SUFFICES ASSUME NEW p \in Targets PROVE TargetHolds(p)'
    BY DEF PerTarget
  <2>1. TargetHolds(p)
    BY JobFacts
  <2>2. Claimed(p)' => Claimed(p)
    BY <1>1, <1>2 DEF Claimed
  <2>3. entry' = entry /\ (Good(p) => Good(p)') /\ \A k \in Jobs : org'[k] = org[k] /\ CopyIsGood(k) => CopyIsGood(k)'
    <3>1. \A k \in Jobs : org[k].step # "off" => org'[k].step # "off"
      BY <1>2
    <3>2. QED
      BY <1>1, <3>1, FilesSame DEF fileVars
  <2>4. \A k \in Jobs : org'[k].step = "copy" => org'[k] = org[k]
    BY <1>2
  <2>5. CASE p # Dst(j) \/ entry[p] # 0
    <3>1. \A k \in Jobs : (Takes(k, p)' => Takes(k, p)) /\ (Fills(k, p)' => Fills(k, p))
      BY <1>2, <2>5 DEF Takes, Fills
    <3>2. p \notin overlapped' => p \notin overlapped
      BY <1>1
    <3>3. QED
      BY <2>1, <2>2, <2>3, <2>4, <3>1, <3>2, TargetKept
  <2>6. CASE p = Dst(j) /\ entry[p] = 0
    <3> SUFFICES ASSUME p \notin overlapped' PROVE TargetHolds(p)'
      BY DEF TargetHolds
    <3>1. p \notin overlapped /\ Takers(j) = {}
      BY <1>1, <2>6
    <3>2. \A k \in Jobs : Takes(k, p) => k = j
      BY <2>6, <3>1 DEF Takers, Takes
    <3>3. \A k \in Jobs : Takes(k, p)' => k = j
      BY <1>2, <3>2 DEF Takes
    <3>4. ~Claimed(p)
      BY <2>1, <2>6, <3>1 DEF TargetHolds, Good
    <3>5. \A k \in Jobs : Dst(k) = p => org'[k].step # "copy"
      BY <1>2, <3>2, <2>6 DEF Takes
    <3>6. QED
      BY <2>2, <2>3, <2>6, <3>3, <3>4, <3>5 DEF TargetHolds
  <2>7. QED
    BY <2>5, <2>6
<1>5. UnderWay(j)' => UnderWay(j)
  BY <1>1 DEF UnderWay
<1>6. QED
  BY <1>1, <1>2, <1>3, <1>4, <1>5, JobFacts, QuietKeeps

\* What was copied stays, and nothing will name it.
LEMMA CopyFailsHolds == ASSUME MediaInv, NEW j \in Jobs, CopyFails(j) PROVE MediaInv'
<1>1. /\ org[j].step = "copy" /\ row' = row /\ load' = load /\ OrganizerGoes(j, "over") /\ "over" \in Steps
      /\ UNCHANGED <<device, fileVars, writesTo, wrote, shared>> /\ overlapped' = overlapped
  BY DEF CopyFails, historyVars, marks, Still, Begins, Steps
<1>2. /\ org' \in [Jobs -> OrgRecord] /\ \A k \in Jobs : k # j => org'[k] = org[k]
      /\ org'[j].step = "over" /\ org'[j].path = org[j].path
  BY <1>1, JobFacts, OrgGoes
<1>3. InTurn(j)'
  BY <1>1, <1>2, JobFacts DEF InTurn
<1>4. PerTarget'
  <2>1. \A p \in Targets : Claimed(p)' => Claimed(p)
    BY <1>1, <1>2 DEF Claimed
  <2>2. QED
    BY <1>1, <1>2, <2>1, QuietTargets DEF device
<1>5. UnderWay(j)' => UnderWay(j)
  BY <1>1, <1>2 DEF UnderWay
<1>6. QED
  BY <1>1, <1>2, <1>3, <1>4, <1>5, JobFacts, QuietKeeps

\* The row gets the path of a target that is filled.
LEMMA UpdateRowHolds == ASSUME MediaInv, NEW j \in Jobs, UpdateRow(j) PROVE MediaInv'
<1>1. /\ org[j].step = "row" /\ load' = load
      /\ UNCHANGED <<device, fileVars, writesTo, wrote, shared>> /\ overlapped' = overlapped
      /\ org' = [org EXCEPT ![j] = [[org[j] EXCEPT !.step = "rows"] EXCEPT !.path = Dst(j)]]
      /\ row' = IF row[MovieOf[j]].status = "deleted" THEN row
                ELSE [row EXCEPT ![MovieOf[j]] = [status |-> "available", path |-> Dst(j)]]
  BY DEF UpdateRow, historyVars, marks, Still, Begins
<1>2. Dst(j) \in Targets /\ MovieOf[j] \in Movies
  BY Names
<1> DEFINE r == [[org[j] EXCEPT !.step = "rows"] EXCEPT !.path = Dst(j)]
<1>3. r \in OrgRecord /\ r.step = "rows" /\ r.path = Dst(j)
  BY <1>2, JobFacts DEF OrgRecord, Steps
<1> HIDE DEF r
<1>4. /\ org' \in [Jobs -> OrgRecord] /\ org'[j] = r /\ \A k \in Jobs : k # j => org'[k] = org[k]
  BY <1>1, <1>3, JobFacts DEF r
<1>5. row' \in [Movies -> [status : {"queued", "available", "deleted"}, path : Targets \cup {None}]]
  BY <1>1, <1>2, JobFacts
<1>6. \A m \in Movies : row'[m].path \in {row[m].path, Dst(j)}
  BY <1>1, <1>2, JobFacts
<1>7. InTurn(j)'
  BY <1>1, <1>3, <1>4, JobFacts DEF InTurn
<1>8. PerTarget'
  <2>1. ASSUME NEW p \in Targets, Claimed(p)' PROVE Claimed(p)
    <3>1. CASE p = Dst(j)
      BY <1>1, <3>1 DEF Claimed
    <3>2. CASE p # Dst(j)
      BY <1>3, <1>4, <1>6, <2>1, <3>2 DEF Claimed
    <3>3. QED
      BY <3>1, <3>2
  <2>2. QED
    BY <1>1, <1>3, <1>4, <2>1, QuietTargets DEF device
<1>9. UnderWay(j)' => UnderWay(j)
  BY <1>1, <1>3, <1>4 DEF UnderWay
<1>10. QED
  BY <1>1, <1>3, <1>4, <1>5, <1>7, <1>8, <1>9, JobFacts, QuietKeeps

\* The rows that wait get the path of the record, which is none or filled.
LEMMA UpdateRowsHolds == ASSUME MediaInv, NEW j \in Jobs, UpdateRows(j) PROVE MediaInv'
<1>1. /\ org[j].step = "rows" /\ load' = load /\ OrganizerGoes(j, "over") /\ "over" \in Steps
      /\ UNCHANGED <<device, fileVars, writesTo, wrote, shared>> /\ overlapped' = overlapped
      /\ row' = [m \in Movies |-> IF m \in Waiting(j)
                                  THEN [status |-> "available", path |-> org[j].path] ELSE row[m]]
  BY DEF UpdateRows, historyVars, marks, Still, Begins, Steps
<1>2. /\ org' \in [Jobs -> OrgRecord] /\ \A k \in Jobs : k # j => org'[k] = org[k]
      /\ org'[j].step = "over" /\ org'[j].path = org[j].path
  BY <1>1, JobFacts, OrgGoes
<1>3. org[j].path \in Targets \cup {None}
  BY JobFacts DEF OrgRecord
<1>4. row' \in [Movies -> [status : {"queued", "available", "deleted"}, path : Targets \cup {None}]]
  BY <1>1, <1>3, JobFacts
<1>5. \A m \in Movies : row'[m].path \in {row[m].path, org[j].path}
  BY <1>1
<1>6. InTurn(j)'
  BY <1>1, <1>2, JobFacts DEF InTurn
<1>7. PerTarget'
  <2>1. \A p \in Targets : Claimed(p)' => Claimed(p)
    BY <1>1, <1>2, <1>5 DEF Claimed
  <2>2. QED
    BY <1>1, <1>2, <2>1, QuietTargets DEF device
<1>8. UnderWay(j)' => UnderWay(j)
  BY <1>1, <1>2 DEF UnderWay
<1>9. QED
  BY <1>1, <1>2, <1>4, <1>6, <1>7, <1>8, JobFacts, QuietKeeps

\* Deleting a row takes a promise back.
LEMMA DeleteMediaHolds == ASSUME MediaInv, NEW m \in Movies, DeleteMedia(m) PROVE MediaInv'
<1>1. /\ UNCHANGED <<device, fileVars, load, writesTo, org, wrote, shared, overlapped>>
      /\ row' = [row EXCEPT ![m] = [status |-> "deleted", path |-> None]]
  BY DEF DeleteMedia, historyVars, marks
<1>2. MediaTypes /\ PerJob /\ SoleWriter /\ TwoDevices /\ PerTarget
  BY DEF MediaInv
<1>3. /\ row' \in [Movies -> [status : {"queued", "available", "deleted"}, path : Targets \cup {None}]]
      /\ \A n \in Movies : row'[n].path \in {row[n].path, None}
  BY <1>1, <1>2 DEF MediaTypes
<1>4. MediaTypes'
  BY <1>1, <1>2, <1>3 DEF MediaTypes, device, fileVars
<1>5. SoleWriter' /\ TwoDevices'
  BY <1>1, <1>2 DEF SoleWriter, TwoDevices, device, fileVars, IsWritten
<1>6. ASSUME NEW k \in Jobs PROVE InTurn(k)' /\ OwnParts(k)' /\ OwnName(k)'
  <2>1. InTurn(k) /\ OwnParts(k) /\ OwnName(k)
    BY <1>2 DEF PerJob
  <2>2. InTurn(k)' /\ OwnParts(k)'
    BY <1>1, <2>1 DEF InTurn, OwnParts, device, fileVars
  <2>3. OwnName(k)'
    BY <1>1, <2>1 DEF OwnName, UnderWay, device, fileVars
  <2>4. QED
    BY <2>2, <2>3
<1>7. ASSUME NEW p \in Targets PROVE TargetHolds(p)'
  <2>1. Claimed(p)' => Claimed(p)
    BY <1>1, <1>3, Names DEF Claimed
  <2>2. entry' = entry /\ (Good(p) => Good(p)') /\ \A k \in Jobs : org'[k] = org[k] /\ CopyIsGood(k) => CopyIsGood(k)'
    BY <1>1, FilesSame DEF fileVars, device
  <2>3. TargetHolds(p) /\ \A k \in Jobs : (Takes(k, p)' => Takes(k, p)) /\ (Fills(k, p)' => Fills(k, p))
    BY <1>1, <1>2 DEF PerTarget, Takes, Fills
  <2>4. QED
    BY <1>1, <2>1, <2>2, <2>3, TargetKept
<1>8. QED
  BY <1>4, <1>5, <1>6, <1>7 DEF MediaInv, PerJob, PerTarget

-----------------------------------------------------------------------------
\* A step of an organizer that takes names away, or gives a file another.
LEMMA NamesChange ==
    ASSUME MediaInv, UNCHANGED <<device, inodes, load, writesTo, wrote, shared, row>>, NEW j \in Jobs,
           org' \in [Jobs -> OrgRecord], \A k \in Jobs : k # j => org'[k] = org[k],
           org[j].step \in {"place", "link", "unlink", "clean"},
           org'[j].step \in {"link", "clean", "row", "over"},
           org'[j].step = "link" => org[j].step = "place",
           entry' \in [Paths -> 0..Len(inodes)],
           \A s \in Sources : entry'[s] \in {0, entry[s]},
           ~linkable => \A p \in Targets : entry'[p] \in {0, entry[p]},
           PerTarget'
    PROVE  MediaInv'
<1>1. MediaTypes /\ PerJob /\ SoleWriter /\ TwoDevices
  BY DEF MediaInv
<1>2. MediaTypes'
  BY <1>1 DEF MediaTypes, device, OrgRecord
<1>3. SoleWriter'
  BY <1>1 DEF SoleWriter
<1>4. TwoDevices'
  <2> SUFFICES ASSUME ~linkable
               PROVE  /\ \A s \in Sources : entry'[s] # 0 => \E o \in Jobs : writesTo'[o] = entry'[s]
                      /\ \A p \in Targets : entry'[p] # 0 => ~\E o \in Jobs : writesTo'[o] = entry'[p]
                      /\ \A p, q \in Targets : entry'[p] # 0 /\ entry'[p] = entry'[q] => p = q
                      /\ \A k \in Jobs : org'[k].step = "copy" =>
                            /\ \E o \in Jobs : writesTo'[o] = org'[k].from
                            /\ ~\E o \in Jobs : writesTo'[o] = org'[k].to
                            /\ \A p \in Targets : entry'[p] = org'[k].to => p = Dst(k)
    BY DEF TwoDevices, IsWritten, device
  <2>1. \A s \in Sources : entry'[s] # 0 => \E o \in Jobs : writesTo'[o] = entry'[s]
    BY <1>1 DEF TwoDevices, IsWritten
  <2>2. \A p \in Targets : entry'[p] # 0 => ~\E o \in Jobs : writesTo'[o] = entry'[p]
    BY <1>1 DEF TwoDevices, IsWritten
  <2>3. \A p, q \in Targets : entry'[p] # 0 /\ entry'[p] = entry'[q] => p = q
    BY <1>1 DEF TwoDevices
  <2>4. ASSUME NEW k \in Jobs, org'[k].step = "copy"
        PROVE  /\ \E o \in Jobs : writesTo'[o] = org'[k].from
               /\ ~\E o \in Jobs : writesTo'[o] = org'[k].to
               /\ \A p \in Targets : entry'[p] = org'[k].to => p = Dst(k)
    <3>1. org'[k] = org[k] /\ org[k].step = "copy" /\ org[k].to # 0
      BY <1>1, <2>4 DEF PerJob, InTurn
    <3>2. QED
      BY <1>1, <3>1 DEF TwoDevices, IsWritten
  <2>5. QED
    BY <2>1, <2>2, <2>3, <2>4
<1>5. ASSUME NEW k \in Jobs PROVE InTurn(k)' /\ OwnParts(k)' /\ OwnName(k)'
  <2>1. InTurn(k) /\ OwnParts(k) /\ OwnName(k) /\ InTurn(j)
    BY <1>1 DEF PerJob
  <2>2. org'[k].step # "off" <=> org[k].step # "off"
    BY <2>1
  <2>3. org'[k].step = "copy" => org'[k] = org[k]
    OBVIOUS
  <2>4. InTurn(k)'
    <3>1. org'[j].step \notin {"off", "begin", "stat", "over"} => j \notin Torrents
      BY <2>1 DEF InTurn
    <3>2. QED
      BY <2>1, <2>2, <2>3, <3>1 DEF InTurn, device
  <2>5. OwnParts(k)'
    BY <2>1, <2>2 DEF OwnParts
  <2>6. source' = source /\ source[k] \in Sources
    BY <1>1, SourceIsOne DEF device
  <2>7. OwnName(k)'
    <3>1. UnderWay(k)' => UnderWay(k)
      BY DEF UnderWay
    <3>2. QED
      BY <2>1, <2>6, <3>1 DEF OwnName
  <2>8. QED
    BY <2>4, <2>5, <2>7
<1>6. QED
  BY <1>2, <1>3, <1>4, <1>5 DEF MediaInv, PerJob

\* A target whose name stays, after a step of j that only changed names.
LEMMA TargetNamed ==
    ASSUME MediaInv, UNCHANGED <<linkable, inodes, writesTo, wrote, shared, row, overlapped>>, NEW j \in Jobs,
           \A k \in Jobs : k # j => org'[k] = org[k], org'[j].step # "off",
           org'[j].step \in {"place", "link"} => org[j].step \in {"place", "link"},
           org'[j].step # "copy", org'[j].path = org[j].path,
           NEW p \in Targets, entry'[p] = entry[p],
           p = Dst(j) /\ org'[j].step \in {"unlink", "clean", "row"} => Claimed(p)
    PROVE  TargetHolds(p)'
<1>1. TargetHolds(p)
  BY JobFacts
<1>2. \A k \in Jobs : (Takes(k, p)' => Takes(k, p)) /\ (Fills(k, p)' => Fills(k, p))
  BY DEF Takes, Fills
<1>3. Claimed(p)' => Claimed(p)
  BY DEF Claimed
<1>4. Good(p) => Good(p)'
  BY DEF Good, InPlace, Finished
<1>5. \A k \in Jobs : org'[k].step = "copy" => org'[k] = org[k] /\ (CopyIsGood(k) => CopyIsGood(k)')
  BY DEF CopyIsGood
<1>6. QED
  BY <1>1, <1>2, <1>3, <1>4, <1>5, TargetKept

\* The source is removed once its copy is made; a target is no source.
LEMMA RemoveSourceHolds == ASSUME MediaInv, NEW j \in Jobs, RemoveSource(j) PROVE MediaInv'
<1> DEFINE step == IF entry[source[j]] = 0 THEN "over" ELSE "clean"
<1>1. /\ org[j].step = "unlink" /\ OrganizerGoes(j, step) /\ step \in Steps
      /\ entry' = [entry EXCEPT ![source[j]] = 0]
      /\ UNCHANGED <<device, inodes, load, writesTo, wrote, shared, row, overlapped>>
  BY DEF RemoveSource, Begins, Still, historyVars, marks, Steps
<1>2. /\ org' \in [Jobs -> OrgRecord] /\ \A k \in Jobs : k # j => org'[k] = org[k]
      /\ org'[j].step = step /\ org'[j].path = org[j].path
  <2> HIDE DEF step
  <2>1. QED
    BY <1>1, JobFacts, OrgGoes
<1>3. source[j] \in Sources /\ source[j] \in Paths /\ source[j] \notin Targets
  BY JobFacts, SourceIsOne
<1>4. /\ entry' \in [Paths -> 0..Len(inodes)]
      /\ \A p \in Paths : entry'[p] = IF p = source[j] THEN 0 ELSE entry[p]
  <2>1. entry \in [Paths -> 0..Len(inodes)] /\ 0 \in 0..Len(inodes)
    BY JobFacts DEF MediaTypes
  <2>2. QED
    BY <1>1, <1>3, <2>1
<1>5. PerTarget'
  <2>1. ASSUME NEW p \in Targets PROVE TargetHolds(p)'
    <3>1. entry'[p] = entry[p]
      BY <1>3, <1>4, Names
    <3>2. p = Dst(j) => Claimed(p)
      BY <1>1 DEF Claimed
    <3>3. QED
      BY <1>1, <1>2, <3>1, <3>2, TargetNamed DEF device
  <2>2. QED
    BY <2>1 DEF PerTarget
<1>6. QED
  BY <1>1, <1>2, <1>3, <1>4, <1>5, Names, NamesChange

\* CleanupLeftovers removes names of downloads only, of its own directory.
LEMMA CleanupLeftoversHolds == ASSUME MediaInv, NEW j \in Jobs, CleanupLeftovers(j) PROVE MediaInv'
<1>1. /\ org[j].step = "clean" /\ OrganizerGoes(j, "row") /\ "row" \in Steps
      /\ UNCHANGED <<device, inodes, load, writesTo, wrote, shared, row, overlapped>>
  BY DEF CleanupLeftovers, Begins, Still, Steps
<1> PICK gone \in SUBSET Removable(j) : entry' = [p \in Paths |-> IF p \in gone THEN 0 ELSE entry[p]]
  BY DEF CleanupLeftovers
<1>2. /\ org' \in [Jobs -> OrgRecord] /\ \A k \in Jobs : k # j => org'[k] = org[k]
      /\ org'[j].step = "row" /\ org'[j].path = org[j].path
  BY <1>1, JobFacts, OrgGoes
<1>3. /\ entry' \in [Paths -> 0..Len(inodes)]
      /\ \A p \in Paths : entry'[p] \in {0, entry[p]}
      /\ \A p \in Paths : p \notin Sources => entry'[p] = entry[p]
  <2>1. entry \in [Paths -> 0..Len(inodes)] /\ 0 \in 0..Len(inodes)
    BY JobFacts DEF MediaTypes
  <2>2. gone \subseteq Sources
    BY DEF Removable
  <2>3. QED
    BY <2>1, <2>2
<1>4. PerTarget'
  <2>1. ASSUME NEW p \in Targets PROVE TargetHolds(p)'
    <3>1. entry'[p] = entry[p]
      BY <1>3, Names
    <3>2. p = Dst(j) => Claimed(p)
      BY <1>1 DEF Claimed
    <3>3. QED
      BY <1>1, <1>2, <3>1, <3>2, TargetNamed DEF device
  <2>2. QED
    BY <2>1 DEF PerTarget
<1>5. QED
  BY <1>1, <1>2, <1>3, <1>4, Names, NamesChange

\* Who removes a target took it while it was free: nothing promised it.
LEMMA RemoveTargetHolds == ASSUME MediaInv, NEW j \in Jobs, RemoveTarget(j) PROVE MediaInv'
<1>1. /\ org[j].step = "place" /\ OrganizerGoes(j, "link") /\ "link" \in Steps
      /\ entry' = [entry EXCEPT ![Dst(j)] = 0]
      /\ UNCHANGED <<device, inodes, load, writesTo, wrote, shared, row, overlapped>>
  BY DEF RemoveTarget, Begins, Still, historyVars, marks, Steps
<1>2. /\ org' \in [Jobs -> OrgRecord] /\ \A k \in Jobs : k # j => org'[k] = org[k]
      /\ org'[j].step = "link" /\ org'[j].path = org[j].path
  BY <1>1, JobFacts, OrgGoes
<1>3. /\ entry' \in [Paths -> 0..Len(inodes)]
      /\ \A p \in Paths : entry'[p] = IF p = Dst(j) THEN 0 ELSE entry[p]
  <2>1. entry \in [Paths -> 0..Len(inodes)] /\ 0 \in 0..Len(inodes)
    BY JobFacts DEF MediaTypes
  <2>2. QED
    BY <1>1, <2>1, Names
<1>4. PerTarget'
  <2>1. ASSUME NEW p \in Targets PROVE TargetHolds(p)'
    <3>1. CASE p # Dst(j)
      <4>1. entry'[p] = entry[p]
        BY <1>3, <3>1, Names
      <4>2. QED
        BY <1>1, <1>2, <3>1, <4>1, TargetNamed DEF device
    <3>2. CASE p = Dst(j)
      <4> SUFFICES ASSUME p \notin overlapped PROVE TargetHolds(p)'
        BY <1>1 DEF TargetHolds
      <4>1. TargetHolds(p) /\ Takes(j, p)
        BY <1>1, <3>2, JobFacts DEF Takes
      <4>2. ~Claimed(p) /\ \A k \in Jobs : Takes(k, p) => k = j
        BY <4>1 DEF TargetHolds
      <4>3. \A k \in Jobs : Takes(k, p)' => k = j
        BY <1>2, <4>2 DEF Takes
      <4>4. ~Claimed(p)'
        BY <1>1, <1>2, <4>2 DEF Claimed
      <4>5. (\A k \in Jobs : Dst(k) = p => org'[k].step # "copy") /\ entry'[p] = 0
        BY <1>2, <1>3, <3>2, <4>2, Names DEF Takes
      <4>6. QED
        BY <4>3, <4>4, <4>5 DEF TargetHolds
    <3>3. QED
      BY <3>1, <3>2
  <2>2. QED
    BY <2>1 DEF PerTarget
<1>5. QED
  BY <1>1, <1>2, <1>3, <1>4, Names, NamesChange

\* What a job that is under way finds under its name is its own whole file, or one that
\* another made use of.
LEMMA FoundIsWhole ==
    ASSUME MediaInv, NEW j \in Jobs, org[j].step = "link", entry[source[j]] # 0
    PROVE  /\ j \notin Torrents
           /\ entry[source[j]] \in shared \/ (/\ entry[source[j]] = writesTo[j]
                                              /\ inodes[entry[source[j]]] = wrote[j])
<1>1. InTurn(j) /\ OwnParts(j) /\ OwnName(j)
  BY JobFacts
<1>2. j \notin Torrents /\ UnderWay(j)
  BY <1>1 DEF InTurn, UnderWay
<1>3. QED
  BY <1>1, <1>2 DEF OwnName, OwnParts

\* The target gets the inode of the download, which is whole or shared; a rename takes the
\* name of a shared one.
LEMMA LinkOrRenameHolds == ASSUME MediaInv, NEW j \in Jobs, LinkOrRename(j) PROVE MediaInv'
<1> DEFINE from == source[j]
<1>1. /\ org[j].step = "link" /\ linkable
      /\ UNCHANGED <<device, inodes, load, writesTo, wrote, shared, row, overlapped>>
  BY DEF LinkOrRename, Begins, Still, historyVars, marks
<1>2. from \in Sources /\ from \in Paths /\ from \notin Targets /\ Dst(j) \in Targets /\ Dst(j) \in Paths
  BY JobFacts, SourceIsOne, Names
<1>3. entry \in [Paths -> 0..Len(inodes)] /\ 0 \in 0..Len(inodes)
  BY JobFacts DEF MediaTypes
<1>4. CASE entry[from] = 0 /\ OrganizerGoes(j, "over") /\ UNCHANGED entry
  <2>1. "over" \in Steps
    BY DEF Steps
  <2>2. /\ org' \in [Jobs -> OrgRecord] /\ \A k \in Jobs : k # j => org'[k] = org[k]
        /\ org'[j].step = "over" /\ org'[j].path = org[j].path
    BY <1>4, <2>1, JobFacts, OrgGoes
  <2>3. PerTarget'
    <3>1. ASSUME NEW p \in Targets PROVE TargetHolds(p)'
      BY <1>1, <1>4, <2>2, TargetNamed DEF device
    <3>2. QED
      BY <3>1 DEF PerTarget
  <2>4. QED
    BY <1>1, <1>3, <1>4, <2>2, <2>3, Names, NamesChange
<1>5. CASE /\ entry[from] # 0 /\ OrganizerGoes(j, "clean")
           /\ entry' = CASE entry[Dst(j)] = 0 -> [entry EXCEPT ![Dst(j)] = entry[from]]
                         [] entry[Dst(j)] = entry[from] -> entry
                         [] OTHER -> [entry EXCEPT ![Dst(j)] = entry[from], ![from] = 0]
  <2>1. "clean" \in Steps
    BY DEF Steps
  <2>2. /\ org' \in [Jobs -> OrgRecord] /\ \A k \in Jobs : k # j => org'[k] = org[k]
        /\ org'[j].step = "clean" /\ org'[j].path = org[j].path
    BY <1>5, <2>1, JobFacts, OrgGoes
  <2>3. /\ entry' \in [Paths -> 0..Len(inodes)] /\ entry'[Dst(j)] = entry[from]
        /\ entry'[from] \in {0, entry[from]}
        /\ \A p \in Paths : p # Dst(j) /\ p # from => entry'[p] = entry[p]
    <3>1. entry[from] \in 0..Len(inodes) /\ Dst(j) # from
      BY <1>2, <1>3
    <3>2. CASE entry[Dst(j)] = 0
      BY <1>2, <1>3, <1>5, <3>1, <3>2
    <3>3. CASE entry[Dst(j)] # 0 /\ entry[Dst(j)] = entry[from]
      BY <1>2, <1>3, <1>5, <3>1, <3>3
    <3>4. CASE entry[Dst(j)] # 0 /\ entry[Dst(j)] # entry[from]
      <4>1. entry' = [entry EXCEPT ![Dst(j)] = entry[from], ![from] = 0]
        BY <1>5, <3>4
      <4>2. QED
        BY <1>2, <1>3, <3>1, <4>1
    <3>5. QED
      BY <3>2, <3>3, <3>4
  <2>4. PerTarget'
    <3>1. ASSUME NEW p \in Targets PROVE TargetHolds(p)'
      <4>1. CASE p # Dst(j)
        <5>1. entry'[p] = entry[p]
          BY <1>2, <2>3, <4>1, Names
        <5>2. QED
          BY <1>1, <2>2, <4>1, <5>1, TargetNamed DEF device
      <4>2. CASE p = Dst(j)
        <5> SUFFICES ASSUME p \notin overlapped PROVE TargetHolds(p)'
          BY <1>1 DEF TargetHolds
        <5>1. TargetHolds(p) /\ Takes(j, p)
          BY <1>1, <4>2, JobFacts DEF Takes
        <5>2. \A k \in Jobs : Takes(k, p) => k = j
          BY <5>1 DEF TargetHolds
        <5>3. \A k \in Jobs : ~Takes(k, p)' /\ ~Fills(k, p)'
          BY <2>2, <5>2 DEF Takes, Fills
        <5>4. Good(p)'
          <6>1. /\ j \notin Torrents
                /\ entry[from] \in shared \/ (entry[from] = writesTo[j] /\ inodes[entry[from]] = wrote[j])
            BY <1>1, <1>5, FoundIsWhole
          <6>2. entry'[p] = entry[from] /\ inodes' = inodes /\ shared' = shared /\ entry'[p] # 0
            BY <1>1, <1>5, <2>3, <4>2
          <6>3. j \in Finished' /\ (entry[from] \notin shared => InPlace(j)')
            BY <1>1, <2>2, <4>2, <6>1, <6>2 DEF Finished, InPlace
          <6>4. QED
            BY <4>2, <6>2, <6>3 DEF Good
        <5>5. \A k \in Jobs : Dst(k) = p => org'[k].step # "copy"
          BY <2>2, <5>2 DEF Takes
        <5>6. QED
          BY <5>3, <5>4, <5>5 DEF TargetHolds
      <4>3. QED
        BY <4>1, <4>2
    <3>2. QED
      BY <3>1 DEF PerTarget
  <2>5. \A s \in Sources : entry'[s] \in {0, entry[s]} /\ (entry[s] # 0 /\ entry'[s] = 0 => s = from)
    BY <1>2, <2>3, Names
  <2>6. QED
    BY <1>1, <2>2, <2>3, <2>4, <2>5, NamesChange
<1>6. QED
  BY <1>4, <1>5 DEF LinkOrRename

-----------------------------------------------------------------------------
\* The first members of a sequence, and one more.
LEMMA PrefixFacts ==
    ASSUME NEW S, NEW s \in Seq(S)
    PROVE  /\ Len(s) \in Nat /\ Prefix(s, 0) = <<>> /\ Prefix(s, Len(s)) = s
           /\ \A n \in 0..Len(s) : Prefix(s, n) \in Seq(S) /\ Len(Prefix(s, n)) = n
           /\ \A n \in 0..(Len(s) - 1) : Append(Prefix(s, n), s[n + 1]) = Prefix(s, n + 1)
<1>1. Len(s) \in Nat /\ s \in [1..Len(s) -> S]
  BY LenProperties
<1>2. Prefix(s, 0) = <<>>
  BY DEF Prefix
<1>3. ASSUME NEW n \in 0..Len(s)
      PROVE  /\ Prefix(s, n) \in Seq(S) /\ Len(Prefix(s, n)) = n
             /\ \A m \in 1..n : Prefix(s, n)[m] = s[m]
  <2>1. Prefix(s, n) \in [1..n -> S] /\ n \in Nat
    BY <1>1 DEF Prefix
  <2>2. \A f \in [1..n -> S] : f \in Seq(S) /\ Len(f) = n
    BY <2>1
  <2>3. QED
    BY <2>1, <2>2 DEF Prefix
<1>4. Prefix(s, Len(s)) = s
  BY <1>1, <1>3, SeqEqual
<1>5. ASSUME NEW n \in 0..(Len(s) - 1)
      PROVE  Append(Prefix(s, n), s[n + 1]) = Prefix(s, n + 1)
  <2> DEFINE longer == Append(Prefix(s, n), s[n + 1])
  <2>1. n \in 0..Len(s) /\ n + 1 \in 0..Len(s) /\ n + 1 \in 1..Len(s) /\ s[n + 1] \in S
    BY <1>1
  <2>2. /\ longer \in Seq(S) /\ Len(longer) = n + 1 /\ longer[n + 1] = s[n + 1]
        /\ \A m \in 1..n : longer[m] = Prefix(s, n)[m]
    BY <1>3, <2>1, AppendProperties
  <2> HIDE DEF longer
  <2>3. \A m \in 1..(n + 1) : longer[m] = Prefix(s, n + 1)[m]
    <3>1. \A m \in 1..(n + 1) : m = n + 1 \/ m \in 1..n
      BY <2>1
    <3>2. QED
      BY <1>3, <2>1, <2>2, <3>1
  <2>4. longer = Prefix(s, n + 1)
    BY <1>3, <2>1, <2>2, <2>3, SeqEqual
  <2>5. QED
    BY <2>4 DEF longer
<1>6. QED
  BY <1>1, <1>2, <1>3, <1>4, <1>5

\* A good target stays good while its name and its data stay, or its data are shared.
LEMMA GoodKept ==
    ASSUME NEW p, Good(p), entry'[p] = entry[p], shared \subseteq shared', linkable' = linkable,
           inodes'[entry[p]] = inodes[entry[p]] \/ entry[p] \in shared,
           \A k \in Finished : k \in Finished' /\ wrote'[k] = wrote[k] /\ writesTo'[k] = writesTo[k]
    PROVE  Good(p)'
<1>1. ASSUME NEW k \in Finished, Dst(k) = p, InPlace(k), entry[p] \notin shared
      PROVE  k \in Finished' /\ InPlace(k)'
  BY <1>1 DEF InPlace
<1>2. QED
  BY <1>1 DEF Good

\* So does a copy.
LEMMA CopyKept ==
    ASSUME NEW k, CopyIsGood(k), org'[k] = org[k], writesTo'[k] = writesTo[k], shared \subseteq shared',
           wrote'[k] = wrote[k],
           inodes'[org[k].from] = inodes[org[k].from], inodes'[org[k].to] = inodes[org[k].to]
    PROVE  CopyIsGood(k)'
  BY DEF CopyIsGood

\* An organizer that writes a file of the library: its own, of its own target.
LEMMA TargetWritten ==
    ASSUME MediaInv, UNCHANGED <<device, load, writesTo, wrote, row, overlapped>>, NEW j \in Jobs,
           ~linkable, org[j].step \in {"link", "copy"}, org'[j].step = "copy",
           org' \in [Jobs -> OrgRecord], \A k \in Jobs : k # j => org'[k] = org[k],
           org'[j].path = org[j].path,
           org'[j].from \in 1..Len(inodes), \E o \in Jobs : writesTo[o] = org'[j].from,
           inodes' \in Seq(Contents), Len(inodes') >= Len(inodes), org'[j].to \in 1..Len(inodes'),
           \A i \in 1..Len(inodes) : i # org'[j].to => inodes'[i] = inodes[i],
           ~\E o \in Jobs : writesTo[o] = org'[j].to,
           \A q \in Targets : q # Dst(j) => entry[q] # org'[j].to,
           \A k \in Jobs : Dst(k) # Dst(j) /\ Dst(k) \notin overlapped /\ org[k].step = "copy" => org[k].to # org'[j].to,
           entry' \in [Paths -> 0..Len(inodes')], \A p \in Paths : p # Dst(j) => entry'[p] = entry[p],
           \/ entry'[Dst(j)] = entry[Dst(j)]
           \/ entry'[Dst(j)] = org'[j].to /\ \A k \in Jobs : org[k].step = "copy" => org[k].to # org'[j].to,
           shared \subseteq shared', shared' \subseteq 1..Len(inodes'),
           Dst(j) \notin overlapped => entry'[Dst(j)] = org'[j].to /\ CopyIsGood(j)'
    PROVE  MediaInv'
<1>1. MediaTypes /\ PerJob /\ SoleWriter /\ TwoDevices /\ PerTarget
  BY DEF MediaInv
<1>2. Len(inodes) \in Nat /\ Len(inodes') \in Nat /\ org'[j].to # 0
  <2>1. inodes \in Seq(Contents)
    BY <1>1 DEF MediaTypes
  <2>2. QED
    BY <2>1, LenProperties
<1>3. MediaTypes'
  <2>1. \A i \in 0..Len(inodes) : i \in 0..Len(inodes')
    BY <1>2
  <2>2. writesTo' \in [Jobs -> 0..Len(inodes')]
    BY <1>1, <2>1 DEF MediaTypes
  <2>3. QED
    BY <1>1, <2>2 DEF MediaTypes, device, OrgRecord
<1>4. SoleWriter'
  BY <1>1 DEF SoleWriter
<1>5. ASSUME NEW k \in Jobs, writesTo[k] # 0
      PROVE  writesTo[k] \in 1..Len(inodes) /\ inodes'[writesTo[k]] = inodes[writesTo[k]]
  <2>1. writesTo[k] \in 0..Len(inodes)
    BY <1>1 DEF MediaTypes
  <2>2. writesTo[k] \in 1..Len(inodes)
    BY <1>2, <1>5, <2>1
  <2>3. writesTo[k] # org'[j].to
    OBVIOUS
  <2>4. QED
    BY <2>2, <2>3
<1>6. Dst(j) \in Targets /\ Dst(j) \in Paths /\ Dst(j) \notin Sources
  BY Names
<1> DEFINE d == Dst(j)
<1>7. /\ \A s \in Sources : entry'[s] = entry[s]
      /\ \A p \in Targets : p # d => entry'[p] = entry[p]
      /\ d \in Targets /\ \A q \in Targets : q # d => entry[q] # org'[j].to
      /\ entry'[d] = entry[d] \/ (entry'[d] = org'[j].to /\ \A k \in Jobs : org[k].step = "copy" => org[k].to # org'[j].to)
  BY <1>6, Names
<1> HIDE DEF d
<1>8. /\ \A s \in Sources : entry[s] # 0 => \E o \in Jobs : writesTo[o] = entry[s]
      /\ \A p \in Targets : entry[p] # 0 => ~\E o \in Jobs : writesTo[o] = entry[p]
      /\ \A p, q \in Targets : entry[p] # 0 /\ entry[p] = entry[q] => p = q
      /\ \A k \in Jobs : org[k].step = "copy" =>
            /\ \E o \in Jobs : writesTo[o] = org[k].from
            /\ ~\E o \in Jobs : writesTo[o] = org[k].to
            /\ \A p \in Targets : entry[p] = org[k].to => p = Dst(k)
  BY <1>1 DEF TwoDevices, IsWritten
<1>9. source' = source /\ \A k \in Jobs : entry'[source[k]] = entry[source[k]]
  BY <1>1, <1>6, SourceIsOne DEF device
<1>10. TwoDevices'
  <2> SUFFICES ASSUME ~linkable
               PROVE  /\ \A s \in Sources : entry'[s] # 0 => \E o \in Jobs : writesTo'[o] = entry'[s]
                      /\ \A p \in Targets : entry'[p] # 0 => ~\E o \in Jobs : writesTo'[o] = entry'[p]
                      /\ \A p, q \in Targets : entry'[p] # 0 /\ entry'[p] = entry'[q] => p = q
                      /\ \A k \in Jobs : org'[k].step = "copy" =>
                            /\ \E o \in Jobs : writesTo'[o] = org'[k].from
                            /\ ~\E o \in Jobs : writesTo'[o] = org'[k].to
                            /\ \A p \in Targets : entry'[p] = org'[k].to => p = Dst(k)
    BY DEF TwoDevices, IsWritten, device
  <2>1. \A s \in Sources : entry'[s] # 0 => \E o \in Jobs : writesTo'[o] = entry'[s]
    <3>1. ASSUME NEW s \in Sources, entry'[s] # 0 PROVE \E o \in Jobs : writesTo'[o] = entry'[s]
      <4>1. entry'[s] = entry[s]
        BY <1>7
      <4>2. \E o \in Jobs : writesTo[o] = entry[s]
        BY <1>8, <3>1, <4>1
      <4>3. QED
        BY <4>1, <4>2
    <3>2. QED
      BY <3>1
  <2>2. \A p \in Targets : entry'[p] # 0 => ~\E o \in Jobs : writesTo'[o] = entry'[p]
    <3>1. ASSUME NEW p \in Targets, entry'[p] # 0 PROVE ~\E o \in Jobs : writesTo[o] = entry'[p]
      <4>1. entry'[p] = entry[p] \/ entry'[p] = org'[j].to
        BY <1>7
      <4>2. entry[p] # 0 => ~\E o \in Jobs : writesTo[o] = entry[p]
        BY <1>8
      <4>3. QED
        BY <3>1, <4>1, <4>2
    <3>2. QED
      BY <3>1
  <2>3. \A p, q \in Targets : entry'[p] # 0 /\ entry'[p] = entry'[q] => p = q
    <3>1. ASSUME NEW p \in Targets, NEW q \in Targets, entry'[p] # 0, entry'[p] = entry'[q] PROVE p = q
      <4>1. \A r \in Targets : entry'[r] = entry[r] \/ (r = d /\ entry'[r] = org'[j].to)
        BY <1>7
      <4>2. \A r \in Targets : r # d => entry[r] # org'[j].to
        BY <1>7
      <4>3. entry[p] # 0 /\ entry[p] = entry[q] => p = q
        BY <1>8
      <4>4. QED
        BY <3>1, <4>1, <4>2, <4>3
    <3>2. QED
      BY <3>1
  <2>4. ASSUME NEW k \in Jobs, org'[k].step = "copy"
        PROVE  /\ \E o \in Jobs : writesTo'[o] = org'[k].from
               /\ ~\E o \in Jobs : writesTo'[o] = org'[k].to
               /\ \A p \in Targets : entry'[p] = org'[k].to => p = Dst(k)
    <3>1. CASE k # j
      <4>1. org'[k] = org[k] /\ org[k].step = "copy"
        BY <2>4, <3>1
      <4>2. QED
        <5>1. /\ \E o \in Jobs : writesTo[o] = org[k].from
              /\ ~\E o \in Jobs : writesTo[o] = org[k].to
              /\ \A p \in Targets : entry[p] = org[k].to => p = Dst(k)
          BY <1>8, <4>1
        <5>2. ASSUME NEW p \in Targets, entry'[p] = org[k].to PROVE p = Dst(k)
          BY <1>7, <4>1, <5>1, <5>2
        <5>3. QED
          BY <4>1, <5>1, <5>2
    <3>2. CASE k = j
      <4>1. ASSUME NEW p \in Targets, entry'[p] = org'[k].to PROVE p = Dst(k)
        BY <1>7, <3>2, <4>1 DEF d
      <4>2. QED
        BY <3>2, <4>1
    <3>3. QED
      BY <3>1, <3>2
  <2>5. QED
    BY <2>1, <2>2, <2>3, <2>4
<1>11. ASSUME NEW k \in Jobs PROVE InTurn(k)' /\ OwnParts(k)' /\ OwnName(k)'
  <2>1. InTurn(k) /\ OwnParts(k) /\ OwnName(k) /\ InTurn(j)
    BY <1>1 DEF PerJob
  <2>2. InTurn(k)'
    <3>1. CASE k = j
      BY <1>2, <2>1, <3>1 DEF InTurn, device
    <3>2. CASE k # j
      BY <1>2, <2>1, <3>2 DEF InTurn, device
    <3>3. QED
      BY <3>1, <3>2
  <2>3. OwnParts(k)'
    <3>1. org'[k].step # "off" => org[k].step # "off"
      OBVIOUS
    <3>2. QED
      BY <1>5, <2>1, <3>1 DEF OwnParts
  <2>4. OwnName(k)'
    <3>1. UnderWay(k)' => UnderWay(k)
      BY DEF UnderWay
    <3>2. QED
      BY <1>9, <2>1, <3>1 DEF OwnName
  <2>5. QED
    BY <2>2, <2>3, <2>4
<1>12. ASSUME NEW p \in Targets PROVE TargetHolds(p)'
  <2>1. TargetHolds(p)
    BY <1>1 DEF PerTarget
  <2>2. \A k \in Jobs : (Takes(k, p)' => Takes(k, p)) /\ (Fills(k, p)' => Fills(k, p) /\ k # j)
    BY DEF Takes, Fills
  <2>3. Claimed(p)' => Claimed(p)
    BY DEF Claimed
  <2> SUFFICES ASSUME p \notin overlapped PROVE TargetHolds(p)'
    BY DEF TargetHolds
  <2>4. CASE p = Dst(j)
    <3>1. Takes(j, p)
      BY <2>4 DEF Takes
    <3>2. ~Claimed(p) /\ \A k \in Jobs : Takes(k, p) => k = j
      BY <2>1, <3>1 DEF TargetHolds
    <3>3. \A k \in Jobs : Dst(k) = p /\ org'[k].step = "copy" => k = j
      BY <3>2 DEF Takes
    <3>4. \A k \in Jobs : ~Fills(k, p)'
      BY <2>2, <3>2 DEF Fills, Takes
    <3>5. QED
      BY <2>2, <2>3, <2>4, <3>2, <3>3, <3>4 DEF TargetHolds
  <2>5. CASE p # Dst(j)
    <3>1. entry'[p] = entry[p] /\ entry[p] # org'[j].to /\ entry[p] \in 0..Len(inodes)
      BY <1>1, <2>5, Names DEF MediaTypes
    <3>2. Good(p) => Good(p)'
      <4>1. Good(p) => inodes'[entry[p]] = inodes[entry[p]]
        BY <1>2, <3>1 DEF Good
      <4>2. \A k \in Finished : k \in Finished' /\ wrote'[k] = wrote[k] /\ writesTo'[k] = writesTo[k]
        BY DEF Finished
      <4>3. linkable' = linkable
        BY DEF device
      <4>4. QED
        BY <3>1, <4>1, <4>2, <4>3, GoodKept
    <3>3. ASSUME NEW k \in Jobs, Dst(k) = p, org'[k].step = "copy"
          PROVE  org[k].step = "copy" /\ org'[k].to = org[k].to /\ (CopyIsGood(k) => CopyIsGood(k)')
      <4>1. org'[k] = org[k] /\ org[k].to # org'[j].to
        BY <2>5, <3>3
      <4>2. org[k].from \in 1..Len(inodes) /\ org[k].to \in 1..Len(inodes)
        BY <1>1, <3>3, <4>1 DEF PerJob, InTurn
      <4>3. org[k].from # org'[j].to
        <5>1. org[k].step = "copy"
          BY <3>3, <4>1
        <5>2. \E o \in Jobs : writesTo[o] = org[k].from
          BY <1>8, <5>1
        <5>3. QED
          BY <5>2
      <4>4. inodes'[org[k].from] = inodes[org[k].from] /\ inodes'[org[k].to] = inodes[org[k].to]
        BY <4>1, <4>2, <4>3
      <4>5. QED
        BY <3>3, <4>1, <4>4, CopyKept
    <3>4. QED
      BY <2>1, <2>2, <2>3, <3>1, <3>2, <3>3, TargetKept
  <2>6. QED
    BY <2>4, <2>5
<1>13. QED
  BY <1>3, <1>4, <1>10, <1>11, <1>12 DEF MediaInv, PerJob, PerTarget

\* The target of a copy: a new file, or the one that is there by now, emptied.  It is no
\* file a download writes, and no other target names it.
LEMMA CreateFileHolds == ASSUME MediaInv, NEW j \in Jobs, CreateFile(j) PROVE MediaInv'
<1> DEFINE from == entry[source[j]]
           there == entry[Dst(j)]
           to == IF there = 0 THEN Len(inodes) + 1 ELSE there
           Data == Contents
<1>1. /\ org[j].step = "link" /\ ~linkable
      /\ UNCHANGED <<device, load, writesTo, wrote, row, overlapped>>
      /\ shared' = IF from \in shared THEN shared \cup {to} ELSE shared
      /\ IF from = 0 THEN OrganizerGoes(j, "over") /\ UNCHANGED <<inodes, entry>>
         ELSE /\ org' = [org EXCEPT ![j] = [org[j] EXCEPT !.step = "copy", !.from = from, !.to = to, !.pos = 0]]
              /\ inodes' = IF there = 0 THEN Append(inodes, <<>>) ELSE [inodes EXCEPT ![to] = <<>>]
              /\ entry' = [entry EXCEPT ![Dst(j)] = to]
  BY DEF CreateFile, Begins, Still, fileVars, marks
<1>2. /\ MediaTypes /\ TwoDevices /\ Dst(j) \in Targets /\ Dst(j) \in Paths /\ Dst(j) \notin Sources
      /\ source[j] \in Sources /\ source[j] \in Paths
  BY SourceIsOne, Names DEF MediaInv
<1>3. /\ inodes \in Seq(Data) /\ Len(inodes) \in Nat /\ entry \in [Paths -> 0..Len(inodes)]
      /\ shared \subseteq 1..Len(inodes) /\ from \in 0..Len(inodes) /\ there \in 0..Len(inodes)
  <2>1. inodes \in Seq(Data)
    BY <1>2 DEF MediaTypes
  <2>2. Len(inodes) \in Nat
    BY <2>1, LenProperties
  <2>3. QED
    BY <1>2, <2>1, <2>2 DEF MediaTypes
<1>4. CASE from = 0
  <2>1. shared' = shared /\ "over" \in Steps /\ OrganizerGoes(j, "over") /\ UNCHANGED <<inodes, entry>>
    BY <1>1, <1>3, <1>4 DEF Steps
  <2>2. /\ org' \in [Jobs -> OrgRecord] /\ \A k \in Jobs : k # j => org'[k] = org[k]
        /\ org'[j].step = "over" /\ org'[j].path = org[j].path
    BY <2>1, JobFacts, OrgGoes
  <2>3. ASSUME NEW p \in Targets PROVE TargetHolds(p)'
    BY <1>1, <2>1, <2>2, TargetNamed DEF device
  <2>4. PerTarget'
    BY <2>3 DEF PerTarget
  <2>5. entry' = entry /\ entry' \in [Paths -> 0..Len(inodes)] /\ UNCHANGED <<device, inodes, load, writesTo, wrote, shared, row>>
    BY <1>1, <1>3, <2>1
  <2> HIDE DEF from, to, there
  <2>6. QED
    BY <1>1, <2>2, <2>4, <2>5, NamesChange
<1>5. CASE from # 0
  <2> DEFINE r == [org[j] EXCEPT !.step = "copy", !.from = from, !.to = to, !.pos = 0]
  <2>1. to \in Nat /\ from \in Nat /\ from \in 1..Len(inodes)
    BY <1>3, <1>5
  <2>2. r \in OrgRecord /\ r.step = "copy" /\ r.from = from /\ r.to = to /\ r.pos = 0 /\ r.path = org[j].path
    <3> HIDE DEF from, to
    <3>1. QED
      BY <2>1, JobFacts DEF OrgRecord, Steps
  <2>3. org' = [org EXCEPT ![j] = r]
    BY <1>1, <1>5
  <2> HIDE DEF r
  <2>4. org' \in [Jobs -> OrgRecord] /\ org'[j] = r /\ \A k \in Jobs : k # j => org'[k] = org[k]
    BY <2>2, <2>3, JobFacts
  <2>5. \E o \in Jobs : writesTo[o] = from
    BY <1>1, <1>2, <1>5 DEF TwoDevices, IsWritten
  <2>6. /\ inodes' \in Seq(Data) /\ Len(inodes') >= Len(inodes) /\ Len(inodes') \in Nat
        /\ to \in 1..Len(inodes') /\ inodes'[to] = <<>>
        /\ \A i \in 1..Len(inodes) : i # to => inodes'[i] = inodes[i]
    <3>1. <<>> \in Data
      BY DEF Contents
    <3> HIDE DEF Data
    <3>2. CASE there = 0
      <4>1. inodes' = Append(inodes, <<>>) /\ to = Len(inodes) + 1
        BY <1>1, <1>5, <3>2
      <4> HIDE DEF to
      <4>2. QED
        BY <1>3, <3>1, <4>1, AppendProperties
    <3>3. CASE there # 0
      <4>1. inodes' = [inodes EXCEPT ![to] = <<>>] /\ to \in 1..Len(inodes)
        BY <1>1, <1>3, <1>5, <3>3
      <4> HIDE DEF to
      <4>2. QED
        BY <1>3, <3>1, <4>1, ExceptSeq, LenProperties
    <3>4. QED
      BY <3>2, <3>3
  <2>7. ~\E o \in Jobs : writesTo[o] = to
    <3>1. CASE there = 0
      <4>1. \A o \in Jobs : writesTo[o] \in 0..Len(inodes)
        BY <1>2 DEF MediaTypes
      <4>2. QED
        BY <1>3, <3>1, <4>1
    <3>2. CASE there # 0
      BY <1>1, <1>2, <3>2 DEF TwoDevices, IsWritten
    <3>3. QED
      BY <3>1, <3>2
  <2>8. \A q \in Targets : q # Dst(j) => entry[q] # to
    <3>1. ASSUME NEW q \in Targets, q # Dst(j) PROVE entry[q] # to
      <4>1. entry[q] \in 0..Len(inodes)
        BY <1>3, Names
      <4>2. there # 0 => entry[q] # there
        BY <1>1, <1>2, <3>1 DEF TwoDevices
      <4>3. QED
        BY <1>3, <4>1, <4>2
    <3>2. QED
      BY <3>1
  <2>9. \A k \in Jobs : org[k].step = "copy" => org[k].to # to \/ (there = to /\ Dst(k) = Dst(j))
    <3>1. ASSUME NEW k \in Jobs, org[k].step = "copy" PROVE org[k].to # to \/ (there = to /\ Dst(k) = Dst(j))
      <4>1. org[k].to \in 1..Len(inodes)
        BY <3>1, JobFacts DEF InTurn
      <4>2. there = org[k].to => Dst(j) = Dst(k)
        BY <1>1, <1>2, <3>1 DEF TwoDevices
      <4>3. QED
        BY <1>3, <4>1, <4>2
    <3>2. QED
      BY <3>1
  <2>10. /\ entry' \in [Paths -> 0..Len(inodes')] /\ entry'[Dst(j)] = to
         /\ \A p \in Paths : p # Dst(j) => entry'[p] = entry[p]
    <3>1. entry \in [Paths -> 0..Len(inodes')] /\ to \in 0..Len(inodes')
      <4>1. \A i \in 0..Len(inodes) : i \in 0..Len(inodes')
        BY <1>3, <2>6
      <4>2. QED
        BY <1>3, <2>6, <4>1
    <3>2. entry' = [entry EXCEPT ![Dst(j)] = to]
      BY <1>1, <1>5
    <3> HIDE DEF to
    <3>3. QED
      BY <1>2, <3>1, <3>2
  <2>11. /\ shared \subseteq shared' /\ (from \in shared => to \in shared')
         /\ shared' \subseteq 1..Len(inodes')
    <3>1. \A i \in 1..Len(inodes) : i \in 1..Len(inodes')
      BY <1>3, <2>6
    <3>2. shared' = IF from \in shared THEN shared \cup {to} ELSE shared
      BY <1>1
    <3> HIDE DEF from, to
    <3>3. QED
      BY <1>3, <2>6, <3>1, <3>2
  <2>12. CopyIsGood(j)'
    <3>1. CASE from \in shared
      <4>1. org'[j].to \in shared'
        BY <2>2, <2>4, <2>11, <3>1
      <4>2. QED
        BY <4>1 DEF CopyIsGood
    <3>2. CASE from \notin shared
      <4>1. from = writesTo[j] /\ inodes[from] = wrote[j]
        BY <1>1, <1>5, <3>2, FoundIsWhole
      <4>2. from # to
        BY <2>5, <2>7
      <4>3. inodes'[from] = wrote[j]
        BY <2>1, <2>6, <4>1, <4>2
      <4>4. wrote[j] \in Contents /\ wrote' = wrote
        BY <1>1, <1>2 DEF MediaTypes
      <4>5. Len(wrote[j]) \in Nat /\ Prefix(wrote[j], 0) = <<>>
        <5>1. wrote[j] \in Seq(Jobs \X (0..Parts))
          BY <4>4 DEF Contents
        <5> HIDE DEF from, to
        <5>2. QED
          BY <5>1, PrefixFacts
      <4>6. org'[j].from = from /\ org'[j].to = to /\ org'[j].pos = 0 /\ writesTo' = writesTo
        BY <1>1, <2>2, <2>4
      <4> HIDE DEF from, to
      <4>7. StartsWith(inodes'[from], wrote[j])
        BY <4>3, <4>5 DEF StartsWith
      <4>8. QED
        BY <2>6, <4>1, <4>4, <4>5, <4>6, <4>7 DEF CopyIsGood
    <3>3. QED
      BY <3>1, <3>2
  <2>13. \/ entry'[Dst(j)] = entry[Dst(j)]
         \/ entry'[Dst(j)] = to /\ \A k \in Jobs : org[k].step = "copy" => org[k].to # to
    BY <2>9, <2>10
  <2>14. org'[j].step = "copy" /\ org'[j].path = org[j].path /\ org'[j].to = to /\ org'[j].from = from
    BY <2>2, <2>4
  <2>15. \A k \in Jobs : Dst(k) # Dst(j) /\ Dst(k) \notin overlapped /\ org[k].step = "copy" => org[k].to # to
    BY <2>9
  <2>16. inodes' \in Seq(Contents)
    BY <2>6
  <2> HIDE DEF from, to, there, Data
  <2>17. org'[j].from \in 1..Len(inodes) /\ \E o \in Jobs : writesTo[o] = org'[j].from
    BY <2>1, <2>5, <2>14
  <2>18. UNCHANGED <<device, load, writesTo, wrote, row, overlapped>> /\ ~linkable /\ org[j].step \in {"link", "copy"}
    BY <1>1
  <2>19. /\ Len(inodes') >= Len(inodes) /\ to \in 1..Len(inodes')
         /\ \A i \in 1..Len(inodes) : i # to => inodes'[i] = inodes[i]
         /\ shared \subseteq shared' /\ shared' \subseteq 1..Len(inodes')
    BY <2>6, <2>11
  <2>20. /\ org' \in [Jobs -> OrgRecord] /\ \A k \in Jobs : k # j => org'[k] = org[k]
         /\ org'[j].step = "copy" /\ org'[j].path = org[j].path /\ org'[j].to = to
    BY <2>4, <2>14
  <2>21. /\ entry' \in [Paths -> 0..Len(inodes')] /\ \A p \in Paths : p # Dst(j) => entry'[p] = entry[p]
         /\ Dst(j) \notin overlapped => entry'[Dst(j)] = to /\ CopyIsGood(j)'
    BY <2>10, <2>12
  <2>22. QED
    BY <2>7, <2>8, <2>13, <2>15, <2>16, <2>17, <2>18, <2>19, <2>20, <2>21, TargetWritten
<1>6. QED
  BY <1>4, <1>5

\* A good copy of all that the source has is whole.
LEMMA CopyIsWhole ==
    ASSUME MediaInv, NEW j \in Jobs, org[j].step = "copy", CopyIsGood(j), org[j].to \notin shared,
           ~(org[j].pos + 1 <= Len(inodes[org[j].from]))
    PROVE  inodes[org[j].to] = wrote[j]
<1> DEFINE whole == wrote[j]
           from == org[j].from
<1>1. /\ org[j].pos <= Len(whole) /\ inodes[org[j].to] = Prefix(whole, org[j].pos)
      /\ Len(inodes[from]) >= Len(whole)
  BY DEF CopyIsGood, StartsWith
<1>2. Len(inodes[from]) \in Nat /\ org[j].pos \in Nat
  <2>1. from \in 1..Len(inodes) /\ inodes \in Seq(Contents) /\ org[j].pos \in Nat
    BY JobFacts DEF InTurn, MediaTypes, OrgRecord
  <2> HIDE DEF from
  <2>2. inodes[from] \in Contents
    BY <2>1, ElementOfSeq
  <2>3. QED
    BY <2>1, <2>2, LenProperties DEF Contents
<1>3. Len(whole) \in Nat /\ Prefix(whole, Len(whole)) = whole
  <2>1. whole \in Seq(Jobs \X (0..Parts))
    BY JobFacts DEF MediaTypes, Contents
  <2> HIDE DEF whole
  <2>2. QED
    BY <2>1, PrefixFacts
<1>4. org[j].pos = Len(whole)
  <2>1. ~(org[j].pos + 1 <= Len(inodes[from]))
    OBVIOUS
  <2> HIDE DEF whole, from
  <2>2. QED
    BY <1>1, <1>2, <1>3, <2>1
<1>5. QED
  BY <1>1, <1>3, <1>4

\* A part of the source is written at its place in the target; at the end of the source,
\* which was whole if nobody else has touched it, so is the target.
LEMMA CopyHolds == ASSUME MediaInv, NEW j \in Jobs, Copy(j) PROVE MediaInv'
<1> DEFINE Data == Contents
           from == org[j].from
           to == org[j].to
           n == org[j].pos + 1
           put == PutPart(inodes[to], n, inodes[from][n])
<1>1. /\ org[j].step = "copy" /\ UNCHANGED <<device, load, writesTo, wrote, row, overlapped, entry>>
      /\ IF n <= Len(inodes[from])
         THEN /\ org' = [org EXCEPT ![j] = [org[j] EXCEPT !.pos = n]]
              /\ inodes' = [inodes EXCEPT ![to] = put]
              /\ shared' = IF from \in shared THEN shared \cup {to} ELSE shared
         ELSE /\ OrganizerGoes(j, IF entry[source[j]] = 0 THEN "over" ELSE "unlink")
              /\ UNCHANGED <<inodes, shared>>
  BY DEF Copy, Begins, Still, marks
<1>2. /\ MediaTypes /\ TwoDevices /\ InTurn(j) /\ OwnParts(j) /\ Parts \in Nat
      /\ Dst(j) \in Targets /\ Dst(j) \in Paths /\ Dst(j) \notin Sources
  BY JobFacts, Names DEF MediaInv
<1>3. /\ ~linkable /\ from \in 1..Len(inodes) /\ to \in 1..Len(inodes)
      /\ org[j].pos \in Nat /\ n \in Nat /\ n >= 1
  <2>1. org[j].pos \in Nat
    BY JobFacts DEF OrgRecord
  <2>2. QED
    BY <1>1, <1>2, <2>1 DEF InTurn
<1>4. /\ inodes \in Seq(Data) /\ Len(inodes) \in Nat /\ inodes[from] \in Data /\ inodes[to] \in Data
      /\ entry \in [Paths -> 0..Len(inodes)] /\ shared \subseteq 1..Len(inodes)
  <2>1. inodes \in Seq(Data)
    BY <1>2 DEF MediaTypes
  <2>2. inodes[from] \in Data /\ inodes[to] \in Data /\ Len(inodes) \in Nat
    <3> HIDE DEF Data, from, to
    <3>1. QED
      BY <1>3, <2>1, ElementOfSeq, LenProperties
  <2>3. QED
    BY <1>2, <2>1, <2>2 DEF MediaTypes
<1>5. /\ \E o \in Jobs : writesTo[o] = from
      /\ ~\E o \in Jobs : writesTo[o] = to
      /\ \A p \in Targets : entry[p] = to => p = Dst(j)
  BY <1>1, <1>2, <1>3 DEF TwoDevices, IsWritten
<1>6. from # to
  BY <1>5
\* what the organizer knows if it has its target for itself
<1>7. ASSUME Dst(j) \notin overlapped
      PROVE  entry[Dst(j)] = to /\ CopyIsGood(j)
  <2>1. TargetHolds(Dst(j))
    BY <1>2, JobFacts
  <2>2. QED
    BY <1>1, <1>7, <2>1 DEF TargetHolds
<1>8. ASSUME to \notin shared, from \notin shared, CopyIsGood(j)
      PROVE  /\ org[j].pos <= Len(wrote[j]) /\ inodes[to] = Prefix(wrote[j], org[j].pos)
             /\ from = writesTo[j] /\ inodes[from] = wrote[j]
  <2>1. from = writesTo[j] /\ org[j].pos <= Len(wrote[j]) /\ inodes[to] = Prefix(wrote[j], org[j].pos)
    BY <1>8 DEF CopyIsGood
  <2>2. inodes[from] = wrote[j]
    BY <1>1, <1>2, <1>3, <1>8, <2>1 DEF OwnParts
  <2>3. QED
    BY <2>1, <2>2
<1> DEFINE whole == wrote[j]
<1>8a. /\ whole \in Seq(Jobs \X (0..Parts)) /\ Len(whole) \in Nat /\ Prefix(whole, Len(whole)) = whole
       /\ \A l \in 0..Len(whole) : Len(Prefix(whole, l)) = l
       /\ \A l \in 0..(Len(whole) - 1) : Append(Prefix(whole, l), whole[l + 1]) = Prefix(whole, l + 1)
  <2>1. whole \in Seq(Jobs \X (0..Parts))
    BY <1>2 DEF MediaTypes, Contents
  <2> HIDE DEF whole
  <2>2. QED
    BY <2>1, PrefixFacts
<1>9. CASE n <= Len(inodes[from])
  <2> DEFINE r == [org[j] EXCEPT !.pos = n]
  <2>1. r \in OrgRecord /\ r.step = "copy" /\ r.from = from /\ r.to = to /\ r.pos = n /\ r.path = org[j].path
    <3> HIDE DEF n
    <3>1. QED
      BY <1>1, <1>3, JobFacts DEF OrgRecord
  <2>2. org' = [org EXCEPT ![j] = r]
    BY <1>1, <1>9
  <2> HIDE DEF r
  <2>3. org' \in [Jobs -> OrgRecord] /\ org'[j] = r /\ \A k \in Jobs : k # j => org'[k] = org[k]
    BY <2>1, <2>2, JobFacts
  <2>4. inodes[from][n] \in Jobs \X (0..Parts)
    BY <1>3, <1>4, <1>9, ElementOfSeq DEF Contents
  <2>5. put \in Data
    <3>1. CASE n <= Len(inodes[to])
      <4>1. n \in 1..Len(inodes[to])
        BY <1>3, <1>4, <3>1
      <4>2. put = [inodes[to] EXCEPT ![n] = inodes[from][n]]
        BY <3>1 DEF PutPart
      <4>3. QED
        <5> HIDE DEF put, n, from, to
        <5>1. QED
          BY <1>4, <2>4, <4>1, <4>2, ExceptSeq DEF Contents
    <3>2. CASE ~(n <= Len(inodes[to]))
      <4>1. put = Append(inodes[to], inodes[from][n])
        BY <3>2 DEF PutPart
      <4>2. QED
        <5> HIDE DEF put, n, from, to
        <5>1. QED
          BY <1>4, <2>4, <4>1, AppendProperties DEF Contents
    <3>3. QED
      BY <3>1, <3>2
  <2>6. /\ inodes' \in Seq(Data) /\ Len(inodes') = Len(inodes) /\ inodes'[to] = put
        /\ \A i \in 1..Len(inodes) : i # to => inodes'[i] = inodes[i]
    <3>1. inodes' = [inodes EXCEPT ![to] = put]
      BY <1>1, <1>9
    <3> HIDE DEF put, to, Data
    <3>2. QED
      BY <1>3, <1>4, <2>5, <3>1, ExceptSeq
  <2>7. shared \subseteq shared' /\ (from \in shared => to \in shared') /\ shared' \subseteq 1..Len(inodes')
    <3>1. shared' = IF from \in shared THEN shared \cup {to} ELSE shared
      BY <1>1, <1>9
    <3> HIDE DEF from, to
    <3>2. QED
      BY <1>3, <1>4, <2>6, <3>1
  <2>8. ASSUME CopyIsGood(j) PROVE CopyIsGood(j)'
    <3>1. CASE to \in shared'
      BY <2>1, <2>3, <3>1 DEF CopyIsGood
    <3>2. CASE to \notin shared'
      <4>1. /\ org[j].pos <= Len(whole) /\ inodes[to] = Prefix(whole, org[j].pos)
            /\ from = writesTo[j] /\ inodes[from] = whole
        BY <1>8, <2>7, <2>8, <3>2
      <4>2. org[j].pos \in 0..(Len(whole) - 1) /\ org[j].pos \in 0..Len(whole) /\ n = org[j].pos + 1
        BY <1>3, <1>9, <1>8a, <4>1
      <4>3. Len(inodes[to]) = org[j].pos /\ n > Len(inodes[to])
        <5> HIDE DEF from, to, whole
        <5>1. Len(inodes[to]) = org[j].pos
          BY <1>8a, <4>1, <4>2
        <5>2. QED
          BY <1>3, <4>2, <5>1
      <4>4. put = Append(Prefix(whole, org[j].pos), whole[n])
        BY <1>3, <4>1, <4>3 DEF PutPart
      <4>5. put = Prefix(whole, n)
        BY <1>8a, <4>2, <4>4
      <4>6. inodes'[from] = inodes[from]
        BY <1>3, <1>6, <2>6
      <4>7. org'[j].pos = n /\ org'[j].to = to /\ org'[j].from = from /\ writesTo' = writesTo /\ wrote'[j] = whole
        BY <1>1, <2>1, <2>3
      <4>8. n <= Len(whole) /\ StartsWith(inodes'[from], whole)
        BY <1>9, <1>8a, <4>1, <4>6 DEF StartsWith
      <4> HIDE DEF from, to, n, put, whole
      <4>9. QED
        BY <2>6, <4>1, <4>5, <4>7, <4>8 DEF CopyIsGood
    <3>3. QED
      BY <3>1, <3>2
  <2>9. Dst(j) \notin overlapped => entry'[Dst(j)] = to /\ CopyIsGood(j)'
    BY <1>1, <1>7, <2>8
  <2>10. \A k \in Jobs : Dst(k) # Dst(j) /\ Dst(k) \notin overlapped /\ org[k].step = "copy" => org[k].to # to
    <3>1. ASSUME NEW k \in Jobs, Dst(k) # Dst(j), Dst(k) \notin overlapped, org[k].step = "copy"
          PROVE  org[k].to # to
      <4>1. TargetHolds(Dst(k)) /\ Dst(k) \in Targets
        BY Names, JobFacts
      <4>2. entry[Dst(k)] = org[k].to
        BY <3>1, <4>1 DEF TargetHolds
      <4>3. QED
        BY <1>5, <3>1, <4>1, <4>2
    <3>2. QED
      BY <3>1
  <2>11. \A q \in Targets : q # Dst(j) => entry[q] # to
    BY <1>5
  <2>12. /\ inodes' \in Seq(Contents) /\ Len(inodes') >= Len(inodes)
         /\ to \in 1..Len(inodes') /\ entry' \in [Paths -> 0..Len(inodes')]
    BY <1>1, <1>3, <1>4, <2>6
  <2>13. org'[j].step = "copy" /\ org'[j].path = org[j].path /\ org'[j].to = to /\ org'[j].from = from
    BY <2>1, <2>3
  <2> HIDE DEF from, to, n, put, Data, whole
  <2>14. org'[j].from \in 1..Len(inodes) /\ \E o \in Jobs : writesTo[o] = org'[j].from
    BY <1>3, <1>5, <2>13
  <2>15. UNCHANGED <<device, load, writesTo, wrote, row, overlapped>> /\ ~linkable /\ org[j].step \in {"link", "copy"}
    BY <1>1, <1>3
  <2>16. ~\E o \in Jobs : writesTo[o] = to
    BY <1>5
  <2>17. /\ Len(inodes') >= Len(inodes) /\ to \in 1..Len(inodes')
         /\ \A i \in 1..Len(inodes) : i # to => inodes'[i] = inodes[i]
         /\ shared \subseteq shared' /\ shared' \subseteq 1..Len(inodes')
    BY <2>6, <2>7, <2>12
  <2>18. /\ org' \in [Jobs -> OrgRecord] /\ \A k \in Jobs : k # j => org'[k] = org[k]
         /\ org'[j].step = "copy" /\ org'[j].path = org[j].path /\ org'[j].to = to
    BY <2>3, <2>13
  <2>19. /\ entry' \in [Paths -> 0..Len(inodes')] /\ \A p \in Paths : p # Dst(j) => entry'[p] = entry[p]
         /\ \/ entry'[Dst(j)] = entry[Dst(j)]
            \/ entry'[Dst(j)] = to /\ \A k \in Jobs : org[k].step = "copy" => org[k].to # to
    BY <1>1, <2>12
  <2>20. QED
    BY <2>9, <2>10, <2>11, <2>12, <2>14, <2>15, <2>16, <2>17, <2>18, <2>19, TargetWritten
<1>10. CASE ~(n <= Len(inodes[from]))
  <2> DEFINE step == IF entry[source[j]] = 0 THEN "over" ELSE "unlink"
  <2>1. OrganizerGoes(j, step) /\ step \in Steps /\ UNCHANGED <<device, load, writesTo, wrote, row, overlapped, entry, inodes, shared>>
    BY <1>1, <1>10 DEF Steps
  <2>2. /\ org' \in [Jobs -> OrgRecord] /\ \A k \in Jobs : k # j => org'[k] = org[k]
        /\ org'[j].step = step /\ org'[j].path = org[j].path
    <3> HIDE DEF step
    <3>1. QED
      BY <2>1, JobFacts, OrgGoes
  <2>3. InTurn(j)'
    BY <1>1, <1>2, <2>1, <2>2 DEF InTurn, device
  <2>4. ASSUME NEW p \in Targets PROVE TargetHolds(p)'
    <3>1. CASE p # Dst(j)
      BY <2>1, <2>2, <3>1, TargetNamed DEF device
    <3>2. CASE p = Dst(j)
      <4> SUFFICES ASSUME p \notin overlapped PROVE TargetHolds(p)'
        BY <2>1 DEF TargetHolds
      <4>1. TargetHolds(p) /\ Takes(j, p)
        BY <1>1, <3>2, JobFacts DEF Takes
      <4>2. \A k \in Jobs : Takes(k, p) => k = j
        BY <4>1 DEF TargetHolds
      <4>3. \A k \in Jobs : ~Takes(k, p)' /\ ~Fills(k, p)'
        BY <2>2, <4>2 DEF Takes, Fills
      <4>4. Good(p)
        <5>1. entry[p] = to /\ CopyIsGood(j) /\ to # 0
          BY <1>3, <1>7, <3>2
        <5>2. CASE to \in shared
          BY <5>1, <5>2 DEF Good
        <5>3. CASE to \notin shared
          <6>1. inodes[entry[p]] = wrote[j]
            BY <1>1, <1>10, <5>1, <5>3, CopyIsWhole
          <6>2. j \in Finished /\ InPlace(j)
            BY <1>1, <1>2, <1>3, <3>2, <5>1, <6>1 DEF Finished, InPlace, InTurn
          <6>3. QED
            BY <3>2, <5>1, <6>2 DEF Good
        <5>4. QED
          BY <5>2, <5>3
      <4>5. Good(p)'
        <5>1. \A k \in Finished : k \in Finished'
          BY <1>1, <2>2 DEF Finished
        <5>2. QED
          BY <2>1, <4>4, <5>1, GoodKept DEF device
      <4>6. \A k \in Jobs : Dst(k) = p => org'[k].step # "copy"
        BY <2>2, <4>2 DEF Takes
      <4>7. QED
        BY <4>3, <4>5, <4>6 DEF TargetHolds
    <3>3. QED
      BY <3>1, <3>2
  <2>5. PerTarget'
    BY <2>4 DEF PerTarget
  <2>6. /\ UNCHANGED <<device, fileVars, writesTo, wrote, shared>> /\ load' = load /\ row' = row
    BY <2>1 DEF fileVars
  <2>7. UnderWay(j)' => UnderWay(j)
    BY <1>1, <2>6 DEF UnderWay
  <2>8. org'[j].step \in {"over", "unlink"} /\ org[j].step = "copy"
    BY <1>1, <2>2
  <2> HIDE DEF from, to, n, put, Data, whole, step
  <2>9. /\ load' \in [Jobs -> 0..Ended]
        /\ row' \in [Movies -> [status : {"queued", "available", "deleted"}, path : Targets \cup {None}]]
    BY <2>6, JobFacts
  <2>10. /\ load'[j] \in 1..(Parts + 1) => load'[j] = load[j]
         /\ \A k \in Jobs : k # j => load'[k] = load[k] /\ org'[k] = org[k]
    BY <2>2, <2>6
  <2>11. QED
    BY <2>2, <2>3, <2>5, <2>6, <2>7, <2>8, <2>9, <2>10, QuietKeeps
<1>11. QED
  BY <1>9, <1>10

\* A download opens its file: a new one, or the one of that name, which it then shares.
LEMMA OpenHolds == ASSUME MediaInv, NEW j \in Jobs, Open(j) PROVE MediaInv'
<1> DEFINE Data == Contents
           s == source[j]
           i == writesTo'[j]
           flagged == \/ entry[s] # 0
                      \/ \E k \in Jobs \ {j} : source[k] = source[j] /\ UnderWay(k)
<1>1. /\ load[j] = 0 /\ j \notin Torrents /\ load' = [load EXCEPT ![j] = 1]
      /\ UNCHANGED <<device, org, row, wrote, overlapped>>
      /\ IF entry[s] = 0
         THEN /\ inodes' = Append(inodes, <<>>)
              /\ entry' = [entry EXCEPT ![s] = Len(inodes')]
         ELSE UNCHANGED <<inodes, entry>>
      /\ writesTo' = [writesTo EXCEPT ![j] = entry'[s]]
      /\ shared' = IF flagged THEN shared \cup {i} ELSE shared
  BY DEF Open, fileVars, marks
<1>2. /\ MediaTypes /\ PerJob /\ SoleWriter /\ TwoDevices /\ PerTarget /\ InTurn(j)
      /\ s \in Sources /\ s \in Paths /\ s \notin Targets
  BY SourceIsOne, JobFacts DEF MediaInv
<1>3. /\ inodes \in Seq(Data) /\ Len(inodes) \in Nat /\ entry \in [Paths -> 0..Len(inodes)]
      /\ writesTo \in [Jobs -> 0..Len(inodes)] /\ shared \subseteq 1..Len(inodes)
  <2>1. inodes \in Seq(Data)
    BY <1>2 DEF MediaTypes
  <2>2. Len(inodes) \in Nat
    BY <2>1, LenProperties
  <2>3. QED
    BY <1>2, <2>2, <2>1 DEF MediaTypes
<1>4. /\ 1 \in 1..(Parts + 1) /\ 1 \in 0..Ended /\ 0 # Ended /\ 0 \notin 1..(Parts + 1) /\ Parts \in Nat
  BY Names
<1>5. org[j].step = "off" /\ writesTo[j] = 0
  BY <1>1, <1>2, <1>4 DEF InTurn
<1>6. /\ inodes' \in Seq(Data) /\ Len(inodes') \in Nat /\ Len(inodes') >= Len(inodes)
      /\ \A n \in 1..Len(inodes) : inodes'[n] = inodes[n]
      /\ entry' \in [Paths -> 0..Len(inodes')] /\ entry'[s] \in 1..Len(inodes')
      /\ \A p \in Paths : p # s => entry'[p] = entry[p]
      /\ entry[s] = 0 => entry'[s] = Len(inodes) + 1 /\ inodes'[entry'[s]] = <<>>
      /\ entry[s] # 0 => entry'[s] = entry[s]
  <2>1. <<>> \in Data
    BY DEF Contents
  <2> HIDE DEF Data, s
  <2>2. CASE entry[s] = 0
    <3>1. inodes' = Append(inodes, <<>>) /\ entry' = [entry EXCEPT ![s] = Len(inodes')]
      BY <1>1, <2>2
    <3>2. /\ inodes' \in Seq(Data) /\ Len(inodes') = Len(inodes) + 1 /\ inodes'[Len(inodes) + 1] = <<>>
          /\ \A n \in 1..Len(inodes) : inodes'[n] = inodes[n]
      BY <1>3, <2>1, <3>1, AppendProperties
    <3>3. entry \in [Paths -> 0..Len(inodes')]
      BY <1>3, <3>2
    <3>4. QED
      BY <1>2, <1>3, <2>2, <3>1, <3>2, <3>3
  <2>3. CASE entry[s] # 0
    <3>1. inodes' = inodes /\ entry' = entry /\ entry[s] \in 0..Len(inodes)
      BY <1>1, <1>2, <1>3, <2>3
    <3>2. QED
      BY <1>3, <2>3, <3>1
  <2>4. QED
    BY <2>2, <2>3
<1>7. /\ i = entry'[s] /\ \A k \in Jobs : k # j => writesTo'[k] = writesTo[k]
      /\ writesTo' \in [Jobs -> 0..Len(inodes')]
  <2>1. writesTo \in [Jobs -> 0..Len(inodes')] /\ entry'[s] \in 0..Len(inodes')
    BY <1>3, <1>6
  <2> HIDE DEF s
  <2>2. writesTo' = [writesTo EXCEPT ![j] = entry'[s]]
    BY <1>1
  <2>3. QED
    BY <2>1, <2>2
<1>8. /\ load' \in [Jobs -> 0..Ended] /\ load'[j] = 1 /\ \A k \in Jobs : k # j => load'[k] = load[k]
  BY <1>1, <1>4, JobFacts
<1>9. /\ source' = source /\ linkable' = linkable /\ org' = org /\ row' = row /\ wrote' = wrote
      /\ overlapped' = overlapped
  BY <1>1 DEF device
<1>10. /\ shared \subseteq shared' /\ shared' \subseteq 1..Len(inodes') /\ (flagged => i \in shared')
  <2>1. \A n \in 1..Len(inodes) : n \in 1..Len(inodes')
    BY <1>3, <1>6
  <2>2. i \in 1..Len(inodes')
    BY <1>6, <1>7
  <2>3. shared' = IF flagged THEN shared \cup {i} ELSE shared
    BY <1>1
  <2> HIDE DEF flagged, i
  <2>4. QED
    BY <1>3, <2>1, <2>2, <2>3
<1>11. \A p \in Targets : entry'[p] = entry[p] /\ entry[p] \in 0..Len(inodes)
  BY <1>2, <1>3, <1>6, Names
<1>12. \A k \in Jobs : k # j => writesTo[k] \in 0..Len(inodes)
  BY <1>3
<1> HIDE DEF flagged, i
<1>13. MediaTypes'
  BY <1>2, <1>6, <1>7, <1>8, <1>9, <1>10 DEF MediaTypes
<1>14. SoleWriter'
  <2>1. ASSUME NEW k \in Jobs, k # j, writesTo[k] = i PROVE i \in shared'
    <3>1. CASE entry[s] = 0
      BY <1>3, <1>6, <1>7, <1>12, <2>1, <3>1
    <3>2. CASE entry[s] # 0
      BY <1>10, <3>2 DEF flagged
    <3>3. QED
      BY <3>1, <3>2
  <2>2. ASSUME NEW k \in Jobs, NEW o \in Jobs, k # o, writesTo'[k] = writesTo'[o], writesTo'[k] # 0
        PROVE  writesTo'[k] \in shared'
    <3>1. CASE k # j /\ o # j
      BY <1>2, <1>7, <1>10, <2>2, <3>1 DEF SoleWriter
    <3>2. CASE k = j
      <4>1. writesTo[o] = i /\ writesTo'[k] = i
        BY <1>7, <2>2, <3>2 DEF i
      <4>2. QED
        BY <2>1, <2>2, <3>2, <4>1
    <3>3. CASE o = j
      <4>1. writesTo[k] = i /\ writesTo'[k] = i
        BY <1>7, <2>2, <3>3 DEF i
      <4>2. QED
        BY <2>1, <2>2, <3>3, <4>1
    <3>4. QED
      BY <3>1, <3>2, <3>3
  <2>3. QED
    BY <2>2 DEF SoleWriter
\* the inode is none of those of the library
<1>15. ASSUME ~linkable
       PROVE  /\ \A p \in Targets : entry[p] # 0 => entry[p] # i
              /\ \A k \in Jobs : org[k].step = "copy" => org[k].to # i /\ org[k].to # 0 /\ org[k].from # 0
  <2>1. CASE entry[s] = 0
    <3>1. i = Len(inodes) + 1
      BY <1>6, <1>7, <2>1
    <3>2. \A k \in Jobs : org[k].step = "copy" => org[k].to \in 1..Len(inodes) /\ org[k].from \in 1..Len(inodes)
      BY <1>2 DEF PerJob, InTurn
    <3>3. QED
      BY <1>3, <1>11, <3>1, <3>2
  <2>2. CASE entry[s] # 0
    <3>1. i = entry[s] /\ \E o \in Jobs : writesTo[o] = i
      BY <1>2, <1>6, <1>7, <1>15, <2>2 DEF TwoDevices, IsWritten
    <3>2. \A k \in Jobs : org[k].step = "copy" => org[k].to \in 1..Len(inodes) /\ org[k].from \in 1..Len(inodes)
      BY <1>2 DEF PerJob, InTurn
    <3>3. QED
      BY <1>2, <1>3, <1>15, <3>1, <3>2 DEF TwoDevices, IsWritten
  <2>3. QED
    BY <2>1, <2>2
<1>16. TwoDevices'
  <2> SUFFICES ASSUME ~linkable
               PROVE  /\ \A q \in Sources : entry'[q] # 0 => \E o \in Jobs : writesTo'[o] = entry'[q]
                      /\ \A p \in Targets : entry'[p] # 0 => ~\E o \in Jobs : writesTo'[o] = entry'[p]
                      /\ \A p, q \in Targets : entry'[p] # 0 /\ entry'[p] = entry'[q] => p = q
                      /\ \A k \in Jobs : org'[k].step = "copy" =>
                            /\ \E o \in Jobs : writesTo'[o] = org'[k].from
                            /\ ~\E o \in Jobs : writesTo'[o] = org'[k].to
                            /\ \A p \in Targets : entry'[p] = org'[k].to => p = Dst(k)
    BY <1>9 DEF TwoDevices, IsWritten
  <2>1. \A n : n # 0 /\ (\E o \in Jobs : writesTo[o] = n) => \E o \in Jobs : writesTo'[o] = n
    BY <1>5, <1>7
  <2>2. \A n : (\E o \in Jobs : writesTo'[o] = n) => n = i \/ \E o \in Jobs : writesTo[o] = n
    BY <1>7 DEF i
  <2>3. ASSUME NEW q \in Sources, entry'[q] # 0 PROVE \E o \in Jobs : writesTo'[o] = entry'[q]
    <3>1. CASE q = s
      BY <1>7, <3>1 DEF i
    <3>2. CASE q # s
      <4>1. entry'[q] = entry[q]
        BY <1>6, <3>2, Names
      <4>2. \E o \in Jobs : writesTo[o] = entry[q]
        BY <1>2, <2>3, <4>1 DEF TwoDevices, IsWritten
      <4>3. QED
        BY <2>1, <2>3, <4>1, <4>2
    <3>3. QED
      BY <3>1, <3>2
  <2>4. ASSUME NEW p \in Targets, entry'[p] # 0 PROVE ~\E o \in Jobs : writesTo'[o] = entry'[p]
    <3>1. entry'[p] = entry[p] /\ entry[p] # 0 /\ entry[p] # i
      BY <1>11, <1>15, <2>4
    <3>2. ~\E o \in Jobs : writesTo[o] = entry[p]
      BY <1>2, <3>1 DEF TwoDevices, IsWritten
    <3>3. QED
      BY <2>2, <3>1, <3>2
  <2>5. \A p, q \in Targets : entry'[p] # 0 /\ entry'[p] = entry'[q] => p = q
    BY <1>2, <1>11 DEF TwoDevices
  <2>6. ASSUME NEW k \in Jobs, org'[k].step = "copy"
        PROVE  /\ \E o \in Jobs : writesTo'[o] = org'[k].from
               /\ ~\E o \in Jobs : writesTo'[o] = org'[k].to
               /\ \A p \in Targets : entry'[p] = org'[k].to => p = Dst(k)
    <3>1. org'[k] = org[k] /\ org[k].step = "copy" /\ org[k].to # i /\ org[k].from # 0
      BY <1>9, <1>15, <2>6
    <3>2. /\ \E o \in Jobs : writesTo[o] = org[k].from
          /\ ~\E o \in Jobs : writesTo[o] = org[k].to
          /\ \A p \in Targets : entry[p] = org[k].to => p = Dst(k)
      BY <1>2, <3>1 DEF TwoDevices, IsWritten
    <3>3. \A p \in Targets : entry'[p] = org[k].to => p = Dst(k)
      BY <1>11, <3>2
    <3>4. /\ \E o \in Jobs : writesTo'[o] = org[k].from
          /\ ~\E o \in Jobs : writesTo'[o] = org[k].to
      BY <2>1, <2>2, <3>1, <3>2
    <3>5. QED
      BY <3>1, <3>3, <3>4
  <2>7. QED
    BY <2>3, <2>4, <2>5, <2>6
<1>17. ASSUME NEW k \in Jobs PROVE InTurn(k)' /\ OwnParts(k)' /\ OwnName(k)'
  <2>1. InTurn(k) /\ OwnParts(k) /\ OwnName(k)
    BY <1>2 DEF PerJob
  <2>3. CASE k = j
    <3>1. i # 0 /\ writesTo'[j] = i /\ entry'[s] = i
      BY <1>6, <1>7 DEF i
    <3>2. InTurn(j)'
      BY <1>1, <1>4, <1>5, <1>8, <1>9, <3>1 DEF InTurn
    <3>3. OwnParts(j)'
      <4>1. i \notin shared' => inodes'[i] = <<>>
        BY <1>6, <1>7, <1>10 DEF flagged
      <4>2. wrote[j] = <<>>
        BY <1>1, <1>2 DEF InTurn
      <4>3. QED
        BY <1>9, <3>1, <4>1, <4>2 DEF OwnParts
    <3>4. OwnName(j)'
      BY <1>9, <3>1 DEF OwnName
    <3>5. QED
      BY <2>3, <3>2, <3>3, <3>4
  <2>4. CASE k # j
    <3>1. load'[k] = load[k] /\ writesTo'[k] = writesTo[k] /\ org'[k] = org[k]
      BY <1>7, <1>8, <1>9, <2>4
    <3>2. InTurn(k)'
      BY <1>3, <1>6, <1>9, <2>1, <3>1 DEF InTurn
    <3>3. OwnParts(k)'
      <4>1. writesTo[k] # 0 => writesTo[k] \in 1..Len(inodes)
        BY <1>3
      <4>2. writesTo[k] # 0 => inodes'[writesTo[k]] = inodes[writesTo[k]]
        BY <1>6, <4>1
      <4>3. QED
        BY <1>9, <1>10, <2>1, <3>1, <4>2 DEF OwnParts
    <3>4. source[k] \in Paths /\ (source[k] # s => entry'[source[k]] = entry[source[k]])
      BY <1>2, <1>6, SourceIsOne
    <3>5. UnderWay(k)' <=> UnderWay(k)
      BY <3>1 DEF UnderWay
    <3>6. OwnName(k)'
      <4>1. ASSUME source[k] = s, UnderWay(k) PROVE entry'[source[k]] \in shared'
        <5>1. flagged
          BY <2>4, <4>1 DEF flagged
        <5>2. QED
          BY <1>7, <1>10, <4>1, <5>1
      <4>2. QED
        BY <1>9, <1>10, <2>1, <3>1, <3>4, <3>5, <4>1 DEF OwnName
    <3>7. QED
      BY <3>2, <3>3, <3>6
  <2>5. QED
    BY <2>3, <2>4
<1>18. ASSUME NEW p \in Targets PROVE TargetHolds(p)'
  <2>1. TargetHolds(p)
    BY <1>2 DEF PerTarget
  <2>2. entry'[p] = entry[p] /\ entry[p] \in 0..Len(inodes)
    BY <1>11
  <2>3. Claimed(p)' => Claimed(p)
    BY <1>9 DEF Claimed
  <2>4. \A k \in Jobs : (Takes(k, p)' => Takes(k, p)) /\ (Fills(k, p)' => Fills(k, p))
    BY <1>9 DEF Takes, Fills
  <2>5. Good(p) => Good(p)'
    <3>1. Good(p) => inodes'[entry[p]] = inodes[entry[p]]
      <4>1. entry[p] # 0 => entry[p] \in 1..Len(inodes)
        BY <1>3, <2>2
      <4>2. QED
        BY <1>6, <4>1 DEF Good
    <3>2. \A k \in Finished : k \in Finished' /\ wrote'[k] = wrote[k] /\ writesTo'[k] = writesTo[k]
      BY <1>5, <1>7, <1>9 DEF Finished
    <3>3. QED
      BY <1>9, <1>10, <2>2, <3>1, <3>2, GoodKept
  <2>6. ASSUME NEW k \in Jobs, org'[k].step = "copy", CopyIsGood(k) PROVE CopyIsGood(k)'
    <3>1. k # j /\ org[k].step = "copy" /\ org'[k] = org[k]
      BY <1>5, <1>9, <2>6
    <3>2. org[k].from \in 1..Len(inodes) /\ org[k].to \in 1..Len(inodes)
      BY <1>2, <3>1 DEF PerJob, InTurn
    <3>3. inodes'[org[k].from] = inodes[org[k].from] /\ inodes'[org[k].to] = inodes[org[k].to]
      BY <1>6, <3>2
    <3>4. QED
      BY <1>7, <1>9, <1>10, <2>6, <3>1, <3>3, CopyKept
  <2>7. QED
    BY <1>9, <2>1, <2>2, <2>3, <2>4, <2>5, <2>6, TargetKept
<1>19. QED
  BY <1>13, <1>14, <1>16, <1>17, <1>18 DEF MediaInv, PerJob, PerTarget

\* A download writes its next part, or something wrong, or nothing: to a file that nothing
\* promises yet, or that is shared.
LEMMA WriteHolds == ASSUME MediaInv, NEW j \in Jobs, Write(j) PROVE MediaInv'
<1> DEFINE i == writesTo[j]
<1>1. /\ load[j] \in 1..Parts /\ load' = [load EXCEPT ![j] = load[j] + 1]
      /\ UNCHANGED <<device, entry, writesTo, org, row, shared, overlapped>>
  BY DEF Write, marks
<1>0. PICK data \in Outcomes(j) : /\ inodes' = [inodes EXCEPT ![i] = inodes[i] \o data]
                                  /\ wrote' = [wrote EXCEPT ![j] = wrote[j] \o data]
  BY DEF Write
<1> DEFINE longer == inodes[i] \o data
<1>2. /\ MediaTypes /\ PerJob /\ SoleWriter /\ TwoDevices /\ PerTarget /\ InTurn(j) /\ OwnParts(j)
  BY JobFacts DEF MediaInv
<1>3. Parts \in Nat /\ Ended = Parts + 2 /\ load[j] \in 1..(Parts + 1) /\ load[j] # Ended /\ load[j] \in Nat
  BY <1>1, Names
<1>4. org[j].step = "off" /\ i # 0 /\ j \notin Torrents
  BY <1>2, <1>3 DEF InTurn
<1>5. /\ inodes \in Seq(Contents) /\ Len(inodes) \in Nat /\ i \in 1..Len(inodes) /\ inodes[i] \in Contents
      /\ writesTo \in [Jobs -> 0..Len(inodes)] /\ entry \in [Paths -> 0..Len(inodes)]
      /\ wrote \in [Jobs -> Contents]
  <2>1. inodes \in Seq(Contents) /\ i \in 0..Len(inodes)
    BY <1>2 DEF MediaTypes
  <2> HIDE DEF i
  <2>2. Len(inodes) \in Nat /\ i \in 1..Len(inodes)
    BY <1>4, <2>1, LenProperties
  <2>3. inodes[i] \in Contents
    BY <2>1, <2>2, ElementOfSeq
  <2>4. QED
    BY <1>2, <2>1, <2>2, <2>3 DEF MediaTypes
<1>6. data \in Contents
  <2>1. <<j, load[j]>> \in Jobs \X (0..Parts) /\ <<j, 0>> \in Jobs \X (0..Parts)
    BY <1>1, <1>3
  <2>2. data \in {<<>>, <<<<j, load[j]>>>>, <<<<j, 0>>>>}
    BY DEF Outcomes
  <2>3. <<>> \in Contents /\ \A x \in Jobs \X (0..Parts) : <<x>> \in Contents
    BY DEF Contents
  <2>4. QED
    BY <2>1, <2>2, <2>3
<1> HIDE DEF i
<1>7. /\ longer \in Contents /\ Len(inodes[i]) \in Nat /\ Len(longer) >= Len(inodes[i])
      /\ \A n \in 1..Len(inodes[i]) : longer[n] = inodes[i][n]
      /\ wrote[j] \o data \in Contents
  <2>1. Len(data) \in Nat /\ Len(inodes[i]) \in Nat
    BY <1>5, <1>6, LenProperties DEF Contents
  <2>2. /\ longer \in Contents /\ Len(longer) = Len(inodes[i]) + Len(data)
        /\ \A n \in 1..(Len(inodes[i]) + Len(data)) :
              longer[n] = IF n <= Len(inodes[i]) THEN inodes[i][n] ELSE data[n - Len(inodes[i])]
    BY <1>5, <1>6, ConcatProperties DEF Contents
  <2> HIDE DEF longer
  <2>3. \A n \in 1..Len(inodes[i]) : longer[n] = inodes[i][n]
    BY <2>1, <2>2
  <2>4. wrote[j] \o data \in Contents
    BY <1>5, <1>6, ConcatProperties DEF Contents
  <2>5. QED
    BY <2>1, <2>2, <2>3, <2>4
<1>8. /\ inodes' \in Seq(Contents) /\ Len(inodes') = Len(inodes) /\ inodes'[i] = longer
      /\ \A n \in 1..Len(inodes) : n # i => inodes'[n] = inodes[n]
  <2>1. inodes' = [inodes EXCEPT ![i] = longer]
    BY <1>0
  <2>2. longer \in Contents /\ inodes \in Seq(Contents) /\ i \in 1..Len(inodes)
    BY <1>5, <1>7
  <2> HIDE DEF longer
  <2>3. /\ inodes' \in Seq(Contents) /\ Len(inodes') = Len(inodes)
        /\ \A n \in 1..Len(inodes) : inodes'[n] = IF n = i THEN longer ELSE inodes[n]
    BY <2>1, <2>2, ExceptSeq
  <2>4. QED
    BY <2>2, <2>3
<1>9. /\ wrote' \in [Jobs -> Contents] /\ wrote'[j] = wrote[j] \o data
      /\ \A k \in Jobs : k # j => wrote'[k] = wrote[k]
  BY <1>0, <1>5, <1>7
<1>10. /\ load' \in [Jobs -> 0..Ended] /\ load'[j] = load[j] + 1 /\ \A k \in Jobs : k # j => load'[k] = load[k]
  <2>1. load[j] + 1 \in 0..Ended
    BY <1>1, <1>3
  <2>2. QED
    BY <1>1, <2>1, JobFacts
<1>11. /\ source' = source /\ linkable' = linkable /\ entry' = entry /\ writesTo' = writesTo /\ org' = org
       /\ row' = row /\ shared' = shared /\ overlapped' = overlapped
  BY <1>1 DEF device
<1>12. i \notin shared => longer = wrote'[j]
  BY <1>2, <1>4, <1>9 DEF OwnParts, i
<1> HIDE DEF longer
<1>13. MediaTypes'
  BY <1>2, <1>8, <1>9, <1>10, <1>11 DEF MediaTypes
<1>14. SoleWriter'
  BY <1>2, <1>11 DEF SoleWriter
<1>15. TwoDevices'
  BY <1>2, <1>11 DEF TwoDevices, IsWritten
<1>16. ASSUME NEW k \in Jobs PROVE InTurn(k)' /\ OwnParts(k)' /\ OwnName(k)'
  <2>1. InTurn(k) /\ OwnParts(k) /\ OwnName(k)
    BY <1>2 DEF PerJob
  <2>2. \/ load'[k] = load[k] /\ wrote'[k] = wrote[k] /\ k # j
        \/ k = j /\ load'[k] = load[j] + 1 /\ load'[k] \in 1..(Parts + 1) /\ load'[k] # 0
    BY <1>1, <1>3, <1>9, <1>10
  <2>3. InTurn(k)'
    BY <1>4, <1>8, <1>11, <2>1, <2>2 DEF InTurn, i
  <2>4. OwnParts(k)'
    <3>1. CASE k = j
      BY <1>8, <1>11, <1>12, <3>1 DEF OwnParts, i
    <3>2. CASE k # j
      <4>1. writesTo[k] # 0 /\ writesTo[k] \notin shared => writesTo[k] # i /\ writesTo[k] \in 1..Len(inodes)
        BY <1>2, <1>5, <3>2 DEF SoleWriter, i
      <4>2. writesTo[k] # 0 /\ writesTo[k] \notin shared => inodes'[writesTo[k]] = inodes[writesTo[k]]
        BY <1>8, <4>1
      <4>3. QED
        BY <1>9, <1>11, <2>1, <3>2, <4>2 DEF OwnParts
    <3>3. QED
      BY <3>1, <3>2
  <2>5. UnderWay(k)' => UnderWay(k)
    BY <1>3, <1>11, <2>2 DEF UnderWay
  <2>6. OwnName(k)'
    BY <1>11, <2>1, <2>5 DEF OwnName
  <2>7. QED
    BY <2>3, <2>4, <2>6
<1>17. ASSUME NEW p \in Targets PROVE TargetHolds(p)'
  <2>1. TargetHolds(p)
    BY <1>2 DEF PerTarget
  <2>2. entry'[p] = entry[p] /\ entry[p] \in 0..Len(inodes)
    BY <1>5, <1>11, Names
  <2>3. Claimed(p)' => Claimed(p)
    BY <1>11 DEF Claimed
  <2>4. \A k \in Jobs : (Takes(k, p)' => Takes(k, p)) /\ (Fills(k, p)' => Fills(k, p))
    BY <1>11 DEF Takes, Fills
  <2>5. Good(p) => Good(p)'
    <3>1. ASSUME Good(p), entry[p] = i PROVE i \in shared
      <4>1. linkable
        BY <1>2, <1>4, <3>1 DEF TwoDevices, IsWritten, i
      <4>2. ASSUME i \notin shared PROVE FALSE
        <5>1. PICK k \in Finished : Dst(k) = p /\ InPlace(k)
          BY <3>1, <4>2 DEF Good
        <5>2. writesTo[k] = i /\ k # j
          BY <1>4, <3>1, <4>1, <5>1 DEF InPlace, Finished
        <5>3. QED
          BY <1>2, <1>4, <4>2, <5>2 DEF SoleWriter, Finished, i
      <4>3. QED
        BY <4>2
    <3>2. Good(p) => inodes'[entry[p]] = inodes[entry[p]] \/ entry[p] \in shared
      BY <1>5, <1>8, <2>2, <3>1 DEF Good
    <3>3. \A k \in Finished : k \in Finished' /\ wrote'[k] = wrote[k] /\ writesTo'[k] = writesTo[k]
      BY <1>4, <1>9, <1>11 DEF Finished
    <3>4. QED
      BY <1>11, <2>2, <3>2, <3>3, GoodKept
  <2>6. ASSUME NEW k \in Jobs, org'[k].step = "copy", CopyIsGood(k) PROVE CopyIsGood(k)'
    <3>1. org[k].step = "copy" /\ org'[k] = org[k] /\ k # j /\ wrote'[k] = wrote[k]
      BY <1>4, <1>9, <1>11, <2>6
    <3>2. org[k].to \in 1..Len(inodes) /\ org[k].to # i /\ org[k].from \in 1..Len(inodes)
      BY <1>2, <3>1 DEF PerJob, InTurn, TwoDevices, IsWritten, i
    <3>3. inodes'[org[k].to] = inodes[org[k].to]
      BY <1>8, <3>2
    <3>4. CASE org[k].from # i
      <4>1. inodes'[org[k].from] = inodes[org[k].from]
        BY <1>8, <3>2, <3>4
      <4>2. QED
        BY <1>11, <2>6, <3>1, <3>3, <4>1, CopyKept
    <3>5. CASE org[k].from = i
      <4>1. Len(wrote[k]) \in Nat
        BY <1>5, LenProperties DEF Contents
      <4>2. StartsWith(inodes[i], wrote[k]) => StartsWith(longer, wrote[k])
        <5>1. ASSUME StartsWith(inodes[i], wrote[k])
              PROVE  Len(wrote[k]) <= Len(longer) /\ \A n \in 1..Len(wrote[k]) : longer[n] = wrote[k][n]
          <6>1. \A n \in 1..Len(wrote[k]) : n \in 1..Len(inodes[i])
            BY <1>7, <4>1, <5>1 DEF StartsWith
          <6>2. Len(longer) \in Nat
            BY <1>7, LenProperties DEF Contents
          <6>3. QED
            BY <1>7, <4>1, <5>1, <6>1, <6>2 DEF StartsWith
        <5>2. QED
          BY <5>1 DEF StartsWith
      <4>3. QED
        BY <1>8, <1>11, <2>6, <3>1, <3>3, <3>5, <4>2 DEF CopyIsGood
    <3>6. QED
      BY <3>4, <3>5
  <2>7. QED
    BY <1>11, <2>1, <2>2, <2>3, <2>4, <2>5, <2>6, TargetKept
<1>18. QED
  BY <1>13, <1>14, <1>15, <1>16, <1>17 DEF MediaInv, PerJob, PerTarget

\* Every step keeps the invariant.
LEMMA MediaStep == MediaInv /\ [MediaFilesNext]_mediaVars => MediaInv'
<1> SUFFICES ASSUME MediaInv, [MediaFilesNext]_mediaVars PROVE MediaInv'
  OBVIOUS
<1>1. ASSUME NEW j \in Jobs, OrganizeStep(j) PROVE MediaInv'
  BY <1>1, ReadRowHolds, StatSourceHolds, StatTargetHolds, RemoveTargetHolds, LinkOrRenameHolds,
     CreateFileHolds, CopyHolds, CopyFailsHolds, RemoveSourceHolds, CleanupLeftoversHolds,
     UpdateRowHolds, UpdateRowsHolds DEF OrganizeStep
<1>2. ASSUME NEW j \in Jobs, Open(j) \/ Write(j) \/ DownloadFails(j) \/ DownloadEnds(j) PROVE MediaInv'
  BY <1>2, OpenHolds, WriteHolds, DownloadFailsHolds, DownloadEndsHolds
<1>3. ASSUME NEW m \in Movies, DeleteMedia(m) PROVE MediaInv'
  BY <1>3, DeleteMediaHolds
<1>4. CASE UNCHANGED mediaVars
  <2>1. MediaTypes' /\ SoleWriter' /\ TwoDevices'
    BY <1>4 DEF mediaVars, device, fileVars, historyVars, marks, MediaInv, MediaTypes, SoleWriter, TwoDevices, IsWritten
  <2>2. PerJob'
    BY <1>4 DEF mediaVars, MediaInv, PerJob, InTurn, OwnParts, OwnName, UnderWay
  <2>3. PerTarget'
    <3>1. UNCHANGED <<linkable, fileVars, writesTo, wrote, shared, overlapped, org, row>>
      BY <1>4 DEF mediaVars, fileVars
    <3>2. ASSUME NEW p \in Targets PROVE TargetHolds(p)'
      <4>1. TargetHolds(p)
        BY DEF MediaInv, PerTarget
      <4>2. /\ \A k \in Jobs : (Takes(k, p)' => Takes(k, p)) /\ (Fills(k, p)' => Fills(k, p))
            /\ Claimed(p)' => Claimed(p)
        BY <3>1 DEF Takes, Fills, Claimed
      <4>3. entry' = entry /\ (Good(p) => Good(p)') /\ \A k \in Jobs : CopyIsGood(k) => CopyIsGood(k)'
        BY <3>1, FilesSame DEF fileVars
      <4>4. QED
        BY <3>1, <4>1, <4>2, <4>3, TargetKept
    <3>3. QED
      BY <3>2 DEF PerTarget
  <2>4. QED
    BY <2>1, <2>2, <2>3 DEF MediaInv
<1>5. QED
  BY <1>1, <1>2, <1>3, <1>4 DEF MediaFilesNext

-----------------------------------------------------------------------------
\* No download is lost.  What may happen to the file of a job:
Excused(j) ==
    \/ writesTo[j] \in shared \cup swept \/ source[j] \in Leftovers \/ Dst(j) \in overlapped
\* A job that has opened a file, and not failed;
HasFile(j) == j \notin Torrents /\ (load[j] \in 1..(Parts + 1) \/ org[j].step # "off")
OwnsName(j) == entry[source[j]] = writesTo[j]
\* its file has its name until it is at its target, and there it stays: what names the target
\* claims it.
KeptAt(j) ==
    HasFile(j) /\ ~Excused(j) =>
        /\ org[j].step \notin {"clean", "row", "rows", "over"} => OwnsName(j)
        /\ org[j].step = "copy" => org[j].from = writesTo[j] /\ org[j].to \notin shared
        /\ org[j].step \in {"unlink", "clean", "row"} => InPlace(j)
        /\ org[j].step \in {"rows", "over"} => OwnsName(j) \/ (InPlace(j) /\ org[j].path = Dst(j))
NoneLost == \A j \in Jobs : KeptAt(j)

\* A target that is taken was filled by somebody, who is another than the one who finds it
\* taken; only that one goes on with no path.
Filled(p) == \E k \in Jobs : Dst(k) = p /\ Placed(k)
BeatenBy(j) == \E k \in Jobs \ {j} : Dst(k) = Dst(j) /\ Placed(k)
TakenByOthers ==
    /\ \A p \in Targets : entry[p] # 0 => Filled(p)
    /\ \A j \in beaten : j \in Jobs /\ BeatenBy(j)
    /\ \A j \in Jobs : org[j].step = "rows" /\ org[j].path = None => j \in beaten
    /\ \A m \in Movies : row[m].status = "available" /\ row[m].path = None =>
          \E j \in beaten : Tmdb[MovieOf[j]] = Tmdb[m]

\* A job that is beyond the reach of the exceptions was so before, and one that was under way
\* with its file is not through.
LEMMA StillExcused ==
    ASSUME MediaInv, [MediaFilesNext]_mediaVars, NEW k \in Jobs, HasFile(k)
    PROVE  /\ Excused(k) => Excused(k)'
           /\ writesTo'[k] = writesTo[k] /\ source' = source /\ linkable' = linkable
           /\ shared \subseteq shared' /\ swept \subseteq swept' /\ overlapped \subseteq overlapped'
<1>1. source' = source /\ linkable' = linkable
  BY DEF MediaFilesNext, mediaVars, device, OrganizeStep, Open, Write, DownloadFails, DownloadEnds, ReadRow, StatSource,
         StatTarget, RemoveTarget, LinkOrRename, CreateFile, Copy, CopyFails, RemoveSource, CleanupLeftovers,
         UpdateRow, UpdateRows, DeleteMedia, Still
<1>2. shared \subseteq shared' /\ swept \subseteq swept' /\ overlapped \subseteq overlapped'
  BY DEF MediaFilesNext, mediaVars, marks, historyVars, OrganizeStep, Open, Write, DownloadFails, DownloadEnds, ReadRow,
         StatSource, StatTarget, RemoveTarget, LinkOrRename, CreateFile, Copy, CopyFails, RemoveSource,
         CleanupLeftovers, UpdateRow, UpdateRows, DeleteMedia
<1>3. writesTo'[k] = writesTo[k]
  <2>1. writesTo \in [Jobs -> 0..Len(inodes)] /\ load[k] # 0
    BY JobFacts, Names DEF MediaTypes, InTurn, HasFile
  <2>2. CASE \E j \in Jobs : Open(j)
    BY <2>1, <2>2 DEF Open
  <2>3. CASE ~\E j \in Jobs : Open(j)
    BY <2>3 DEF MediaFilesNext, mediaVars, OrganizeStep, Write, DownloadFails, DownloadEnds, ReadRow, StatSource,
           StatTarget, RemoveTarget, LinkOrRename, CreateFile, Copy, CopyFails, RemoveSource, CleanupLeftovers,
           UpdateRow, UpdateRows, DeleteMedia, Still
  <2>4. QED
    BY <2>2, <2>3
<1>4. QED
  BY <1>1, <1>2, <1>3 DEF Excused

\* What is said of a job stays while its name, its target and its copy do.
LEMMA KeptSame ==
    ASSUME NEW k \in Jobs, KeptAt(k), org'[k] = org[k], HasFile(k)' => HasFile(k),
           HasFile(k) /\ Excused(k) => Excused(k)',
           ASSUME HasFile(k), ~Excused(k), ~Excused(k)'
           PROVE  /\ writesTo'[k] = writesTo[k]
                  /\ OwnsName(k) => OwnsName(k)'
                  /\ org[k].step # "off" /\ Claimed(Dst(k)) /\ InPlace(k) => InPlace(k)'
                  /\ org[k].step = "copy" /\ org[k].to \notin shared => org[k].to \notin shared'
    PROVE  KeptAt(k)'
<1> SUFFICES ASSUME HasFile(k)', ~Excused(k)'
             PROVE  /\ org'[k].step \notin {"clean", "row", "rows", "over"} => OwnsName(k)'
                    /\ org'[k].step = "copy" => org'[k].from = writesTo'[k] /\ org'[k].to \notin shared'
                    /\ org'[k].step \in {"unlink", "clean", "row"} => InPlace(k)'
                    /\ org'[k].step \in {"rows", "over"} => OwnsName(k)' \/ (InPlace(k)' /\ org'[k].path = Dst(k))
  BY DEF KeptAt
<1>1. HasFile(k) /\ ~Excused(k)
  OBVIOUS
<1>2. org[k].step \in {"unlink", "clean", "row"} \/ org[k].path = Dst(k) => Claimed(Dst(k))
  BY DEF Claimed
<1>3. QED
  BY <1>1, <1>2 DEF KeptAt

\* What a job that is not beyond the exceptions has of its own.
LEMMA OwnFile ==
    ASSUME MediaInv, NEW k \in Jobs, HasFile(k), ~Excused(k)
    PROVE  /\ writesTo[k] # 0 /\ writesTo[k] \notin shared /\ writesTo[k] \in 1..Len(inodes)
           /\ inodes[writesTo[k]] = wrote[k] /\ Dst(k) \notin overlapped
           /\ \A j \in Jobs : j # k => writesTo[j] # writesTo[k]
           /\ \A j \in Jobs : j # k /\ UnderWay(j) /\ j \notin Torrents /\ source[j] = source[k] => ~OwnsName(k)
<1>1. /\ InTurn(k) /\ OwnParts(k) /\ SoleWriter /\ MediaTypes /\ k \notin Torrents
      /\ \A j \in Jobs : OwnName(j)
  BY JobFacts DEF MediaInv, HasFile
<1>2. writesTo[k] # 0 /\ writesTo[k] \notin shared /\ Dst(k) \notin overlapped
  BY <1>1 DEF InTurn, HasFile, Excused
<1>3. writesTo[k] \in 1..Len(inodes)
  <2>1. writesTo[k] \in 0..Len(inodes) /\ inodes \in Seq(Contents)
    BY <1>1 DEF MediaTypes
  <2>2. Len(inodes) \in Nat
    BY <2>1, LenProperties
  <2>3. QED
    BY <1>2, <2>1, <2>2
<1>4. \A j \in Jobs : j # k => writesTo[j] # writesTo[k]
  BY <1>1, <1>2 DEF SoleWriter
<1>5. QED
  BY <1>1, <1>2, <1>3, <1>4 DEF OwnParts, OwnName, OwnsName

\* Who puts something at a target, or takes it away, does so at one that nobody claims.
LEMMA NobodyTakes ==
    ASSUME MediaInv, NEW j \in Jobs, NEW k \in Jobs, Dst(k) \notin overlapped,
           org[j].step \in {"place", "link", "copy"}, Dst(j) = Dst(k)
    PROVE  ~Claimed(Dst(k)) /\ (org[k].step \in {"place", "link", "copy"} => k = j)
<1>1. TargetHolds(Dst(k)) /\ Takes(j, Dst(k))
  BY JobFacts, Names DEF Takes
<1>2. QED
  BY <1>1 DEF TargetHolds, Takes

\* How far a step of a job reaches: others' records, names, targets, inodes and marks.
JobStep(j) == Open(j) \/ Write(j) \/ DownloadFails(j) \/ DownloadEnds(j) \/ OrganizeStep(j)
Reach(j) ==
    /\ linkable' = linkable /\ source' = source
    /\ \A k \in Jobs \ {j} : /\ org'[k] = org[k] /\ load'[k] = load[k]
                             /\ wrote'[k] = wrote[k] /\ writesTo'[k] = writesTo[k]
    /\ \A s \in Sources : \/ entry'[s] = entry[s]
                          \/ s = source[j] /\ (entry[s] = 0 \/ (UnderWay(j) /\ j \notin Torrents))
                          \/ s \in Leftovers \/ entry[s] \in swept'
    /\ \A p \in Targets : entry'[p] = entry[p] \/ (org[j].step \in {"place", "link", "copy"} /\ Dst(j) = p)
    /\ \A i \in 1..Len(inodes) :
          \/ inodes'[i] = inodes[i]
          \/ i = writesTo[j]
          \/ ~linkable /\ org[j].step = "link" /\ i = entry[Dst(j)]
          \/ ~linkable /\ org[j].step = "copy" /\ i = org[j].to
    /\ \A i \in shared' :
          \/ i \in shared \/ i = writesTo'[j]
          \/ ~linkable /\ org[j].step = "copy" /\ i = org[j].to
          \/ ~linkable /\ org[j].step = "link" /\ i \in {entry[Dst(j)], Len(inodes) + 1}

\* Each step reaches no farther.
LEMMA StepsReach == ASSUME MediaInv, NEW j \in Jobs, JobStep(j) PROVE Reach(j)
<1>1. /\ MediaTypes /\ InTurn(j) /\ source[j] \in Sources /\ source[j] \in Paths /\ source[j] \notin Targets
      /\ Dst(j) \in Targets /\ Dst(j) \in Paths /\ Dst(j) \notin Sources
      /\ \A p \in Targets : p \in Paths /\ p \notin Sources
      /\ \A p \in Sources : p \in Paths /\ p \notin Targets
  BY JobFacts, SourceIsOne, Names
<1>2. /\ inodes \in Seq(Contents) /\ Len(inodes) \in Nat /\ entry \in [Paths -> 0..Len(inodes)]
      /\ load \in [Jobs -> 0..Ended] /\ writesTo \in [Jobs -> 0..Len(inodes)] /\ wrote \in [Jobs -> Contents]
      /\ org \in [Jobs -> OrgRecord]
  <2>1. inodes \in Seq(Contents)
    BY <1>1 DEF MediaTypes
  <2>2. Len(inodes) \in Nat
    BY <2>1, LenProperties
  <2>3. QED
    BY <1>1, <2>1, <2>2, JobFacts DEF MediaTypes
\* who takes names away is under way
<1>3. org[j].step \in {"place", "link", "unlink"} => UnderWay(j) /\ j \notin Torrents
  BY <1>1 DEF UnderWay, InTurn
<1>4. CASE Open(j)
  <2>1. /\ device' = device /\ org' = org /\ wrote' = wrote
        /\ load' = [load EXCEPT ![j] = 1] /\ writesTo' = [writesTo EXCEPT ![j] = entry'[source[j]]]
        /\ shared' \in {shared, shared \cup {writesTo'[j]}}
    BY <1>4 DEF Open
  <2>2. \/ inodes' = inodes /\ entry' = entry
        \/ /\ inodes' = Append(inodes, <<>>) /\ entry[source[j]] = 0
           /\ entry' = [entry EXCEPT ![source[j]] = Len(inodes')]
    BY <1>4 DEF Open, fileVars
  <2>3. \A i \in 1..Len(inodes) : inodes'[i] = inodes[i]
    <3>1. <<>> \in Contents
      BY DEF Contents
    <3>2. \A i \in 1..Len(inodes) : Append(inodes, <<>>)[i] = inodes[i]
      BY <1>2, <3>1, AppendProperties
    <3>3. QED
      BY <2>2, <3>2
  <2>4. /\ \A s \in Sources : entry'[s] = entry[s] \/ (s = source[j] /\ entry[s] = 0)
        /\ \A p \in Targets : entry'[p] = entry[p]
    BY <1>1, <1>2, <2>2
  <2>5. QED
    BY <1>2, <2>1, <2>3, <2>4 DEF Reach, device
<1>5. CASE Write(j)
  <2>1. /\ device' = device /\ org' = org /\ entry' = entry /\ writesTo' = writesTo /\ shared' = shared
        /\ load' = [load EXCEPT ![j] = @ + 1]
    BY <1>5 DEF Write
  <2>2. PICK data \in Outcomes(j) : /\ inodes' = [inodes EXCEPT ![writesTo[j]] = @ \o data]
                                    /\ wrote' = [wrote EXCEPT ![j] = @ \o data]
    BY <1>5 DEF Write
  <2>3. \A i \in 1..Len(inodes) : i # writesTo[j] => inodes'[i] = inodes[i]
    BY <1>2, <2>2
  <2>4. \A k \in Jobs \ {j} : wrote'[k] = wrote[k] /\ load'[k] = load[k]
    BY <1>2, <2>1, <2>2
  <2>5. QED
    BY <2>1, <2>3, <2>4 DEF Reach, device
<1>6. CASE DownloadFails(j) \/ DownloadEnds(j)
  BY <1>2, <1>6 DEF DownloadFails, DownloadEnds, Reach, device, fileVars, historyVars
<1>7. CASE ReadRow(j) \/ StatSource(j) \/ StatTarget(j) \/ CopyFails(j) \/ UpdateRow(j) \/ UpdateRows(j)
  <2>1. /\ device' = device /\ load' = load /\ writesTo' = writesTo /\ inodes' = inodes /\ entry' = entry
        /\ wrote' = wrote /\ shared' = shared
    BY <1>7 DEF ReadRow, StatSource, StatTarget, CopyFails, UpdateRow, UpdateRows, Still, fileVars, historyVars
  <2>2. \A k \in Jobs \ {j} : org'[k] = org[k]
    BY <1>2, <1>7 DEF ReadRow, StatSource, StatTarget, CopyFails, UpdateRow, UpdateRows, OrganizerGoes
  <2>3. QED
    BY <2>1, <2>2 DEF Reach, device
<1>8. CASE RemoveTarget(j) \/ LinkOrRename(j) \/ RemoveSource(j)
  <2>1. /\ device' = device /\ load' = load /\ writesTo' = writesTo /\ inodes' = inodes
        /\ wrote' = wrote /\ shared' = shared
    BY <1>8 DEF RemoveTarget, LinkOrRename, RemoveSource, Still, historyVars
  <2>2. \A k \in Jobs \ {j} : org'[k] = org[k]
    BY <1>2, <1>8 DEF RemoveTarget, LinkOrRename, RemoveSource, OrganizerGoes
  <2>3. /\ \A s \in Sources : entry'[s] = entry[s] \/ (s = source[j] /\ UnderWay(j) /\ j \notin Torrents)
        /\ \A p \in Targets : entry'[p] = entry[p] \/ (org[j].step \in {"place", "link", "copy"} /\ Dst(j) = p)
    <3>1. CASE RemoveTarget(j)
      BY <1>1, <1>2, <3>1 DEF RemoveTarget, Begins
    <3>2. CASE RemoveSource(j)
      BY <1>1, <1>2, <1>3, <3>2 DEF RemoveSource, Begins
    <3>3. CASE LinkOrRename(j)
      <4>1. /\ org[j].step = "link"
            /\ entry' \in {entry, [entry EXCEPT ![Dst(j)] = entry[source[j]]],
                           [entry EXCEPT ![Dst(j)] = entry[source[j]], ![source[j]] = 0]}
        BY <3>3 DEF LinkOrRename, Begins
      <4>2. QED
        BY <1>1, <1>2, <1>3, <4>1
    <3>4. QED
      BY <1>8, <3>1, <3>2, <3>3
  <2>4. QED
    BY <2>1, <2>2, <2>3 DEF Reach, device
<1>9. CASE CleanupLeftovers(j)
  <2>1. /\ device' = device /\ load' = load /\ writesTo' = writesTo /\ inodes' = inodes
        /\ wrote' = wrote /\ shared' = shared /\ \A k \in Jobs \ {j} : org'[k] = org[k]
    BY <1>2, <1>9 DEF CleanupLeftovers, Still, OrganizerGoes
  <2>2. PICK gone \in SUBSET Removable(j) :
           /\ entry' = [p \in Paths |-> IF p \in gone THEN 0 ELSE entry[p]]
           /\ swept' = swept \cup {entry[q] : q \in {p \in gone : IsEmpty(p)}}
    BY <1>9 DEF CleanupLeftovers
  <2>3. \A s \in Sources : entry'[s] = entry[s] \/ s \in Leftovers \/ entry[s] \in swept'
    BY <1>1, <2>2 DEF Removable
  <2>4. \A p \in Targets : entry'[p] = entry[p]
    BY <1>1, <1>2, <2>2 DEF Removable
  <2>5. QED
    BY <2>1, <2>3, <2>4 DEF Reach, device
<1>10. CASE CreateFile(j)
  <2> DEFINE from == entry[source[j]]
             to == IF entry[Dst(j)] = 0 THEN Len(inodes) + 1 ELSE entry[Dst(j)]
  <2>1. /\ device' = device /\ load' = load /\ writesTo' = writesTo /\ wrote' = wrote
        /\ org[j].step = "link" /\ ~linkable
        /\ shared' \in {shared, shared \cup {to}}
        /\ \/ inodes' = inodes /\ entry' = entry
           \/ /\ entry[Dst(j)] = 0 /\ inodes' = Append(inodes, <<>>)
              /\ entry' = [entry EXCEPT ![Dst(j)] = to]
           \/ /\ entry[Dst(j)] # 0 /\ inodes' = [inodes EXCEPT ![to] = <<>>]
              /\ entry' = [entry EXCEPT ![Dst(j)] = to]
    BY <1>10 DEF CreateFile, Still, Begins, fileVars
  <2>2. \A k \in Jobs \ {j} : org'[k] = org[k]
    BY <1>2, <1>10 DEF CreateFile, OrganizerGoes
  <2>3. \A i \in 1..Len(inodes) : inodes'[i] = inodes[i] \/ i = entry[Dst(j)]
    <3>1. <<>> \in Contents
      BY DEF Contents
    <3>2. \A i \in 1..Len(inodes) : Append(inodes, <<>>)[i] = inodes[i]
      BY <1>2, <3>1, AppendProperties
    <3>3. entry[Dst(j)] # 0 => \A i \in 1..Len(inodes) : i # to => [inodes EXCEPT ![to] = <<>>][i] = inodes[i]
      BY <1>2
    <3>4. entry[Dst(j)] # 0 => to = entry[Dst(j)]
      OBVIOUS
    <3> HIDE DEF to
    <3>5. QED
      BY <2>1, <3>2, <3>3, <3>4
  <2>4. /\ \A s \in Sources : entry'[s] = entry[s]
        /\ \A p \in Targets : entry'[p] = entry[p] \/ Dst(j) = p
    <3> HIDE DEF to
    <3>1. QED
      BY <1>1, <1>2, <2>1
  <2>5. to \in {entry[Dst(j)], Len(inodes) + 1}
    OBVIOUS
  <2> HIDE DEF to
  <2>6. QED
    BY <2>1, <2>2, <2>3, <2>4, <2>5 DEF Reach, device
<1>11. CASE Copy(j)
  <2>1. /\ device' = device /\ load' = load /\ writesTo' = writesTo /\ wrote' = wrote /\ entry' = entry
        /\ org[j].step = "copy" /\ shared' \in {shared, shared \cup {org[j].to}} /\ ~linkable
    BY <1>1, <1>11 DEF Copy, Still, Begins, InTurn
  <2>2. \A k \in Jobs \ {j} : org'[k] = org[k]
    BY <1>2, <1>11 DEF Copy, OrganizerGoes
  <2>3. \A i \in 1..Len(inodes) : inodes'[i] = inodes[i] \/ i = org[j].to
    <3>1. \/ inodes' = inodes
          \/ \E data : inodes' = [inodes EXCEPT ![org[j].to] = data]
      BY <1>11 DEF Copy
    <3>2. QED
      BY <1>2, <3>1
  <2>4. QED
    BY <2>1, <2>2, <2>3 DEF Reach, device
<1>12. QED
  BY <1>4, <1>5, <1>6, <1>7, <1>8, <1>9, <1>10, <1>11 DEF JobStep, OrganizeStep

\* Others keep their files.
LEMMA OthersKeep ==
    ASSUME MediaInv, MediaInv', NoneLost, NEW j \in Jobs, JobStep(j), NEW k \in Jobs, k # j
    PROVE  KeptAt(k)'
<1>1. Reach(j) /\ KeptAt(k) /\ [MediaFilesNext]_mediaVars
  BY StepsReach DEF NoneLost, JobStep, MediaFilesNext
<1>2. /\ org'[k] = org[k] /\ load'[k] = load[k] /\ wrote'[k] = wrote[k] /\ writesTo'[k] = writesTo[k]
      /\ linkable' = linkable /\ source' = source
  BY <1>1 DEF Reach
<1>3. HasFile(k)' => HasFile(k)
  BY <1>2 DEF HasFile
<1>4. HasFile(k) /\ Excused(k) => Excused(k)'
  BY <1>1, StillExcused
<1>5. /\ MediaTypes /\ TwoDevices /\ TwoDevices' /\ InTurn(k) /\ TargetHolds(Dst(k)) /\ Dst(k) \in Targets
      /\ Dst(j) \in Targets /\ source[k] \in Sources
  BY SourceIsOne, JobFacts, Names DEF MediaInv
<1> SUFFICES ASSUME HasFile(k), ~Excused(k), ~Excused(k)'
             PROVE  /\ OwnsName(k) => OwnsName(k)'
                    /\ org[k].step # "off" /\ Claimed(Dst(k)) /\ InPlace(k) => InPlace(k)'
                    /\ org[k].step = "copy" /\ org[k].to \notin shared => org[k].to \notin shared'
  BY <1>1, <1>2, <1>3, <1>4, KeptSame
<1>6. OwnsName(k) => OwnsName(k)'
  <2> SUFFICES ASSUME OwnsName(k) PROVE entry'[source[k]] = entry[source[k]]
    BY <1>2 DEF OwnsName
  <2>1. entry[source[k]] = writesTo[k] /\ entry[source[k]] # 0
    BY OwnFile DEF OwnsName
  <2>2. source[k] \notin Leftovers /\ writesTo[k] \notin swept'
    BY <1>2 DEF Excused
  <2>3. ~(source[k] = source[j] /\ UnderWay(j) /\ j \notin Torrents)
    BY OwnFile
  <2>4. QED
    BY <1>1, <1>5, <2>1, <2>2, <2>3 DEF Reach
<1>7. Claimed(Dst(k)) /\ InPlace(k) => InPlace(k)'
  <2>1. MediaInv /\ Dst(k) \notin overlapped
    BY OwnFile
  <2> SUFFICES ASSUME Claimed(Dst(k)), InPlace(k) PROVE InPlace(k)'
    OBVIOUS
  <2> DEFINE i == entry[Dst(k)]
  <2>2. i \in 1..Len(inodes) /\ i # 0
    <3>1. i \in 0..Len(inodes) /\ inodes \in Seq(Contents) /\ i # 0
      BY <1>5, Names DEF MediaTypes, InPlace
    <3>2. Len(inodes) \in Nat
      BY <3>1, LenProperties
    <3> HIDE DEF i
    <3>3. QED
      BY <3>1, <3>2
  <2>3. ~(org[j].step \in {"place", "link", "copy"} /\ Dst(j) = Dst(k))
    BY <2>1, NobodyTakes
  <2>4. i # writesTo[j]
    <3>1. linkable => i = writesTo[k]
      BY DEF InPlace
    <3>2. ~linkable => i # writesTo[j]
      BY <1>5, <2>2 DEF TwoDevices, IsWritten
    <3>3. QED
      BY <3>1, <3>2, OwnFile
  <2>5. ~linkable /\ org[j].step = "link" => i # entry[Dst(j)]
    BY <1>5, <2>2, <2>3 DEF TwoDevices
  <2>6. ~linkable /\ org[j].step = "copy" => i # org[j].to
    BY <1>5, <2>2, <2>3 DEF TwoDevices
  <2>7. inodes'[i] = inodes[i] /\ entry'[Dst(k)] = i
    BY <1>1, <1>5, <2>2, <2>3, <2>4, <2>5, <2>6 DEF Reach
  <2>8. QED
    BY <1>2, <2>7 DEF InPlace
<1>8. org[k].step = "copy" /\ org[k].to \notin shared => org[k].to \notin shared'
  <2> SUFFICES ASSUME org[k].step = "copy", org[k].to \notin shared PROVE org[k].to \notin shared'
    OBVIOUS
  <2> DEFINE i == org[k].to
  <2>1. ~linkable /\ i \in 1..Len(inodes) /\ entry[Dst(k)] = i /\ Dst(k) \notin overlapped
    BY <1>5, OwnFile DEF InTurn, TargetHolds
  <2>2. i # writesTo'[j]
    BY <1>2, <1>5, <2>1 DEF TwoDevices, IsWritten
  <2>3. ~(org[j].step \in {"place", "link", "copy"} /\ Dst(j) = Dst(k))
    BY <2>1, NobodyTakes
  <2>4. i # 0 /\ i # Len(inodes) + 1
    <3>1. Len(inodes) \in Nat
      <4>1. inodes \in Seq(Contents)
        BY <1>5 DEF MediaTypes
      <4>2. QED
        BY <4>1, LenProperties
    <3> HIDE DEF i
    <3>2. QED
      BY <2>1, <3>1
  <2>5. org[j].step = "link" => i # entry[Dst(j)]
    BY <1>5, <2>1, <2>3, <2>4 DEF TwoDevices
  <2>6. org[j].step = "copy" => i # org[j].to
    BY <1>5, <2>1, <2>3, <2>4 DEF TwoDevices
  <2>7. QED
    BY <1>1, <2>2, <2>4, <2>5, <2>6 DEF Reach
<1>9. QED
  BY <1>6, <1>7, <1>8

\* What the invariant says of a job with a file of its own.
LEMMA OwnFacts ==
    ASSUME MediaInv, NoneLost, NEW j \in Jobs, HasFile(j), ~Excused(j)
    PROVE  /\ writesTo[j] # 0 /\ writesTo[j] \notin shared /\ inodes[writesTo[j]] = wrote[j]
           /\ org[j].step \notin {"clean", "row", "rows", "over"} => OwnsName(j)
           /\ org[j].step = "copy" => org[j].from = writesTo[j] /\ org[j].to \notin shared
           /\ org[j].step \in {"unlink", "clean", "row"} => InPlace(j)
           /\ org[j].step \in {"rows", "over"} => OwnsName(j) \/ (InPlace(j) /\ org[j].path = Dst(j))
           /\ TargetHolds(Dst(j)) /\ Dst(j) \notin overlapped /\ j \notin Torrents
           /\ Dst(j) \in Paths /\ Dst(j) \in Targets /\ Dst(j) # source[j] /\ source[j] \in Paths
           /\ entry \in [Paths -> 0..Len(inodes)] /\ org \in [Jobs -> OrgRecord]
<1>1. source[j] \in Paths /\ source[j] \notin Targets /\ Dst(j) \in Targets /\ Dst(j) \in Paths
  BY JobFacts, SourceIsOne, Names
<1>2. entry \in [Paths -> 0..Len(inodes)]
  BY JobFacts DEF MediaTypes
<1>3. QED
  BY <1>1, <1>2, OwnFile, JobFacts DEF NoneLost, KeptAt, HasFile

\* And the job itself keeps its file, from one name to the other.
LEMMA OwnKeeps == ASSUME MediaInv, MediaInv', NoneLost, NEW j \in Jobs, JobStep(j) PROVE KeptAt(j)'
<1> SUFFICES ASSUME HasFile(j)', ~Excused(j)' PROVE KeptAt(j)'
  BY DEF KeptAt
<1>1. [MediaFilesNext]_mediaVars /\ MediaTypes /\ InTurn(j)
  BY JobFacts DEF JobStep, MediaFilesNext
<1>2. CASE Open(j)
  <2>1. OwnsName(j)'
    <3>1. writesTo \in [Jobs -> 0..Len(inodes)]
      BY <1>1 DEF MediaTypes
    <3>2. QED
      BY <1>2, <3>1 DEF Open, OwnsName, device
  <2>2. org' = org /\ org[j].step = "off"
    BY <1>1, <1>2, Names DEF Open, InTurn
  <2>3. QED
    BY <2>1, <2>2 DEF KeptAt
<1>3. CASE DownloadFails(j)
  <2>1. load'[j] \notin 1..(Parts + 1) /\ org' = org /\ org[j].step = "off"
    BY <1>1, <1>3, Names, JobFacts DEF DownloadFails, InTurn
  <2>2. QED
    BY <2>1 DEF HasFile
<1>4. ASSUME ~Open(j), ~DownloadFails(j) PROVE HasFile(j) /\ ~Excused(j)
  <2>1. HasFile(j)
    <3>1. CASE Write(j)
      BY <3>1, Names DEF Write, HasFile
    <3>2. CASE DownloadEnds(j)
      BY <3>2, Names DEF DownloadEnds, HasFile
    <3>3. CASE OrganizeStep(j)
      BY <1>1, <3>3 DEF HasFile, OrganizeStep, Begins, ReadRow, StatSource, StatTarget, RemoveTarget, LinkOrRename,
           CreateFile, Copy, CopyFails, RemoveSource, CleanupLeftovers, UpdateRow, UpdateRows
    <3>4. QED
      BY <1>4, <3>1, <3>2, <3>3 DEF JobStep
  <2>2. QED
    BY <1>1, <2>1, StillExcused
<1> SUFFICES ASSUME ~Open(j), ~DownloadFails(j), HasFile(j), ~Excused(j) PROVE KeptAt(j)'
  BY <1>2, <1>3, <1>4
<1>5. /\ writesTo'[j] = writesTo[j] /\ source' = source /\ linkable' = linkable
      /\ writesTo'[j] \notin shared' /\ Dst(j) \notin overlapped'
  BY <1>1, StillExcused DEF Excused
<1>6. CASE Write(j)
  <2>1. org' = org /\ org[j].step = "off" /\ entry' = entry
    BY <1>1, <1>6, Names DEF Write, InTurn
  <2>2. QED
    BY <1>5, <2>1, OwnFacts DEF KeptAt, OwnsName
<1>7. CASE DownloadEnds(j)
  <2>1. org'[j].step = "begin" /\ org[j].step = "off" /\ entry' = entry
    <3>1. org[j].step = "off"
      BY <1>1, <1>7, OwnFacts, Names DEF DownloadEnds, InTurn
    <3>2. QED
      BY <1>7, <3>1, OwnFacts DEF DownloadEnds, At, fileVars
  <2>2. QED
    BY <1>5, <2>1, OwnFacts DEF KeptAt, OwnsName
<1>8. CASE ReadRow(j) \/ StatSource(j) \/ StatTarget(j) \/ CopyFails(j)
  <2>1. OwnsName(j) /\ entry' = entry
    BY <1>8, OwnFacts DEF ReadRow, StatSource, StatTarget, CopyFails, Begins, fileVars
  <2>2. org'[j].step \in {"stat", "target", "place", "rows", "over"}
    <3>1. org \in [Jobs -> OrgRecord]
      BY OwnFacts
    <3>2. QED
      BY <1>8, <3>1 DEF ReadRow, StatSource, StatTarget, CopyFails, OrganizerGoes, OrgRecord, At
  <2>3. OwnsName(j)'
    BY <1>5, <2>1 DEF OwnsName
  <2>4. QED
    BY <2>2, <2>3 DEF KeptAt
<1>9. CASE RemoveTarget(j)
  <2>1. OwnsName(j) /\ org'[j].step = "link" /\ entry' = [entry EXCEPT ![Dst(j)] = 0]
    BY <1>9, OwnFacts DEF RemoveTarget, Begins, OrganizerGoes, OrgRecord
  <2>2. OwnsName(j)'
    BY <1>5, <2>1, OwnFacts DEF OwnsName
  <2>3. QED
    BY <2>1, <2>2 DEF KeptAt
<1>10. CASE LinkOrRename(j)
  <2>1. OwnsName(j) /\ entry[source[j]] # 0 /\ entry[source[j]] = writesTo[j]
    BY <1>10, OwnFacts DEF LinkOrRename, Begins, OwnsName
  <2>2. /\ org'[j].step = "clean" /\ wrote' = wrote /\ inodes' = inodes
        /\ entry' = CASE entry[Dst(j)] = 0 -> [entry EXCEPT ![Dst(j)] = entry[source[j]]]
                      [] entry[Dst(j)] = entry[source[j]] -> entry
                      [] OTHER -> [entry EXCEPT ![Dst(j)] = entry[source[j]], ![source[j]] = 0]
    BY <1>10, <2>1, OwnFacts DEF LinkOrRename, OrganizerGoes, OrgRecord, historyVars
  <2>3. entry'[Dst(j)] = writesTo[j]
    BY <2>1, <2>2, OwnFacts
  <2>4. InPlace(j)'
    BY <1>5, <2>2, <2>3, OwnFacts DEF InPlace
  <2>5. QED
    BY <2>2, <2>4 DEF KeptAt
<1>11. CASE CreateFile(j)
  <2> DEFINE from == entry[source[j]]
  <2>1. OwnsName(j) /\ from # 0 /\ from = writesTo[j] /\ from \notin shared /\ org[j].step = "link"
    BY <1>11, OwnFacts DEF CreateFile, Begins, OwnsName
  <2>2. entry[Dst(j)] = 0
    BY <2>1, OwnFacts DEF TargetHolds, Fills
  <2>3. /\ shared' = shared /\ entry' = [entry EXCEPT ![Dst(j)] = Len(inodes) + 1]
        /\ org' = [org EXCEPT ![j] = [org[j] EXCEPT !.step = "copy", !.from = from,
                                                    !.to = Len(inodes) + 1, !.pos = 0]]
    BY <1>11, <2>1, <2>2 DEF CreateFile
  <2> HIDE DEF from
  <2>4. org'[j].step = "copy" /\ org'[j].from = writesTo[j] /\ org'[j].to = Len(inodes) + 1
    BY <2>1, <2>3, OwnFacts DEF OrgRecord
  <2>5. Len(inodes) + 1 \notin shared'
    <3>1. shared \subseteq 1..Len(inodes) /\ inodes \in Seq(Contents)
      BY <1>1 DEF MediaTypes
    <3>2. Len(inodes) \in Nat
      BY <3>1, LenProperties
    <3>3. QED
      BY <2>3, <3>1, <3>2
  <2>6. OwnsName(j)'
    BY <1>5, <2>1, <2>3, OwnFacts DEF OwnsName
  <2>7. QED
    BY <1>5, <2>4, <2>5, <2>6 DEF KeptAt
<1>12. CASE Copy(j)
  <2>1. /\ org[j].step = "copy" /\ OwnsName(j) /\ org[j].from = writesTo[j] /\ org[j].to \notin shared
        /\ entry' = entry /\ entry[source[j]] # 0 /\ wrote' = wrote
    BY <1>12, OwnFacts DEF Copy, Begins, OwnsName
  <2>2. OwnsName(j)'
    BY <1>5, <2>1 DEF OwnsName
  <2>3. CASE org[j].pos + 1 <= Len(inodes[org[j].from])
    <3>1. /\ org' = [org EXCEPT ![j].pos = org[j].pos + 1]
          /\ shared' = IF org[j].from \in shared THEN shared \cup {org[j].to} ELSE shared
      BY <1>12, <2>3 DEF Copy
    <3>2. org[j].from \notin shared
      BY <2>1, OwnFacts
    <3>3. org'[j].step = "copy" /\ org'[j].from = org[j].from /\ org'[j].to = org[j].to /\ shared' = shared
      BY <2>1, <3>1, <3>2, OwnFacts DEF OrgRecord
    <3>4. QED
      BY <1>5, <2>1, <2>2, <3>3 DEF KeptAt
  <2>4. CASE ~(org[j].pos + 1 <= Len(inodes[org[j].from]))
    <3>1. OrganizerGoes(j, "unlink") /\ inodes' = inodes
      BY <1>12, <2>1, <2>4 DEF Copy
    <3>2. org'[j].step = "unlink"
      BY <3>1, OwnFacts DEF OrganizerGoes, OrgRecord
    <3>3. entry[Dst(j)] = org[j].to /\ CopyIsGood(j)
      BY <2>1, OwnFacts DEF TargetHolds
    <3>4. inodes[org[j].to] = wrote[j] /\ org[j].to # 0 /\ ~linkable
      BY <1>1, <2>1, <2>4, <3>3, CopyIsWhole DEF InTurn
    <3>5. InPlace(j)'
      BY <1>5, <2>1, <3>1, <3>3, <3>4 DEF InPlace
    <3>6. QED
      BY <2>2, <3>2, <3>5 DEF KeptAt
  <2>5. QED
    BY <2>3, <2>4
<1>13. CASE RemoveSource(j)
  <2>1. InPlace(j) /\ OwnsName(j) /\ entry[source[j]] # 0
    BY <1>13, OwnFacts DEF RemoveSource, Begins, OwnsName
  <2>2. /\ OrganizerGoes(j, "clean") /\ entry' = [entry EXCEPT ![source[j]] = 0] /\ inodes' = inodes /\ wrote' = wrote
    BY <1>13, <2>1 DEF RemoveSource, historyVars
  <2>3. org'[j].step = "clean" /\ entry'[Dst(j)] = entry[Dst(j)]
    BY <2>2, OwnFacts DEF OrganizerGoes, OrgRecord
  <2>4. InPlace(j)'
    BY <1>5, <2>1, <2>2, <2>3 DEF InPlace
  <2>5. QED
    BY <2>3, <2>4 DEF KeptAt
<1>14. CASE CleanupLeftovers(j)
  <2>1. InPlace(j) /\ OrganizerGoes(j, "row") /\ inodes' = inodes /\ wrote' = wrote
    BY <1>14, OwnFacts DEF CleanupLeftovers, Begins
  <2>2. PICK gone \in SUBSET Removable(j) : entry' = [p \in Paths |-> IF p \in gone THEN 0 ELSE entry[p]]
    BY <1>14 DEF CleanupLeftovers
  <2>3. Dst(j) \notin gone
    BY <2>2, OwnFacts, Names DEF Removable
  <2>4. org'[j].step = "row" /\ entry'[Dst(j)] = entry[Dst(j)]
    BY <2>1, <2>2, <2>3, OwnFacts DEF OrganizerGoes, OrgRecord
  <2>5. InPlace(j)'
    BY <1>5, <2>1, <2>4 DEF InPlace
  <2>6. QED
    BY <2>4, <2>5 DEF KeptAt
<1>15. CASE UpdateRow(j)
  <2>1. /\ InPlace(j) /\ org' = [org EXCEPT ![j] = [[org[j] EXCEPT !.step = "rows"] EXCEPT !.path = Dst(j)]]
        /\ inodes' = inodes /\ entry' = entry /\ wrote' = wrote
    BY <1>15, OwnFacts DEF UpdateRow, Begins, fileVars, historyVars
  <2>2. org'[j].step = "rows" /\ org'[j].path = Dst(j) /\ InPlace(j)'
    BY <1>5, <2>1, OwnFacts DEF OrgRecord, InPlace
  <2>3. QED
    BY <2>2 DEF KeptAt
<1>16. CASE UpdateRows(j)
  <2>1. /\ OwnsName(j) \/ (InPlace(j) /\ org[j].path = Dst(j)) 
        /\ OrganizerGoes(j, "over") /\ inodes' = inodes /\ entry' = entry /\ wrote' = wrote
    BY <1>16, OwnFacts DEF UpdateRows, Begins, fileVars, historyVars
  <2>2. org'[j].step = "over" /\ org'[j].path = org[j].path
    BY <2>1, OwnFacts DEF OrganizerGoes, OrgRecord
  <2>3. OwnsName(j)' \/ (InPlace(j)' /\ org'[j].path = Dst(j))
    BY <1>5, <2>1, <2>2 DEF OwnsName, InPlace
  <2>4. QED
    BY <2>2, <2>3 DEF KeptAt
<1>17. QED
  BY <1>6, <1>7, <1>8, <1>9, <1>10, <1>11, <1>12, <1>13, <1>14, <1>15, <1>16 DEF JobStep, OrganizeStep

\* Every step keeps that no download is lost.
LEMMA NoneLostStep == MediaInv /\ MediaInv' /\ NoneLost /\ [MediaFilesNext]_mediaVars => NoneLost'
<1> SUFFICES ASSUME MediaInv, MediaInv', NoneLost, [MediaFilesNext]_mediaVars PROVE NoneLost'
  OBVIOUS
<1>1. ASSUME NEW j \in Jobs, JobStep(j) PROVE NoneLost'
  BY <1>1, OthersKeep, OwnKeeps DEF NoneLost
<1>2. CASE (\E m \in Movies : DeleteMedia(m)) \/ UNCHANGED mediaVars
  <2>1. UNCHANGED <<device, fileVars, load, writesTo, org, wrote, shared, overlapped, swept>>
    BY <1>2 DEF DeleteMedia, historyVars, marks, mediaVars, device, fileVars
  <2>2. QED
    BY <2>1 DEF NoneLost, KeptAt, HasFile, Excused, OwnsName, InPlace, device, fileVars
<1>3. QED
  BY <1>1, <1>2 DEF MediaFilesNext, JobStep

\* Once an organizer has put something at its target, it has.
LEMMA PlacedStays ==
    ASSUME MediaInv, [MediaFilesNext]_mediaVars, NEW k \in Jobs, Placed(k)
    PROVE  Placed(k)'
<1>1. org \in [Jobs -> OrgRecord] /\ InTurn(k) /\ load \in [Jobs -> 0..Ended]
  BY JobFacts
<1>2. load[k] = Ended /\ Ended # 0 /\ Ended # Parts + 1
  BY <1>1, Names DEF InTurn, Placed
<1>3. CASE \E j \in Jobs \ {k} : JobStep(j)
  <2>1. PICK j \in Jobs \ {k} : JobStep(j)
    BY <1>3
  <2>2. org'[k] = org[k]
    BY <2>1, StepsReach DEF Reach
  <2>3. QED
    BY <2>2 DEF Placed
<1>4. CASE JobStep(k)
  <2>1. CASE Open(k) \/ Write(k) \/ DownloadFails(k)
    BY <2>1 DEF Open, Write, DownloadFails, Placed
  <2>2. CASE DownloadEnds(k)
    BY <1>2, <2>2, Names DEF DownloadEnds
  <2>3. CASE ReadRow(k) \/ StatSource(k) \/ StatTarget(k) \/ RemoveTarget(k) \/ LinkOrRename(k) \/ CreateFile(k)
    BY <2>3 DEF ReadRow, StatSource, StatTarget, RemoveTarget, LinkOrRename, CreateFile, Begins, Placed
  <2>4. CASE Copy(k)
    <3>1. \/ OrganizerGoes(k, "over") \/ OrganizerGoes(k, "unlink")
          \/ org' = [org EXCEPT ![k].pos = org[k].pos + 1]
      BY <2>4 DEF Copy
    <3>2. org'[k].step \in {"over", "unlink", org[k].step}
      BY <1>1, <3>1 DEF OrganizerGoes, OrgRecord
    <3>3. QED
      BY <3>2 DEF Placed
  <2>5. CASE CopyFails(k) \/ RemoveSource(k) \/ CleanupLeftovers(k) \/ UpdateRows(k)
    <3>1. \E step \in {"over", "clean", "row"} : OrganizerGoes(k, step)
      BY <2>5 DEF CopyFails, RemoveSource, CleanupLeftovers, UpdateRows
    <3>2. org'[k].step \in {"over", "clean", "row"}
      BY <1>1, <3>1 DEF OrganizerGoes, OrgRecord
    <3>3. QED
      BY <3>2 DEF Placed
  <2>6. CASE UpdateRow(k)
    <3>1. org' = [org EXCEPT ![k] = [[org[k] EXCEPT !.step = "rows"] EXCEPT !.path = Dst(k)]]
      BY <2>6 DEF UpdateRow
    <3>2. org'[k].step = "rows"
      BY <1>1, <3>1 DEF OrgRecord
    <3>3. QED
      BY <3>2 DEF Placed
  <2>7. QED
    BY <1>4, <2>1, <2>2, <2>3, <2>4, <2>5, <2>6 DEF JobStep, OrganizeStep
<1>5. CASE (\E m \in Movies : DeleteMedia(m)) \/ UNCHANGED mediaVars
  BY <1>5 DEF DeleteMedia, mediaVars, Placed
<1>6. QED
  BY <1>3, <1>4, <1>5 DEF MediaFilesNext, JobStep

\* The first state, and every step.
LEMMA TakenInit == MediaFilesInit => TakenByOthers
<1> SUFFICES ASSUME MediaFilesInit PROVE TakenByOthers
  OBVIOUS
<1>1. \A p \in Targets : entry[p] = 0
  BY Names DEF MediaFilesInit
<1>2. \A j \in Jobs : org[j].step = "off"
  BY DEF MediaFilesInit, At
<1>3. \A m \in Movies : row[m].status = "queued"
  BY DEF MediaFilesInit
<1>4. beaten = {}
  BY DEF MediaFilesInit
<1>5. QED
  BY <1>1, <1>2, <1>3, <1>4 DEF TakenByOthers

LEMMA TakenStep == MediaInv /\ TakenByOthers /\ [MediaFilesNext]_mediaVars => TakenByOthers'
<1> SUFFICES ASSUME MediaInv, TakenByOthers, [MediaFilesNext]_mediaVars PROVE TakenByOthers'
  OBVIOUS
<1>1. /\ org \in [Jobs -> OrgRecord] /\ entry \in [Paths -> 0..Len(inodes)] /\ MediaTypes
      /\ row \in [Movies -> [status : {"queued", "available", "deleted"}, path : Targets \cup {None}]]
  BY DEF MediaInv, MediaTypes, OrgRecord
<1>2. /\ \A p \in Targets : Filled(p) => Filled(p)'
      /\ \A j \in Jobs : BeatenBy(j) => BeatenBy(j)'
  BY PlacedStays DEF Filled, BeatenBy
\* who is beaten, is by another
<1>3. beaten \subseteq beaten' /\ \A j \in beaten' : j \in Jobs /\ BeatenBy(j)'
  <2>1. CASE \E j \in Jobs : StatTarget(j) /\ entry[Dst(j)] # 0
    <3>1. PICK j \in Jobs : StatTarget(j) /\ entry[Dst(j)] # 0
      BY <2>1
    <3>2. beaten' = beaten \cup {j} /\ org[j].step = "target"
      BY <3>1 DEF StatTarget, Begins
    <3>3. Filled(Dst(j)) /\ ~Placed(j)
      BY <3>1, <3>2, Names DEF TakenByOthers, Placed
    <3>4. BeatenBy(j)
      BY <3>3 DEF Filled, BeatenBy
    <3>5. QED
      BY <1>2, <3>2, <3>4 DEF TakenByOthers
  <2>2. CASE ~\E j \in Jobs : StatTarget(j) /\ entry[Dst(j)] # 0
    <3>1. beaten' = beaten
      BY <2>2 DEF MediaFilesNext, mediaVars, marks, historyVars, OrganizeStep, Open, Write, DownloadFails,
         DownloadEnds, ReadRow, StatSource, StatTarget, RemoveTarget, LinkOrRename, CreateFile, Copy, CopyFails,
         RemoveSource, CleanupLeftovers, UpdateRow, UpdateRows, DeleteMedia
    <3>2. QED
      BY <1>2, <3>1 DEF TakenByOthers
  <2>3. QED
    BY <2>1, <2>2
\* who goes on with no path was beaten
<1>4. \A j \in Jobs : org'[j].step = "rows" /\ org'[j].path = None => j \in beaten'
  <2> SUFFICES ASSUME NEW j \in Jobs, org'[j].step = "rows", org'[j].path = None PROVE j \in beaten'
    OBVIOUS
  <2>1. CASE org'[j] = org[j]
    BY <1>3, <2>1 DEF TakenByOthers
  <2>2. CASE StatTarget(j)
    BY <1>1, <2>2 DEF StatTarget, OrganizerGoes, OrgRecord
  <2>3. CASE UpdateRow(j)
    <3>1. org' = [org EXCEPT ![j] = [[org[j] EXCEPT !.step = "rows"] EXCEPT !.path = Dst(j)]]
      BY <2>3 DEF UpdateRow
    <3>2. org'[j].path = Dst(j)
      BY <1>1, <3>1 DEF OrgRecord
    <3>3. QED
      BY <3>2, Names
  <2>4. CASE \E k \in Jobs \ {j} : JobStep(k)
    <3>1. PICK k \in Jobs \ {j} : JobStep(k)
      BY <2>4
    <3>2. org'[j] = org[j]
      BY <3>1, StepsReach DEF Reach
    <3>3. QED
      BY <2>1, <3>2
  <2>5. CASE JobStep(j) /\ ~StatTarget(j) /\ ~UpdateRow(j)
    <3>1. CASE Open(j) \/ Write(j) \/ DownloadFails(j)
      BY <2>1, <3>1 DEF Open, Write, DownloadFails
    <3>2. CASE DownloadEnds(j) \/ ReadRow(j)
      BY <1>1, <3>2 DEF DownloadEnds, ReadRow, OrganizerGoes, OrgRecord, At
    <3>3. CASE StatSource(j) \/ RemoveTarget(j) \/ LinkOrRename(j) \/ CopyFails(j) \/ RemoveSource(j)
               \/ CleanupLeftovers(j) \/ UpdateRows(j)
      <4>1. \E step \in Steps \ {"rows"} : OrganizerGoes(j, step)
        BY <3>3 DEF StatSource, RemoveTarget, LinkOrRename, CopyFails, RemoveSource, CleanupLeftovers, UpdateRows, Steps
      <4>2. org'[j].step # "rows"
        BY <1>1, <4>1 DEF OrganizerGoes, OrgRecord
      <4>3. QED
        BY <4>2
    <3>4. CASE CreateFile(j)
      BY <1>1, <3>4 DEF CreateFile, OrganizerGoes, OrgRecord
    <3>5. CASE Copy(j)
      BY <1>1, <3>5 DEF Copy, OrganizerGoes, OrgRecord, Begins
    <3>6. QED
      BY <2>5, <3>1, <3>2, <3>3, <3>4, <3>5 DEF JobStep, OrganizeStep
  <2>6. CASE (\E m \in Movies : DeleteMedia(m)) \/ UNCHANGED mediaVars
    BY <2>1, <2>6 DEF DeleteMedia, mediaVars
  <2>7. QED
    BY <2>2, <2>3, <2>4, <2>5, <2>6 DEF MediaFilesNext, JobStep
\* and so was who made a movie available with none
<1>5. ASSUME NEW m \in Movies, row'[m].status = "available", row'[m].path = None
      PROVE  \E j \in beaten' : Tmdb[MovieOf[j]] = Tmdb[m]
  <2>1. CASE row'[m] = row[m]
    BY <1>3, <1>5, <2>1 DEF TakenByOthers
  <2>2. CASE \E j \in Jobs : UpdateRows(j)
    <3>1. PICK j \in Jobs : UpdateRows(j)
      BY <2>2
    <3>2. row'[m] = row[m] \/ (m \in Waiting(j) /\ row'[m].path = org[j].path /\ org[j].step = "rows")
      BY <3>1 DEF UpdateRows, Begins
    <3>3. QED
      BY <1>3, <1>5, <2>1, <3>2 DEF TakenByOthers, Waiting
  <2>3. CASE \E j \in Jobs : UpdateRow(j)
    <3>1. PICK j \in Jobs : UpdateRow(j)
      BY <2>3
    <3>2. row'[m] = row[m] \/ row'[m].path = Dst(j)
      BY <1>1, <3>1 DEF UpdateRow
    <3>3. QED
      BY <1>5, <2>1, <3>2, Names
  <2>4. CASE \E n \in Movies : DeleteMedia(n)
    <3>1. row'[m] = row[m] \/ row'[m].status = "deleted"
      BY <1>1, <2>4 DEF DeleteMedia
    <3>2. QED
      BY <1>5, <2>1, <3>1
  <2>5. CASE /\ ~\E j \in Jobs : UpdateRows(j) \/ UpdateRow(j)
             /\ ~\E n \in Movies : DeleteMedia(n)
    <3>1. row' = row
      BY <2>5 DEF MediaFilesNext, mediaVars, OrganizeStep, Open, Write, DownloadFails, DownloadEnds, ReadRow,
         StatSource, StatTarget, RemoveTarget, LinkOrRename, CreateFile, Copy, CopyFails, RemoveSource, CleanupLeftovers
    <3>2. QED
      BY <2>1, <3>1
  <2>6. QED
    BY <2>2, <2>3, <2>4, <2>5
\* a target that is taken was filled
<1>6. ASSUME NEW p \in Targets, entry'[p] # 0 PROVE Filled(p)'
  <2>1. CASE entry[p] # 0
    BY <1>2, <2>1 DEF TakenByOthers
  <2>2. CASE entry[p] = 0
    <3>1. p \in Paths
      BY Names
    <3>2. \E j \in Jobs : (LinkOrRename(j) \/ CreateFile(j)) /\ Dst(j) = p
      <4>1. CASE \E j \in Jobs : JobStep(j)
        <5>1. PICK j \in Jobs : JobStep(j)
          BY <4>1
        <5>2. Dst(j) = p
          BY <1>6, <2>2, <5>1, StepsReach DEF Reach
        <5>3. JobStep(j) => LinkOrRename(j) \/ CreateFile(j)
          <6>1. Open(j) => entry'[p] = entry[p]
            <7>1. source[j] # p
              BY JobFacts, SourceIsOne
            <7>2. QED
              BY <1>1, <3>1, <7>1 DEF Open, fileVars
          <6>2. CleanupLeftovers(j) => entry'[p] = 0
            BY <2>2, <3>1 DEF CleanupLeftovers
          <6>3. RemoveTarget(j) \/ RemoveSource(j) => entry'[p] = 0
            BY <1>1, <2>2, <3>1 DEF RemoveTarget, RemoveSource
          <6>4. QED
            BY <1>6, <2>2, <6>1, <6>2, <6>3 DEF JobStep, OrganizeStep, Write, DownloadFails, DownloadEnds, ReadRow,
               StatSource, StatTarget, Copy, CopyFails, UpdateRow, UpdateRows, fileVars
        <5>4. QED
          BY <5>1, <5>2, <5>3
      <4>2. CASE (\E m \in Movies : DeleteMedia(m)) \/ UNCHANGED mediaVars
        BY <1>6, <2>2, <4>2 DEF DeleteMedia, mediaVars, fileVars
      <4>3. QED
        BY <4>1, <4>2 DEF MediaFilesNext, JobStep
    <3>3. PICK j \in Jobs : (LinkOrRename(j) \/ CreateFile(j)) /\ Dst(j) = p
      BY <3>2
    <3>4. org'[j].step \in {"clean", "copy"}
      BY <1>1, <1>6, <2>2, <3>3 DEF LinkOrRename, CreateFile, OrganizerGoes, OrgRecord, fileVars
    <3>5. QED
      BY <3>3, <3>4 DEF Filled, Placed
  <2>3. QED
    BY <2>1, <2>2
<1>7. QED
  BY <1>3, <1>4, <1>5, <1>6 DEF TakenByOthers

\* All of it holds in every state.
MediaAll == MediaInv /\ NoneLost /\ TakenByOthers
LEMMA MediaAllInit == MediaFilesInit => MediaAll
<1> SUFFICES ASSUME MediaFilesInit PROVE NoneLost
  BY MediaInvInit, TakenInit DEF MediaAll
<1>1. \A j \in Jobs : load[j] = 0 /\ org[j].step = "off"
  BY DEF MediaFilesInit, At
<1>2. QED
  BY <1>1, Names DEF NoneLost, KeptAt, HasFile

LEMMA MediaAllStep == MediaAll /\ [MediaFilesNext]_mediaVars => MediaAll'
  BY MediaStep, NoneLostStep, TakenStep DEF MediaAll

LEMMA MediaInvariant == MediaFilesSpec => []MediaAll
<1>1. QED
  BY MediaAllInit, MediaAllStep, PTL DEF MediaFilesSpec

\* What the invariant says of the properties.
LEMMA MediaSays == MediaAll => MediaFilesTypeOK /\ LibraryFileIsWhole /\ FinishedIsKept
<1> SUFFICES ASSUME MediaAll PROVE MediaFilesTypeOK /\ LibraryFileIsWhole /\ FinishedIsKept
  OBVIOUS
<1>1. MediaInv /\ MediaTypes /\ PerTarget
  BY DEF MediaAll, MediaInv
<1>2. MediaFilesTypeOK
  BY <1>1 DEF MediaFilesTypeOK, MediaTypes
<1>3. LibraryFileIsWhole
  <2> SUFFICES ASSUME NEW m \in Movies, row[m].status = "available"
               PROVE  \/ row[m].path # None /\ row[m].path \in overlapped
                      \/ row[m].path # None /\ HasAll(row[m].path)
                      \/ row[m].path # None /\ entry[row[m].path] \in shared
                      \/ /\ row[m].path = None
                         /\ \E j \in beaten : \E k \in Jobs \ {j} :
                               Tmdb[MovieOf[j]] = Tmdb[m] /\ Dst(k) = Dst(j) /\ Placed(k)
    BY DEF LibraryFileIsWhole
  <2>1. CASE row[m].path = None
    BY <2>1 DEF MediaAll, TakenByOthers, BeatenBy
  <2>2. CASE row[m].path # None /\ row[m].path \notin overlapped
    <3>1. row[m].path \in Targets /\ Claimed(row[m].path)
      BY <1>1, <2>2 DEF MediaTypes, Claimed
    <3>2. Good(row[m].path)
      BY <1>1, <2>2, <3>1 DEF PerTarget, TargetHolds
    <3>3. QED
      BY <2>2, <3>2 DEF Good, HasAll, InPlace
  <2>3. QED
    BY <2>1, <2>2
<1>4. FinishedIsKept
  <2> SUFFICES ASSUME NEW j \in Finished, ~Excused(j)
               PROVE  \E p \in {source[j], Dst(j)} : entry[p] # 0 /\ inodes[entry[p]] = wrote[j]
    BY DEF FinishedIsKept, Excused
  <2>1. j \in Jobs /\ HasFile(j) /\ org[j].step \in Steps
    BY <1>1, JobFacts DEF Finished, HasFile, OrgRecord
  <2>2. OwnsName(j) \/ InPlace(j)
    BY <2>1 DEF MediaAll, NoneLost, KeptAt
  <2>3. writesTo[j] # 0 /\ inodes[writesTo[j]] = wrote[j]
    BY <1>1, <2>1, OwnFile
  <2>4. QED
    BY <2>2, <2>3 DEF OwnsName, InPlace
<1>5. QED
  BY <1>2, <1>3, <1>4

\* For any number of jobs, movies and layouts, on one device or two, whichever parts are faulty:
\* an available movie with a path has all that one download of that target has written, unless its file
\* was shared by two downloads of one name or two organizers both found its target free; and one
\* with no path was made available by a job that found its target taken by another.
THEOREM LibraryIsWhole == MediaFilesSpec => []LibraryFileIsWhole
<1>1. MediaAll => LibraryFileIsWhole
  BY MediaSays
<1>2. QED
  BY <1>1, MediaInvariant, PTL

\* For any number of jobs and layouts: what a download that ended well has written is under its
\* own name or at its target, unless its name looks like a leftover, a clean-up found its
\* file empty, it shares its file, or two organizers both found its target free.
THEOREM FinishedKept == MediaFilesSpec => []FinishedIsKept
<1>1. MediaAll => FinishedIsKept
  BY MediaSays
<1>2. QED
  BY <1>1, MediaInvariant, PTL

\* The media files are well typed, for any number of jobs and movies.
THEOREM MediaTyped == MediaFilesSpec => []MediaFilesTypeOK
<1>1. MediaAll => MediaFilesTypeOK
  BY MediaSays
<1>2. QED
  BY <1>1, MediaInvariant, PTL


-----------------------------------------------------------------------------
(* All components of the library (MCLibrary).                              *)

\* The types of the storage follow from the invariant.
LEMMA StorageSays == StorageInv => StorageTypeOK
<1> SUFFICES ASSUME StorageInv PROVE StorageTypeOK
  OBVIOUS
<1>1. StorageTypes
  BY DEF StorageInv
<1>2. \A p \in Places : path[p] \in 0..Len(body)
  BY <1>1 DEF StorageTypes
<1>3. ASSUME NEW m \in Movers
      PROVE  move[m].step \in {"idle", "read", "write", "copy", "delete", "over"}
  <2>1. move[m] \in Given \cup NotGiven
    BY <1>1 DEF StorageTypes
  <2>2. QED
    BY <2>1 DEF Given, NotGiven
<1>4. QED
  BY <1>2, <1>3 DEF StorageTypeOK

\* Places name files that are there, and movers are at one of their steps, for any locations
\* and movers.
THEOREM StorageTyped == StorageSpec => []StorageTypeOK
<1>1. QED
  BY StorageSays, StorageInvariant, PTL

\* Whichever component a behaviour is one of, all six are well typed.
THEOREM LibraryTyped == LibrarySpec => []Types
<1> DEFINE All == /\ AcquisitionInv /\ SearchInv /\ TurnsInv /\ UsenetInv
                  /\ MediaAll /\ StorageInv /\ DbInv
<1>1. LibraryInit => All
  BY AcquisitionInvInit, SearchInitHolds, UsenetInvInit, MediaAllInit, StorageInvInit, DbInitHolds
     DEF LibraryInit
<1>2. All /\ [LibraryNext]_allVars => All'
  <2> SUFFICES ASSUME All, [LibraryNext]_allVars PROVE All'
    OBVIOUS
  <2>1. /\ [AcquisitionNext]_acquisitionVars /\ [SearchNext]_sessionVars /\ [UsenetNext]_usenetVars
        /\ [MediaFilesNext]_mediaVars /\ [StorageNext]_storageVars /\ [DbNext]_dbVars
    BY DEF LibraryNext, allVars
  <2>2. QED
    BY <2>1, AcquisitionStep, SearchStep, UsenetStep, MediaAllStep, StorageStep, DbStep
<1>3. All => Types
  <2>1. AcquisitionInv => AcquisitionTypeOK
    BY DEF AcquisitionInv, AcquisitionTypes, AcquisitionTypeOK
  <2>2. UsenetInv => UsenetTypeOK
    BY DEF UsenetInv, UsenetTypes, UsenetTypeOK, SegmentWritten
  <2>3. SearchInv => SearchTypeOK
    BY DEF SearchInv
  <2>4. DbInv => DbTypeOK
    BY DEF DbInv
  <2>5. QED
    BY <2>1, <2>2, <2>3, <2>4, MediaSays, StorageSays DEF Types
<1>4. QED
  BY <1>1, <1>2, <1>3, PTL DEF LibrarySpec
=============================================================================
