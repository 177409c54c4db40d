----------------------------- MODULE EventFeed -----------------------------
(***************************************************************************)
(* What the server's websocket hub promises: a feed of numbered events     *)
(* that reach every member in order and without a gap, or cost it its      *)
(* membership.  One who left may still hear what was due to him, and       *)
(* nothing of what came after.                                             *)
(***************************************************************************)
EXTENDS Naturals

CONSTANTS Clients

VARIABLES
    published,  \* events so far
    passed,     \* those that were passed on to the members
    member,
    due,        \* the last event passed on to a client
    heard       \* the last one it has heard

feed == <<published, passed, member, due, heard>>

Init ==
    /\ published = 0 /\ passed = 0 /\ member = {}
    /\ due = [c \in Clients |-> 0] /\ heard = [c \in Clients |-> 0]

Publish ==
    published' = published + 1 /\ UNCHANGED <<passed, member, due, heard>>

\* A client hears what is passed on after it has joined.
Join(c) ==
    /\ c \notin member /\ member' = member \cup {c}
    /\ due' = [due EXCEPT ![c] = passed] /\ heard' = [heard EXCEPT ![c] = passed]
    /\ UNCHANGED <<published, passed>>

Leave(c) ==
    member' = member \ {c} /\ UNCHANGED <<published, passed, due, heard>>

\* An event goes to every member that does not lose its membership over it.
PassOn ==
    /\ passed < published /\ passed' = passed + 1
    /\ \E out \in SUBSET member :
        /\ member' = member \ out
        /\ due' = [c \in Clients |-> IF c \in member' THEN passed' ELSE due[c]]
    /\ UNCHANGED <<published, heard>>

Hear(c) ==
    /\ heard[c] < due[c] /\ heard' = [heard EXCEPT ![c] = @ + 1]
    /\ UNCHANGED <<published, passed, member, due>>

Next == Publish \/ PassOn \/ \E c \in Clients : Join(c) \/ Leave(c) \/ Hear(c)

Spec == Init /\ [][Next]_feed
=============================================================================
