--------------------------- MODULE StorageManager ---------------------------
(***************************************************************************)
(* The storage manager (storage/manager.go) over local backends            *)
(* (storage/local): the maps Initialize fills, the backend a location is   *)
(* given, and MoveFile, which any number of callers may be in at a time.   *)
(*                                                                         *)
(* A location is known by its id, and the locations of the configuration   *)
(* are all made with id zero: the map keeps the last one, and every one of *)
(* them is given its backend.  A file is an inode, so that a mover goes on *)
(* reading and writing one that others have removed or truncated.          *)
(***************************************************************************)
EXTENDS Naturals, SequencesExt, FiniteSets

CONSTANTS
    ConfigRoots,   \* the paths of the configuration's locations, in order
    DbRoots,       \* id -> the path of a location of the database
    Keys, Movers,
    Stored,        \* <<root, key>> -> the file that is there at first
    Chunks         \* chunks of a file

Locations == [id : {0}, root : Range(ConfigRoots)]
             \cup {[id |-> i, root |-> DbRoots[i]] : i \in DOMAIN DbRoots}
Places == {l.root : l \in Locations} \X Keys

ASSUME StorageAssumption ==
    /\ ConfigRoots \in Seq(Range(ConfigRoots)) /\ ConfigRoots # <<>>
    /\ 0 \notin DOMAIN DbRoots /\ Chunks \in Nat \ {0}
    /\ IsFiniteSet(DOMAIN Stored) /\ DOMAIN Stored \subseteq Places
    /\ \A p, q \in DOMAIN Stored : Stored[p] = Stored[q] => p = q

VARIABLES
    backends,   \* id -> the root of its backend; a function that grows
    shut,       \* Close has been called
    path,       \* <<root, key>> -> the inode there, 0 for none
    body,       \* inode -> its chunks
    move,       \* mover -> the step it is at and what it works on
    panicked    \* a caller wrote to the map Close has dropped

storageVars == <<backends, shut, path, body, move, panicked>>

Files == Range(Stored)
Whole(f) == [n \in 1..Chunks |-> <<f, n>>]

Inodes == CHOOSE s \in [1..Cardinality(DOMAIN Stored) -> DOMAIN Stored] :
              Range(s) = DOMAIN Stored

\* loadConfigLocations, then loadDatabaseLocations, which can fail and is then
\* only logged: its locations get their backends when they are first used
Loaded(withDatabase) ==
    [i \in {0} \cup (IF withDatabase THEN DOMAIN DbRoots ELSE {}) |->
        IF i = 0 THEN ConfigRoots[Len(ConfigRoots)] ELSE DbRoots[i]]

StorageInit ==
    /\ \E b \in BOOLEAN : backends = Loaded(b)
    /\ shut = FALSE /\ panicked = FALSE
    /\ body = [n \in DOMAIN Inodes |-> Whole(Stored[Inodes[n]])]
    /\ path = [p \in Places |-> IF p \in DOMAIN Stored
                                THEN CHOOSE n \in DOMAIN Inodes : Inodes[n] = p ELSE 0]
    /\ move = [m \in Movers |-> [step |-> "idle"]]

-----------------------------------------------------------------------------
(* MoveFile(from, to, fromKey, toKey).                                     *)

MoveGoes(m, step) == move' = [move EXCEPT ![m].step = step]
MoveIsAt(m, step) == move[m].step = step

\* The root GetBackendForLocation gives a location: the backend under its id, or a
\* new one that it adds.  Two callers may both add one; the second stays.
RootFor(l) == IF l.id \in DOMAIN backends THEN backends[l.id] ELSE l.root
Added(ls) == [i \in DOMAIN backends \cup {l.id : l \in ls} |->
                 IF i \in DOMAIN backends THEN backends[i]
                 ELSE (CHOOSE l \in ls : l.id = i).root]

BeginMove(m, from, to, fromKey, toKey) ==
    /\ MoveIsAt(m, "idle")
    /\ LET missing == {l \in {from, to} : l.id \notin DOMAIN backends}
       IN  IF shut /\ missing # {}
           THEN panicked' = TRUE /\ MoveGoes(m, "over") /\ UNCHANGED backends
           ELSE /\ backends' = Added(missing)
                /\ move' = [move EXCEPT ![m] =
                       [step |-> "read", src |-> <<RootFor(from), fromKey>>,
                        dst |-> <<RootFor(to), toKey>>, in |-> 0, out |-> 0, pos |-> 0]]
                /\ UNCHANGED panicked
    /\ UNCHANGED <<shut, path, body>>

OpenSource(m) ==
    /\ MoveIsAt(m, "read")
    /\ LET i == path[move[m].src]
       IN  IF i = 0 THEN MoveGoes(m, "over")
           ELSE move' = [move EXCEPT ![m].step = "write", ![m].in = i]
    /\ UNCHANGED <<backends, shut, path, body, panicked>>

\* os.Create truncates the file that is there
CreateTarget(m) ==
    /\ MoveIsAt(m, "write")
    /\ LET p == move[m].dst  i == IF path[p] = 0 THEN Len(body) + 1 ELSE path[p]
       IN  /\ body' = IF path[p] = 0 THEN Append(body, <<>>) ELSE [body EXCEPT ![i] = <<>>]
           /\ path' = [path EXCEPT ![p] = i]
           /\ move' = [move EXCEPT ![m].step = "copy", ![m].out = i]
    /\ UNCHANGED <<backends, shut, panicked>>

PutChunk(data, n, c) == IF n <= Len(data) THEN [data EXCEPT ![n] = c] ELSE Append(data, c)

CopyChunk(m) ==
    /\ MoveIsAt(m, "copy")
    /\ LET from == body[move[m].in]  n == move[m].pos + 1
       IN  IF n <= Len(from)
           THEN /\ body' = [body EXCEPT ![move[m].out] = PutChunk(@, n, from[n])]
                /\ move' = [move EXCEPT ![m].pos = n]
           ELSE MoveGoes(m, "delete") /\ UNCHANGED body
    /\ UNCHANGED <<backends, shut, path, panicked>>

\* Fault: the source is deleted all the same.
WriteFailsOn(m) ==
    /\ move[m].step \in {"write", "copy"} /\ MoveGoes(m, "delete")
    /\ UNCHANGED <<backends, shut, path, body, panicked>>
\* the error is returned, and the source stays
WriteFails(m) ==
    /\ move[m].step \in {"write", "copy"} /\ MoveGoes(m, "over")
    /\ UNCHANGED <<backends, shut, path, body, panicked>>

\* an error here is only logged: the source stays, and the move counts as done
DeleteSource(m) ==
    /\ MoveIsAt(m, "delete") /\ MoveGoes(m, "over")
    /\ path' = [path EXCEPT ![move[m].src] = 0] \/ UNCHANGED path
    /\ UNCHANGED <<backends, shut, body, panicked>>

CloseStorage ==
    /\ ~shut /\ shut' = TRUE
    /\ backends' = <<>>
    /\ UNCHANGED <<path, body, move, panicked>>

StorageNext ==
    \/ \E m \in Movers :
          \/ \E from, to \in Locations, k, l \in Keys : BeginMove(m, from, to, k, l)
          \/ OpenSource(m) \/ CreateTarget(m) \/ CopyChunk(m)
          \/ WriteFails(m) \/ DeleteSource(m)
    \/ CloseStorage

StorageSpec == StorageInit /\ [][StorageNext]_storageVars

-----------------------------------------------------------------------------
StorageTypeOK ==
    /\ \A p \in Places : path[p] \in 0..Len(body)
    /\ \A m \in Movers : move[m].step \in {"idle", "read", "write", "copy", "delete", "over"}

Ends(m) == IF "src" \in DOMAIN move[m] THEN {move[m].src, move[m].dst} ELSE {}
Kept(f) == \E p \in Places : path[p] # 0 /\ body[path[p]] = Whole(f)
Home(f) == CHOOSE p \in DOMAIN Stored : Stored[p] = f

\* No move loses a file, whichever of its steps fails or is slow, unless a move was told
\* to write where the file was, or two moves shared a place.  Moving a file between two
\* locations of the configuration is told to: both have the backend of id zero.
MoveKeepsContent ==
    \A f \in Files :
        \/ Kept(f)
        \/ \E m \in Movers : move[m].step # "idle" /\ Home(f) \in Ends(m) /\ move[m].dst = Home(f)
        \/ \E m, n \in Movers : m # n /\ Ends(m) \cap Ends(n) # {}

=============================================================================
