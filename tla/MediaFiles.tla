----------------------------- MODULE MediaFiles -----------------------------
(***************************************************************************)
(* The files of the media library: what a usenet job writes, what the      *)
(* organizer goroutine of a finished job does with it (download/worker.go, *)
(* organize/file_organizer.go), and what the rows of the movies promise to *)
(* handleStreamFile.  A hard link gives a file a second name, so what is   *)
(* said of a file is said of an inode.                                     *)
(*                                                                         *)
(* Options are the worker's: UseHardlink and DeleteLeftovers, no           *)
(* Overwrite.  The bytes of a download are its parts, numbered.  A torrent *)
(* hands the organizer a directory, which it refuses.  Episodes are left   *)
(* out: no code makes a row OrganizeEpisode could find.                    *)
(***************************************************************************)
EXTENDS Integers, Sequences, FiniteSets, SequencesExt

CONSTANTS
    Jobs, Movies,
    MovieOf,    \* job -> the movie it is for
    Layouts,    \* functions from a job to the <<directory, name>> its NZB asks for
    Torrents,   \* the jobs that are torrents
    Tmdb,       \* movie -> its TMDB id
    Target,     \* movie -> the path its title, year and quality give
    Parts,      \* parts of a download
    Faulty,     \* the <<job, part>> a server lacks or the disk has no room for
    Leftovers   \* the names of downloads that look like a leftover: *sample*.*, *.part, ...

None == <<>>

ASSUME MediaFilesAssumption ==
    /\ MovieOf \in [Jobs -> Movies] /\ Torrents \subseteq Jobs /\ Parts \in Nat \ {0}
    /\ \A s \in Layouts, j \in Jobs, m \in Movies : s[j] # Target[m]
    /\ \A m \in Movies : Target[m] # None
    /\ Faulty \subseteq Jobs \X (1..Parts)

VARIABLES
    linkable,    \* the library is on the device of the download directory
    source,      \* job -> the file it writes, one of Layouts
    inodes,      \* inode -> its parts, each <<job, part>>, with part 0 for wrong data
    entry,       \* path -> the inode it names, 0 for none
    load,        \* job -> what its download does next
    writesTo,    \* job -> the inode its download writes to
    org,         \* job -> what its organizer does next
    row,         \* movie -> status and path
    (* what has happened, no program variables *)
    wrote,       \* job -> the parts it has written
    shared,      \* inodes that two downloads have made use of, by one name
    overlapped,  \* targets two organizers have taken for free
    beaten,      \* jobs that found their target taken
    swept        \* inodes a clean-up removed the name of while they were empty

mediaVars == <<linkable, source, inodes, entry, load, writesTo, org, row, wrote, shared, overlapped, beaten, swept>>
device == <<linkable, source>>
fileVars == <<inodes, entry>>
marks == <<overlapped, beaten, swept>>
historyVars == <<wrote, shared, marks>>

Ended == Parts + 2
Sources == {s[j] : s \in Layouts, j \in Jobs}
Targets == {Target[m] : m \in Movies}
Paths == Sources \cup Targets
Dst(j) == Target[MovieOf[j]]

\* An organizer: its next step, the path of the record it holds, and of a copy the two
\* open files and the position.
At(step) == [step |-> step, path |-> None, from |-> 0, to |-> 0, pos |-> 0]

MediaFilesInit ==
    /\ linkable \in BOOLEAN /\ source \in Layouts
    /\ inodes = <<>> /\ entry = [p \in Paths |-> 0]
    /\ load = [j \in Jobs |-> 0] /\ writesTo = [j \in Jobs |-> 0]
    /\ org = [j \in Jobs |-> At("off")]
    /\ row = [m \in Movies |-> [status |-> "queued", path |-> None]]
    /\ wrote = [j \in Jobs |-> <<>>]
    /\ shared = {} /\ overlapped = {} /\ beaten = {} /\ swept = {}

-----------------------------------------------------------------------------
(* DownloadAndAssembleNZB opens the file for appending, and writes it.     *)

\* A job that writes its file, or has still to link it, to copy it or to remove its name.
UnderWay(j) ==
    \/ load[j] \in 1..(Parts + 1)
    \/ org[j].step \in {"begin", "stat", "target", "place", "link", "copy", "unlink"}

Open(j) ==
    /\ load[j] = 0 /\ j \notin Torrents
    /\ load' = [load EXCEPT ![j] = 1]
    /\ IF entry[source[j]] = 0
       THEN /\ inodes' = Append(inodes, <<>>)
            /\ entry' = [entry EXCEPT ![source[j]] = Len(inodes')]
       ELSE UNCHANGED fileVars
    /\ writesTo' = [writesTo EXCEPT ![j] = entry'[source[j]]]
    /\ shared' = IF \/ entry[source[j]] # 0
                    \/ \E k \in Jobs \ {j} : source[k] = source[j] /\ UnderWay(k)
                 THEN shared \cup {writesTo'[j]} ELSE shared
    /\ UNCHANGED <<device, org, row, wrote, marks>>

\* The error line of an article the server lacks is written as if it were data, and an
\* error of the file is ignored: the part is right, wrong or missing, and all go on.
Outcomes(j) ==
    {<<<<j, load[j]>>>>} \cup (IF <<j, load[j]>> \in Faulty THEN {<<>>, <<<<j, 0>>>>} ELSE {})
Write(j) ==
    /\ load[j] \in 1..Parts
    /\ \E data \in Outcomes(j) :
          /\ inodes' = [inodes EXCEPT ![writesTo[j]] = @ \o data]
          /\ wrote' = [wrote EXCEPT ![j] = @ \o data]
    /\ load' = [load EXCEPT ![j] = @ + 1]
    /\ UNCHANGED <<device, entry, writesTo, org, row, shared, marks>>

\* the file cannot be opened, or the connection is lost
DownloadFails(j) ==
    /\ load[j] \in 0..Parts
    /\ load' = [load EXCEPT ![j] = Ended]
    /\ UNCHANGED <<device, fileVars, writesTo, org, row, historyVars>>

\* handleCompletion starts the organizer of a download that succeeded
DownloadEnds(j) ==
    /\ load[j] = (IF j \in Torrents THEN 0 ELSE Parts + 1)
    /\ load' = [load EXCEPT ![j] = Ended]
    /\ org' = [org EXCEPT ![j] = At("begin")]
    /\ UNCHANGED <<device, fileVars, writesTo, row, historyVars>>

-----------------------------------------------------------------------------
(* organizeMovie and OrganizeMovie of job j.                               *)

OrganizerGoes(j, step) == org' = [org EXCEPT ![j].step = step]
Begins(j, step) == org[j].step = step
Still == UNCHANGED <<device, load, writesTo>>
\* the organizers that have found the target of job j free and not filled it
Takers(j) == {k \in Jobs \ {j} : Dst(k) = Dst(j) /\ org[k].step \in {"place", "link", "copy"}}

\* the row is read; a row that is gone leaves nothing to organize
ReadRow(j) ==
    /\ Begins(j, "begin")
    /\ IF row[MovieOf[j]].status = "deleted" THEN OrganizerGoes(j, "over")
       ELSE org' = [org EXCEPT ![j] = [At("stat") EXCEPT !.path = row[MovieOf[j]].path]]
    /\ UNCHANGED <<fileVars, row, historyVars>> /\ Still

StatSource(j) ==
    /\ Begins(j, "stat")
    /\ OrganizerGoes(j, IF j \in Torrents \/ entry[source[j]] = 0 THEN "over" ELSE "target")
    /\ UNCHANGED <<fileVars, row, historyVars>> /\ Still

\* a file that is there already counts as organized, whoever put it there
StatTarget(j) ==
    /\ Begins(j, "target")
    /\ OrganizerGoes(j, IF entry[Dst(j)] # 0 THEN "rows" ELSE "place")
    /\ overlapped' = IF entry[Dst(j)] = 0 /\ Takers(j) # {}
                     THEN overlapped \cup {Dst(j)} ELSE overlapped
    /\ beaten' = IF entry[Dst(j)] # 0 THEN beaten \cup {j} ELSE beaten
    /\ UNCHANGED <<fileVars, row, wrote, shared, swept>> /\ Still

\* moveOrLink removes what is at the target by now,
RemoveTarget(j) ==
    /\ Begins(j, "place") /\ OrganizerGoes(j, "link")
    /\ entry' = [entry EXCEPT ![Dst(j)] = 0]
    /\ UNCHANGED <<inodes, row, historyVars>> /\ Still

\* links the source to it, or else renames the source (which two names of a file survive),
LinkOrRename(j) ==
    /\ Begins(j, "link") /\ linkable
    /\ LET from == source[j]
       IN  \/ entry[from] = 0 /\ OrganizerGoes(j, "over") /\ UNCHANGED entry
           \/ /\ entry[from] # 0 /\ OrganizerGoes(j, "clean")
              /\ entry' = CASE entry[Dst(j)] = 0 -> [entry EXCEPT ![Dst(j)] = entry[from]]
                            [] entry[Dst(j)] = entry[from] -> entry
                            [] OTHER -> [entry EXCEPT ![Dst(j)] = entry[from], ![from] = 0]
    /\ UNCHANGED <<inodes, row, historyVars>> /\ Still

\* or else, on another device, creates or truncates the target
CreateFile(j) ==
    LET from == entry[source[j]]  to == IF entry[Dst(j)] = 0 THEN Len(inodes) + 1 ELSE entry[Dst(j)]
    IN  /\ Begins(j, "link") /\ ~linkable
        /\ IF from = 0 THEN OrganizerGoes(j, "over") /\ UNCHANGED fileVars
           ELSE /\ org' = [org EXCEPT ![j].step = "copy", ![j].from = from, ![j].to = to,
                                    ![j].pos = 0]
                /\ inodes' = IF entry[Dst(j)] = 0 THEN Append(inodes, <<>>) ELSE [inodes EXCEPT ![to] = <<>>]
                /\ entry' = [entry EXCEPT ![Dst(j)] = to]
        /\ shared' = IF from \in shared THEN shared \cup {to} ELSE shared
        /\ UNCHANGED <<row, wrote, marks>> /\ Still

PutPart(data, n, part) == IF n <= Len(data) THEN [data EXCEPT ![n] = part] ELSE Append(data, part)

\* and copies into it, part by part, until the end of the source.  Both files are
\* open, so the copy goes on if others remove them; a source without a name is an error.
Copy(j) ==
    LET data == inodes[org[j].from]  n == org[j].pos + 1
    IN  /\ Begins(j, "copy")
        /\ IF n <= Len(data)
           THEN /\ org' = [org EXCEPT ![j].pos = n]
                /\ inodes' = [inodes EXCEPT ![org[j].to] = PutPart(@, n, data[n])]
                /\ shared' = IF org[j].from \in shared THEN shared \cup {org[j].to} ELSE shared
           ELSE /\ OrganizerGoes(j, IF entry[source[j]] = 0 THEN "over" ELSE "unlink")
                /\ UNCHANGED <<inodes, shared>>
        /\ UNCHANGED <<entry, row, wrote, marks>> /\ Still

\* Fault: what was copied counts.
CopyFailsOn(j) ==
    /\ Begins(j, "copy") /\ OrganizerGoes(j, "row")
    /\ UNCHANGED <<fileVars, row, historyVars>> /\ Still
\* an error leaves what was copied
CopyFails(j) ==
    /\ Begins(j, "copy") /\ OrganizerGoes(j, "over")
    /\ UNCHANGED <<fileVars, row, historyVars>> /\ Still

RemoveSource(j) ==
    /\ Begins(j, "unlink")
    /\ OrganizerGoes(j, IF entry[source[j]] = 0 THEN "over" ELSE "clean")
    /\ entry' = [entry EXCEPT ![source[j]] = 0]
    /\ UNCHANGED <<inodes, row, historyVars>> /\ Still

IsEmpty(p) == entry[p] # 0 /\ inodes[entry[p]] = <<>>
\* Fault: the size of a file is not looked at.
EveryFile(j) == {p \in Sources : p[1] = source[j][1]}
\* what the patterns match in the directory, and what is empty there
Removable(j) == {p \in Sources : p[1] = source[j][1] /\ (p \in Leftovers \/ IsEmpty(p))}
\* CleanupLeftovers removes it; a removal that fails is only logged
CleanupLeftovers(j) ==
    /\ Begins(j, "clean") /\ OrganizerGoes(j, "row")
    /\ \E gone \in SUBSET Removable(j) :
          /\ entry' = [p \in Paths |-> IF p \in gone THEN 0 ELSE entry[p]]
          /\ swept' = swept \cup {entry[q] : q \in {p \in gone : IsEmpty(p)}}
    /\ UNCHANGED <<inodes, row, wrote, shared, overlapped, beaten>> /\ Still

\* the movie's own row, unless it was deleted
UpdateRow(j) ==
    /\ Begins(j, "row")
    /\ org' = [org EXCEPT ![j].step = "rows", ![j].path = Dst(j)]
    /\ row' = IF row[MovieOf[j]].status = "deleted" THEN row
              ELSE [row EXCEPT ![MovieOf[j]] = [status |-> "available", path |-> Dst(j)]]
    /\ UNCHANGED <<fileVars, historyVars>> /\ Still

Waiting(j) == {m \in Movies : Tmdb[m] = Tmdb[MovieOf[j]] /\ row[m].status = "queued"}

\* and those of the movies with its TMDB id that wait, with the path of the
\* record the organizer holds
UpdateRows(j) ==
    /\ Begins(j, "rows") /\ OrganizerGoes(j, "over")
    /\ row' = [m \in Movies |-> IF m \in Waiting(j)
                                THEN [status |-> "available", path |-> org[j].path] ELSE row[m]]
    /\ UNCHANGED <<fileVars, historyVars>> /\ Still

DeleteMedia(m) ==
    /\ row[m].status # "deleted"
    /\ row' = [row EXCEPT ![m] = [status |-> "deleted", path |-> None]]
    /\ UNCHANGED <<device, fileVars, load, writesTo, org, historyVars>>

OrganizeStep(j) ==
    \/ ReadRow(j) \/ StatSource(j) \/ StatTarget(j) \/ RemoveTarget(j)
    \/ LinkOrRename(j) \/ CreateFile(j) \/ Copy(j) \/ CopyFails(j)
    \/ RemoveSource(j) \/ CleanupLeftovers(j) \/ UpdateRow(j) \/ UpdateRows(j)

MediaFilesNext ==
    \/ \E j \in Jobs : Open(j) \/ Write(j) \/ DownloadFails(j) \/ DownloadEnds(j) \/ OrganizeStep(j)
    \/ \E m \in Movies : DeleteMedia(m)

MediaFilesSpec == MediaFilesInit /\ [][MediaFilesNext]_mediaVars

-----------------------------------------------------------------------------
MediaFilesTypeOK ==
    /\ \A p \in Paths : entry[p] \in 0..Len(inodes)
    /\ \A m \in Movies : row[m].status \in {"queued", "available", "deleted"}
    /\ \A m \in Movies : row[m].path \in Targets \cup {None}

\* Downloads that ended well, and the target with all that one of its own has written.
Finished == {j \in Jobs \ Torrents : org[j].step # "off"}
HasAll(p) == entry[p] # 0 /\ \E j \in Finished : Dst(j) = p /\ inodes[entry[p]] = wrote[j]
\* An organizer that has come as far as to put something at its target.
Placed(k) == org[k].step \in {"copy", "unlink", "clean", "row", "rows", "over"}

\* What handleStreamFile finds at the path of an available movie is all that one download
\* of that target has written.  Three things can spoil it: another download of the same name,
\* which appends to the file the hard link shares with the download directory or puts its own
\* in the place of one that was removed; two organizers that both found the target free; and
\* an organizer that found the target taken, whatever is there (a copy that failed leaves a
\* part of a file): it makes the movie available with no path at all, which takes a second
\* job of that target.  Nothing else does, whatever the order of downloads, copies,
\* failures, clean-ups and deletions.
LibraryFileIsWhole ==
    \A m \in Movies : row[m].status = "available" =>
        LET p == row[m].path
        IN  \/ p # None /\ p \in overlapped
            \/ p # None /\ HasAll(p)
            \/ p # None /\ entry[p] \in shared
            \/ /\ p = None
               /\ \E j \in beaten : \E k \in Jobs \ {j} :
                     Tmdb[MovieOf[j]] = Tmdb[m] /\ Dst(k) = Dst(j) /\ Placed(k)

\* What a download that ended well has written is never lost: it is under its own name or at its
\* target, through links, renames, copies that fail and clean-ups.  The exceptions are a name
\* that looks like a leftover, which any clean-up of the directory removes with what it has
\* (file_organizer.go:484-511); a file that a clean-up found empty, so one just opened
\* (529); a file two downloads share; a target two organizers found free.
FinishedIsKept ==
    \A j \in Finished :
        \/ \E p \in {source[j], Dst(j)} : entry[p] # 0 /\ inodes[entry[p]] = wrote[j]
        \/ source[j] \in Leftovers \/ writesTo[j] \in swept
        \/ writesTo[j] \in shared \/ Dst(j) \in overlapped

=============================================================================
