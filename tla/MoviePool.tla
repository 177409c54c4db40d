------------------------------ MODULE MoviePool ------------------------------
(***************************************************************************)
(* The pool of movies that users share: adding a movie (server/            *)
(* handlers.go), the search for it (automation/manager.go, searchForItem)  *)
(* and the end of its download (download/worker.go, organizeMovie).  Every *)
(* user has a row of his own for a movie; rows of one title have one TMDB  *)
(* id.  Each looks at the others' rows in separate reads of the table,     *)
(* with no lock between them.                                              *)
(*                                                                         *)
(* A row is searched once when it is added, and once more by hand, by      *)
(* searches that may overlap.  Nothing gives a movie the status            *)
(* Downloading.  The watchlist update of these searches addresses row 0    *)
(* and fails.                                                              *)
(***************************************************************************)
EXTENDS Naturals, FiniteSets

CONSTANTS
    Movies,    \* rows of the movies table
    Titles,    \* TMDB ids
    TitleOf,
    ByHand     \* rows somebody may also search by hand

ASSUME PoolAssumption == TitleOf \in [Movies -> Titles] /\ ByHand \subseteq Movies

VARIABLES
    movie,     \* the status of a row, or "none"
    adding,    \* the handler that adds a row: the status it has chosen
    search,    \* a search for a row, and where it is
    job,       \* the download a search has added
    toUpdate       \* rows the organizer of a download still has to update

poolVars == <<movie, adding, search, job, toUpdate>>

Searches == ({"added"} \X Movies) \cup ({"by hand"} \X ByHand)
MovieOf(s) == s[2]
Title(s) == TitleOf[MovieOf(s)]
Rows(title) == {m \in Movies : TitleOf[m] = title}

PoolTypeOK ==
    /\ movie \in [Movies -> {"none", "queued", "available"}]
    /\ adding \in [Movies -> {"no", "queued", "available", "done"}]
    /\ search \in [Searches ->
                    {"off", "available", "others", "search", "linked", "skipped", "over"}]
    /\ job \in [Searches -> {"none", "downloading", "organizing", "failed"}]
    /\ toUpdate \in [Searches -> SUBSET Movies]

PoolInit ==
    /\ movie = [m \in Movies |-> "none"] /\ adding = [m \in Movies |-> "no"]
    /\ search = [s \in Searches |-> "off"]
    /\ job = [s \in Searches |-> "none"] /\ toUpdate = [s \in Searches |-> {}]

SearchGoes(s, step) == search' = [search EXCEPT ![s] = step]
-----------------------------------------------------------------------------
\* Fault: a row that is queued counts as available.
AnyRow(title) == \E n \in Rows(title) : movie[n] # "none"
Available(title) == \E n \in Rows(title) : movie[n] = "available"

\* The handler looks for an available row of the title, then inserts its own.
ChooseStatus(m) ==
    /\ adding[m] = "no"
    /\ adding' = [adding EXCEPT ![m] = IF Available(TitleOf[m]) THEN "available" ELSE "queued"]
    /\ UNCHANGED <<movie, search, job, toUpdate>>
Insert(m) ==
    /\ adding[m] \in {"queued", "available"}
    /\ movie' = [movie EXCEPT ![m] = adding[m]] /\ adding' = [adding EXCEPT ![m] = "done"]
    /\ SearchGoes(<<"added", m>>, "available")
    /\ UNCHANGED <<job, toUpdate>>
SearchByHand(m) ==
    /\ m \in ByHand /\ movie[m] # "none" /\ search[<<"by hand", m>>] = "off"
    /\ SearchGoes(<<"by hand", m>>, "available")
    /\ UNCHANGED <<movie, adding, job, toUpdate>>
-----------------------------------------------------------------------------
\* searchForItem: an available row of the title is linked ...
LookForAvailable(s) ==
    /\ search[s] = "available"
    /\ IF Available(Title(s))
       THEN SearchGoes(s, "linked") /\ movie' = [movie EXCEPT ![MovieOf(s)] = "available"]
       ELSE SearchGoes(s, "others") /\ UNCHANGED movie
    /\ UNCHANGED <<adding, job, toUpdate>>

\* Fault: only rows with the status Downloading count.
NoneWaits(s) == FALSE
\* ... another user's row that is queued (or downloading) ends the search ...
AnotherWaits(s) == \E n \in Rows(Title(s)) \ {MovieOf(s)} : movie[n] = "queued"
LookForOthers(s) ==
    /\ search[s] = "others" /\ SearchGoes(s, IF AnotherWaits(s) THEN "skipped" ELSE "search")
    /\ UNCHANGED <<movie, adding, job, toUpdate>>

\* ... and otherwise the indexers are asked: the best release is downloaded, or there is
\* none, or the job cannot be stored.
Download(s) ==
    /\ search[s] = "search" /\ SearchGoes(s, "over") /\ job' = [job EXCEPT ![s] = "downloading"]
    /\ UNCHANGED <<movie, adding, toUpdate>>
FindNothing(s) ==
    /\ search[s] = "search" /\ SearchGoes(s, "over")
    /\ UNCHANGED <<movie, adding, job, toUpdate>>
-----------------------------------------------------------------------------
\* Fault: only the row that was searched is updated.
OwnRow(s) == {MovieOf(s)} \cap {m \in Movies : movie[m] = "queued"}
\* organizeMovie reads the rows of the title that are not available, then updates each.
RowsToUpdate(s) == {m \in Rows(Title(s)) : movie[m] = "queued"}
OrganizeRows(s) ==
    /\ job[s] = "downloading" /\ job' = [job EXCEPT ![s] = "organizing"]
    /\ toUpdate' = [toUpdate EXCEPT ![s] = RowsToUpdate(s)]
    /\ UNCHANGED <<movie, adding, search>>
\* The download failed, or the organizer found or could place no file: no row changes.
OrganizeFails(s) ==
    /\ job[s] = "downloading" /\ job' = [job EXCEPT ![s] = "failed"]
    /\ UNCHANGED <<movie, adding, search, toUpdate>>
UpdateRow(s, m) ==
    /\ m \in toUpdate[s] /\ toUpdate' = [toUpdate EXCEPT ![s] = @ \ {m}]
    /\ movie' = [movie EXCEPT ![m] = "available"]
    /\ UNCHANGED <<adding, search, job>>
-----------------------------------------------------------------------------
SearchStep(s) == LookForAvailable(s) \/ LookForOthers(s) \/ Download(s) \/ FindNothing(s)
OrganizeStep(s) == OrganizeRows(s) \/ OrganizeFails(s) \/ \E m \in Movies : UpdateRow(s, m)

PoolNext ==
    \/ \E m \in Movies : ChooseStatus(m) \/ Insert(m) \/ SearchByHand(m)
    \/ \E s \in Searches : SearchStep(s) \/ OrganizeStep(s)

\* Searches are goroutines that are scheduled, and downloads end.
PoolFairness == \A s \in Searches : WF_poolVars(SearchStep(s)) /\ WF_poolVars(OrganizeStep(s))

PoolSpec == PoolInit /\ [][PoolNext]_poolVars /\ PoolFairness
-----------------------------------------------------------------------------
\* A row is available only if a download of its title has come to its organizer, whether
\* the row was updated, linked, or inserted that way.
AvailableIsEarned ==
    \A m \in Movies : movie[m] = "available" =>
        \E s \in Searches : Title(s) = TitleOf[m] /\ job[s] = "organizing"

\* Until a download of a title has ended, and unless somebody searches for it by hand, at
\* most one is under way, although every search reads the rows of the others and adds its
\* job in separate steps.
FirstDownloadIsAlone ==
    \A s, u \in Searches :
        /\ Title(s) = Title(u) /\ s # u /\ job[s] = "downloading" /\ job[u] = "downloading"
        => \E v \in Searches :
               /\ Title(v) = Title(s)
               /\ job[v] = "organizing" \/ (v[1] = "by hand" /\ search[v] # "off")

\* A user whose row is queued while another's download of the title is under way gets the
\* movie when that download has been organized, although his own search was skipped.
DownloadIsShared ==
    \A s \in Searches : \A m \in Rows(Title(s)) :
        (job[s] = "downloading" /\ movie[m] = "queued")
            ~> (movie[m] = "available" \/ job[s] = "failed")

\* A search that was skipped because the movie is already being downloaded by another user
\* (automation/manager.go:438) left it to a search that has downloaded it, or still may.
SkippedForAnother ==
    \A s \in Searches : search[s] = "skipped" =>
        \E u \in Searches :
            /\ Title(u) = Title(s) /\ MovieOf(u) # MovieOf(s)
            /\ job[u] # "none" \/ search[u] \in {"off", "available", "others", "search"}
=============================================================================
