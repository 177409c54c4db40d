--------------------------- MODULE MoviePool_proofs ---------------------------
(***************************************************************************)
(* Safety of the shared pool of movies, for any rows, titles and searches  *)
(* by hand.                                                                *)
(***************************************************************************)
EXTENDS MoviePool, TLAPS

\* The download of a title has ended at least once.
Ended(title) == \E s \in Searches : Title(s) = title /\ job[s] = "organizing"
\* Somebody searches, or has searched, for a title by hand.
HandSearched(title) ==
    \E v \in Searches : Title(v) = title /\ v[1] = "by hand" /\ search[v] # "off"

\* A search asks the indexers, or has a download under way.
Active(s) == search[s] = "search" \/ job[s] = "downloading"

AddedLater == \A m \in Movies : adding[m] # "done" => search[<<"added", m>>] = "off"
RowsAreThere == \A s \in Searches : search[s] # "off" => movie[MovieOf(s)] # "none"
JobsComeLast == \A s \in Searches : job[s] # "none" => search[s] = "over"
ChoiceIsEarned ==
    \A m \in Movies : movie[m] = "available" \/ adding[m] = "available" => Ended(TitleOf[m])
UpdatesAreEarned == \A s \in Searches : toUpdate[s] # {} => job[s] = "organizing"
UpdatesAreOfTitle == \A s \in Searches : \A m \in toUpdate[s] : TitleOf[m] = Title(s)
\* Of the searches for a title that was never downloaded nor searched by hand, at most one
\* got past the rows of the others.
FirstIsAlone ==
    \A s, u \in Searches :
        Title(s) = Title(u) /\ s # u /\ Active(s) /\ Active(u)
            => Ended(Title(s)) \/ HandSearched(Title(s))

Inv ==
    /\ PoolTypeOK /\ AddedLater /\ RowsAreThere /\ JobsComeLast
    /\ ChoiceIsEarned /\ UpdatesAreEarned /\ UpdatesAreOfTitle /\ FirstIsAlone

LEMMA SearchNames ==
  ASSUME NEW s \in Searches
  PROVE  MovieOf(s) \in Movies /\ Title(s) = TitleOf[MovieOf(s)] /\ Title(s) \in Titles
  BY PoolAssumption DEF Searches, MovieOf, Title

LEMMA PairOf == ASSUME NEW A, NEW B, NEW x \in A \X B PROVE x = <<x[1], x[2]>> /\ x[1] \in A
  OBVIOUS

LEMMA SearchPair ==
  ASSUME NEW s \in Searches
  PROVE  s = <<s[1], s[2]>> /\ s[1] \in {"added", "by hand"}
<1>1. s \in {"added"} \X Movies \/ s \in {"by hand"} \X ByHand
  BY DEF Searches
<1>2. s = <<s[1], s[2]>> /\ (s[1] \in {"added"} \/ s[1] \in {"by hand"})
  BY <1>1, PairOf
<1>3. QED
  BY <1>2

LEMMA InitInv == PoolInit => Inv
<1> SUFFICES ASSUME PoolInit PROVE Inv
  OBVIOUS
<1>1. PoolTypeOK
  BY DEF PoolInit, PoolTypeOK
<1>2. AddedLater /\ RowsAreThere /\ JobsComeLast /\ UpdatesAreEarned /\ UpdatesAreOfTitle /\ FirstIsAlone
  BY DEF PoolInit, AddedLater, RowsAreThere, JobsComeLast, UpdatesAreEarned, UpdatesAreOfTitle,
     FirstIsAlone, Active, Searches
<1>3. ChoiceIsEarned
  BY DEF PoolInit, ChoiceIsEarned
<1>4. QED
  BY <1>1, <1>2, <1>3 DEF Inv

\* How a handler that adds a row, or a user who searches, moves the pool.
LEMMA AddStep ==
  ASSUME PoolTypeOK, AddedLater, NEW m \in Movies,
         ChooseStatus(m) \/ Insert(m) \/ SearchByHand(m)
  PROVE  /\ job' = job /\ toUpdate' = toUpdate /\ PoolTypeOK' /\ AddedLater'
         /\ \A s \in Searches : search'[s] # search[s] =>
                search[s] = "off" /\ search'[s] = "available" /\ movie'[MovieOf(s)] # "none"
         /\ \A n \in Movies : movie[n] # "none" => movie'[n] # "none"
         /\ \A n \in Movies : movie'[n] = "available" =>
                movie[n] = "available" \/ adding[n] = "available"
         /\ \A n \in Movies : adding'[n] = "available" =>
                adding[n] = "available" \/ Available(TitleOf[n])
<1>0. Searches = ({"added"} \X Movies) \cup ({"by hand"} \X ByHand)
  BY DEF Searches
<1>1. CASE ChooseStatus(m)
  BY <1>1 DEF ChooseStatus, PoolTypeOK, AddedLater
<1>2. CASE Insert(m)
  <2>1. <<"added", m>> \in Searches /\ MovieOf(<<"added", m>>) = m /\ search[<<"added", m>>] = "off"
    BY <1>0, <1>2 DEF Insert, AddedLater, MovieOf
  <2>2. job' = job /\ toUpdate' = toUpdate /\ movie' = [movie EXCEPT ![m] = adding[m]]
        /\ adding' = [adding EXCEPT ![m] = "done"]
        /\ search' = [search EXCEPT ![<<"added", m>>] = "available"]
        /\ adding[m] \in {"queued", "available"}
    BY <1>2 DEF Insert, SearchGoes
  <2>3. PoolTypeOK'
    BY <2>1, <2>2 DEF PoolTypeOK
  <2>4. AddedLater'
    BY <2>1, <2>2 DEF PoolTypeOK, AddedLater
  <2>5. \A s \in Searches : search'[s] # search[s] => s = <<"added", m>>
    BY <2>1, <2>2 DEF PoolTypeOK
  <2>6. movie'[m] # "none" /\ search'[<<"added", m>>] = "available"
    BY <2>1, <2>2 DEF PoolTypeOK
  <2>7. \A n \in Movies : /\ movie[n] # "none" => movie'[n] # "none"
                          /\ movie'[n] = "available" => movie[n] = "available" \/ adding[n] = "available"
                          /\ adding'[n] = "available" => adding[n] = "available"
    BY <2>2 DEF PoolTypeOK
  <2>8. QED
    BY <2>1, <2>2, <2>3, <2>4, <2>5, <2>6, <2>7
<1>3. CASE SearchByHand(m)
  <2>1. <<"by hand", m>> \in Searches /\ MovieOf(<<"by hand", m>>) = m
    BY <1>0, <1>3 DEF SearchByHand, MovieOf
  <2>2. search' = [search EXCEPT ![<<"by hand", m>>] = "available"] /\ search[<<"by hand", m>>] = "off"
        /\ movie[m] # "none" /\ UNCHANGED <<movie, adding, job, toUpdate>>
    BY <1>3 DEF SearchByHand, SearchGoes
  <2>3. PoolTypeOK'
    BY <2>1, <2>2 DEF PoolTypeOK
  <2>4. AddedLater'
    BY <2>1, <2>2, <1>0 DEF PoolTypeOK, AddedLater
  <2>5. \A s \in Searches : search'[s] # search[s] => s = <<"by hand", m>>
    BY <2>1, <2>2 DEF PoolTypeOK
  <2>6. search'[<<"by hand", m>>] = "available"
    BY <2>1, <2>2 DEF PoolTypeOK
  <2>7. QED
    BY <2>1, <2>2, <2>3, <2>4, <2>5, <2>6
<1>4. QED
  BY <1>1, <1>2, <1>3

\* How a search moves the pool.
LEMMA SearchMove ==
  ASSUME PoolTypeOK, AddedLater, NEW s \in Searches, search[s] # "off" => movie[MovieOf(s)] # "none",
         SearchStep(s)
  PROVE  /\ PoolTypeOK' /\ AddedLater' /\ toUpdate' = toUpdate /\ adding' = adding /\ search[s] # "off"
         /\ search[s] # "over" /\ search'[s] # "off"
         /\ \A u \in Searches \ {s} : search'[u] = search[u] /\ job'[u] = job[u]
         /\ search'[s] = "search" => search[s] = "others" /\ ~AnotherWaits(s) /\ movie' = movie
         /\ job'[s] # job[s] => search[s] = "search" /\ search'[s] = "over" /\ job'[s] = "downloading"
         /\ \A n \in Movies : movie[n] # "none" => movie'[n] # "none"
         /\ \A n \in Movies : movie'[n] = "available" =>
                movie[n] = "available" \/ (TitleOf[n] = Title(s) /\ Available(Title(s)))
<1> USE SearchNames
<1>1. CASE LookForAvailable(s)
  <2>1. PICK step \in {"linked", "others"} : search' = [search EXCEPT ![s] = step]
    BY <1>1 DEF LookForAvailable, SearchGoes
  <2>2. job' = job /\ toUpdate' = toUpdate /\ adding' = adding /\ search[s] = "available"
    BY <1>1 DEF LookForAvailable
  <2>3. movie' = movie \/ (movie' = [movie EXCEPT ![MovieOf(s)] = "available"] /\ Available(Title(s)))
    BY <1>1 DEF LookForAvailable
  <2>4. PoolTypeOK'
    BY <2>1, <2>2, <2>3 DEF PoolTypeOK
  <2>5. AddedLater'
    BY <2>1, <2>2 DEF PoolTypeOK, AddedLater
  <2>6. search'[s] = step /\ \A u \in Searches \ {s} : search'[u] = search[u]
    BY <2>1 DEF PoolTypeOK
  <2>7. \A n \in Movies : /\ movie[n] # "none" => movie'[n] # "none"
                          /\ movie'[n] = "available" =>
                                movie[n] = "available" \/ (n = MovieOf(s) /\ Available(Title(s)))
    BY <2>3 DEF PoolTypeOK
  <2>8. QED
    BY <2>2, <2>4, <2>5, <2>6, <2>7
<1>2. CASE LookForOthers(s)
  <2>1. PICK step \in {"skipped", "search"} :
            search' = [search EXCEPT ![s] = step] /\ (step = "search" => ~AnotherWaits(s))
    BY <1>2 DEF LookForOthers, SearchGoes
  <2>2. UNCHANGED <<movie, adding, job, toUpdate>> /\ search[s] = "others"
    BY <1>2 DEF LookForOthers
  <2>3. PoolTypeOK' /\ AddedLater'
    BY <2>1, <2>2 DEF PoolTypeOK, AddedLater
  <2>4. search'[s] = step /\ \A u \in Searches \ {s} : search'[u] = search[u]
    BY <2>1 DEF PoolTypeOK
  <2>5. QED
    BY <2>1, <2>2, <2>3, <2>4
<1>3. CASE Download(s) \/ FindNothing(s)
  <2>1. search' = [search EXCEPT ![s] = "over"] /\ UNCHANGED <<movie, adding, toUpdate>> /\ search[s] = "search"
    BY <1>3 DEF Download, FindNothing, SearchGoes
  <2>2. job' = job \/ job' = [job EXCEPT ![s] = "downloading"]
    BY <1>3 DEF Download, FindNothing
  <2>3. PoolTypeOK' /\ AddedLater'
    BY <2>1, <2>2 DEF PoolTypeOK, AddedLater
  <2>4. search'[s] = "over" /\ \A u \in Searches \ {s} : search'[u] = search[u] /\ job'[u] = job[u]
    BY <2>1, <2>2 DEF PoolTypeOK
  <2>5. job'[s] # job[s] => job'[s] = "downloading"
    BY <2>2 DEF PoolTypeOK
  <2>6. QED
    BY <2>1, <2>3, <2>4, <2>5
<1>4. QED
  BY <1>1, <1>2, <1>3 DEF SearchStep

\* How the organizer of a download moves the pool.
LEMMA OrganizeMove ==
  ASSUME PoolTypeOK, UpdatesAreEarned, UpdatesAreOfTitle, NEW s \in Searches, OrganizeStep(s)
  PROVE  /\ PoolTypeOK' /\ UpdatesAreEarned' /\ UpdatesAreOfTitle'
         /\ adding' = adding /\ search' = search
         /\ \A u \in Searches : job'[u] # job[u] =>
               job[u] = "downloading" /\ job'[u] \notin {"none", "downloading"}
         /\ \A n \in Movies : movie[n] # "none" => movie'[n] # "none"
         /\ \A n \in Movies : movie'[n] = "available" =>
                movie[n] = "available" \/ (TitleOf[n] = Title(s) /\ job[s] = "organizing")
<1> USE SearchNames
<1>1. CASE OrganizeRows(s)
  <2>1. RowsToUpdate(s) \subseteq Movies /\ \A m \in RowsToUpdate(s) : TitleOf[m] = Title(s)
    BY DEF RowsToUpdate, Rows
  <2>2. job' = [job EXCEPT ![s] = "organizing"] /\ toUpdate' = [toUpdate EXCEPT ![s] = RowsToUpdate(s)]
        /\ UNCHANGED <<movie, adding, search>> /\ job[s] = "downloading"
    BY <1>1 DEF OrganizeRows
  <2>3. PoolTypeOK'
    BY <2>1, <2>2 DEF PoolTypeOK
  <2>4. \A u \in Searches : job'[u] = (IF u = s THEN "organizing" ELSE job[u])
            /\ toUpdate'[u] = (IF u = s THEN RowsToUpdate(s) ELSE toUpdate[u])
    BY <2>2 DEF PoolTypeOK
  <2>5. UpdatesAreEarned'
    BY <2>4 DEF UpdatesAreEarned
  <2>6. UpdatesAreOfTitle'
    BY <2>1, <2>4 DEF UpdatesAreOfTitle, Title, MovieOf
  <2>7. QED
    BY <2>2, <2>3, <2>4, <2>5, <2>6
<1>2. ASSUME NEW m \in Movies, UpdateRow(s, m) PROVE
         /\ PoolTypeOK' /\ UpdatesAreEarned' /\ UpdatesAreOfTitle'
         /\ adding' = adding /\ search' = search /\ job' = job
         /\ \A n \in Movies : movie[n] # "none" => movie'[n] # "none"
         /\ \A n \in Movies : movie'[n] = "available" =>
                movie[n] = "available" \/ (TitleOf[n] = Title(s) /\ job[s] = "organizing")
  <2>1. m \in toUpdate[s] /\ toUpdate' = [toUpdate EXCEPT ![s] = toUpdate[s] \ {m}]
        /\ movie' = [movie EXCEPT ![m] = "available"] /\ UNCHANGED <<adding, search, job>>
    BY <1>2 DEF UpdateRow
  <2>2. job[s] = "organizing" /\ TitleOf[m] = Title(s)
    BY <2>1 DEF UpdatesAreEarned, UpdatesAreOfTitle
  <2>3. PoolTypeOK'
    BY <2>1 DEF PoolTypeOK
  <2>4. \A u \in Searches : toUpdate'[u] \subseteq toUpdate[u]
    BY <2>1 DEF PoolTypeOK
  <2>5. UpdatesAreEarned' /\ UpdatesAreOfTitle'
    BY <2>1, <2>4 DEF UpdatesAreEarned, UpdatesAreOfTitle, Title, MovieOf
  <2>6. QED
    BY <2>1, <2>2, <2>3, <2>5 DEF PoolTypeOK
<1>3. CASE OrganizeFails(s)
  <2>1. job' = [job EXCEPT ![s] = "failed"] /\ UNCHANGED <<movie, adding, search, toUpdate>>
        /\ job[s] = "downloading"
    BY <1>3 DEF OrganizeFails
  <2>2. PoolTypeOK'
    BY <2>1 DEF PoolTypeOK
  <2>3. \A u \in Searches : job'[u] = (IF u = s THEN "failed" ELSE job[u])
    BY <2>1 DEF PoolTypeOK
  <2>4. UpdatesAreEarned' /\ UpdatesAreOfTitle'
    BY <2>1, <2>3 DEF UpdatesAreEarned, UpdatesAreOfTitle, Title, MovieOf
  <2>5. QED
    BY <2>1, <2>2, <2>3, <2>4
<1>4. QED
  BY <1>1, <1>2, <1>3 DEF OrganizeStep

\* What has ended, or was searched by hand, stays so.
LEMMA PastStays ==
  ASSUME NEW title,
         \A s \in Searches : job[s] = "organizing" => job'[s] = "organizing",
         \A s \in Searches : search[s] # "off" => search'[s] # "off"
  PROVE  (Ended(title) => Ended(title)') /\ (HandSearched(title) => HandSearched(title)')
  BY DEF Ended, HandSearched, Title, MovieOf

\* An available row of a title shows that its download has ended.
LEMMA AvailableMeansEnded ==
  ASSUME ChoiceIsEarned, NEW title, Available(title) PROVE Ended(title)
  BY DEF Available, ChoiceIsEarned, Rows

\* Of two searches for a title, each active or about to be, the later one sees the row of
\* the earlier one.
LEMMA SecondSeesFirst ==
  ASSUME PoolTypeOK, RowsAreThere, JobsComeLast, ChoiceIsEarned,
         NEW s \in Searches, NEW u \in Searches, Title(s) = Title(u), s # u,
         search[s] = "others", ~AnotherWaits(s), Active(u)
  PROVE  Ended(Title(s)) \/ HandSearched(Title(s))
<1>1. search[u] # "off"
  BY DEF Active, JobsComeLast
<1>2. CASE MovieOf(u) = MovieOf(s)
  <2>1. s[1] = "by hand" \/ u[1] = "by hand"
    BY <1>2, SearchPair DEF MovieOf
  <2>2. QED
    BY <1>1, <2>1 DEF HandSearched
<1>3. CASE MovieOf(u) # MovieOf(s)
  <2>1. movie[MovieOf(u)] # "none" /\ MovieOf(u) \in Rows(Title(s)) \ {MovieOf(s)}
    BY <1>1, <1>3, SearchNames DEF RowsAreThere, Rows
  <2>2. movie[MovieOf(u)] = "available"
    BY <2>1, SearchNames DEF AnotherWaits, PoolTypeOK
  <2>3. QED
    BY <2>2, SearchNames DEF ChoiceIsEarned
<1>4. QED
  BY <1>2, <1>3

LEMMA NextInv == Inv /\ [PoolNext]_poolVars => Inv'
<1> SUFFICES ASSUME Inv, [PoolNext]_poolVars PROVE Inv'
  OBVIOUS
<1> USE DEF Inv
<1>1. ASSUME NEW m \in Movies, ChooseStatus(m) \/ Insert(m) \/ SearchByHand(m) PROVE Inv'
  <2>1. /\ job' = job /\ toUpdate' = toUpdate /\ PoolTypeOK' /\ AddedLater'
        /\ \A s \in Searches : search'[s] # search[s] =>
               search[s] = "off" /\ search'[s] = "available" /\ movie'[MovieOf(s)] # "none"
        /\ \A n \in Movies : movie[n] # "none" => movie'[n] # "none"
        /\ \A n \in Movies : movie'[n] = "available" => movie[n] = "available" \/ adding[n] = "available"
        /\ \A n \in Movies : adding'[n] = "available" => adding[n] = "available" \/ Available(TitleOf[n])
    BY <1>1, AddStep
  <2>2. \A title : (Ended(title) => Ended(title)') /\ (HandSearched(title) => HandSearched(title)')
    BY <2>1, PastStays
  <2>3. RowsAreThere'
    BY <2>1, SearchNames DEF RowsAreThere, MovieOf
  <2>4. JobsComeLast'
    BY <2>1 DEF JobsComeLast
  <2>5. ChoiceIsEarned'
    BY <2>1, <2>2, AvailableMeansEnded DEF ChoiceIsEarned
  <2>6. UpdatesAreEarned' /\ UpdatesAreOfTitle'
    BY <2>1 DEF UpdatesAreEarned, UpdatesAreOfTitle, Title, MovieOf
  <2>7. \A s \in Searches : Active(s)' => Active(s)
    BY <2>1 DEF Active
  <2>8. FirstIsAlone'
    BY <2>2, <2>7 DEF FirstIsAlone, Title, MovieOf
  <2>9. QED
    BY <2>1, <2>3, <2>4, <2>5, <2>6, <2>8
<1>2. ASSUME NEW s \in Searches, SearchStep(s) PROVE Inv'
  <2>1. /\ PoolTypeOK' /\ AddedLater' /\ toUpdate' = toUpdate /\ adding' = adding /\ search[s] # "off"
        /\ search[s] # "over" /\ search'[s] # "off"
        /\ \A u \in Searches \ {s} : search'[u] = search[u] /\ job'[u] = job[u]
        /\ search'[s] = "search" => search[s] = "others" /\ ~AnotherWaits(s) /\ movie' = movie
        /\ job'[s] # job[s] => search[s] = "search" /\ search'[s] = "over" /\ job'[s] = "downloading"
        /\ \A n \in Movies : movie[n] # "none" => movie'[n] # "none"
        /\ \A n \in Movies : movie'[n] = "available" =>
               movie[n] = "available" \/ (TitleOf[n] = Title(s) /\ Available(Title(s)))
    <3>1. search[s] # "off" => movie[MovieOf(s)] # "none"
      BY DEF RowsAreThere
    <3>2. QED
      BY <1>2, <3>1, SearchMove
  <2>2. job[s] = "none"
    BY <2>1 DEF JobsComeLast
  <2>3. \A title : (Ended(title) => Ended(title)') /\ (HandSearched(title) => HandSearched(title)')
    BY <2>1, <2>2, PastStays
  <2>4. RowsAreThere'
    BY <2>1, SearchNames DEF RowsAreThere, MovieOf
  <2>5. JobsComeLast'
    BY <2>1, <2>2 DEF JobsComeLast
  <2>6. ChoiceIsEarned'
    BY <2>1, <2>3, AvailableMeansEnded DEF ChoiceIsEarned
  <2>7. UpdatesAreEarned'
    BY <2>1, <2>2 DEF UpdatesAreEarned
  <2>8. UpdatesAreOfTitle'
    BY <2>1 DEF UpdatesAreOfTitle, Title, MovieOf
  <2>9. FirstIsAlone'
    <3> SUFFICES ASSUME NEW t \in Searches, NEW u \in Searches, Title(t) = Title(u), t # u,
                        Active(t)', Active(u)'
                 PROVE  Ended(Title(t))' \/ HandSearched(Title(t))'
      BY DEF FirstIsAlone, Title, MovieOf
    <3>1. \A v \in Searches : Active(v)' => Active(v) \/ (v = s /\ search'[s] = "search")
      BY <2>1, <2>2 DEF Active
    <3>2. CASE Active(t) /\ Active(u)
      BY <3>2, <2>3 DEF FirstIsAlone
    <3>3. CASE t = s /\ search'[s] = "search" /\ Active(u)
      BY <3>3, <2>1, <2>3, SecondSeesFirst
    <3>4. CASE u = s /\ search'[s] = "search" /\ Active(t)
      BY <3>4, <2>1, <2>3, SecondSeesFirst
    <3>5. QED
      BY <3>1, <3>2, <3>3, <3>4
  <2>10. QED
    BY <2>1, <2>4, <2>5, <2>6, <2>7, <2>8, <2>9
<1>3. ASSUME NEW s \in Searches, OrganizeStep(s) PROVE Inv'
  <2>1. /\ PoolTypeOK' /\ UpdatesAreEarned' /\ UpdatesAreOfTitle'
        /\ adding' = adding /\ search' = search
        /\ \A u \in Searches : job'[u] # job[u] =>
               job[u] = "downloading" /\ job'[u] \notin {"none", "downloading"}
        /\ \A n \in Movies : movie[n] # "none" => movie'[n] # "none"
        /\ \A n \in Movies : movie'[n] = "available" =>
               movie[n] = "available" \/ (TitleOf[n] = Title(s) /\ job[s] = "organizing")
    BY <1>3, OrganizeMove
  <2>2. \A title : (Ended(title) => Ended(title)') /\ (HandSearched(title) => HandSearched(title)')
    BY <2>1, PastStays
  <2>3. AddedLater' /\ RowsAreThere'
    BY <2>1, SearchNames DEF AddedLater, RowsAreThere, MovieOf
  <2>4. JobsComeLast'
    BY <2>1 DEF JobsComeLast
  <2>5. \A n \in Movies : movie'[n] = "available" => Ended(TitleOf[n])
    BY <2>1 DEF ChoiceIsEarned, Ended
  <2>6. ChoiceIsEarned'
    BY <2>1, <2>2, <2>5 DEF ChoiceIsEarned
  <2>7. \A u \in Searches : Active(u)' => Active(u)
    BY <2>1 DEF Active
  <2>8. FirstIsAlone'
    BY <2>2, <2>7 DEF FirstIsAlone, Title, MovieOf
  <2>9. QED
    BY <2>1, <2>3, <2>4, <2>6, <2>8
<1>4. CASE UNCHANGED poolVars
  <2>1. movie' = movie /\ adding' = adding /\ search' = search /\ job' = job /\ toUpdate' = toUpdate
    BY <1>4 DEF poolVars
  <2>2. \A title : (Ended(title) => Ended(title)') /\ (HandSearched(title) => HandSearched(title)')
    BY <2>1, PastStays
  <2>3. PoolTypeOK' /\ AddedLater' /\ RowsAreThere' /\ JobsComeLast'
    BY <2>1 DEF PoolTypeOK, AddedLater, RowsAreThere, JobsComeLast, MovieOf
  <2>4. ChoiceIsEarned' /\ UpdatesAreEarned' /\ UpdatesAreOfTitle'
    BY <2>1, <2>2 DEF ChoiceIsEarned, UpdatesAreEarned, UpdatesAreOfTitle, Title, MovieOf
  <2>5. FirstIsAlone'
    BY <2>1, <2>2 DEF FirstIsAlone, Active, Title, MovieOf
  <2>6. QED
    BY <2>3, <2>4, <2>5
<1>5. QED
  BY <1>1, <1>2, <1>3, <1>4 DEF PoolNext

LEMMA SpecInv == PoolSpec => []Inv
  BY InitInv, NextInv, PTL DEF PoolSpec

\* Every reachable state is well typed.
THEOREM PoolTypes == PoolSpec => []PoolTypeOK
<1>1. Inv => PoolTypeOK
  BY DEF Inv
<1>2. QED
  BY <1>1, SpecInv, PTL

\* However handlers, searches and organizers interleave, a movie is available only after a
\* download of its title has ended (searchForItem's and handleAddMovie's links).
THEOREM AvailabilityIsEarned == PoolSpec => []AvailableIsEarned
<1>1. Inv => AvailableIsEarned
  BY DEF Inv, ChoiceIsEarned, AvailableIsEarned, Ended
<1>2. QED
  BY <1>1, SpecInv, PTL

\* Reading the rows of the others before the indexers are asked is enough, without a lock,
\* to keep a second download of a title from starting, up to searches by hand.
THEOREM FirstIsNotDoubled == PoolSpec => []FirstDownloadIsAlone
<1>1. Inv => FirstDownloadIsAlone
  BY DEF Inv, FirstIsAlone, FirstDownloadIsAlone, Active, Ended, HandSearched
<1>2. QED
  BY <1>1, SpecInv, PTL
===============================================================================
