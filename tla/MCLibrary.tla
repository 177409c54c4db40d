----------------------------- MODULE MCLibrary -----------------------------
(***************************************************************************)
(* The components between a user's watchlist and a file of the library:    *)
(* acquisition, interactive search, the usenet client, the media files,    *)
(* the storage manager and the tables of the database.  They share nothing *)
(* that their properties are about, so a behaviour is one of a single      *)
(* component, with the others in one of their initial states.              *)
(***************************************************************************)
EXTENDS Acquisition, SearchHub, UsenetClient, MediaFiles, StorageManager, DbTables

CONSTANTS i1, i2, r1, r2, j1, j2, m1, m2

VARIABLE turn   \* the component this behaviour is one of

\* Two items, one added by a user, and two releases, one without a GUID.
MCItems == {i1, i2}
MCByUser == {i1}
MCReleases == {r1, r2}
MCUnnamed == {r2}
MCMatches == {<<i1, r1>>, <<i1, r2>>, <<i2, r2>>}

\* Two movies of one TMDB id, whose jobs write one file, or two of one directory, one of
\* which may be named like a leftover; the server lacks a part of one.
MCMovies == {m1, m2}
MCMovieOf == (j1 :> m1) @@ (j2 :> m2)
MCTmdb == [m \in MCMovies |-> 1]
MCTarget == [m \in MCMovies |-> <<"library", "movie">>]
MCLayouts == {(j1 :> <<"release", "a">>) @@ (j2 :> <<"release", n>>) : n \in {"a", "b", "b.sample.mkv"}}
             \cup {(j1 :> <<"release", "a">>) @@ (j2 :> <<"another", "a">>)}
MCLeftovers == {<<"release", "b.sample.mkv">>}
MCFaulty == {<<j1, 1>>}

\* Two files; two locations of the configuration and one of the database.
MCConfigRoots == <<"a", "b">>
MCDbRoots == (1 :> "c")
MCStored == (<<"a", 1>> :> "f") @@ (<<"b", 2>> :> "g")

\* An article nobody has, one with a line that starts with a dot, one that is not yEnc.
MCSegments == <<2>>
MCMissing == {<<j1, 1, 1>>}
MCDotted == {<<j2, 1, 2>>}
MCPlain == {<<j1, 1, 2>>}

allVars == <<acquisitionVars, sessionVars, usenetVars, mediaVars, storageVars, dbVars, turn>>

\* A component at rest starts in one state only.
AtRest ==
    /\ turn # "search" => enabled = {} /\ http = "off"
    /\ turn # "files" => linkable /\ source = (j1 :> <<"release", "a">>) @@ (j2 :> <<"release", "a">>)
    /\ turn # "storage" => 1 \in DOMAIN backends

LibraryInit ==
    /\ turn \in {"acquisition", "search", "usenet", "files", "storage", "tables"}
    /\ AcquisitionInit /\ SearchInit /\ UsenetInit /\ MediaFilesInit /\ StorageInit /\ DbInit
    /\ AtRest
LibraryNext ==
    /\ UNCHANGED turn
    /\ \/ /\ turn = "acquisition" /\ AcquisitionNext
          /\ UNCHANGED <<sessionVars, usenetVars, mediaVars, storageVars, dbVars>>
       \/ /\ turn = "search" /\ SearchNext
          /\ UNCHANGED <<acquisitionVars, usenetVars, mediaVars, storageVars, dbVars>>
       \/ /\ turn = "usenet" /\ UsenetNext
          /\ UNCHANGED <<acquisitionVars, sessionVars, mediaVars, storageVars, dbVars>>
       \/ /\ turn = "files" /\ MediaFilesNext
          /\ UNCHANGED <<acquisitionVars, sessionVars, usenetVars, storageVars, dbVars>>
       \/ /\ turn = "storage" /\ StorageNext
          /\ UNCHANGED <<acquisitionVars, sessionVars, usenetVars, mediaVars, dbVars>>
       \/ /\ turn = "tables" /\ DbNext
          /\ UNCHANGED <<acquisitionVars, sessionVars, usenetVars, mediaVars, storageVars>>
LibrarySpec == LibraryInit /\ [][LibraryNext]_allVars

\* All components are well typed.
Types ==
    /\ AcquisitionTypeOK /\ SearchTypeOK /\ UsenetTypeOK
    /\ MediaFilesTypeOK /\ StorageTypeOK /\ DbTypeOK
=============================================================================
