------------------------------ MODULE Settings ------------------------------
(***************************************************************************)
(* The settings table and the handlers that read and write it (server/     *)
(* handlers.go): handlePatchSettings takes its keys one by one, looks each *)
(* up and updates or inserts it; an administrator lists the versions of a  *)
(* key and handleRollbackSetting writes the value of one.  A failed write  *)
(* of a patch is only logged, and the patch is answered "updated".         *)
(*                                                                         *)
(* The table is a library's: a call of it is one step, Insert refuses a    *)
(* key that is there, Update keeps what it replaces as a version, and any  *)
(* write may fail.  MaxVersions of the versions are kept.                  *)
(***************************************************************************)
EXTENDS Integers, Sequences

CONSTANTS
    SettingKeys, SettingValues,
    Admins,        \* requests
    Patch,         \* what a request sets: a function on some of the keys
    MaxVersions,
    MaxUpdates     \* bound of the writes of a key

NoKeyYet == "nokey"
NoValue == "novalue"

ASSUME SettingsAssumption ==
    /\ MaxVersions \in Nat \ {0} /\ MaxUpdates \in Nat
    /\ \A a \in Admins : /\ DOMAIN Patch[a] \subseteq SettingKeys
                         /\ \A k \in DOMAIN Patch[a] : Patch[a][k] \in SettingValues

VARIABLES
    past,       \* all values a key has had; the last is the current one
    request,    \* a request: its step, its key, and the value it is to write
    version,    \* the version a rollback is asked for
    todo,       \* keys a patch has still to do
    stored,     \* pairs of a request and a key it has written
    refused,    \* pairs whose insert was refused, the key being there
    broken      \* pairs whose write has failed

settingsVars == <<past, request, version, todo, stored, refused, broken>>

At(step, k, v) == [at |-> step, key |-> k, value |-> v]
Between == At("patch", NoKeyYet, NoValue)

SettingsInit ==
    /\ past = [k \in SettingKeys |-> <<>>]
    /\ request = [a \in Admins |-> At("idle", NoKeyYet, NoValue)]
    /\ version = [a \in Admins |-> 0] /\ todo = [a \in Admins |-> {}]
    /\ stored = {} /\ refused = {} /\ broken = {}

Present(k) == past[k] # <<>>
Kept(k) == {n \in 1..Len(past[k]) : n >= Len(past[k]) - MaxVersions}
Moves(a, to) == request' = [request EXCEPT ![a] = to]
Stores(a, k) ==
    /\ Len(past[k]) < MaxUpdates
    /\ past' = [past EXCEPT ![k] = Append(@, request[a].value)]
    /\ stored' = stored \cup {<<a, k>>}
-----------------------------------------------------------------------------
\* handlePatchSettings begins, takes the keys in any order, and looks each up.
StartPatch(a) ==
    /\ request[a].at = "idle" /\ Moves(a, Between)
    /\ todo' = [todo EXCEPT ![a] = DOMAIN Patch[a]]
    /\ UNCHANGED <<past, version, stored, refused, broken>>
LookUp(a, k) ==
    /\ request[a].at = "patch" /\ k \in todo[a]
    /\ Moves(a, At(IF Present(k) THEN "update" ELSE "insert", k, Patch[a][k]))
    /\ todo' = [todo EXCEPT ![a] = @ \ {k}]
    /\ UNCHANGED <<past, version, stored, refused, broken>>

\* Fault: a key that cannot be written is the last one.
GivesUp(a) == todo' = [todo EXCEPT ![a] = {}]
GoesOn(a) == UNCHANGED todo

UpdateSetting(a) ==
    LET k == request[a].key
    IN  /\ request[a].at = "update" /\ Moves(a, Between)
        /\ \/ Stores(a, k) /\ UNCHANGED <<todo, broken>>
           \/ broken' = broken \cup {<<a, k>>} /\ GoesOn(a) /\ UNCHANGED <<past, stored>>
        /\ UNCHANGED <<version, refused>>
InsertSetting(a) ==
    LET k == request[a].key
    IN  /\ request[a].at = "insert" /\ Moves(a, Between)
        /\ \/ ~Present(k) /\ Stores(a, k) /\ UNCHANGED <<todo, refused, broken>>
           \/ /\ Present(k) /\ refused' = refused \cup {<<a, k>>} /\ GoesOn(a)
              /\ UNCHANGED <<past, stored, broken>>
           \/ /\ broken' = broken \cup {<<a, k>>} /\ GoesOn(a)
              /\ UNCHANGED <<past, stored, refused>>
        /\ UNCHANGED version
AnswerUpdated(a) ==
    /\ request[a].at = "patch" /\ todo[a] = {} /\ Moves(a, At("updated", NoKeyYet, NoValue))
    /\ UNCHANGED <<past, version, todo, stored, refused, broken>>
-----------------------------------------------------------------------------
\* handleGetSettingVersions: the versions of a key, of which one is chosen.
ListVersions(a, k) ==
    /\ request[a].at = "idle" /\ Moves(a, At("chosen", k, NoValue))
    /\ \E n \in Kept(k) : version' = [version EXCEPT ![a] = n]
    /\ UNCHANGED <<past, todo, stored, refused, broken>>
\* handleRollbackSetting reads the version, which may be gone by then, looks the setting up
\* and writes the value into it; an error is answered here.
ReadVersion(a) ==
    LET k == request[a].key
    IN  /\ request[a].at = "chosen"
        /\ Moves(a, IF version[a] \in Kept(k) THEN At("rollback", k, past[k][version[a]])
                    ELSE At("failed", NoKeyYet, NoValue))
        /\ UNCHANGED <<past, version, todo, stored, refused, broken>>
WriteBack(a) ==
    /\ request[a].at = "rollback"
    /\ \/ Stores(a, request[a].key) /\ Moves(a, At("rolled back", request[a].key, request[a].value))
       \/ Moves(a, At("failed", NoKeyYet, NoValue)) /\ UNCHANGED <<past, stored>>
    /\ UNCHANGED <<version, todo, refused, broken>>

SettingsNext ==
    \E a \in Admins :
        \/ StartPatch(a) \/ UpdateSetting(a) \/ InsertSetting(a) \/ AnswerUpdated(a)
        \/ ReadVersion(a) \/ WriteBack(a)
        \/ \E k \in SettingKeys : LookUp(a, k) \/ ListVersions(a, k)
SettingsSpec == SettingsInit /\ [][SettingsNext]_settingsVars
-----------------------------------------------------------------------------
RequestSteps == {"idle", "patch", "update", "insert", "updated",
                 "chosen", "rollback", "rolled back", "failed"}
Pairs == Admins \X SettingKeys
SettingsTypeOK ==
    /\ past \in [SettingKeys -> Seq(SettingValues)]
    /\ request \in [Admins -> [at : RequestSteps, key : SettingKeys \cup {NoKeyYet},
                               value : SettingValues \cup {NoValue}]]
    /\ version \in [Admins -> Nat] /\ todo \in [Admins -> SUBSET SettingKeys]
    /\ stored \subseteq Pairs /\ refused \subseteq Pairs /\ broken \subseteq Pairs

\* A patch that was answered "updated" has written each of its keys, but for those whose
\* own write failed, or which another request inserted between its look-up and its insert.
UpdatedIsWritten ==
    \A a \in Admins : request[a].at = "updated" =>
        \A k \in DOMAIN Patch[a] :
            \/ <<a, k>> \in stored \cup broken
            \/ <<a, k>> \in refused /\ \E b \in Admins \ {a} : <<b, k>> \in stored
=============================================================================
