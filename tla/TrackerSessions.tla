-------------------------- MODULE TrackerSessions --------------------------
(***************************************************************************)
(* The manager of the private trackers (tracker/manager.go) and the        *)
(* sessions its trackers keep (tracker/tracker.go and the five kinds of    *)
(* tracker).  A login reads the configuration without a lock, asks the     *)
(* server, and writes the cookie or key it got into the configuration that *)
(* is there by then; authMu, which is to serialize logins, is never taken. *)
(*                                                                         *)
(* A credential is the account it is for.  Callers name a tracker by the   *)
(* id its configuration has.  Close of a tracker does nothing, and         *)
(* requests (Get, Post, searches) and announces only read what Sent lists. *)
(* Configurations that come with a cookie or passkey are left out.         *)
(***************************************************************************)
EXTENDS Naturals

CONSTANTS
    TrackerIds,
    Configs,      \* configurations callers give: kind, account, what it has, enabled
    Askers,       \* callers of the manager and of its trackers
    MaxTrackers   \* trackers that are registered or in use

Nobody == "nobody"
TrackerKinds == {"basic", "anonamouse", "redacted", "btn", "torrentleech"}

ASSUME TrackersAssumption ==
    /\ MaxTrackers \in Nat
    /\ \A c \in Configs : c.kind \in TrackerKinds /\ {c.password, c.apiKey, c.enabled} \subseteq BOOLEAN

VARIABLES
    tracker,    \* Manager.trackers: id -> the number of a tracker, or 0
    object,     \* the trackers that were created, in MaxTrackers places
    asker,      \* Authenticate, RefreshAuth and Test in progress
    overtaken,  \* trackers given another configuration during a login
    session     \* tracker -> the account it was last marked as authenticated for

sessionsVars == <<tracker, object, asker, overtaken, session>>

Numbers == 0..MaxTrackers
NotAsking == [op |-> "none", step |-> "idle", obj |-> 0, rest |-> {}, as |-> Nobody, stale |-> FALSE]

\* NewBaseTracker and SetConfig keep a copy of the configuration.
Copied(c) ==
    [account |-> c.account, enabled |-> c.enabled,
     user |-> IF c.password THEN c.account ELSE Nobody, key |-> IF c.apiKey THEN c.account ELSE Nobody,
     passkey |-> Nobody, cookie |-> Nobody, expiry |-> "none"]
Create(c) == [kind |-> c.kind, conf |-> Copied(c), authed |-> FALSE]

\* NewManager registers the enabled trackers of the configuration.
TrackersInit ==
    /\ \E n \in [TrackerIds -> Numbers], f \in [1..MaxTrackers -> Configs] :
          /\ tracker = n /\ object = [k \in 1..MaxTrackers |-> Create(f[k])]
          /\ \A i, j \in TrackerIds : n[i] # 0 => f[n[i]].enabled /\ (n[i] = n[j] => i = j)
    /\ asker = [p \in Askers |-> NotAsking]
    /\ overtaken = {} /\ session = [k \in 1..MaxTrackers |-> Nobody]
-----------------------------------------------------------------------------
\* The manager changes its maps under a lock, which TestAll holds for reading while it tests.
Locked == \E p \in Askers : asker[p].op = "testAll"
\* A new tracker takes the place of one that is neither registered as another nor in use.
InUse(i, n) ==
    \/ \E j \in TrackerIds \ {i} : tracker[j] = n
    \/ \E p \in Askers : asker[p].obj = n \/ n \in asker[p].rest
Registers(i, c) ==
    /\ \E n \in 1..MaxTrackers :
          /\ ~InUse(i, n)
          /\ object' = [object EXCEPT ![n] = Create(c)] /\ tracker' = [tracker EXCEPT ![i] = n]
          /\ session' = [session EXCEPT ![n] = Nobody] /\ overtaken' = overtaken \ {n}
    /\ UNCHANGED asker
AddTracker(i, c) == ~Locked /\ tracker[i] = 0 /\ Registers(i, c)
\* A tracker of an unknown type is not created, and the old one stays.
UpdateTracker(i, c) == ~Locked /\ tracker[i] # 0 /\ Registers(i, c)
RemoveTracker(i) ==
    /\ ~Locked /\ tracker[i] # 0 /\ tracker' = [tracker EXCEPT ![i] = 0]
    /\ UNCHANGED <<object, asker, overtaken, session>>

\* Fault: a tracker stays authenticated with a new configuration.
StaysAuthed(o) == o.authed
AuthedAfterSet(o) == FALSE
SetConfig(i, c) ==
    /\ ~Locked /\ tracker[i] # 0
    /\ LET n == tracker[i]
       IN  /\ object' = [object EXCEPT ![n].conf = Copied(c), ![n].authed = AuthedAfterSet(object[n])]
           /\ asker' = [p \in Askers |-> [asker[p] EXCEPT !.stale = @ \/ asker[p].obj = n]]
           /\ overtaken' = overtaken \ {n}
    /\ UNCHANGED <<tracker, session>>
-----------------------------------------------------------------------------
Enabled == {n \in {tracker[i] : i \in TrackerIds} \ {0} : object[n].conf.enabled}
FirstStep == [auth |-> "auth", refresh |-> "refresh", test |-> "test", authAll |-> "auth", testAll |-> "test"]
Asks(p, op, n, rest) ==
    asker' = [asker EXCEPT ![p] = [op |-> op, step |-> FirstStep[op], obj |-> n,
                                   rest |-> rest, as |-> Nobody, stale |-> FALSE]]

\* Authenticate, RefreshAuth and Test of a tracker; AuthenticateAll and TestAll take the
\* enabled ones in any order.
Ask(p) ==
    /\ asker[p].step = "idle"
    /\ \/ \E i \in TrackerIds, op \in {"auth", "refresh", "test"} :
             tracker[i] # 0 /\ Asks(p, op, tracker[i], {})
       \/ \E n \in Enabled, op \in {"authAll", "testAll"} : Asks(p, op, n, Enabled \ {n})
    /\ UNCHANGED <<tracker, object, overtaken, session>>

\* A call is over, and so is the asker's unless there are more trackers to ask.
Over(p) ==
    IF asker[p].rest = {} THEN asker' = [asker EXCEPT ![p] = NotAsking]
    ELSE \E n \in asker[p].rest : Asks(p, asker[p].op, n, asker[p].rest \ {n})
Goes(p, step) == asker' = [asker EXCEPT ![p].step = step]
\* A call reads the credential it goes on with.
ReadsCredential(p, step, as) == asker' = [asker EXCEPT ![p].step = step, ![p].as = as, ![p].stale = FALSE]

Of(p) == object[asker[p].obj]
AtStep(p, step) == asker[p].step = step /\ UNCHANGED <<tracker, object, overtaken, session>>

IsAuthenticated(o) == o.authed /\ o.conf.expiry # "past"
\* RefreshAuth does nothing for RED and basic trackers.  To BTN no expiry is as good as a near
\* one; AnonaMouse waits until the session is over.
BtnRefreshes(o) == ~IsAuthenticated(o) \/ o.conf.expiry # "far"
TorrentLeechRefreshes(o) == ~IsAuthenticated(o) \/ o.conf.expiry = "soon"
AnonMouseRefreshes(o) == ~IsAuthenticated(o)
Refresh(p) ==
    /\ AtStep(p, "refresh")
    /\ IF CASE Of(p).kind = "btn"          -> BtnRefreshes(Of(p))
            [] Of(p).kind = "torrentleech" -> TorrentLeechRefreshes(Of(p))
            [] Of(p).kind = "anonamouse"   -> AnonMouseRefreshes(Of(p))
            [] OTHER                       -> FALSE
       THEN Goes(p, "auth") ELSE Over(p)

\* What Authenticate does with a configuration: fail, mark the tracker as authenticated, or
\* ask the server, and for which account.
Fail == <<"fail", Nobody>>
BasicAuth(c) == <<"mark", c.user>>
RedactedAuth(c) == IF c.key = Nobody THEN Fail ELSE <<"mark", c.key>>
BtnAuth(c) == IF c.user # Nobody THEN <<"login", c.user>> ELSE RedactedAuth(c)
AnonMouseAuth(c) == IF c.user # Nobody THEN <<"login", c.user>> ELSE Fail
TorrentLeechAuth(c) == IF c.key # Nobody THEN <<"mark", c.key>> ELSE AnonMouseAuth(c)
GoesOn(p, how) == IF how = Fail THEN Over(p) ELSE ReadsCredential(p, how[1], how[2])
Authenticate(p) ==
    /\ AtStep(p, "auth")
    /\ LET c == Of(p).conf
       IN  CASE Of(p).kind = "basic"        -> GoesOn(p, BasicAuth(c))
             [] Of(p).kind = "redacted"     -> GoesOn(p, RedactedAuth(c))
             [] Of(p).kind = "btn"          -> GoesOn(p, BtnAuth(c))
             [] Of(p).kind = "anonamouse"   -> GoesOn(p, AnonMouseAuth(c))
             [] Of(p).kind = "torrentleech" -> GoesOn(p, TorrentLeechAuth(c))

\* Test: BTN and TorrentLeech only mark a tracker that has a key, AnonaMouse and they log in
\* otherwise; the tests of RED and basic trackers change nothing.
KeyTest(p, c) == IF c.key # Nobody THEN ReadsCredential(p, "mark", c.key) ELSE Goes(p, "auth")
Test(p) ==
    /\ AtStep(p, "test")
    /\ CASE Of(p).kind \in {"btn", "torrentleech"} -> KeyTest(p, Of(p).conf)
         [] Of(p).kind = "anonamouse"              -> Goes(p, "auth")
         [] OTHER                                  -> Over(p)

\* The server refuses, or answers with a session; AnonaMouse's may come with a passkey, which
\* else is fetched from another page if the configuration has none - and dropped.
LoginAnswer(p) ==
    /\ AtStep(p, "login")
    /\ \/ Over(p)
       \/ Of(p).kind = "anonamouse" /\ Goes(p, "passkey")
       \/ Goes(p, IF Of(p).kind = "anonamouse" /\ Of(p).conf.passkey = Nobody
                  THEN "fetch" ELSE "keep")
FetchPasskey(p) ==
    /\ AtStep(p, "fetch")
    /\ Over(p) \/ Goes(p, "keep")
StorePasskey(p) ==
    /\ asker[p].step = "passkey" /\ Goes(p, "keep")
    /\ object' = [object EXCEPT ![asker[p].obj].conf.passkey = asker[p].as]
    /\ overtaken' = IF asker[p].stale THEN overtaken \cup {asker[p].obj} ELSE overtaken
    /\ UNCHANGED <<tracker, session>>

\* What a login leaves in the configuration, under the tracker's lock.
CookieSession(c, as) == {[c EXCEPT !.cookie = as, !.expiry = "far"]}
KeySession(c, as) == {[c EXCEPT !.key = as, !.expiry = e] : e \in {"far", "soon"}}
\* A login that was given another configuration meanwhile writes into that one.
Writes(p, conf) ==
    LET n == asker[p].obj
    IN  /\ object' = [object EXCEPT ![n].authed = TRUE, ![n].conf = conf]
        /\ session' = [session EXCEPT ![n] = asker[p].as]
        /\ overtaken' = IF asker[p].stale THEN overtaken \cup {n} ELSE overtaken
        /\ Over(p) /\ UNCHANGED tracker
Mark(p) == asker[p].step = "mark" /\ Writes(p, Of(p).conf)
Keep(p) ==
    /\ asker[p].step = "keep"
    /\ \E c \in IF Of(p).kind = "torrentleech" THEN KeySession(Of(p).conf, asker[p].as)
                 ELSE CookieSession(Of(p).conf, asker[p].as) : Writes(p, c)

\* Time passes for a session.
Expire(n) ==
    /\ object[n].conf.expiry \in {"far", "soon"}
    /\ object' = [object EXCEPT ![n].conf.expiry = IF @ = "far" THEN "soon" ELSE "past"]
    /\ UNCHANGED <<tracker, asker, overtaken, session>>

\* The credentials that requests are made with: those of any tracker, those of the kinds that
\* search and ask for the user's counts, and announces.
ApplyAuth(c) == {c.cookie, c.key}
RedactedSends(c) == {c.key, c.passkey}
BtnSends(c) == {c.key, c.cookie}
TorrentLeechSends(c) == {c.key}
AnonMouseSends(c) == {c.cookie, c.passkey}
Sent(o) ==
    ApplyAuth(o.conf) \cup CASE o.kind = "redacted"     -> RedactedSends(o.conf)
                             [] o.kind = "btn"          -> BtnSends(o.conf)
                             [] o.kind = "torrentleech" -> TorrentLeechSends(o.conf)
                             [] o.kind = "anonamouse"   -> AnonMouseSends(o.conf)
                             [] o.kind = "basic"        -> {o.conf.passkey}

SessionsNext ==
    \/ \E i \in TrackerIds : \/ RemoveTracker(i)
                             \/ \E c \in Configs : AddTracker(i, c) \/ UpdateTracker(i, c) \/ SetConfig(i, c)
    \/ \E p \in Askers : \/ Ask(p) \/ Refresh(p) \/ Test(p) \/ Authenticate(p) \/ LoginAnswer(p)
                         \/ FetchPasskey(p) \/ StorePasskey(p) \/ Mark(p) \/ Keep(p)
    \/ \E n \in 1..MaxTrackers : Expire(n)

SessionsSpec == TrackersInit /\ [][SessionsNext]_sessionsVars
-----------------------------------------------------------------------------
Owners == {Nobody} \cup {c.account : c \in Configs}
SessionsTypeOK ==
    /\ tracker \in [TrackerIds -> Numbers]
    /\ object \in [1..MaxTrackers -> [kind : TrackerKinds, authed : BOOLEAN,
                       conf : [account : Owners, enabled : BOOLEAN, user : Owners, key : Owners, passkey : Owners,
                               cookie : Owners, expiry : {"none", "far", "soon", "past"}]]]
    /\ asker \in [Askers -> [op : {"none", "auth", "refresh", "test", "authAll", "testAll"},
                             step : {"idle", "auth", "refresh", "test", "login", "fetch", "passkey", "mark", "keep"},
                             obj : Numbers, rest : SUBSET Numbers, as : Owners, stale : BOOLEAN]]
    /\ overtaken \subseteq Numbers /\ session \in [1..MaxTrackers -> Owners]

\* A tracker shows itself, and believes itself logged in, as the account it is configured for,
\* however logins, tests and new configurations mix, and whatever expired or was renewed.  The
\* exception is a configuration that came during a login: it gets the other account's session.
SessionsAreOwn ==
    \A n \in (1..MaxTrackers) \ overtaken :
        LET mine == {Nobody, object[n].conf.account}
        IN  Sent(object[n]) \subseteq mine /\ (object[n].authed => session[n] \in mine)
=============================================================================
