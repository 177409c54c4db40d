------------------------------ MODULE Accounts ------------------------------
(***************************************************************************)
(* Who a request is from (server/auth.go): the callback of an OIDC login,  *)
(* which finds the account of a subject or makes one and hands its API key *)
(* to the browser as a cookie, and getCurrentUser, with which every        *)
(* handler behind authMiddleware or adminMiddleware begins.                *)
(*                                                                         *)
(* A generated key is like no other.  Whether the library refuses a row    *)
(* for its `unique` tags is not to be seen here: either is possible.       *)
(***************************************************************************)
EXTENDS Naturals, Sequences

CONSTANTS
    Browsers, Subjects,
    Email,         \* the address a subject has at its provider
    MaxKeys        \* bound of the accounts that are begun

VARIABLES
    oidc,       \* the configuration enables OIDC
    unique,     \* the table refuses a second row of one address or subject
    users,      \* the rows of the users table, by id
    keys,       \* API keys generated so far
    login,      \* the subject a callback has found no account of
    cookie,     \* mediarr_session of a browser
    identity,   \* who the last request was from
    overlapped  \* subjects that two callbacks at a time had no account of

accountVars == <<oidc, unique, users, keys, login, cookie, identity, overlapped>>

NoKey == 0
NoLogin == "nologin"
Roles == {"admin", "user"}

ASSUME AccountsAssumption ==
    NoLogin \notin Subjects /\ MaxKeys \in Nat /\ Email \in [Subjects -> STRING]

\* The administrator everybody is without OIDC, and what a refused request is from.
DefaultAdmin == [id |-> 1, role |-> "admin", oidc |-> FALSE]
Nobody == [id |-> 0, role |-> "user", oidc |-> TRUE]

AccountsInit ==
    /\ oidc \in BOOLEAN /\ unique \in BOOLEAN
    /\ users = <<>> /\ keys = 0 /\ overlapped = {}
    /\ login = [b \in Browsers |-> NoLogin] /\ cookie = [b \in Browsers |-> NoKey]
    /\ identity = Nobody

AccountsOf(s) == {n \in 1..Len(users) : users[n].subject = s}
WithKey(k) == {n \in 1..Len(users) : users[n].key = k}
First(rows) == CHOOSE n \in rows : \A m \in rows : n <= m
-----------------------------------------------------------------------------
\* Fault: the subject is compared with the names.
FoundByName(s) == {n \in 1..Len(users) : users[n].name = s}
FoundUsers(s) == AccountsOf(s)
\* handleOIDCCallback looks for the subject, and hands out the key of its first account.
FindUser(b, s) ==
    /\ oidc /\ login[b] = NoLogin
    /\ IF FoundUsers(s) # {}
       THEN /\ cookie' = [cookie EXCEPT ![b] = users[First(FoundUsers(s))].key]
            /\ UNCHANGED <<login, overlapped>>
       ELSE /\ login' = [login EXCEPT ![b] = s] /\ UNCHANGED cookie
            /\ overlapped' = overlapped \cup {t \in {s} : \E c \in Browsers : login[c] = t}
    /\ UNCHANGED <<oidc, unique, users, keys, identity>>

NewUser(s) == [subject |-> s, name |-> Email[s], key |-> keys + 1, role |-> "user"]

IsThere(u) == \E n \in 1..Len(users) : users[n].subject = u.subject \/ users[n].name = u.name

\* Without one an account is inserted.  An error of Insert, which a full disk has as well,
\* is not looked at: the browser gets the key of the row that is not there.
InsertUser(b) ==
    LET u == NewUser(login[b])
    IN  /\ login[b] # NoLogin /\ keys < MaxKeys /\ keys' = keys + 1
        /\ users' = users \/ (~(unique /\ IsThere(u)) /\ users' = Append(users, u))
        /\ cookie' = [cookie EXCEPT ![b] = u.key]
        /\ login' = [login EXCEPT ![b] = NoLogin]
        /\ UNCHANGED <<oidc, unique, identity, overlapped>>

\* handleLogout takes the cookie back.  (handleLogin is a stub.)
Logout(b) ==
    /\ cookie' = [cookie EXCEPT ![b] = NoKey]
    /\ UNCHANGED <<oidc, unique, users, keys, login, identity, overlapped>>

\* getCurrentUser: the key of the header or of the query, then the cookie, and then,
\* without OIDC, the administrator of the configuration.
Known(n) == [id |-> n, role |-> users[n].role, oidc |-> oidc]
UserOf(k, c) ==
    IF WithKey(k) # {} THEN Known(First(WithKey(k)))
    ELSE IF WithKey(c) # {} THEN Known(First(WithKey(c)))
    ELSE IF oidc THEN Nobody ELSE DefaultAdmin
Request(b, k) ==
    /\ identity' = UserOf(k, cookie[b])
    /\ UNCHANGED <<oidc, unique, users, keys, login, cookie, overlapped>>

\* The process is started again, with another configuration.
Restarts ==
    /\ oidc' = ~oidc /\ login' = [b \in Browsers |-> NoLogin]
    /\ UNCHANGED <<unique, users, keys, cookie, identity, overlapped>>

AccountsNext ==
    \/ \E b \in Browsers : \/ InsertUser(b) \/ Logout(b)
                           \/ \E s \in Subjects : FindUser(b, s)
                           \/ \E k \in NoKey..MaxKeys : Request(b, k)
    \/ Restarts
AccountsSpec == AccountsInit /\ [][AccountsNext]_accountVars
-----------------------------------------------------------------------------
User == [subject : Subjects, name : STRING, key : 1..MaxKeys, role : Roles]
AccountsTypeOK ==
    /\ oidc \in BOOLEAN /\ unique \in BOOLEAN
    /\ users \in Seq(User) /\ keys \in 0..MaxKeys /\ overlapped \subseteq Subjects
    /\ login \in [Browsers -> Subjects \cup {NoLogin}] /\ cookie \in [Browsers -> NoKey..MaxKeys]
    /\ identity \in [id : Nat, role : Roles, oidc : BOOLEAN]

\* A subject has two accounts, whose libraries are apart, only if two of its first logins
\* had both found none before either had inserted one, and the table did not refuse.
OneAccountEach ==
    \A s \in Subjects : \A m, n \in AccountsOf(s) : m # n => s \in overlapped /\ ~unique

\* Where OIDC is enabled no request is an administrator's: nobody becomes one by a login,
\* and the settings, the feeds and the tasks are out of reach.
NoAdminByLogin == identity.role = "admin" => ~identity.oidc
=============================================================================
