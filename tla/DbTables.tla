------------------------------ MODULE DbTables ------------------------------
(***************************************************************************)
(* The lazily opened database (db/db.go): every table has a getter that    *)
(* looks for its handle, then for the core, which it opens when there is   *)
(* none, then makes the handle from the core; between these steps it holds *)
(* no lock.  Close drops the core and every handle at once.  The getters   *)
(* of all eighteen tables are alike, so one is modelled, for any table.    *)
(*                                                                         *)
(* A core is numbered by the order of the opens.                           *)
(***************************************************************************)
EXTENDS Naturals, FiniteSets

CONSTANTS Callers, Tables, MaxOpens

ASSUME DbAssumption == MaxOpens \in Nat \ {0} /\ Tables # {}

VARIABLES
    core,     \* Database.core, 0 for nil
    opens,    \* the cores opened so far
    handle,   \* Database's table fields: the core the handle was made from, 0 for nil
    caller,   \* caller -> its step, the table it wants and the core it has read
    made,     \* <<core, table>> -> the handles made of it while the core was in use
    late      \* tables whose handle was made from a core that Close had dropped

dbVars == <<core, opens, handle, caller, made, late>>

Cores == 1..MaxOpens
CallSteps == {"idle", "core", "open", "use"}
Call(step, t, c) == [step |-> step, table |-> t, core |-> c]

DbInit ==
    /\ core = 0 /\ opens = 0
    /\ handle = [t \in Tables |-> 0]
    /\ caller = [p \in Callers |-> Call("idle", CHOOSE t \in Tables : TRUE, 0)]
    /\ made = [p \in Cores \X Tables |-> 0]
    /\ late = {}

CallerGoes(p, step, c) == caller' = [caller EXCEPT ![p] = Call(step, caller[p].table, c)]

\* the handle, under the read lock
ReadHandle(p, t) ==
    /\ caller[p].step = "idle"
    /\ caller' = [caller EXCEPT ![p] = Call(IF handle[t] # 0 THEN "idle" ELSE "core", t, 0)]
    /\ UNCHANGED <<core, opens, handle, made, late>>

\* getCore: the core, under the read lock
ReadCore(p) ==
    /\ caller[p].step = "core"
    /\ IF core # 0 THEN CallerGoes(p, "use", core) ELSE CallerGoes(p, "open", 0)
    /\ UNCHANGED <<core, opens, handle, made, late>>

\* and under the write lock, where it is looked for again; opening can fail
OpenCore(p) ==
    /\ caller[p].step = "open"
    /\ \/ core # 0 /\ CallerGoes(p, "use", core) /\ UNCHANGED <<core, opens>>
       \/ /\ core = 0 /\ opens < MaxOpens
          /\ opens' = opens + 1 /\ core' = opens'
          /\ CallerGoes(p, "use", opens')
       \/ core = 0 /\ CallerGoes(p, "idle", 0) /\ UNCHANGED <<core, opens>>
    /\ UNCHANGED <<handle, made, late>>

\* Fault: the handle is not looked for again.
NeverPresent(t) == FALSE
Present(t) == handle[t] # 0

\* the handle is looked for again under the write lock, and else made from the
\* core read before; embeddb may refuse
UseTable(p) ==
    /\ caller[p].step = "use"
    /\ CallerGoes(p, "idle", 0)
    /\ LET t == caller[p].table  c == caller[p].core
       IN  \/ Present(t) /\ UNCHANGED <<handle, made, late>>
           \/ /\ ~Present(t)
              /\ handle' = [handle EXCEPT ![t] = c]
              /\ IF c = core
                 THEN made' = [made EXCEPT ![<<c, t>>] = @ + 1] /\ late' = late \ {t}
                 ELSE late' = late \cup {t} /\ UNCHANGED made
           \/ ~Present(t) /\ UNCHANGED <<handle, made, late>>
    /\ UNCHANGED <<core, opens>>

\* Fault: one table is forgotten.
DropRest == [t \in Tables |-> IF t = CHOOSE u \in Tables : TRUE THEN handle[t] ELSE 0]
Dropped == [t \in Tables |-> 0]

\* Close takes the core and the handles, and closes the core without the lock
CloseDb ==
    /\ core' = 0 /\ handle' = Dropped /\ late' = {}
    /\ UNCHANGED <<opens, caller, made>>

\* one getter, as each of the eighteen is
Getter(p) == (\E t \in Tables : ReadHandle(p, t)) \/ ReadCore(p) \/ OpenCore(p) \/ UseTable(p)

DbNext == (\E p \in Callers : Getter(p)) \/ CloseDb

DbSpec == DbInit /\ [][DbNext]_dbVars

-----------------------------------------------------------------------------
DbTypeOK ==
    /\ core \in 0..MaxOpens /\ opens \in 0..MaxOpens
    /\ handle \in [Tables -> 0..MaxOpens]
    /\ caller \in [Callers -> [step : CallSteps, table : Tables, core : 0..MaxOpens]]
    /\ made \in [Cores \X Tables -> Nat]
    /\ late \subseteq Tables

\* All handles are of the core in use, so that no two callers work on different opens of
\* the file.  The exception is a getter that Close overtook between getCore and Use: its
\* handle is of the closed core, and stays until the next Close.
HandlesAreOfTheCore == \A t \in Tables : handle[t] \in {0, core} \/ t \in late

\* A table of a core has one handle, with one set of locks and caches, whichever callers
\* ask for it at a time.
OneHandle == \A c \in Cores, t \in Tables : made[<<c, t>>] <= 1

=============================================================================
