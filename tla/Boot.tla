-------------------------------- MODULE Boot --------------------------------
(***************************************************************************)
(* The start of the server on a database that an earlier start, a crash or  *)
(* the clients left behind: init_services of main.cpp, which constructs     *)
(* DbManager and creates the user admin.                                    *)
(*                                                                         *)
(* The constructor asks whether the database has the built-in column        *)
(* families, makes them if not, opens all families there are, registers the *)
(* built-in endpoints unless /test_endpoint is one, and iterates over the   *)
(* tokens.  Between two starts clients register and delete endpoints; a     *)
(* start meets only what these calls, one at a time here, leave on disk, so *)
(* they have two steps, one for the column family and one for the commit    *)
(* (module Endpoints has all of them, and calls that overlap).  A client    *)
(* may name any url, those of the built-in endpoints too.                   *)
(*                                                                         *)
(* The writes of the constructor do not fail here; that of admin may, as    *)
(* the start goes on without it.                                            *)
(***************************************************************************)
EXTENDS Integers, Sequences, FiniteSets

CONSTANTS
    Urls,          \* urls of the clients' own
    Registrable,   \* the urls clients register
    Deletable,     \* the endpoints clients delete
    MaxCrashes,    \* bound on the kills of the process
    MaxDeaths      \* the deaths on the way up are counted as far as this

\* perform_database_init_tasks names the families in this order
BuiltIn == <<"objects", "endpoints", "count", "users", "test", "tokens">>
BuiltIns == {BuiltIn[i] : i \in 1 .. Len(BuiltIn)}
\* is_initialized asks for all of them but one
Required == BuiltIns \ {"count"}
\* the endpoints the constructor registers
Standard == <<"test", "users", "tokens">>
Families == BuiltIns \cup Urls

ASSUME UrlsAssumption == Urls \cap BuiltIns = {}
ASSUME ClientsAssumption == Registrable \subseteq Families /\ Deletable \subseteq Families
ASSUME BoundsAssumption == MaxCrashes \in Nat /\ MaxDeaths \in Nat

VARIABLES
    families,   \* the column families of the database
    counted,    \* the urls with a counter: the endpoints
    admin,      \* does the family of the users hold the user admin?
    pc,         \* where the process is; "crashed" and "died" are no processes
    step,       \* how many of the standard endpoints this start has registered
    target,     \* the endpoint a call of a client is about
    map,        \* _cfh_map: "none", "null" or "ok"
    crashes,    \* kills so far
    deaths,     \* deaths on the way up so far
    removed     \* the built-in endpoints that clients have ever deleted

disk == <<families, counted, admin>>
vars == <<disk, pc, step, target, map, crashes, deaths, removed>>

NoMap == [f \in Families |-> "none"]

\* a new path, where RocksDB will create the database
Init ==
    /\ families = {}
    /\ counted = {}
    /\ admin = FALSE
    /\ pc = "check"
    /\ step = 0
    /\ target = "none"
    /\ map = NoMap
    /\ crashes = 0
    /\ deaths = 0
    /\ removed = {}

-----------------------------------------------------------------------------

\* the end of the process: memory is lost
End(how) ==
    /\ pc' = how
    /\ map' = NoMap
    /\ step' = 0
    /\ target' = "none"
    /\ UNCHANGED disk

Die == End("died") /\ deaths' = (IF deaths < MaxDeaths THEN deaths + 1 ELSE deaths)
                   /\ UNCHANGED <<crashes, removed>>

Goto(l) == pc' = l /\ UNCHANGED <<target, crashes, deaths, removed>>

\* is_initialized
Check ==
    /\ pc = "check"
    /\ Goto(IF Required \subseteq families THEN "open" ELSE "create")
    /\ UNCHANGED <<disk, step, map>>

\* perform_database_init_tasks names the built-in families only.  RocksDB refuses to open a
\* database that has others; the failure is logged, and the call of a virtual function through
\* the pointer, never set, ends the process.
CreateRefused ==
    /\ pc = "create"
    /\ ~(families \subseteq BuiltIns)
    /\ Die

\* the missing families are created one after the other
CreateBlindly ==   \* mutant
    /\ pc = "create"
    /\ \/ BuiltIns \subseteq families /\ Goto("open") /\ UNCHANGED families
       \/ \E f \in BuiltIns \ families : families' = families \cup {f} /\ Goto("create")
    /\ UNCHANGED <<counted, admin, step, map>>
Create ==
    /\ pc = "create"
    /\ families \subseteq BuiltIns
    /\ IF families = BuiltIns
         THEN Goto("open") /\ UNCHANGED families
         ELSE /\ \E i \in 1 .. Len(BuiltIn) :
                   /\ \A j \in 1 .. i - 1 : BuiltIn[j] \in families
                   /\ BuiltIn[i] \notin families
                   /\ families' = families \cup {BuiltIn[i]}
              /\ Goto("create")
    /\ UNCHANGED <<counted, admin, step, map>>

\* the constructor opens the families that are listed
Open ==
    /\ pc = "open"
    /\ map' = [f \in Families |-> IF f \in families THEN "ok" ELSE "none"]
    /\ Goto(IF "test" \in counted THEN "clean" ELSE "add")
    /\ UNCHANGED <<disk, step>>

\* what CreateColumnFamily gives for a family: no handle if it exists
HandleUnset(f) == IF f \in families THEN "unset" ELSE "ok"   \* mutant
NewHandle(f) == IF f \in families THEN "null" ELSE "ok"

\* the endpoints after one more was registered
Uncommitted(f) == counted   \* mutant
Committed(f) == counted \cup {f}

\* add_endpoint of the next standard endpoint
Add ==
    /\ pc = "add"
    /\ LET f == Standard[step + 1]
       IN  /\ families' = families \cup {f}
           /\ map' = [map EXCEPT ![f] = NewHandle(f)]
           /\ counted' = Committed(f)
    /\ step' = step + 1
    /\ Goto(IF step + 1 < Len(Standard) THEN "add" ELSE "clean")
    /\ UNCHANGED admin

\* cleanTokens iterates over the family of the tokens, through its handle
CleanSkipped ==   \* mutant
    /\ pc = "clean"
    /\ Goto("users")
    /\ UNCHANGED <<disk, step, map>>
Clean ==
    /\ pc = "clean"
    /\ IF map["tokens"] = "ok"
         THEN Goto("users") /\ UNCHANGED <<disk, step, map>>
         ELSE Die

\* the user admin is created if it does not exist; a save that fails is only logged
Users ==
    /\ pc = "users"
    /\ admin' \in {admin, TRUE}
    /\ Goto("serving")
    /\ UNCHANGED <<families, counted, step, map>>

StartStep == Check \/ CreateRefused \/ Create \/ Open \/ Add \/ Clean \/ Users

-----------------------------------------------------------------------------
(* Clients *)

\* add_endpoint makes the family, or finds it there; the handle it installs matters to Drop, and
\* to other calls of the clients, in the modules Endpoints, Accounts and Requests ...
Register(u) ==
    /\ pc = "serving"
    /\ families' = families \cup {u}
    /\ map' = [map EXCEPT ![u] = NewHandle(u)]
    /\ target' = u
    /\ pc' = "register"
    /\ UNCHANGED <<counted, admin, step, crashes, deaths, removed>>

\* ... and then commits the counter
RegisterCommit ==
    /\ pc = "register"
    /\ counted' = Committed(target)
    /\ target' = "none"
    /\ pc' = "serving"
    /\ UNCHANGED <<families, admin, step, map, crashes, deaths, removed>>

\* delete_endpoint commits that the counter is gone ...
Delete(u) ==
    /\ pc = "serving"
    /\ u \in counted
    /\ counted' = counted \ {u}
    /\ removed' = removed \cup ({u} \cap BuiltIns)
    /\ target' = u
    /\ pc' = "drop"
    /\ UNCHANGED <<families, admin, step, map, crashes, deaths>>

\* ... and then drops the family with what is in it, which a null handle does not survive
Drop ==
    /\ pc = "drop"
    /\ map[target] = "ok"
    /\ families' = families \ {target}
    /\ admin' = (admin /\ target # "users")
    /\ map' = [map EXCEPT ![target] = "none"]
    /\ target' = "none"
    /\ pc' = "serving"
    /\ UNCHANGED <<counted, step, crashes, deaths, removed>>

DropNull ==
    /\ pc = "drop"
    /\ map[target] # "ok"
    /\ End("crashed")
    /\ UNCHANGED <<crashes, deaths, removed>>

ClientStep == (\E u \in Registrable : Register(u)) \/ (\E u \in Deletable : Delete(u))

CallStep == RegisterCommit \/ Drop \/ DropNull

-----------------------------------------------------------------------------

Crash ==
    /\ pc \notin {"crashed", "died"}
    /\ crashes < MaxCrashes
    /\ crashes' = crashes + 1
    /\ End("crashed")
    /\ UNCHANGED <<deaths, removed>>

Restart ==
    /\ pc \in {"crashed", "died"}
    /\ Goto("check")
    /\ UNCHANGED <<disk, step, map>>

Next == StartStep \/ ClientStep \/ CallStep \/ Crash \/ Restart

Spec == Init /\ [][Next]_vars

\* a process runs on, and one that has ended is started again
FairSpec == Spec /\ WF_vars(StartStep \/ CallStep) /\ WF_vars(Restart)

-----------------------------------------------------------------------------
(* Properties *)

\* The type of every variable of the database and of the process.
TypeOK ==
    /\ families \subseteq Families
    /\ counted \subseteq Families
    /\ admin \in BOOLEAN
    /\ pc \in {"check", "create", "open", "add", "clean", "users", "serving", "register",
               "drop", "crashed", "died"}
    /\ step \in 0 .. Len(Standard)
    /\ target \in Families \cup {"none"}
    /\ map \in [Families -> {"none", "null", "ok"}]
    /\ crashes \in 0 .. MaxCrashes
    /\ deaths \in 0 .. MaxDeaths
    /\ removed \subseteq BuiltIns

\* Whatever crashes, registrations and deletions came before, a start that gets past the clean-up
\* of the tokens has a usable handle for every column family of the database and none for others:
\* the null handles that add_endpoint installs on the way up never reach a client.
StartsWhole ==
    pc = "users" => \A f \in Families : map[f] = IF f \in families THEN "ok" ELSE "none"

\* As long as clients have not deleted a built-in endpoint, whatever they register (the built-in
\* urls again, too), the process has died on the way up at most once in the life of the database,
\* wherever starts were cut short by crashes.
DiesAtMostOnce == removed = {} => deaths <= 1

\* The database has a family of a client and lacks one that is_initialized asks for, so that
\* perform_database_init_tasks is asked to open it and cannot.
Unopenable == ~(Required \subseteq families) /\ ~(families \subseteq BuiltIns)

\* A start that dies has either met a database no start can open, or leaves one behind that the
\* next start survives: /test_endpoint is an endpoint and nothing is missing, so that the next
\* one installs no null handles.
DyingHeals ==
    [][pc' = "died" => \/ Unopenable
                       \/ Required \subseteq families' /\ "test" \in counted']_vars

\* When the process ends on an unopenable database, which deleting a built-in endpoint leads to,
\* it has served its last request: no later start repairs the database, or gets far enough to
\* let a client do so.
Answering == pc \in {"serving", "register", "drop"}
LostForGood == [][Unopenable /\ ~Answering => (Unopenable /\ ~Answering)']_vars

\* Both: a death on the way up is the last one for its reason, or the database is lost.
DeathsExplained == DyingHeals /\ LostForGood

\* And then the server gets up: a process that is started again whenever it has ended serves
\* again.
Serves == []<>(pc = "serving")
ServesAgain == [](removed = {}) => Serves

\* "Test endpoint inexistent, creating." (the log of the constructor): a start makes up for a
\* missing /test_endpoint, and the server serves.
TestEndpointReturns == Serves

=============================================================================
