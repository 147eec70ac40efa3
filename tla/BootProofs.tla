----------------------------- MODULE BootProofs -----------------------------
(***************************************************************************)
(* What holds of the start for every set of urls and every bound.           *)
(***************************************************************************)
EXTENDS Boot, TLAPS

\* The values of the constant sequences and sets.
LEMMA Names ==
    /\ BuiltIns = {"objects", "endpoints", "count", "users", "test", "tokens"}
    /\ Required = {"objects", "endpoints", "users", "test", "tokens"}
    /\ Families = {"objects", "endpoints", "count", "users", "test", "tokens"} \cup Urls
    /\ Len(BuiltIn) = 6
    /\ \A i \in 1 .. 6 : BuiltIn[i] \in BuiltIns
    /\ Len(Standard) = 3
    /\ Standard[1] = "test" /\ Standard[2] = "users" /\ Standard[3] = "tokens"
  BY DEF BuiltIns, Required, Families, BuiltIn, Standard

-----------------------------------------------------------------------------

\* The handles are those of the families there are.
Whole == \A f \in Families : map[f] = IF f \in families THEN "ok" ELSE "none"

\* The inductive invariant: the families the constructor asks for are there once it has opened
\* the database, so that a start which registers the built-in endpoints ends up with a null
\* handle for the tokens, and only one that does not register them gets past the clean-up.
StartInv ==
    /\ TypeOK
    /\ pc \in {"open", "add", "clean"} => Required \subseteq families
    /\ pc \in {"check", "create", "open", "crashed", "died"} => step = 0
    /\ pc = "add" => step < Len(Standard)
    /\ pc = "clean" => Whole \/ map["tokens"] = "null"
    /\ pc = "users" => Whole
    /\ pc \in {"register", "drop"} => target \in Families

\* The end of the process leaves nothing to show but the types.
LEMMA EndKeeps == ASSUME StartInv, NEW how \in {"crashed", "died"}, End(how),
                         crashes' \in 0 .. MaxCrashes, deaths' \in 0 .. MaxDeaths,
                         removed' \subseteq BuiltIns
                  PROVE  StartInv'
  BY Names DEF End, StartInv, TypeOK, disk, NoMap, Whole

\* A death is counted no further than its bound.
LEMMA DieKeeps == ASSUME StartInv, Die PROVE StartInv'
  <1>1. deaths' \in 0 .. MaxDeaths
    BY BoundsAssumption DEF Die, StartInv, TypeOK
  <1>2. crashes' \in 0 .. MaxCrashes /\ removed' \subseteq BuiltIns
    BY DEF Die, StartInv, TypeOK
  <1> QED BY <1>1, <1>2, EndKeeps DEF Die

\* A new path has nothing yet.
LEMMA StartInit == Init => StartInv
  <1> SUFFICES ASSUME Init PROVE StartInv
    OBVIOUS
  <1>1. map \in [Families -> {"none", "null", "ok"}]
    BY DEF Init, NoMap
  <1>2. crashes \in 0 .. MaxCrashes /\ deaths \in 0 .. MaxDeaths
    BY BoundsAssumption DEF Init
  <1>3. step \in 0 .. Len(Standard)
    BY Names DEF Init
  <1>4. TypeOK
    BY <1>1, <1>2, <1>3 DEF Init, TypeOK
  <1> QED BY <1>4 DEF Init, StartInv

\* perform_database_init_tasks makes built-in families only, and goes on when it has them all.
LEMMA CreateMakes ==
    ASSUME Create
    PROVE  /\ families' \subseteq BuiltIns /\ families' \subseteq Families
           /\ pc' \in {"create", "open"}
           /\ pc' = "open" => Required \subseteq families'
           /\ UNCHANGED <<counted, admin, step, target, map, crashes, deaths, removed>>
  <1>1. CASE families = BuiltIns
    BY <1>1, Names DEF Create, Goto
  <1>2. CASE families # BuiltIns
    <2>1. PICK i \in 1 .. Len(BuiltIn) : families' = families \cup {BuiltIn[i]}
      BY <1>2 DEF Create
    <2>2. families' \subseteq BuiltIns
      BY <2>1, Names DEF Create
    <2>3. pc' = "create" /\ UNCHANGED <<counted, admin, step, target, map, crashes, deaths, removed>>
      BY <1>2 DEF Create, Goto
    <2> QED BY <2>2, <2>3, Names
  <1> QED BY <1>1, <1>2

\* A step of a start.
LEMMA StartStepKeeps == ASSUME StartInv, StartStep PROVE StartInv'
  <1>1. CASE Check
    BY <1>1, Names DEF Check, Goto, StartInv, TypeOK, disk, Whole
  <1>2. CASE CreateRefused
    BY <1>2, DieKeeps DEF CreateRefused
  <1>3. CASE Create
    BY <1>3, CreateMakes DEF Create, StartInv, TypeOK
  <1>4. CASE Open
    <2>1. map' \in [Families -> {"none", "null", "ok"}] /\ Whole'
      BY <1>4 DEF Open, Whole, disk
    <2> QED BY <1>4, <2>1, Names DEF Open, Goto, StartInv, TypeOK, disk
  <1>5. CASE Add
    <2> DEFINE f == Standard[step + 1]
    <2>1. step \in 0 .. 2 /\ f \in {"test", "users", "tokens"}
      BY <1>5, Names DEF Add, StartInv, TypeOK
    <2>2. f \in families /\ f \in Families
      BY <1>5, <2>1, Names DEF Add, StartInv
    <2>3. /\ families' = families /\ counted' = counted \cup {f}
          /\ map' = [map EXCEPT ![f] = "null"]
      BY <1>5, <2>2 DEF Add, NewHandle, Committed
    <2>4. pc' = "clean" => map'["tokens"] = "null"
      BY <1>5, <2>1, <2>3, Names DEF Add, Goto, StartInv, TypeOK
    <2>5. /\ step' = step + 1 /\ step' \in 0 .. Len(Standard)
          /\ pc' = IF step' < Len(Standard) THEN "add" ELSE "clean"
          /\ UNCHANGED <<admin, target, crashes, deaths, removed>>
      BY <1>5, <2>1, Names DEF Add, Goto
    <2>6. map' \in [Families -> {"none", "null", "ok"}]
      BY <2>2, <2>3 DEF StartInv, TypeOK
    <2>7. TypeOK'
      BY <2>2, <2>3, <2>5, <2>6 DEF StartInv, TypeOK
    <2>8. Required \subseteq families'
      BY <1>5, <2>3 DEF Add, StartInv
    <2> QED BY <2>4, <2>5, <2>7, <2>8 DEF StartInv
  <1>6. CASE Clean
    <2>1. CASE map["tokens"] = "ok"
      <3>1. /\ pc' = "users"
            /\ UNCHANGED <<families, counted, admin, step, target, map, crashes, deaths, removed>>
        BY <1>6, <2>1 DEF Clean, Goto, disk
      <3>2. Whole
        BY <1>6, <2>1 DEF Clean, StartInv
      <3>3. Whole'
        BY <3>1, <3>2 DEF Whole
      <3> QED BY <3>1, <3>3 DEF StartInv, TypeOK
    <2>2. CASE map["tokens"] # "ok"
      BY <1>6, <2>2, DieKeeps DEF Clean
    <2> QED BY <2>1, <2>2
  <1>7. CASE Users
    BY <1>7, Names DEF Users, Goto, StartInv, TypeOK
  <1> QED BY <1>1, <1>2, <1>3, <1>4, <1>5, <1>6, <1>7 DEF StartStep

\* A step of a call of a client.
LEMMA CallKeeps == ASSUME StartInv, ClientStep \/ CallStep PROVE StartInv'
  <1>1. ASSUME NEW u \in Registrable, Register(u) PROVE StartInv'
    BY <1>1, Names, ClientsAssumption DEF Register, NewHandle, StartInv, TypeOK
  <1>2. CASE RegisterCommit
    BY <1>2, Names DEF RegisterCommit, Committed, StartInv, TypeOK
  <1>3. ASSUME NEW u \in Deletable, Delete(u) PROVE StartInv'
    BY <1>3, ClientsAssumption, Names DEF Delete, StartInv, TypeOK
  <1>4. CASE Drop
    BY <1>4, Names DEF Drop, StartInv, TypeOK
  <1>5. CASE DropNull
    BY <1>5, EndKeeps DEF DropNull, StartInv, TypeOK
  <1> QED BY <1>1, <1>2, <1>3, <1>4, <1>5 DEF ClientStep, CallStep

\* The end of a process, and the next one.
LEMMA ProcessKeeps == ASSUME StartInv, Crash \/ Restart PROVE StartInv'
  <1>1. CASE Crash
    BY <1>1, EndKeeps, BoundsAssumption DEF Crash, StartInv, TypeOK
  <1>2. CASE Restart
    BY <1>2, Names DEF Restart, Goto, StartInv, TypeOK, disk
  <1> QED BY <1>1, <1>2

\* The invariant is inductive.
THEOREM StartInvariant == Spec => []StartInv
  <1>1. StartInv /\ [Next]_vars => StartInv'
    <2> SUFFICES ASSUME StartInv, [Next]_vars PROVE StartInv'
      OBVIOUS
    <2>1. CASE Next
      BY <2>1, StartStepKeeps, CallKeeps, ProcessKeeps DEF Next
    <2>2. CASE UNCHANGED vars
      BY <2>2 DEF vars, disk, StartInv, TypeOK, Whole
    <2> QED BY <2>1, <2>2
  <1> QED BY <1>1, StartInit, PTL DEF Spec

\* The variables keep their types.
THEOREM BootTypeCorrect == Spec => []TypeOK
  <1>1. StartInv => TypeOK
    BY DEF StartInv
  <1> QED BY <1>1, StartInvariant, PTL

\* Whatever happened to the database before, a start that gets past the clean-up of the tokens
\* has a usable handle for every family: the null handles it may have installed end it first.
THEOREM NullHandlesEndTheStart == Spec => []StartsWhole
  <1>1. StartInv => StartsWhole
    BY DEF StartInv, StartsWhole, Whole
  <1> QED BY <1>1, StartInvariant, PTL

-----------------------------------------------------------------------------

\* If clients have left the built-in endpoints alone: what is_initialized asks for is there from
\* the time the first start has made it, and no user's family is there before; and the endpoint
\* /test_endpoint, once registered, is registered for good, so that only the start that
\* registered it can have null handles.
Untouched ==
    /\ Required \subseteq families \/ families \subseteq BuiltIns
    /\ pc = "create" => families \subseteq BuiltIns
    /\ pc \in {"open", "add", "clean", "users", "serving", "register", "drop"} =>
          Required \subseteq families
    /\ pc = "drop" => target \in Urls
    /\ pc = "add" /\ step > 0 => "test" \in counted
    /\ pc = "clean" => "test" \in counted
    /\ pc = "add" => deaths = 0
    /\ pc = "clean" /\ map["tokens"] # "ok" => deaths = 0
    /\ deaths > 0 => "test" \in counted
    /\ deaths <= 1

OnceInv == removed = {} => Untouched

\* No family is there at the start.
LEMMA OnceInit == Init => OnceInv
  BY Names DEF Init, OnceInv, Untouched

\* Untouched after a step of a start.
LEMMA OnceStart ==
    ASSUME StartInv, Untouched, StartStep PROVE Untouched'
  <1>0. deaths \in Nat
    BY BoundsAssumption DEF StartInv, TypeOK
  <1>1. CASE Check
    BY <1>1, Names DEF Check, Goto, Untouched, disk
  <1>2. CASE CreateRefused
    BY <1>2 DEF CreateRefused, Untouched
  <1>3. CASE Create
    BY <1>3, CreateMakes DEF Create, Untouched
  <1>4. CASE Open
    <2>1. Required \subseteq families /\ map'["tokens"] = "ok"
      BY <1>4, Names DEF Open, Untouched
    <2> QED BY <1>0, <1>4, <2>1, Names DEF Open, Goto, Untouched, StartInv, TypeOK, disk
  <1>5. CASE Add
    <2>1. step \in 0 .. 2 /\ (step = 0 => Standard[step + 1] = "test")
      BY <1>5, Names DEF Add, StartInv, TypeOK
    <2>2. "test" \in counted'
      BY <1>5, <2>1, Names DEF Add, Committed, Untouched
    <2>3. Required \subseteq families'
      BY <1>5 DEF Add, Untouched
    <2> QED BY <1>5, <2>1, <2>2, <2>3, Names DEF Add, Goto, Untouched
  <1>6. CASE Clean
    <2>1. CASE map["tokens"] = "ok"
      BY <1>6, <2>1 DEF Clean, Goto, Untouched, disk
    <2>2. CASE map["tokens"] # "ok"
      BY <1>0, <1>6, <2>2 DEF Clean, Die, End, Untouched, disk
    <2> QED BY <2>1, <2>2
  <1>7. CASE Users
    BY <1>7 DEF Users, Goto, Untouched
  <1> QED BY <1>1, <1>2, <1>3, <1>4, <1>5, <1>6, <1>7 DEF StartStep

\* Untouched after a call of a client that deletes no built-in endpoint, a crash or a restart.
LEMMA OnceOther ==
    ASSUME StartInv, Untouched, removed' = {},
           ClientStep \/ CallStep \/ Crash \/ Restart
    PROVE  Untouched'
  <1>1. ASSUME NEW u \in Registrable, Register(u) PROVE Untouched'
    BY <1>1 DEF Register, Untouched
  <1>2. CASE RegisterCommit
    BY <1>2 DEF RegisterCommit, Committed, Untouched
  <1>3. ASSUME NEW u \in Deletable, Delete(u) PROVE Untouched'
    <2>1. u \in Urls
      BY <1>3, ClientsAssumption, Names DEF Delete
    <2> QED BY <1>3, <2>1, UrlsAssumption, Names DEF Delete, Untouched
  <1>4. CASE Drop
    BY <1>4, UrlsAssumption, Names DEF Drop, Untouched
  <1>5. CASE DropNull
    BY <1>5 DEF DropNull, End, Untouched, disk
  <1>6. CASE Crash
    BY <1>6 DEF Crash, End, Untouched, disk
  <1>7. CASE Restart
    BY <1>7 DEF Restart, Goto, Untouched, disk
  <1> QED BY <1>1, <1>2, <1>3, <1>4, <1>5, <1>6, <1>7 DEF ClientStep, CallStep

\* What clients have deleted is never forgotten.
LEMMA RemovedGrows == ASSUME [Next]_vars PROVE removed \subseteq removed'
  BY DEF Next, vars, StartStep, Check, CreateRefused, Create, Open, Add, Clean, Users, Die, End,
         Goto, ClientStep, Register, Delete, CallStep, RegisterCommit, Drop, DropNull, Crash,
         Restart

\* A database costs the process its life at most once before clients delete a built-in endpoint.
THEOREM OneDeathOnly == Spec => []DiesAtMostOnce
  <1>1. OnceInv /\ StartInv /\ [Next]_vars => OnceInv'
    <2> SUFFICES ASSUME OnceInv, StartInv, [Next]_vars, removed' = {} PROVE Untouched'
      BY DEF OnceInv
    <2>1. Untouched
      BY RemovedGrows DEF OnceInv
    <2>2. CASE Next
      BY <2>1, <2>2, OnceStart, OnceOther DEF Next
    <2>3. CASE UNCHANGED vars
      BY <2>1, <2>3 DEF vars, disk, Untouched
    <2> QED BY <2>2, <2>3
  <1>2. OnceInv => DiesAtMostOnce
    BY DEF OnceInv, Untouched, DiesAtMostOnce
  <1> QED BY <1>1, <1>2, OnceInit, StartInvariant, PTL DEF Spec

-----------------------------------------------------------------------------

\* What a start knows on its way up, whatever clients have deleted: RocksDB is asked to open
\* families it was not told of only when one that is_initialized asks for is missing, a start that
\* opened the database has them all, and /test_endpoint is registered before the tokens are
\* cleaned.
WayUp ==
    /\ pc = "create" => families \subseteq BuiltIns \/ ~(Required \subseteq families)
    /\ pc = "users" => Required \subseteq families
    /\ pc = "add" /\ step > 0 => "test" \in counted
    /\ pc = "clean" => "test" \in counted

\* WayUp is kept by a step of a start.
LEMMA WayUpStart == ASSUME StartInv, WayUp, StartStep PROVE WayUp'
  <1>1. CASE Check
    BY <1>1, Names DEF Check, Goto, WayUp, disk
  <1>2. CASE CreateRefused
    BY <1>2 DEF CreateRefused, Die, End, WayUp
  <1>3. CASE Create
    BY <1>3, CreateMakes DEF WayUp
  <1>4. CASE Open
    BY <1>4 DEF Open, Goto, WayUp, StartInv, disk
  <1>5. CASE Add
    <2>1. step \in 0 .. 2 /\ (step = 0 => Standard[step + 1] = "test")
      BY <1>5, Names DEF Add, StartInv, TypeOK
    <2>2. "test" \in counted'
      BY <1>5, <2>1, Names DEF Add, Committed, WayUp
    <2>3. pc' \in {"add", "clean"}
      BY <1>5 DEF Add, Goto
    <2> QED BY <2>2, <2>3 DEF WayUp
  <1>6. CASE Clean
    BY <1>6 DEF Clean, Goto, Die, End, WayUp, StartInv, disk
  <1>7. CASE Users
    BY <1>7 DEF Users, Goto, WayUp
  <1> QED BY <1>1, <1>2, <1>3, <1>4, <1>5, <1>6, <1>7 DEF StartStep

\* No step of a client, of a crash or of a restart is part of a way up.
LEMMA WayUpOther ==
    ASSUME ClientStep \/ CallStep \/ Crash \/ Restart
    PROVE  pc' \notin {"create", "users", "add", "clean"}
  BY DEF ClientStep, CallStep, Register, RegisterCommit, Delete, Drop, DropNull, Crash, Restart,
         End, Goto

\* WayUp holds in every state.
LEMMA WayUpAlways == Spec => []WayUp
  <1>1. Init => WayUp
    BY DEF Init, WayUp
  <1>2. StartInv /\ WayUp /\ [Next]_vars => WayUp'
    <2> SUFFICES ASSUME StartInv, WayUp, [Next]_vars PROVE WayUp'
      OBVIOUS
    <2>1. CASE StartStep
      BY <2>1, WayUpStart
    <2>2. CASE ClientStep \/ CallStep \/ Crash \/ Restart
      BY <2>2, WayUpOther DEF WayUp
    <2>3. CASE UNCHANGED vars
      BY <2>3 DEF vars, disk, WayUp
    <2> QED BY <2>1, <2>2, <2>3 DEF Next
  <1> QED BY <1>1, <1>2, StartInvariant, PTL DEF Spec

\* A start dies in two places only: where RocksDB refuses the database, and at the tokens.
LEMMA Deaths ==
    ASSUME Next, pc' = "died"
    PROVE  (CreateRefused \/ Clean) /\ UNCHANGED <<families, counted>>
  BY DEF Next, StartStep, Check, CreateRefused, Create, Open, Add, Clean, Users, Die, End, Goto,
         ClientStep, Register, Delete, CallStep, RegisterCommit, Drop, DropNull, Crash, Restart,
         disk

\* A start dies on a database beyond repair, or has registered the endpoint whose absence made
\* it die.
LEMMA DeathsHeal == Spec => DyingHeals
  <1>1. ASSUME StartInv, WayUp, [Next]_vars, vars' # vars, pc' = "died"
        PROVE  Unopenable \/ (Required \subseteq families' /\ "test" \in counted')
    <2>1. (CreateRefused \/ Clean) /\ UNCHANGED <<families, counted>>
      BY <1>1, Deaths
    <2>2. CASE CreateRefused
      BY <1>1, <2>2 DEF CreateRefused, WayUp, Unopenable
    <2>3. CASE Clean
      BY <1>1, <2>1, <2>3 DEF Clean, WayUp, StartInv
    <2> QED BY <2>1, <2>2, <2>3
  <1>2. StartInv /\ WayUp /\ [Next]_vars
          => [pc' = "died" => \/ Unopenable
                              \/ Required \subseteq families' /\ "test" \in counted']_vars
    BY <1>1
  <1> QED BY <1>2, StartInvariant, WayUpAlways, PTL DEF Spec, DyingHeals

\* An unopenable database on which no server runs stays so: the starts to come stop at Check,
\* at the refusal or at a crash, and none of them changes what is on disk.
LEMMA NoWayBack == Spec => LostForGood
  <1>1. ASSUME StartInv, WayUp, [Next]_vars, Unopenable, ~Answering
        PROVE  (Unopenable /\ ~Answering)'
    <2>1. pc \in {"check", "create", "crashed", "died"}
      BY <1>1 DEF StartInv, TypeOK, WayUp, Unopenable, Answering
    <2>2. CASE UNCHANGED vars
      BY <1>1, <2>2 DEF vars, disk, Unopenable, Answering
    <2>3. CASE Next
      <3>1. Check \/ CreateRefused \/ Create \/ Crash \/ Restart
        BY <2>1, <2>3 DEF Next, StartStep, Open, Add, Clean, Users, ClientStep, Register, Delete,
                          CallStep, RegisterCommit, Drop, DropNull
      <3>2. ~Create
        BY <1>1 DEF Create, Unopenable
      <3>3. families' = families /\ pc' \in {"check", "create", "crashed", "died"}
        BY <1>1, <3>1, <3>2
           DEF Check, CreateRefused, Crash, Restart, Die, End, Goto, Unopenable, disk
      <3> QED BY <1>1, <3>3 DEF Unopenable, Answering
    <2> QED BY <1>1, <2>2, <2>3
  <1>2. StartInv /\ WayUp /\ [Next]_vars
          => [Unopenable /\ ~Answering => (Unopenable /\ ~Answering)']_vars
    BY <1>1
  <1> QED BY <1>2, StartInvariant, WayUpAlways, PTL DEF Spec, LostForGood

\* Whatever clients delete: every death on the way up is the last one for its reason, or met a
\* database that no later start, however often it is tried or cut short, brings back.
THEOREM DeathsAreExplained == Spec => DeathsExplained
  BY DeathsHeal, NoWayBack DEF DeathsExplained

=============================================================================
