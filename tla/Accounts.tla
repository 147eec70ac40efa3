------------------------------ MODULE Accounts ------------------------------
(***************************************************************************)
(* Users and their access tokens: POST /__users, POST /authenticate, the    *)
(* check of a token in front of every request, and the clean-up of expired  *)
(* tokens by a start of the server.                                         *)
(*                                                                         *)
(* Requests run on several threads, POST /__users on those of the CPU pool; *)
(* each is cut where it goes to the database or reads the clock.  What is   *)
(* answered to a request that cannot be parsed, and a handler that is       *)
(* deleted while it works, belong to module Requests.  The second copies    *)
(* that raw_save puts among all objects are not read here and left out.     *)
(*                                                                         *)
(* Clients may delete the endpoints /__users and /__tokens, and with them   *)
(* the two families, and may register them again, at any time: on a family  *)
(* that is there this installs a null handle.  A start has both families    *)
(* and handles again (module Boot has the starts that fail at that).  Here  *)
(* both calls are a step each; how their steps overlap with others, and the *)
(* key that a write through a null handle puts into the default family, are *)
(* left to module Endpoints.  The user admin, which a start creates when    *)
(* nobody else does, is not among the creations.                            *)
(***************************************************************************)
EXTENDS Integers, FiniteSets

CONSTANTS
    Names, Passwords,
    Bodies,        \* the bodies of both calls, each a name and a password
    Creations,     \* the calls of POST /__users
    Logins,        \* the calls of POST /authenticate; each may make one token, and the order
                   \* of the numbers is the order of these tokens' keys in the database
    Touched,       \* the endpoints, of "users" and "tokens", that clients delete and register
    Life,          \* the lifetime of a token in seconds: five minutes
    MaxTime,       \* bound on the clock
    MaxEnds,       \* bound on the ends of the process
    Failures,      \* what may fail: "save" the writes of a raw_save or of the clean-up, "family"
                   \* the creation or the drop of a column family
    NoUser         \* what get_user returns for a name without a user

Calls == Creations \cup Logins
Families == {"users", "tokens"}

ASSUME BodiesAssumption == Bodies # {} /\ Bodies \subseteq [name : Names, password : Passwords]
ASSUME LoginsAssumption == Logins \subseteq Nat /\ Creations \cap Logins = {}
ASSUME TouchedAssumption == Touched \subseteq Families
ASSUME LifeAssumption == Life \in Nat /\ MaxTime \in Nat /\ MaxEnds \in Nat
ASSUME UserAssumption == NoUser \notin Passwords

VARIABLES
    users,     \* family /__users: the password of each user
    tokens,    \* family /__tokens
    families,  \* those of Families that the database has
    handle,    \* the entry of _cfh_map of each: "ok", "null", or "none" if there is no entry
    now,       \* the clock, in seconds
    phase,     \* the process: "down", "clean", "delete" (both in cleanTokens) or "up"
    doomed,    \* the tokens cleanTokens is about to delete
    ends,      \* how often the process has ended
    pc,        \* where each call is, or how it was answered
    arg,       \* name and password in the body of a call
    until,     \* valid_until of the token a login has made
    stored,    \* the calls whose raw_save has committed
    fresh,     \* the logins of which that was since the last start and deletion of /__tokens
    late       \* the creations that came when their user was there and not deleted since

disk == <<users, tokens, families>>
server == <<phase, doomed, ends, handle>>
calls == <<pc, arg, until, stored, fresh, late>>
vars == <<disk, now, server, calls>>

Token == [key : Logins, username : Names, valid_until : Nat]
Answers == {"201", "403", "500", "200", "401"}
NoArg == CHOOSE a \in Bodies : TRUE

Init ==
    /\ users = [n \in Names |-> NoUser]
    /\ tokens = {}
    /\ families = Families
    /\ handle = [f \in Families |-> "ok"]
    /\ now = 0
    /\ phase = "up"
    /\ doomed = {}
    /\ ends = 0
    /\ pc = [c \in Calls |-> "idle"]
    /\ arg = [c \in Calls |-> NoArg]
    /\ until = [l \in Logins |-> 0]
    /\ stored = {}
    /\ fresh = {}
    /\ late = {}

-----------------------------------------------------------------------------

At(c, l) == phase = "up" /\ pc[c] = l
Goto(c, l) == pc' = [pc EXCEPT ![c] = l]

\* without an entry at() throws, and the call goes on as told by the third argument
IfThere(fs, l, error) == IF \A f \in fs : handle[f] # "none" THEN l ELSE error

\* the writes of raw_save are committed together, or fail together; that they failed is only
\* logged, and the caller goes on
Outcomes(kind) == IF kind \in Failures THEN BOOLEAN ELSE {TRUE}

\* do the writes of raw_save reach the families?  Without an entry there are none, and through a
\* null handle they go to the default family.
Reaches(fs) == IF \A f \in fs : handle[f] = "ok" THEN Outcomes("save") ELSE {FALSE}

Receive(c) ==
    /\ At(c, "idle")
    /\ Goto(c, "received")
    /\ \E a \in Bodies :
         /\ arg' = [arg EXCEPT ![c] = a]
         /\ late' = IF c \in Creations /\ users[a.name] # NoUser THEN late \cup {c} ELSE late
    /\ UNCHANGED <<disk, now, server, until, stored, fresh>>

-----------------------------------------------------------------------------
(* POST /__users *)

\* get_user, on the pool
CheckAlways(c) ==   \* mutant
    /\ At(c, "received")
    /\ Goto(c, "free")
    /\ UNCHANGED <<disk, now, server, arg, until, stored, fresh, late>>
Check(c) ==
    /\ At(c, "received")
    /\ handle["users"] # "null"
    /\ Goto(c, IfThere({"users"}, IF users[arg[c].name] = NoUser THEN "free" ELSE "taken", "error"))
    /\ UNCHANGED <<disk, now, server, arg, until, stored, fresh, late>>

\* create_user: what is there by now is overwritten
Create(c) ==
    /\ At(c, "free")
    /\ Goto(c, IfThere({"users"}, "created", "error"))
    /\ \E ok \in Reaches({"users"}) :
         /\ users' = IF ok THEN [users EXCEPT ![arg[c].name] = arg[c].password] ELSE users
         /\ stored' = IF ok THEN stored \cup {c} ELSE stored
    /\ UNCHANGED <<tokens, families, now, server, arg, until, fresh, late>>

-----------------------------------------------------------------------------
(* POST /authenticate *)

\* authenticate
AuthenticateName(l) ==   \* mutant
    /\ At(l, "received")
    /\ Goto(l, IF users[arg[l].name] # NoUser THEN "known" ELSE "wrong")
    /\ UNCHANGED <<disk, now, server, arg, until, stored, fresh, late>>
Authenticate(l) ==
    /\ At(l, "received")
    /\ handle["users"] # "null"
    /\ Goto(l, IfThere({"users"}, IF users[arg[l].name] = arg[l].password THEN "known" ELSE "wrong",
                      "wrong"))
    /\ UNCHANGED <<disk, now, server, arg, until, stored, fresh, late>>

\* createToken
CreateTokenPast(l) ==   \* mutant
    /\ At(l, "known")
    /\ Goto(l, "made")
    /\ until' = [until EXCEPT ![l] = now - Life]
    /\ UNCHANGED <<disk, now, server, arg, stored, fresh, late>>
CreateToken(l) ==
    /\ At(l, "known")
    /\ Goto(l, "made")
    /\ until' = [until EXCEPT ![l] = now + Life]
    /\ UNCHANGED <<disk, now, server, arg, stored, fresh, late>>

\* the rest of get_access_token: it looks for the user once more
SaveToken(l) ==
    /\ At(l, "made")
    /\ handle["users"] # "null"
    /\ Goto(l, IfThere(Families, "saved", "wrong"))
    /\ \E ok \in Reaches(Families) :
         /\ tokens' = IF ok THEN tokens \cup {[key |-> l, username |-> arg[l].name,
                                               valid_until |-> until[l]]}
                            ELSE tokens
         /\ stored' = IF ok THEN stored \cup {l} ELSE stored
         /\ fresh' = IF ok THEN fresh \cup {l} ELSE fresh
    /\ UNCHANGED <<users, families, now, server, arg, until, late>>

-----------------------------------------------------------------------------

\* the answer, on the event base
StatusNoConflict == [created |-> "201", error |-> "500", saved |-> "200", wrong |-> "401"]   \* mutant
Status == [created |-> "201", taken |-> "403", error |-> "500", saved |-> "200", wrong |-> "401"]
Answer(c) ==
    /\ phase = "up"
    /\ pc[c] \in DOMAIN Status
    /\ Goto(c, Status[pc[c]])
    /\ UNCHANGED <<disk, now, server, arg, until, stored, fresh, late>>

\* validate_access_token, by which the filter decides about a request
ValidateStrict(name, key) ==   \* mutant
    /\ handle["tokens"] = "ok"
    /\ \E t \in tokens : t.key = key /\ ~(t.valid_until <= now) /\ t.username = name
ValidateAccessToken(name, key) ==
    /\ handle["tokens"] = "ok"
    /\ \E t \in tokens : t.key = key /\ ~(t.valid_until < now) /\ t.username = name

-----------------------------------------------------------------------------
(* The two endpoints, deleted and registered by clients *)

\* delete_endpoint: the entry goes, and the family with what is in it unless that fails
DropFamily(f) ==
    /\ phase = "up"
    /\ handle[f] = "ok"
    /\ handle' = [handle EXCEPT ![f] = "none"]
    /\ \E ok \in Outcomes("family") :
         /\ families' = IF ok THEN families \ {f} ELSE families
         /\ users' = IF ok /\ f = "users" THEN [n \in Names |-> NoUser] ELSE users
         /\ tokens' = IF ok /\ f = "tokens" THEN {} ELSE tokens
         /\ late' = IF ok /\ f = "users" THEN {} ELSE late
    /\ fresh' = IF f = "tokens" THEN {} ELSE fresh
    /\ UNCHANGED <<now, phase, doomed, ends, pc, arg, until, stored>>

\* add_endpoint: the handle is null if the family cannot be created, most of all if it is there.
\* A process that has one may have to end, so there is none after the last end.
RegisterFamily(f) ==
    /\ phase = "up"
    /\ \E ok \in IF f \in families THEN {FALSE} ELSE Outcomes("family") :
         /\ ok \/ ends < MaxEnds
         /\ families' = IF ok THEN families \cup {f} ELSE families
         /\ handle' = [handle EXCEPT ![f] = IF ok THEN "ok" ELSE "null"]
    /\ UNCHANGED <<users, tokens, now, phase, doomed, ends, calls>>

-----------------------------------------------------------------------------
(* The process *)

Tick == now < MaxTime /\ now' = now + 1 /\ UNCHANGED <<disk, server, calls>>

\* the end of the process, and with it of the calls that are not answered
End ==
    /\ ends < MaxEnds
    /\ ends' = ends + 1
    /\ phase' = "down"
    /\ doomed' = {}
    /\ pc' = [c \in Calls |-> IF pc[c] \in Answers \cup {"idle"} THEN pc[c] ELSE "lost"]
    /\ fresh' = {}
    /\ UNCHANGED <<disk, now, handle, arg, until, stored, late>>

\* get_user dereferences a null handle
GetUserDies(c) ==
    /\ phase = "up"
    /\ pc[c] \in {"received", "made"}
    /\ handle["users"] = "null"
    /\ End

\* so does delete_endpoint in the end
DropDies(f) == phase = "up" /\ handle[f] = "null" /\ End

\* The filter of a request with a token looks into the family of the tokens: nobody catches what
\* at() throws, and a null handle is dereferenced.
FilterDies == phase = "up" /\ handle["tokens"] # "ok" /\ End

\* whatever else ends it, the race on _cfh_map of a registration or deletion with another call
\* among it
Kill == phase # "down" /\ End

\* any other request only has its token looked up, if it has one
Filter == phase = "up" /\ UNCHANGED vars

Start ==
    /\ phase = "down"
    /\ phase' = "clean"
    /\ families' = Families
    /\ handle' = [f \in Families |-> "ok"]
    /\ UNCHANGED <<users, tokens, now, doomed, ends, calls>>

Expired(t) == t.valid_until <= now

\* The key of an entry is used after the iterator was moved on.  By then the slice may show the
\* key of the entry that follows, all keys being of one length.
KeysSeen(t) ==
    {t} \cup {s \in tokens : s.key > t.key /\ \A r \in tokens : ~(t.key < r.key /\ r.key < s.key)}

\* the loop of cleanTokens over the family
Collect ==
    /\ phase = "clean"
    /\ phase' = "delete"
    /\ \E seen \in [{t \in tokens : Expired(t)} -> tokens] :
         /\ \A t \in DOMAIN seen : seen[t] \in KeysSeen(t)
         /\ doomed' = {seen[t] : t \in DOMAIN seen}
    /\ UNCHANGED <<disk, now, ends, handle, calls>>

\* the loop that deletes; a failure is logged
DeleteRetries ==   \* mutant
    /\ phase = "delete"
    /\ \E t \in doomed, ok \in Outcomes("save") :
         /\ doomed' = IF ok THEN doomed \ {t} ELSE {}
         /\ phase' = IF ok THEN phase ELSE "clean"
         /\ tokens' = IF ok THEN tokens \ {t} ELSE tokens
    /\ UNCHANGED <<users, families, now, ends, handle, calls>>
Delete ==
    /\ phase = "delete"
    /\ \E t \in doomed, ok \in Outcomes("save") :
         /\ doomed' = doomed \ {t}
         /\ tokens' = IF ok THEN tokens \ {t} ELSE tokens
    /\ UNCHANGED <<users, families, now, phase, ends, handle, calls>>

Serve ==
    /\ phase = "delete"
    /\ doomed = {}
    /\ phase' = "up"
    /\ UNCHANGED <<disk, now, doomed, ends, handle, calls>>

CreationStep(c) == Check(c) \/ Create(c) \/ Answer(c) \/ GetUserDies(c)
LoginStep(l) == Authenticate(l) \/ CreateToken(l) \/ SaveToken(l) \/ Answer(l) \/ GetUserDies(l)
StartStep == Start \/ Collect \/ Delete \/ Serve

Next ==
    \/ \E c \in Calls : Receive(c)
    \/ \E c \in Creations : CreationStep(c)
    \/ \E l \in Logins : LoginStep(l)
    \/ \E f \in Touched : DropFamily(f) \/ RegisterFamily(f) \/ DropDies(f)
    \/ StartStep \/ Filter \/ FilterDies \/ Tick \/ Kill

Spec == Init /\ [][Next]_vars

\* threads run on, and a server that is down is started
FairSpec ==
    /\ Spec
    /\ \A c \in Creations : WF_vars(CreationStep(c))
    /\ \A l \in Logins : WF_vars(LoginStep(l))
    /\ WF_vars(StartStep)

-----------------------------------------------------------------------------
(* Properties *)

\* The type of every variable.
TypeOK ==
    /\ users \in [Names -> Passwords \cup {NoUser}]
    /\ tokens \subseteq Token /\ doomed \subseteq Token
    /\ families \subseteq Families
    /\ handle \in [Families -> {"ok", "null", "none"}]
    /\ now \in 0 .. MaxTime
    /\ phase \in {"down", "clean", "delete", "up"}
    /\ ends \in 0 .. MaxEnds
    /\ pc \in [Calls -> {"idle", "received", "free", "taken", "created", "error", "known", "wrong",
                         "made", "saved", "lost"} \cup Answers]
    /\ arg \in [Calls -> Bodies]
    /\ until \in [Logins -> Nat]
    /\ stored \subseteq Calls /\ fresh \subseteq Logins /\ late \subseteq Creations

\* A token the filter accepts with a name was made by a login under that name, not longer ago
\* than its lifetime, with the password of a creation of that user that was stored: whatever
\* restarts, clean-ups and creations came in between.
AcceptedWasIssued ==
    \A n \in Names, l \in Logins :
        ValidateAccessToken(n, l) =>
            /\ l \in stored /\ arg[l].name = n /\ now <= until[l]
            /\ \E c \in Creations : c \in stored /\ arg[c] = arg[l]

\* A token that was saved, since the last start and the last deletion of /__tokens by a client, is
\* accepted with its user's name up to the last second of its lifetime, that second included, as
\* long as the handle of the tokens is not a null one: that is, unless a client has registered
\* /__tokens on the family there is.
TokenHonoured ==
    \A l \in fresh :
        now <= until[l] /\ handle["tokens"] # "null" => ValidateAccessToken(arg[l].name, l)

\* A creation that came when its user was there, and saw no deletion of /__users, is never the one
\* that makes or overwrites it: a password changes only if two creations of the user were under
\* way together.
LateCreationRefused == stored \cap late = {}

\* A call that was received is answered, unless the process ends first.
CallsAnswered == \A c \in Calls : (pc[c] = "received") ~> (pc[c] \in Answers \cup {"lost"})

\* Whatever tokens a start finds that has a handle of their family, with deletions that fail, it gets to serving.
GetsUp == []<>(phase = "up")

\* "user with same username already exists" (UserRequestHandler): a name is given once.
OneCreation ==
    \A c, d \in Creations :
        c # d /\ arg[c].name = arg[d].name => ~(pc[c] = "201" /\ pc[d] = "201")

\* "if valid, request will proceed" (README): a token that was answered is accepted before it
\* expires.
UnexpiredTokenWorks ==
    \A l \in Logins :
        phase = "up" /\ pc[l] = "200" /\ now < until[l] => ValidateAccessToken(arg[l].name, l)
=============================================================================
