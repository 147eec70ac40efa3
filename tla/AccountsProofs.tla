--------------------------- MODULE AccountsProofs ---------------------------
(***************************************************************************)
(* Proofs about users and tokens, for every set of calls, every lifetime    *)
(* and every number of restarts.  What makes the properties inductive is    *)
(* where the calls are that a record of the database stems from: their      *)
(* arguments can no longer change.                                          *)
(***************************************************************************)
EXTENDS Accounts, TLAPS

TokenOf(l) == [key |-> l, username |-> arg[l].name, valid_until |-> until[l]]

\* a stored creation or login is past its raw_save
StoredPast ==
    /\ \A c \in Creations : c \in stored => pc[c] \in {"created", "201", "lost"}
    /\ \A l \in Logins : l \in stored => pc[l] \in {"saved", "200", "lost"}

\* a user was made by a stored creation
UsersStored ==
    \A n \in Names : users[n] # NoUser =>
        \E c \in Creations : c \in stored /\ arg[c] = [name |-> n, password |-> users[n]]

\* a login past its check of the password has it from a stored creation
KnownStored ==
    \A l \in Logins : pc[l] \in {"known", "made", "saved", "200"} \/ l \in stored =>
        \E c \in Creations : c \in stored /\ arg[c] = arg[l]

\* a token in the database is the one a stored login made
TokensStored == \A t \in tokens : t.key \in stored /\ t = TokenOf(t.key)

\* the fresh tokens are in the database; cleanTokens runs before there are any, and without an entry
\* for their family there are none
FreshThere ==
    /\ fresh \subseteq stored
    /\ phase # "up" \/ handle["tokens"] = "none" => fresh = {}
    /\ \A l \in fresh : TokenOf(l) \in tokens

\* no call is under way in a process that does not serve
Ended == phase # "up" => \A c \in Calls : pc[c] \in Answers \cup {"idle", "lost"}

\* a late creation has its user still, and is refused or on the way to it
LateRefused ==
    \A c \in late : /\ users[arg[c].name] # NoUser
                    /\ c \notin stored /\ pc[c] \in {"received", "taken", "403", "error", "500", "lost"}

IInv ==
    /\ TypeOK /\ StoredPast /\ UsersStored /\ KnownStored
    /\ TokensStored /\ FreshThere /\ Ended /\ LateRefused

LEMMA NoArgType == NoArg \in Bodies
  BY BodiesAssumption DEF NoArg

LEMMA InitIInv == Init => IInv
<1> SUFFICES ASSUME Init PROVE IInv
  OBVIOUS
<1>1. TypeOK
  <2>1. arg \in [Calls -> Bodies]
    BY NoArgType DEF Init
  <2>2. now \in 0 .. MaxTime /\ ends \in 0 .. MaxEnds
    BY LifeAssumption DEF Init
  <2> QED
    BY <2>1, <2>2 DEF Init, TypeOK
<1>2. StoredPast /\ UsersStored /\ TokensStored /\ FreshThere /\ Ended /\ LateRefused
  BY DEF Init, StoredPast, UsersStored, TokensStored, FreshThere, Ended, LateRefused
<1>3. KnownStored
  BY DEF Init, KnownStored, Calls
<1> QED
  BY <1>1, <1>2, <1>3 DEF IInv

\* the steps with which the process ends
Ends ==
    \/ Kill \/ FilterDies
    \/ \E c \in Calls : GetUserDies(c)
    \/ \E f \in Touched : DropDies(f)

LEMMA EndsAreEnds == Ends => End /\ phase # "down"
  BY DEF Ends, Kill, FilterDies, GetUserDies, DropDies

LEMMA NextTypeOK == TypeOK /\ [Next]_vars => TypeOK'
<1> SUFFICES ASSUME TypeOK, [Next]_vars PROVE TypeOK'
  OBVIOUS
<1> USE LoginsAssumption, LifeAssumption, UserAssumption, BodiesAssumption
<1>1. CASE UNCHANGED vars
  BY <1>1 DEF TypeOK, vars, disk, server, calls
<1>2. ASSUME NEW c \in Calls, Receive(c) PROVE TypeOK'
  BY <1>2 DEF TypeOK, Receive, At, Goto, disk, server, calls
<1>3. ASSUME NEW c \in Creations, Check(c) PROVE TypeOK'
  BY <1>3 DEF TypeOK, Check, At, Goto, IfThere, disk, server, calls, Calls
<1>4. ASSUME NEW c \in Creations, Create(c) PROVE TypeOK'
  BY <1>4 DEF TypeOK, Create, At, Goto, IfThere, disk, server, calls, Calls
<1>5. ASSUME NEW c \in Calls, Answer(c) PROVE TypeOK'
  BY <1>5 DEF TypeOK, Answer, Status, Answers, Goto, disk, server, calls
<1>6. ASSUME NEW l \in Logins, Authenticate(l) PROVE TypeOK'
  BY <1>6 DEF TypeOK, Authenticate, At, Goto, IfThere, disk, server, calls, Calls
<1>7. ASSUME NEW l \in Logins, CreateToken(l) PROVE TypeOK'
  BY <1>7 DEF TypeOK, CreateToken, At, Goto, IfThere, disk, server, calls, Calls
<1>8. ASSUME NEW l \in Logins, SaveToken(l) PROVE TypeOK'
  BY <1>8 DEF TypeOK, SaveToken, At, Goto, IfThere, disk, server, calls, Calls, Token
<1>9. CASE StartStep
  <2>2. CASE Collect
    BY <2>2 DEF TypeOK, Collect, KeysSeen, disk, calls
  <2> QED
    BY <1>9, <2>2 DEF TypeOK, StartStep, Start, Delete, Serve, disk, calls
<1>10. ASSUME NEW f \in Touched, DropFamily(f) PROVE TypeOK'
  BY <1>10, TouchedAssumption DEF TypeOK, DropFamily, Families, Calls
<1>13. ASSUME NEW f \in Touched, RegisterFamily(f) PROVE TypeOK'
  BY <1>13, TouchedAssumption DEF TypeOK, RegisterFamily, calls
<1>11. CASE Tick
  BY <1>11 DEF TypeOK, Tick, disk, server, calls
<1>12. CASE Ends
  <2>1. End
    BY <1>12, EndsAreEnds
  <2> QED
    BY <2>1 DEF TypeOK, End, disk
<1> QED
  BY <1>1, <1>2, <1>3, <1>4, <1>5, <1>6, <1>7, <1>8, <1>9, <1>10, <1>11, <1>12, <1>13
  DEF Next, CreationStep, LoginStep, Filter, Calls, Ends

\* Every step preserves the invariant: one step per action, one conjunct at a time.
LEMMA NextIInv == IInv /\ [Next]_vars => IInv'
<1> SUFFICES ASSUME IInv, [Next]_vars PROVE IInv'
  OBVIOUS
<1> USE LoginsAssumption, LifeAssumption, UserAssumption, BodiesAssumption
<1>t. TypeOK /\ TypeOK'
  BY NextTypeOK DEF IInv
<1> DEFINE Rest == StoredPast /\ UsersStored /\ KnownStored /\ TokensStored /\ FreshThere
                     /\ Ended /\ LateRefused
<1>1. ASSUME UNCHANGED vars PROVE Rest'
  <2> USE <1>1 DEF IInv, vars, disk, server, calls
  <2>1. StoredPast' /\ UsersStored' /\ KnownStored' BY DEF StoredPast, UsersStored, KnownStored
  <2>2. TokensStored' /\ FreshThere' /\ Ended' /\ LateRefused'
    BY DEF TokensStored, FreshThere, Ended, LateRefused, TokenOf
  <2> QED BY <2>1, <2>2
<1>2. ASSUME NEW c \in Calls, Receive(c) PROVE Rest'
  <2> USE <1>2 DEF Receive, At, Goto, disk, server
  <2>1. StoredPast' BY <1>t DEF IInv, StoredPast, TypeOK, Calls
  <2>2. UsersStored' BY <1>t DEF IInv, StoredPast, UsersStored, TypeOK, Calls
  <2>3. KnownStored' BY <1>t DEF IInv, StoredPast, KnownStored, TypeOK, Calls
  <2>4. TokensStored' BY <1>t DEF IInv, StoredPast, TokensStored, TokenOf, TypeOK, Calls, Token
  <2>5. FreshThere' BY <1>t DEF IInv, StoredPast, FreshThere, TokenOf, TypeOK, Calls
  <2>6. Ended' BY DEF IInv, Ended
  <2>7. LateRefused' BY <1>t DEF IInv, LateRefused, StoredPast, TypeOK, Calls
  <2> QED BY <2>1, <2>2, <2>3, <2>4, <2>5, <2>6, <2>7
<1>3. ASSUME NEW c \in Creations, Check(c) PROVE Rest'
  <2> USE <1>3, <1>t DEF Check, At, Goto, IfThere, disk, server, IInv, TypeOK, Calls
  <2>1. StoredPast' BY DEF StoredPast
  <2>2. UsersStored' BY DEF UsersStored
  <2>3. KnownStored' BY DEF KnownStored
  <2>4. TokensStored' BY DEF TokensStored, TokenOf
  <2>5. FreshThere' BY DEF FreshThere, TokenOf
  <2>6. Ended' BY DEF Ended, Answers
  <2>7. LateRefused' BY DEF LateRefused, Ended, Answers
  <2> QED BY <2>1, <2>2, <2>3, <2>4, <2>5, <2>6, <2>7
<1>4. ASSUME NEW c \in Creations, Create(c) PROVE Rest'
  <2> USE <1>4, <1>t DEF Create, At, Goto, IfThere, Reaches, server, IInv, TypeOK, Calls
  <2>1. StoredPast'
    <3>1. c \notin stored BY DEF StoredPast
    <3>2. c \in stored' => pc'[c] = "created"
      <4>1. CASE handle["users"] # "ok" BY <3>1, <4>1
      <4>2. CASE handle["users"] = "ok" BY <4>2
      <4> QED BY <4>1, <4>2
    <3>3. stored' \subseteq stored \cup {c} /\ \A d \in Calls \ {c} : pc'[d] = pc[d] OBVIOUS
    <3> HIDE <1>4 DEF Create
    <3> QED BY <3>2, <3>3, LoginsAssumption DEF StoredPast
  <2>2. UsersStored' BY DEF UsersStored
  <2>3. KnownStored' BY DEF KnownStored
  <2>4. TokensStored' BY DEF TokensStored, TokenOf
  <2>5. FreshThere' BY DEF FreshThere, TokenOf
  <2>6. Ended' BY DEF Ended, Answers
  <2>7. LateRefused' BY DEF LateRefused, Ended, Answers
  <2> QED BY <2>1, <2>2, <2>3, <2>4, <2>5, <2>6, <2>7
<1>5. ASSUME NEW c \in Calls, Answer(c) PROVE Rest'
  <2> USE <1>5, <1>t DEF Answer, Status, Goto, disk, server, IInv, TypeOK, Calls
  <2>1. StoredPast' BY DEF StoredPast
  <2>2. UsersStored' BY DEF UsersStored
  <2>3. KnownStored' BY DEF KnownStored
  <2>4. TokensStored' BY DEF TokensStored, TokenOf
  <2>5. FreshThere' BY DEF FreshThere, TokenOf
  <2>6. Ended' BY DEF Ended, Answers
  <2>7. LateRefused' BY DEF LateRefused, Ended, Answers
  <2> QED BY <2>1, <2>2, <2>3, <2>4, <2>5, <2>6, <2>7
<1>6. ASSUME NEW l \in Logins, Authenticate(l) PROVE Rest'
  <2> USE <1>6, <1>t DEF Authenticate, At, Goto, IfThere, disk, server, IInv, TypeOK, Calls
  <2>1. StoredPast' BY DEF StoredPast
  <2>2. UsersStored' BY DEF UsersStored
  <2>3. KnownStored' BY DEF KnownStored, UsersStored
  <2>4. TokensStored' BY DEF TokensStored, TokenOf
  <2>5. FreshThere' BY DEF FreshThere, TokenOf
  <2>6. Ended' BY DEF Ended, Answers
  <2>7. LateRefused' BY DEF LateRefused, Ended, Answers
  <2> QED BY <2>1, <2>2, <2>3, <2>4, <2>5, <2>6, <2>7
<1>7. ASSUME NEW l \in Logins, CreateToken(l) PROVE Rest'
  <2> USE <1>7, <1>t DEF CreateToken, At, Goto, disk, server, IInv, TypeOK, Calls
  <2>1. StoredPast' BY DEF StoredPast
  <2>2. UsersStored' BY DEF UsersStored
  <2>3. KnownStored' BY DEF KnownStored
  <2>4. TokensStored' BY DEF TokensStored, TokenOf, StoredPast, Token
  <2>5. FreshThere' BY DEF FreshThere, TokenOf, StoredPast
  <2>6. Ended' BY DEF Ended, Answers
  <2>7. LateRefused' BY DEF LateRefused, Ended, Answers
  <2> QED BY <2>1, <2>2, <2>3, <2>4, <2>5, <2>6, <2>7
<1>8. ASSUME NEW l \in Logins, SaveToken(l) PROVE Rest'
  <2> USE <1>8, <1>t DEF SaveToken, At, Goto, IfThere, Reaches, Families, server, IInv, TypeOK, Calls
  <2>1. StoredPast'
    <3>1. l \notin stored BY DEF StoredPast
    <3>2. l \in stored' => pc'[l] = "saved"
      <4>1. CASE \E f \in Families : handle[f] # "ok" BY <3>1, <4>1
      <4>2. CASE \A f \in Families : handle[f] = "ok" BY <4>2
      <4> QED BY <4>1, <4>2
    <3>3. stored' \subseteq stored \cup {l} /\ \A d \in Calls \ {l} : pc'[d] = pc[d] OBVIOUS
    <3> HIDE <1>8 DEF SaveToken, Reaches, IfThere, Families, Goto, At
    <3> QED BY <3>2, <3>3, LoginsAssumption DEF StoredPast
  <2>2. UsersStored' BY DEF UsersStored
  <2>3. KnownStored' BY DEF KnownStored
  <2>4. TokensStored' BY DEF TokensStored, TokenOf
  <2>5. FreshThere'
    <3>1. phase' = phase /\ handle' = handle /\ phase = "up" OBVIOUS
    <3>2. \A k \in Logins : TokenOf(k)' = TokenOf(k) BY DEF TokenOf
    <3>3. CASE \A f \in Families : handle[f] = "ok"
      <4>1. handle["tokens"] = "ok" BY <3>3
      <4>2. \/ tokens' = tokens /\ stored' = stored /\ fresh' = fresh
            \/ /\ tokens' = tokens \cup {TokenOf(l)}
               /\ stored' = stored \cup {l} /\ fresh' = fresh \cup {l}
        BY DEF TokenOf
      <4> HIDE <1>8 DEF SaveToken, Reaches, IfThere, Families, Goto, At
      <4> QED BY <3>1, <3>2, <4>1, <4>2 DEF FreshThere
    <3>4. CASE \E f \in Families : handle[f] # "ok"
      <4>1. tokens' = tokens /\ stored' = stored /\ fresh' = fresh BY <3>4
      <4> HIDE <1>8 DEF SaveToken, Reaches, IfThere, Families, Goto, At
      <4> QED BY <3>1, <3>2, <4>1 DEF FreshThere
    <3> QED BY <3>3, <3>4
  <2>6. Ended' BY DEF Ended, Answers
  <2>7. LateRefused' BY DEF LateRefused, Ended, Answers
  <2> QED BY <2>1, <2>2, <2>3, <2>4, <2>5, <2>6, <2>7
<1>9. ASSUME StartStep \/ Tick PROVE Rest'
  <2> USE <1>9, <1>t DEF StartStep, Start, Collect, Delete, Serve, Tick, Families,
        disk, server, calls, IInv, TypeOK, Calls
  <2>1. StoredPast' BY DEF StoredPast
  <2>2. UsersStored' BY DEF UsersStored
  <2>3. KnownStored' BY DEF KnownStored, Answers
  <2>4. TokensStored' BY DEF TokensStored, TokenOf
  <2>5. FreshThere' BY DEF FreshThere, TokenOf
  <2>6. Ended' BY DEF Ended, Answers
  <2>7. LateRefused' BY DEF LateRefused, Ended, Answers
  <2> QED BY <2>1, <2>2, <2>3, <2>4, <2>5, <2>6, <2>7
<1>10. ASSUME NEW f \in Touched, DropFamily(f) PROVE Rest'
  <2> USE <1>10, <1>t, TouchedAssumption DEF DropFamily, IInv, TypeOK, Calls, Families
  <2>1. StoredPast' BY DEF StoredPast
  <2>2. UsersStored' BY DEF UsersStored
  <2>3. KnownStored' BY DEF KnownStored
  <2>4. TokensStored' BY DEF TokensStored, TokenOf
  <2>5. FreshThere' BY DEF FreshThere, TokenOf
  <2>6. Ended' BY DEF Ended, Answers
  <2>7. LateRefused' BY DEF LateRefused, Ended, Answers
  <2> QED BY <2>1, <2>2, <2>3, <2>4, <2>5, <2>6, <2>7
<1>11. ASSUME NEW f \in Touched, RegisterFamily(f) PROVE Rest'
  <2> USE <1>11, <1>t, TouchedAssumption DEF RegisterFamily, calls, IInv, TypeOK, Calls, Families
  <2>1. StoredPast' BY DEF StoredPast
  <2>2. UsersStored' BY DEF UsersStored
  <2>3. KnownStored' BY DEF KnownStored
  <2>4. TokensStored' BY DEF TokensStored, TokenOf
  <2>5. FreshThere' BY DEF FreshThere, TokenOf
  <2>6. Ended' BY DEF Ended, Answers
  <2>7. LateRefused' BY DEF LateRefused, Ended, Answers
  <2> QED BY <2>1, <2>2, <2>3, <2>4, <2>5, <2>6, <2>7
<1>12. ASSUME Ends PROVE Rest'
  <2>e. End /\ phase # "down"
    BY <1>12, EndsAreEnds
  <2> USE <2>e, <1>t DEF End, disk, IInv, TypeOK, Calls
  <2>1. StoredPast' BY DEF StoredPast
  <2>2. UsersStored' BY DEF UsersStored
  <2>3. KnownStored' BY DEF KnownStored, Answers
  <2>4. TokensStored' BY DEF TokensStored, TokenOf
  <2>5. FreshThere' BY DEF FreshThere, TokenOf
  <2>6. Ended' BY DEF Ended, Answers
  <2>7. LateRefused' BY DEF LateRefused, Ended, Answers
  <2> QED BY <2>1, <2>2, <2>3, <2>4, <2>5, <2>6, <2>7
<1> QED
  <2>1. Rest'
    <3> HIDE DEF Rest
    <3> QED
      BY <1>1, <1>2, <1>3, <1>4, <1>5, <1>6, <1>7, <1>8, <1>9, <1>10, <1>11, <1>12
      DEF Next, CreationStep, LoginStep, Filter, Calls, Ends
  <2> QED
    BY <1>t, <2>1 DEF IInv

\* Every variable keeps its type, for every set of calls.
THEOREM AccountsTypeCorrect == Spec => []TypeOK
<1>1. IInv => TypeOK
  BY DEF IInv
<1> QED
  BY InitIInv, NextIInv, <1>1, PTL DEF Spec

\* A token the filter accepts was made by a login under that name, within its lifetime, with the
\* password of a stored creation of the user.
THEOREM AcceptedTokensWereIssued == Spec => []AcceptedWasIssued
<1>1. IInv => AcceptedWasIssued
  BY LoginsAssumption
  DEF IInv, TypeOK, Token, KnownStored, TokensStored, TokenOf, AcceptedWasIssued, ValidateAccessToken
<1> QED
  BY InitIInv, NextIInv, <1>1, PTL DEF Spec

\* A token saved since the last start and the last deletion of /__tokens is accepted through the last
\* second of its lifetime, as long as no client has registered /__tokens on the family there is.
THEOREM TokensAreHonoured == Spec => []TokenHonoured
<1>1. IInv => TokenHonoured
  <2> SUFFICES ASSUME IInv, NEW l \in fresh, now <= until[l], handle["tokens"] # "null"
              PROVE ValidateAccessToken(arg[l].name, l)
    BY DEF TokenHonoured
  <2>1. TokenOf(l) \in tokens /\ ~(until[l] < now)
    BY LifeAssumption DEF IInv, TypeOK, FreshThere
  <2>2. handle["tokens"] = "ok"
    BY DEF IInv, TypeOK, FreshThere, Families
  <2> QED
    BY <2>1, <2>2 DEF TokenOf, ValidateAccessToken
<1> QED
  BY InitIInv, NextIInv, <1>1, PTL DEF Spec

\* A creation that came when its user was there, and saw no deletion of /__users, never writes.
THEOREM LateCreationsAreRefused == Spec => []LateCreationRefused
<1>1. IInv => LateCreationRefused
  BY DEF IInv, TypeOK, StoredPast, LateRefused, LateCreationRefused
<1> QED
  BY InitIInv, NextIInv, <1>1, PTL DEF Spec

=============================================================================
