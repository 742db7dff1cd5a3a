--------------------------- MODULE Members_proofs ---------------------------
(***************************************************************************)
(* The tables stay well-formed and a registered project keeps an owner,    *)
(* for any number of users and requests.                                   *)
(*                                                                         *)
(* A removal is decided in one step and carried out in a later one, so     *)
(* that what was true at the decision has to hold until then: as long as   *)
(* nothing has raced, nobody else's removal is under way, the user's last  *)
(* look at the owners is still right, and an account about to be deleted   *)
(* has no membership.                                                      *)
(***************************************************************************)
EXTENDS Members, TLAPS

-----------------------------------------------------------------------------
(* Types *)

\* What a request needs to be one: the records that the operations enter with.
LEMMA RequestType ==
  ASSUME NEW u \in Users, NEW v \in Users, NEW role \in Role,
         NEW op \in Op
  PROVE  /\ Plain(op, u) \in Request
         /\ About(op, u, v) \in Request
         /\ [About(op, u, v) EXCEPT !.role = role] \in Request
BY DEF Plain, About, Request, Role

\* An answered request leaves an idle slot.
LEMMA EndType ==
  ASSUME TypeOK, NEW s \in Slots, End(s)
  PROVE  /\ pc' = [pc EXCEPT ![s] = "idle"]
         /\ pc' \in [Slots -> {"idle", "insert", "assign", "rollback", "level",
                       "write", "owner", "duplicate", "user", "add",
                       "subject", "actor", "leave", "erase", "projects",
                       "account"}]
         /\ req' \in [Slots -> Request]
BY DEF End, TypeOK, NoRequest, Plain, Request, Op, Role

\* A request that comes in changes its slot only.
LEMMA EnterType ==
  ASSUME TypeOK, NEW s \in Slots, NEW r \in Request, NEW ok \in BOOLEAN,
         NEW l \in {"insert", "level", "owner", "subject", "projects"},
         Enter(s, r, ok, l)
  PROVE  TypeOK'
BY DEF Enter, TypeOK, tables

\* The tables are well-formed at the start.
LEMMA TypeInit == Init => TypeOK
<1> SUFFICES ASSUME Init PROVE TypeOK
  OBVIOUS
<1>1. NoRequest \in Request
  BY DEF NoRequest, Plain, Request, Op, Role
<1>2. req \in [Slots -> Request]
  BY <1>1 DEF Init
<1>3. members \in [Users -> Role \cup {"none"}] /\ \A u \in Users : members[u] = "none"
  BY DEF Init
<1>4. QED BY <1>2, <1>3 DEF Init, TypeOK

\* Removing a project takes everything that refers to it along.
LEMMA DropType ==
  ASSUME TypeOK, DropProject
  PROVE  /\ project' \in {"none", "new", "there"}
         /\ members' \in [Users -> Role \cup {"none"}]
         /\ deployers' \in SUBSET Users
         /\ \A u \in Users : members'[u] = "none"
         /\ deployers' = {}
BY DEF DropProject, TypeOK

\* A check changes no table.
LEMMA CheckType ==
  ASSUME TypeOK, NEW s \in Slots, NEW ok \in BOOLEAN,
         NEW l \in {"write", "duplicate", "user", "add", "actor", "leave"},
         Check(s, ok, l)
  PROVE  TypeOK'
<1>1. CASE Goto(s, l)
  BY <1>1 DEF Check, Goto, TypeOK, tables
<1>2. CASE End(s)
  BY <1>2, EndType DEF Check, TypeOK, tables
<1>3. QED BY <1>1, <1>2 DEF Check, GotoIf

\* Every step of a request keeps the tables well-formed.
LEMMA ContinueType ==
  ASSUME TypeOK, NEW s \in Slots, Continue(s)
  PROVE  TypeOK'
<1>1. CASE CreateInserts(s)
  <2>1. CASE project = "none" /\ project' = "new" /\ Goto(s, "assign")
    BY <1>1, <2>1 DEF CreateInserts, Goto, TypeOK
  <2>2. CASE End(s) /\ UNCHANGED project
    BY <1>1, <2>2, EndType DEF CreateInserts, TypeOK
  <2>3. QED BY <1>1, <2>1, <2>2 DEF CreateInserts
<1>2. CASE CreateAssigns(s)
  BY <1>2, EndType DEF CreateAssigns, InsertMember, CanInsertMember, TypeOK, Role
<1>3. CASE CreateFails(s)
  BY <1>3 DEF CreateFails, Goto, TypeOK, tables
<1>4. CASE CreateRollsBack(s)
  BY <1>4, EndType, DropType DEF CreateRollsBack, TypeOK
<1>5. CASE AccessLevel(s)
  BY <1>5, CheckType DEF AccessLevel, IsOwner, isAdmin
<1>6. CASE UpdateWrites(s)
  BY <1>6, EndType DEF UpdateWrites, TypeOK, tables
<1>7. CASE RemoveDrops(s)
  BY <1>7, EndType, DropType DEF RemoveDrops, TypeOK
<1>8. CASE AddChecksOwner(s)
  BY <1>8, CheckType DEF AddChecksOwner, IsOwner, isAdmin
<1>9. CASE AddChecksMember(s)
  BY <1>9, CheckType DEF AddChecksMember
<1>10. CASE AddChecksUser(s)
  <2>1. (req[s].user \in account) \in BOOLEAN
    OBVIOUS
  <2>2. QED BY <1>10, <2>1, CheckType, Zenon DEF AddChecksUser
<1>11. CASE AddInserts(s)
  <2>1. req[s].role \in Role
    BY DEF TypeOK, Request
  <2>2. CASE InsertMember(req[s].user, req[s].role)
    BY <1>11, <2>1, <2>2, EndType DEF AddInserts, InsertMember, CanInsertMember, TypeOK
  <2>3. CASE UNCHANGED <<members, raced>>
    BY <1>11, <2>3, EndType DEF AddInserts, TypeOK
  <2>4. QED BY <1>11, <2>2, <2>3 DEF AddInserts
<1>12. CASE RemoveFindsMember(s)
  BY <1>12, CheckType DEF RemoveFindsMember
<1>13. CASE RemoveChecksActor(s)
  BY <1>13, CheckType DEF RemoveChecksActor, IsOwner, isAdmin
<1>14. CASE Leave(s)
  <2>1. raced' \in BOOLEAN
    BY <1>14 DEF Leave, TypeOK
  <2>2. CASE Goto(s, "erase")
    BY <1>14, <2>1, <2>2 DEF Leave, Goto, TypeOK, tables
  <2>3. CASE End(s)
    BY <1>14, <2>1, <2>3, EndType DEF Leave, TypeOK, tables
  <2>4. QED BY <1>14, <2>2, <2>3 DEF Leave, GotoIf
<1>15. CASE RemoveErases(s)
  BY <1>15, EndType DEF RemoveErases, TypeOK
<1>16. CASE DeleteProjects(s)
  <2>1. CASE DropProject
    BY <1>16, <2>1, DropType DEF DeleteProjects, Goto, TypeOK
  <2>2. CASE UNCHANGED <<project, members, deployers>>
    BY <1>16, <2>2 DEF DeleteProjects, Goto, TypeOK
  <2>3. QED BY <1>16, <2>1, <2>2 DEF DeleteProjects
<1>17. CASE DeleteUser(s)
  BY <1>17, EndType DEF DeleteUser, TypeOK
<1>18. QED
  BY <1>1, <1>2, <1>3, <1>4, <1>5, <1>6, <1>7, <1>8, <1>9, <1>10, <1>11, <1>12,
     <1>13, <1>14, <1>15, <1>16, <1>17 DEF Continue

\* A request that begins changes no table.
LEMMA StartType ==
  ASSUME TypeOK, NEW s \in Slots, NEW u \in Users, Start(s, u)
  PROVE  TypeOK'
<1>1. CASE Create(s, u)
  BY <1>1, EnterType, RequestType DEF Create, Op, Role
<1>2. CASE Update(s, u)
  BY <1>2, EnterType, RequestType DEF Update, MayEnter, isAdmin, Op, Role
<1>3. CASE Remove(s, u)
  BY <1>3, EnterType, RequestType DEF Remove, MayEnter, isAdmin, Op, Role
<1>4. CASE DeleteAccount(s, u)
  BY <1>4, EnterType, RequestType DEF DeleteAccount, Op, Role
<1>5. ASSUME NEW v \in Users, RemoveMember(s, u, v)
      PROVE  TypeOK'
  BY <1>5, EnterType, RequestType DEF RemoveMember, MayEnter, isAdmin, Op, Role
<1>6. ASSUME NEW v \in Users, NEW role \in Role, AddMember(s, u, v, role)
      PROVE  TypeOK'
  BY <1>6, EnterType, RequestType DEF AddMember, MayEnter, isAdmin, Op
<1>7. QED BY <1>1, <1>2, <1>3, <1>4, <1>5, <1>6 DEF Start

\* Whatever happens keeps the tables well-formed.
LEMMA TypeNext == TypeOK /\ [Next]_vars => TypeOK'
<1> SUFFICES ASSUME TypeOK, [Next]_vars PROVE TypeOK'
  OBVIOUS
<1>1. ASSUME NEW s \in Slots, Continue(s) PROVE TypeOK'
  BY <1>1, ContinueType
<1>2. ASSUME NEW s \in Slots, NEW u \in Users, Start(s, u) PROVE TypeOK'
  BY <1>2, StartType
<1>3. ASSUME NEW u \in Users, Login(u) PROVE TypeOK'
  BY <1>3 DEF Login, TypeOK
<1>4. ASSUME NEW u \in Users, Deploy(u) PROVE TypeOK'
  BY <1>4 DEF Deploy, MayEnter, TypeOK
<1>5. CASE UNCHANGED vars
  BY <1>5 DEF vars, tables, TypeOK
<1>6. QED BY <1>1, <1>2, <1>3, <1>4, <1>5 DEF Next

\* The foreign keys hold of all tables, whatever requests interleave: no member of a
\* project that is gone, none without an account.
THEOREM TypeCorrect == Spec => []TypeOK
BY TypeInit, TypeNext, PTL DEF Spec

-----------------------------------------------------------------------------
(* A registered project has an owner *)

\* A request under way is about users.
Filled ==
  /\ \A s \in Slots : pc[s] # "idle" => req[s].user \in Users /\ req[s].actor \in Users
  /\ \A s \in Slots : pc[s] \in {"projects", "account"} => req[s].user = req[s].actor

\* As long as nothing has raced: one removal is decided at a time ...
Lone ==
  ~raced => \A s, t \in Slots : pc[s] = "erase" /\ pc[t] = "erase" => s = t

\* ... somebody else remains an owner after it ...
Decided ==
  ~raced => \A s \in Slots :
    pc[s] = "erase" /\ members[req[s].user] = "owner" =>
      \E v \in Users \ {req[s].user} : members[v] = "owner"

\* ... and an account about to be deleted has no membership any more.
LeftOut ==
  ~raced => \A s \in Slots : pc[s] = "account" => members[req[s].user] = "none"

Inv == TypeOK /\ Filled /\ Lone /\ Decided /\ LeftOut /\ OwnerStays

\* It holds at the start, where nothing is under way.
LEMMA InvInit == Init => Inv
BY TypeInit DEF Init, Inv, Filled, Lone, Decided, LeftOut, OwnerStays

\* A step of a request that leaves the tables alone, and decides nothing.
LEMMA Quiet ==
  ASSUME Inv, TypeOK', NEW s \in Slots, NEW l, NEW r,
         l \notin {"erase", "account"},
         pc' = [pc EXCEPT ![s] = l], req' = [req EXCEPT ![s] = r],
         l # "idle" => r.user \in Users /\ r.actor \in Users,
         l = "projects" => r.user = r.actor,
         UNCHANGED <<project, members>>, raced => raced'
  PROVE  Inv'
<1>1. /\ pc \in [Slots -> {"idle", "insert", "assign", "rollback", "level",
                       "write", "owner", "duplicate", "user", "add",
                       "subject", "actor", "leave", "erase", "projects",
                       "account"}]
      /\ req \in [Slots -> Request]
      /\ raced \in BOOLEAN
  BY DEF Inv, TypeOK
<1>2. pc'[s] = l /\ req'[s] = r
  BY <1>1
<1>3. \A t \in Slots : t # s => pc'[t] = pc[t] /\ req'[t] = req[t]
  BY <1>1
<1>4. Filled'
  BY <1>2, <1>3 DEF Inv, Filled
<1>5. Lone'
  BY <1>2, <1>3 DEF Inv, Lone
<1>6. Decided'
  BY <1>2, <1>3 DEF Inv, Decided
<1>7. LeftOut'
  BY <1>2, <1>3 DEF Inv, LeftOut
<1>8. OwnerStays'
  BY DEF Inv, OwnerStays
<1>9. QED BY <1>4, <1>5, <1>6, <1>7, <1>8 DEF Inv

\* A request that ends without a write.
LEMMA QuietEnd ==
  ASSUME Inv, TypeOK', NEW s \in Slots, End(s),
         UNCHANGED <<project, members>>, raced => raced'
  PROVE  Inv'
BY Quiet DEF End

\* A request that goes on without a write.
LEMMA QuietGoto ==
  ASSUME Inv, TypeOK', NEW s \in Slots, pc[s] # "idle",
         NEW l \in {"assign", "rollback", "write", "duplicate", "user", "add",
                    "actor", "leave"},
         Goto(s, l), UNCHANGED <<project, members>>, raced => raced'
  PROVE  Inv'
<1>1. req' = [req EXCEPT ![s] = req[s]]
  BY DEF Goto, Inv, TypeOK
<1>2. req[s].user \in Users /\ req[s].actor \in Users
  BY DEF Inv, Filled
<1>3. QED BY <1>1, <1>2, Quiet DEF Goto

\* A check.
LEMMA QuietCheck ==
  ASSUME Inv, TypeOK', NEW s \in Slots, pc[s] # "idle", NEW ok,
         NEW l \in {"write", "duplicate", "user", "add", "actor", "leave"},
         Check(s, ok, l)
  PROVE  Inv'
BY QuietEnd, QuietGoto DEF Check, GotoIf, tables

\* A project that is dropped takes all memberships along.
LEMMA QuietDrop ==
  ASSUME Inv, TypeOK', NEW s \in Slots, DropProject, End(s), raced' = raced
  PROVE  Inv'
<1>1. \A u \in Users : members'[u] = "none"
  BY DEF DropProject
<1>2. /\ pc \in [Slots -> {"idle", "insert", "assign", "rollback", "level",
                       "write", "owner", "duplicate", "user", "add",
                       "subject", "actor", "leave", "erase", "projects",
                       "account"}]
      /\ req \in [Slots -> Request]
  BY DEF Inv, TypeOK
<1>3. pc'[s] = "idle" /\ \A t \in Slots : t # s => pc'[t] = pc[t] /\ req'[t] = req[t]
  BY <1>2 DEF End
<1>4. Filled'
  BY <1>3 DEF Inv, Filled
<1>5. Lone'
  BY <1>3 DEF Inv, Lone
<1>6. Decided' /\ LeftOut'
  BY <1>1, <1>4 DEF Filled, Decided, LeftOut
<1>7. OwnerStays'
  BY DEF DropProject, OwnerStays
<1>8. QED BY <1>4, <1>5, <1>6, <1>7 DEF Inv

\* A membership that begins: whoever had decided to end it makes a race of it.
LEMMA Inserts ==
  ASSUME Inv, TypeOK', NEW s \in Slots, NEW u \in Users, NEW role \in Role,
         InsertMember(u, role), End(s), pc[s] \notin {"erase", "account"},
         \/ UNCHANGED project
         \/ role = "owner"
  PROVE  Inv'
<1>1. /\ pc \in [Slots -> {"idle", "insert", "assign", "rollback", "level",
                       "write", "owner", "duplicate", "user", "add",
                       "subject", "actor", "leave", "erase", "projects",
                       "account"}]
      /\ req \in [Slots -> Request]
      /\ members \in [Users -> Role \cup {"none"}]
      /\ raced \in BOOLEAN
  BY DEF Inv, TypeOK
<1>2. pc'[s] = "idle" /\ \A t \in Slots : t # s => pc'[t] = pc[t] /\ req'[t] = req[t]
  BY <1>1 DEF End
<1>3. /\ members[u] = "none" /\ members'[u] = role
      /\ \A v \in Users : v # u => members'[v] = members[v]
  BY <1>1 DEF InsertMember, CanInsertMember
<1>4. ~raced' => ~raced /\ \A t \in Slots : pc[t] \in {"erase", "account"} => req[t].user # u
  BY <1>1 DEF InsertMember
<1>5. Filled'
  BY <1>2 DEF Inv, Filled
<1>6. Lone'
  BY <1>2, <1>4 DEF Inv, Lone
<1>7. Decided'
  <2> SUFFICES ASSUME ~raced', NEW t \in Slots, pc'[t] = "erase",
                      members'[req'[t].user] = "owner"
               PROVE  \E v \in Users \ {req'[t].user} : members'[v] = "owner"
    BY DEF Decided
  <2>1. t # s /\ pc[t] = "erase" /\ req'[t] = req[t]
    BY <1>2
  <2>2. req[t].user \in Users /\ req[t].user # u
    BY <1>4, <2>1 DEF Inv, Filled
  <2>3. members[req[t].user] = "owner"
    BY <1>3, <2>1, <2>2
  <2>4. PICK v \in Users \ {req[t].user} : members[v] = "owner"
    BY <1>4, <2>1, <2>3 DEF Inv, Decided
  <2>5. v # u
    BY <1>3, <2>4
  <2>6. QED BY <1>3, <2>1, <2>4, <2>5
<1>8. LeftOut'
  BY <1>2, <1>3, <1>4, <1>5 DEF Inv, LeftOut, Filled
<1>9. OwnerStays'
  <2>1. CASE UNCHANGED project
    <3> SUFFICES ASSUME project = "there", ~raced'
                 PROVE  \E v \in Users : members'[v] = "owner"
      BY <2>1 DEF OwnerStays
    <3>1. PICK v \in Users : members[v] = "owner"
      BY <1>4 DEF Inv, OwnerStays
    <3>2. v # u
      BY <1>3, <3>1
    <3>3. QED BY <1>3, <3>1, <3>2
  <2>2. CASE role = "owner"
    BY <1>3, <2>2 DEF OwnerStays
  <2>3. QED BY <2>1, <2>2
<1>10. QED BY <1>5, <1>6, <1>7, <1>8, <1>9 DEF Inv

\* A removal is decided: no other one is, or they race.
LEMMA Decides ==
  ASSUME Inv, TypeOK', NEW s \in Slots, Leave(s)
  PROVE  Inv'
<1>1. CASE End(s)
  BY <1>1, QuietEnd DEF Leave, tables
<1>2. CASE canUserLeaveProject(req[s].user) /\ Goto(s, "erase")
  <2>1. /\ pc'[s] = "erase" /\ req' = req
        /\ \A t \in Slots : t # s => pc'[t] = pc[t]
    BY <1>2 DEF Goto, Inv, TypeOK
  <2>2. UNCHANGED <<members, project>>
    BY <1>2 DEF Leave, tables
  <2>3. ~raced' => ~raced /\ \A t \in Slots \ {s} : pc[t] # "erase"
    BY <1>2 DEF Leave, Inv, TypeOK
  <2>4. Filled'
    BY <2>1, <1>2 DEF Inv, Filled, Leave
  <2>5. Lone'
    BY <2>1, <2>3 DEF Lone
  <2>6. Decided'
    BY <1>2, <2>1, <2>2, <2>3 DEF Decided, canUserLeaveProject
  <2>7. LeftOut'
    BY <2>1, <2>2, <2>3 DEF Inv, LeftOut
  <2>8. OwnerStays'
    BY <2>2, <2>3 DEF Inv, OwnerStays
  <2>9. QED BY <2>4, <2>5, <2>6, <2>7, <2>8 DEF Inv
<1>3. QED BY <1>1, <1>2 DEF Leave, GotoIf

\* It is carried out: the owner who was to remain does.
LEMMA Erases ==
  ASSUME Inv, TypeOK', NEW s \in Slots, RemoveErases(s)
  PROVE  Inv'
<1> DEFINE u == req[s].user
<1>1. /\ pc'[s] = "idle"
      /\ \A t \in Slots : t # s => pc'[t] = pc[t] /\ req'[t] = req[t]
  BY DEF RemoveErases, End, Inv, TypeOK
<1>2. u \in Users /\ pc[s] = "erase" /\ raced' = raced /\ project' = project
  BY DEF RemoveErases, Inv, Filled
<1>3. /\ members'[u] = "none"
      /\ \A v \in Users : v # u => members'[v] = members[v]
  BY <1>2 DEF RemoveErases, Inv, TypeOK
<1>4. Filled'
  BY <1>1 DEF Inv, Filled
<1>5. ~raced' => \A t \in Slots : pc'[t] # "erase"
  BY <1>1, <1>2 DEF Inv, Lone
<1>6. Lone' /\ Decided'
  BY <1>5 DEF Lone, Decided
<1>7. LeftOut'
  BY <1>1, <1>2, <1>3, <1>4 DEF Inv, LeftOut, Filled
<1>8. OwnerStays'
  <2> SUFFICES ASSUME project = "there", ~raced
               PROVE  \E v \in Users : members'[v] = "owner"
    BY <1>2 DEF OwnerStays
  <2>1. CASE members[u] = "owner"
    BY <1>2, <1>3, <2>1 DEF Inv, Decided
  <2>2. CASE members[u] # "owner"
    BY <1>3, <2>2 DEF Inv, OwnerStays
  <2>3. QED BY <2>1, <2>2
<1>9. QED BY <1>4, <1>6, <1>7, <1>8 DEF Inv

\* An account that goes is that of no member, unless a membership came in between.
LEMMA Deletes ==
  ASSUME Inv, TypeOK', NEW s \in Slots, DeleteUser(s)
  PROVE  Inv'
<1>1. UNCHANGED <<project, raced>> /\ End(s) /\ pc[s] = "account"
  BY DEF DeleteUser
<1>2. CASE ~raced
  <2>1. req[s].user = req[s].actor /\ members[req[s].actor] = "none"
    BY <1>1, <1>2 DEF Inv, Filled, LeftOut
  <2>2. members' = members
    BY <2>1 DEF DeleteUser, Inv, TypeOK
  <2>3. QED BY <1>1, <2>2, QuietEnd
<1>3. CASE raced
  BY <1>1, <1>3 DEF Inv, TypeOK, End, Filled, Lone, Decided, LeftOut, OwnerStays
<1>4. QED BY <1>2, <1>3

\* Before that, all projects of which the user is a member are dropped.
LEMMA Drops ==
  ASSUME Inv, TypeOK', NEW s \in Slots, DeleteProjects(s)
  PROVE  Inv'
<1>1. /\ pc[s] = "projects" /\ raced' = raced /\ req' = req /\ pc'[s] = "account"
      /\ \A t \in Slots : t # s => pc'[t] = pc[t]
  BY DEF DeleteProjects, Goto, Inv, TypeOK
<1>2. Filled'
  BY <1>1 DEF Inv, Filled
<1>3. Lone'
  BY <1>1 DEF Inv, Lone
<1>4. CASE DropProject
  <2>1. \A v \in Users : members'[v] = "none"
    BY <1>4 DEF DropProject
  <2>2. Decided' /\ LeftOut'
    BY <1>2, <2>1 DEF Filled, Decided, LeftOut
  <2>3. OwnerStays'
    BY <1>4 DEF DropProject, OwnerStays
  <2>4. QED BY <1>2, <1>3, <2>2, <2>3 DEF Inv
<1>5. CASE members[req[s].actor] = "none" /\ UNCHANGED <<project, members>>
  <2>1. Decided'
    BY <1>1, <1>5 DEF Inv, Decided
  <2>2. LeftOut'
    BY <1>1, <1>5 DEF Inv, LeftOut, Filled
  <2>3. OwnerStays'
    BY <1>1, <1>5 DEF Inv, OwnerStays
  <2>4. QED BY <1>2, <1>3, <2>1, <2>2, <2>3 DEF Inv
<1>6. QED BY <1>4, <1>5 DEF DeleteProjects

\* Every step of a request keeps the invariant.
LEMMA ContinueInv ==
  ASSUME Inv, NEW s \in Slots, Continue(s)
  PROVE  Inv'
<1>0. TypeOK'
  BY ContinueType DEF Inv
<1>1. CASE CreateInserts(s)
  <2>1. CASE project = "none" /\ project' = "new" /\ Goto(s, "assign")
    <3>1. \A u \in Users : members[u] = "none"
      BY <2>1 DEF Inv, TypeOK
    <3>2. /\ pc'[s] = "assign" /\ req' = req /\ raced' = raced /\ members' = members
          /\ \A t \in Slots : t # s => pc'[t] = pc[t]
      BY <1>1, <2>1 DEF CreateInserts, Goto, Inv, TypeOK
    <3>3. Filled'
      BY <3>2, <1>1 DEF Inv, Filled, CreateInserts, At
    <3>4. Lone' /\ Decided' /\ LeftOut'
      BY <3>2 DEF Inv, Lone, Decided, LeftOut
    <3>5. OwnerStays'
      BY <2>1 DEF OwnerStays
    <3>6. QED BY <1>0, <3>3, <3>4, <3>5 DEF Inv
  <2>2. CASE End(s) /\ UNCHANGED project
    BY <1>0, <1>1, <2>2, QuietEnd DEF CreateInserts
  <2>3. QED BY <1>1, <2>1, <2>2 DEF CreateInserts
<1>2. CASE CreateAssigns(s)
  <2>1. req[s].actor \in Users /\ pc[s] = "assign" /\ "owner" \in Role
    BY <1>2 DEF CreateAssigns, At, Inv, Filled, Role
  <2>2. InsertMember(req[s].actor, "owner") /\ End(s)
    BY <1>2 DEF CreateAssigns
  <2>3. QED BY <1>0, <2>1, <2>2, Inserts
<1>3. CASE CreateFails(s)
  BY <1>0, <1>3, QuietGoto DEF CreateFails, At, tables
<1>4. CASE CreateRollsBack(s)
  BY <1>0, <1>4, QuietDrop DEF CreateRollsBack
<1>5. CASE AccessLevel(s)
  BY <1>0, <1>5, QuietCheck DEF AccessLevel
<1>6. CASE UpdateWrites(s)
  BY <1>0, <1>6, QuietEnd DEF UpdateWrites, tables
<1>7. CASE RemoveDrops(s)
  BY <1>0, <1>7, QuietDrop DEF RemoveDrops
<1>8. CASE AddChecksOwner(s)
  BY <1>0, <1>8, QuietCheck DEF AddChecksOwner
<1>9. CASE AddChecksMember(s)
  BY <1>0, <1>9, QuietCheck DEF AddChecksMember
<1>10. CASE AddChecksUser(s)
  BY <1>0, <1>10, QuietCheck DEF AddChecksUser
<1>11. CASE AddInserts(s)
  <2>1. /\ req[s].user \in Users /\ req[s].role \in Role /\ pc[s] = "add"
        /\ End(s) /\ UNCHANGED project
    BY <1>11 DEF AddInserts, Inv, Filled, TypeOK, Request
  <2>2. CASE InsertMember(req[s].user, req[s].role)
    BY <1>0, <2>1, <2>2, Inserts
  <2>3. CASE UNCHANGED <<members, raced>>
    BY <1>0, <2>1, <2>3, QuietEnd
  <2>4. QED BY <1>11, <2>2, <2>3 DEF AddInserts
<1>12. CASE RemoveFindsMember(s)
  BY <1>0, <1>12, QuietCheck DEF RemoveFindsMember
<1>13. CASE RemoveChecksActor(s)
  BY <1>0, <1>13, QuietCheck DEF RemoveChecksActor
<1>14. CASE Leave(s)
  BY <1>0, <1>14, Decides
<1>15. CASE RemoveErases(s)
  BY <1>0, <1>15, Erases
<1>16. CASE DeleteProjects(s)
  BY <1>0, <1>16, Drops
<1>17. CASE DeleteUser(s)
  BY <1>0, <1>17, Deletes
<1>18. QED
  BY <1>1, <1>2, <1>3, <1>4, <1>5, <1>6, <1>7, <1>8, <1>9, <1>10, <1>11, <1>12,
     <1>13, <1>14, <1>15, <1>16, <1>17 DEF Continue

\* A request that begins decides nothing.
LEMMA StartInv ==
  ASSUME Inv, NEW s \in Slots, NEW u \in Users, Start(s, u)
  PROVE  Inv'
<1>0. TypeOK'
  BY StartType DEF Inv
<1>1. ASSUME NEW r, NEW ok, NEW l \in {"insert", "level", "owner", "subject", "projects"},
             Enter(s, r, ok, l), r.user \in Users, r.actor \in Users,
             l = "projects" => r.user = r.actor
      PROVE  Inv'
  BY <1>0, <1>1, Quiet DEF Enter, tables
<1>2. \A op \in Op : /\ Plain(op, u).user = u
                     /\ Plain(op, u).actor = u
  BY DEF Plain
<1>3. \A op \in Op, v \in Users : \A role \in Role :
         /\ About(op, u, v).user = v /\ About(op, u, v).actor = u
         /\ [About(op, u, v) EXCEPT !.role = role].user = v
         /\ [About(op, u, v) EXCEPT !.role = role].actor = u
  BY DEF About, Plain
<1>4. CASE Create(s, u)
  BY <1>1, <1>2, <1>4 DEF Create, Op
<1>5. CASE Update(s, u)
  BY <1>1, <1>2, <1>5 DEF Update, Op
<1>6. CASE Remove(s, u)
  BY <1>1, <1>2, <1>6 DEF Remove, Op
<1>7. CASE DeleteAccount(s, u)
  BY <1>1, <1>2, <1>7 DEF DeleteAccount, Op
<1>8. ASSUME NEW v \in Users, RemoveMember(s, u, v)
      PROVE  Inv'
  BY <1>1, <1>3, <1>8 DEF RemoveMember, Op, Role
<1>9. ASSUME NEW v \in Users, NEW role \in Role, AddMember(s, u, v, role)
      PROVE  Inv'
  <2> DEFINE r == [About("addMember", u, v) EXCEPT !.role = role]
  <2>1. r.user \in Users /\ r.actor \in Users
    BY <1>3 DEF Op
  <2>2. Enter(s, r, MayEnter(u), "owner")
    BY <1>9 DEF AddMember
  <2> HIDE DEF r
  <2>3. QED BY <1>1, <2>1, <2>2
<1>10. QED BY <1>4, <1>5, <1>6, <1>7, <1>8, <1>9 DEF Start

\* Whatever happens keeps the invariant.
LEMMA InvNext == Inv /\ [Next]_vars => Inv'
<1> SUFFICES ASSUME Inv, [Next]_vars PROVE Inv'
  OBVIOUS
<1>0. TypeOK'
  BY TypeNext DEF Inv
<1>1. ASSUME NEW s \in Slots, Continue(s) PROVE Inv'
  BY <1>1, ContinueInv
<1>2. ASSUME NEW s \in Slots, NEW u \in Users, Start(s, u) PROVE Inv'
  BY <1>2, StartInv
<1>3. CASE UNCHANGED <<project, members, pc, req, raced>>
  BY <1>0, <1>3 DEF Inv, Filled, Lone, Decided, LeftOut, OwnerStays
<1>4. QED BY <1>1, <1>2, <1>3 DEF Next, Login, Deploy, vars, tables

\* A registered project keeps an owner, however many users and requests there are,
\* unless two removals are decided at once or a membership begins after the decision
\* to end it (canUserLeaveProject and the delete that follows it).
THEOREM OwnerStaysHolds == Spec => []OwnerStays
<1>1. Inv => OwnerStays
  BY DEF Inv
<1>2. QED BY <1>1, InvInit, InvNext, PTL DEF Spec
=============================================================================
