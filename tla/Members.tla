------------------------------ MODULE Members ------------------------------
(***************************************************************************)
(* Who may do what with a project: accounts and the members of one         *)
(* project.                                                                *)
(*                                                                         *)
(* A request looks up its actor's rights and the state of the tables in    *)
(* several queries before it writes, and other requests run in between.    *)
(* The tables keep only what their keys and foreign keys say: one row per  *)
(* user and project, both of which exist.                                  *)
(*                                                                         *)
(* A request is a record: an operation, who asks for it, the user it is    *)
(* about and that user's role.                                             *)
(***************************************************************************)
CONSTANTS
  Users,    \* user names
  Admins,   \* those whose accounts have the admin role
  Nobody,   \* no user
  Slots     \* requests under way

ASSUME UsersAssumption == Admins \subseteq Users /\ Nobody \notin Users

Role == {"owner", "member"}
Op == {"none", "create", "update", "remove", "addMember", "removeMember",
       "deleteAccount"}
Request == [op : Op, actor : Users \cup {Nobody}, user : Users \cup {Nobody},
            role : Role]

\* Requests that are not about somebody else, or not about a role.
Plain(op, u) == [op |-> op, actor |-> u, user |-> u, role |-> "member"]
About(op, u, v) == [Plain(op, u) EXCEPT !.user = v]
NoRequest == Plain("none", Nobody)

VARIABLES
  account,     \* users with a row in user_
  project,     \* its row: "none", "new" until an owner is assigned, "there"
  members,     \* user_project: each user's role, or "none"
  deployers,   \* users that the project's deployments refer to
  pc,          \* what each request does next
  req,         \* the request
  raced        \* history: see InsertMember and Leave

tables == <<account, project, members, deployers>>
vars   == <<tables, pc, req, raced>>

TypeOK ==
  /\ account \in SUBSET Users
  /\ project \in {"none", "new", "there"}
  /\ members \in [Users -> Role \cup {"none"}]
  /\ deployers \in SUBSET Users
  /\ pc \in [Slots -> {"idle", "insert", "assign", "rollback", "level",
                       "write", "owner", "duplicate", "user", "add",
                       "subject", "actor", "leave", "erase", "projects",
                       "account"}]
  /\ req \in [Slots -> Request]
  /\ raced \in BOOLEAN
  \* what the foreign keys say
  /\ \A u \in Users : members[u] # "none" => u \in account /\ project # "none"
  /\ deployers # {} => deployers \subseteq account /\ project # "none"

Init ==
  /\ account = {}
  /\ project = "none"
  /\ members = [u \in Users |-> "none"]
  /\ deployers = {}
  /\ pc = [s \in Slots |-> "idle"]
  /\ req = [s \in Slots |-> NoRequest]
  /\ raced = FALSE

-----------------------------------------------------------------------------
(* Tables *)

isAdmin(u) == u \in Admins

\* getUserProject: the project, for its members and for admins.
MayEnter(u) == project # "none" /\ (isAdmin(u) \/ members[u] # "none")

IsOwner(u) == isAdmin(u) \/ members[u] = "owner"

\* The project's row is deleted, and all that refers to it.
DropProject ==
  /\ project' = "none"
  /\ members' = [u \in Users |-> "none"]
  /\ deployers' = {}

\* A row for u and the project can be inserted.
CanInsertMember(u) == project # "none" /\ u \in account /\ members[u] = "none"

\* It may belong to a user whose removal, or whose account's deletion, has
\* already been decided.
InsertMember(u, role) ==
  /\ CanInsertMember(u)
  /\ members' = [members EXCEPT ![u] = role]
  /\ raced' = (raced \/ \E s \in Slots :
                 /\ pc[s] \in {"erase", "account"}
                 /\ req[s].user = u)

-----------------------------------------------------------------------------
(* Requests *)

At(s, op, l) == pc[s] = l /\ req[s].op = op
Goto(s, l) == pc' = [pc EXCEPT ![s] = l] /\ UNCHANGED req

\* The request is answered.
End(s) ==
  /\ pc' = [pc EXCEPT ![s] = "idle"]
  /\ req' = [req EXCEPT ![s] = NoRequest]

\* A check: go on, or answer with an error.
GotoIf(s, ok, l) == (ok /\ Goto(s, l)) \/ (~ok /\ End(s))
Check(s, ok, l) == GotoIf(s, ok, l) /\ UNCHANGED <<tables, raced>>

\* A request comes in, with a session, and takes its first look.
Enter(s, r, ok, l) ==
  /\ pc[s] = "idle"
  /\ r.actor \in account
  /\ ok
  /\ req' = [req EXCEPT ![s] = r]
  /\ pc' = [pc EXCEPT ![s] = l]
  /\ UNCHANGED <<tables, raced>>

\* create: validated, and neither repository nor id are registered.
Create(s, u) == Enter(s, Plain("create", u), project = "none", "insert")

CreateInserts(s) ==
  /\ At(s, "create", "insert")
  /\ \/ /\ project = "none"
        /\ project' = "new"
        /\ Goto(s, "assign")
     \/ project # "none" /\ End(s) /\ UNCHANGED project
  /\ UNCHANGED <<account, members, deployers, raced>>

\* assignUserProject makes the actor an owner ...
CreateAssigns(s) ==
  /\ At(s, "create", "assign")
  /\ InsertMember(req[s].actor, "owner")
  /\ project' = "there"
  /\ End(s)
  /\ UNCHANGED <<account, deployers>>

\* ... unless the row is refused: then the project is removed again.
CreateFails(s) ==
  /\ At(s, "create", "assign")
  /\ ~CanInsertMember(req[s].actor)
  /\ Goto(s, "rollback")
  /\ UNCHANGED <<tables, raced>>

\* (Mutant: the project is not removed.)
KeepProject(s) ==
  /\ At(s, "create", "rollback")
  /\ End(s)
  /\ UNCHANGED <<tables, raced>>

CreateRollsBack(s) ==
  /\ At(s, "create", "rollback")
  /\ DropProject
  /\ End(s)
  /\ UNCHANGED <<account, raced>>

\* update and remove ask for getUserAccessLevel.
Update(s, u) == Enter(s, Plain("update", u), MayEnter(u), "level")
Remove(s, u) == Enter(s, Plain("remove", u), MayEnter(u), "level")

AccessLevel(s) == pc[s] = "level" /\ Check(s, IsOwner(req[s].actor), "write")

\* updateModel writes what no rule below depends on.
UpdateWrites(s) ==
  /\ At(s, "update", "write")
  /\ End(s)
  /\ UNCHANGED <<tables, raced>>

RemoveDrops(s) ==
  /\ At(s, "remove", "write")
  /\ DropProject
  /\ End(s)
  /\ UNCHANGED <<account, raced>>

\* addProjectMember: for owners, no member yet, an account.
AddMember(s, u, v, role) ==
  Enter(s, [About("addMember", u, v) EXCEPT !.role = role], MayEnter(u), "owner")

AddChecksOwner(s) == pc[s] = "owner" /\ Check(s, IsOwner(req[s].actor), "duplicate")

AddChecksMember(s) ==
  pc[s] = "duplicate" /\ Check(s, members[req[s].user] = "none", "user")

AddChecksUser(s) == pc[s] = "user" /\ Check(s, req[s].user \in account, "add")

AddInserts(s) ==
  /\ pc[s] = "add"
  /\ \/ InsertMember(req[s].user, req[s].role)
     \/ ~CanInsertMember(req[s].user) /\ UNCHANGED <<members, raced>>
  /\ End(s)
  /\ UNCHANGED <<account, project, deployers>>

\* removeProjectMember: by owners, or by the member; not the last owner.
RemoveMember(s, u, v) ==
  Enter(s, About("removeMember", u, v), MayEnter(u), "subject")

RemoveFindsMember(s) ==
  pc[s] = "subject" /\ Check(s, members[req[s].user] # "none", "actor")

RemoveChecksActor(s) ==
  /\ pc[s] = "actor"
  /\ Check(s, req[s].actor = req[s].user \/ IsOwner(req[s].actor), "leave")

\* (Mutant: other members count, not only owners.)
CanLeaveToMembers(u) ==
  /\ members[u] # "none"
  /\ members[u] = "owner" => \E v \in Users \ {u} : members[v] # "none"

canUserLeaveProject(u) ==
  /\ members[u] # "none"
  /\ members[u] = "owner" => \E v \in Users \ {u} : members[v] = "owner"

\* It may be that somebody else's removal has already been decided.
Leave(s) ==
  /\ pc[s] = "leave"
  /\ GotoIf(s, canUserLeaveProject(req[s].user), "erase")
  /\ raced' = (raced \/ \E t \in Slots \ {s} : pc[t] = "erase")
  /\ UNCHANGED tables

RemoveErases(s) ==
  /\ pc[s] = "erase"
  /\ members' = [members EXCEPT ![req[s].user] = "none"]
  /\ End(s)
  /\ UNCHANGED <<account, project, deployers, raced>>

\* deleteAccount: first every project the user is a member of ...
DeleteAccount(s, u) == Enter(s, Plain("deleteAccount", u), TRUE, "projects")

DeleteProjects(s) ==
  /\ pc[s] = "projects"
  /\ \/ members[req[s].actor] # "none" /\ DropProject
     \/ members[req[s].actor] = "none" /\ UNCHANGED <<project, members, deployers>>
  /\ Goto(s, "account")
  /\ UNCHANGED <<account, raced>>

\* ... then the account and its rows in user_project.  It is refused while a
\* deployment refers to the user.
DeleteUser(s) ==
  /\ pc[s] = "account"
  /\ \/ /\ req[s].actor \notin deployers
        /\ account' = account \ {req[s].actor}
        /\ members' = [members EXCEPT ![req[s].actor] = "none"]
     \/ /\ req[s].actor \in deployers
        /\ UNCHANGED <<account, members>>
  /\ End(s)
  /\ UNCHANGED <<project, deployers, raced>>

-----------------------------------------------------------------------------
(* Other operations *)

\* createUserIfNotExists, at each login.
Login(u) ==
  /\ account' = account \cup {u}
  /\ UNCHANGED <<project, members, deployers, pc, req, raced>>

\* A deployment refers to the user who asked for it.
Deploy(u) ==
  /\ MayEnter(u)
  /\ u \in account
  /\ deployers' = deployers \cup {u}
  /\ UNCHANGED <<account, project, members, pc, req, raced>>

-----------------------------------------------------------------------------
Start(s, u) ==
  \/ Create(s, u) \/ Update(s, u) \/ Remove(s, u) \/ DeleteAccount(s, u)
  \/ \E v \in Users : RemoveMember(s, u, v)
                      \/ \E role \in Role : AddMember(s, u, v, role)

Continue(s) ==
  \/ CreateInserts(s) \/ CreateAssigns(s) \/ CreateFails(s) \/ CreateRollsBack(s)
  \/ AccessLevel(s) \/ UpdateWrites(s) \/ RemoveDrops(s)
  \/ AddChecksOwner(s) \/ AddChecksMember(s) \/ AddChecksUser(s) \/ AddInserts(s)
  \/ RemoveFindsMember(s) \/ RemoveChecksActor(s) \/ Leave(s) \/ RemoveErases(s)
  \/ DeleteProjects(s) \/ DeleteUser(s)

Next ==
  \/ \E s \in Slots : Continue(s) \/ \E u \in Users : Start(s, u)
  \/ \E u \in Users : Login(u) \/ Deploy(u)

Spec == Init /\ [][Next]_vars

\* Awaited queries return.
FairSpec == Spec /\ \A s \in Slots : WF_vars(Continue(s))

-----------------------------------------------------------------------------
(* Properties *)

\* A registered project has an owner, unless two requests raced: two removals
\* that were both decided before either was carried out, or a membership that
\* began after the decision to end it.
OwnerStays ==
  project = "there" /\ ~raced => \E u \in Users : members[u] = "owner"

\* A project does not stay without an owner because its creation failed.
CreationSettles == project = "new" ~> project # "new"
=============================================================================
