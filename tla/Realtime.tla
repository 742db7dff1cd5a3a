------------------------------ MODULE Realtime ------------------------------
(***************************************************************************)
(* Log messages of one project, sent to the web sockets that watch it:     *)
(* ConnectionManager and ProjectWebSocketController.                       *)
(*                                                                         *)
(* Messages come from the project's logger, which the deployment uses and  *)
(* the readers of the project too, each on its own thread.  While nobody   *)
(* watches they are kept in pending_.  A socket is registered by a         *)
(* coroutine that first awaits three queries, the last one whether a       *)
(* deployment is in progress; when the deployment ends, complete sends the *)
(* outcome and shuts all sockets down.                                     *)
(*                                                                         *)
(* mutex_ makes connect, disconnect, shutdown and each of the two halves   *)
(* of broadcast one step.  Two first halves, under shared locks, may mix:  *)
(* that changes only the order between messages of different writers,      *)
(* which nothing here depends on.                                          *)
(***************************************************************************)
EXTENDS Naturals, Sequences

CONSTANTS
  Clients,          \* web socket connections, each a new one
  Deployer,         \* the coroutine that deploys the project
  Readers,          \* requests that log while they read the project
  MaxDeployments,   \* bound: deployments
  MaxMessages       \* bound: messages of a reader, or during a deployment

ASSUME BoundsAssumption ==
  /\ MaxDeployments \in Nat
  /\ MaxMessages \in Nat
  /\ Deployer \notin Readers

Writers == Readers \cup {Deployer}

\* A message: who logged it, its number among the writer's messages, and the
\* newest deployment at that time.  (A deployment's outcome is a message, too.)
Numbers == 1..((MaxMessages + 1) * (MaxDeployments + 1))
Message == [from : Writers, number : Numbers, during : 0..MaxDeployments]

VARIABLES
  deployment,    \* number of the newest deployment
  phase,         \* of the deployer: "idle", "loading" (its row is CREATED or
                 \* LOADING), "recorded" (the row has its outcome), "told"
  logged,        \* number of messages each writer has logged
  held,          \* the message a writer has between the halves of broadcast
  pending,       \* pending_[project]
  connections,   \* connections_[project]; the entry exists while not empty
  pc,            \* where each client's handler stands
  told,          \* the deployment in progress that the handler found
  open,          \* the client's socket is connected
  closed,        \* its handleConnectionClosed has run
  got,           \* messages sent to the socket
  owed           \* history: messages logged since the handler's end

deployer == <<deployment, phase>>
writer   == <<logged, held>>
manager  == <<pending, connections>>
handler  == <<pc, told>>
socket   == <<open, closed>>
vars     == <<deployer, writer, manager, handler, socket, got, owed>>

HandlerPc == {"new", "auth", "check", "connect", "hello", "end"}

TypeOK ==
  /\ deployment \in 0..MaxDeployments
  /\ phase \in {"idle", "loading", "recorded", "told"}
  /\ logged \in [Writers -> Numbers \cup {0}]
  /\ held \in [Writers -> SUBSET Message]
  /\ pending \in Seq(Message)
  /\ connections \in SUBSET Clients
  /\ pc \in [Clients -> HandlerPc]
  /\ told \in [Clients -> 0..MaxDeployments]
  /\ open \in [Clients -> BOOLEAN]
  /\ closed \in [Clients -> BOOLEAN]
  /\ got \in [Clients -> Seq(Message)]
  /\ owed \in [Clients -> SUBSET Message]

Init ==
  /\ deployment = 0
  /\ phase = "idle"
  /\ logged = [w \in Writers |-> 0]
  /\ held = [w \in Writers |-> {}]
  /\ pending = <<>>
  /\ connections = {}
  /\ pc = [c \in Clients |-> "new"]
  /\ told = [c \in Clients |-> 0]
  /\ open = [c \in Clients |-> FALSE]
  /\ closed = [c \in Clients |-> FALSE]
  /\ got = [c \in Clients |-> <<>>]
  /\ owed = [c \in Clients |-> {}]

-----------------------------------------------------------------------------
(* Writers: ConnectionManager::broadcast *)

\* Messages reach those of the clients whose sockets are connected.
Send(D, msgs) ==
  got' = [c \in Clients |-> IF c \in D /\ open[c] THEN got[c] \o msgs
                            ELSE got[c]]

\* The handler has registered the client, said hello and ended.
Welcomed(c) == pc[c] = "end" /\ told[c] # 0 /\ open[c]

\* The first half, under a shared lock: the message goes to the registered
\* sockets; if there are none, it is left to the second half.
broadcast(w) ==
  LET msg == [from |-> w, number |-> logged[w] + 1, during |-> deployment]
  IN  /\ held[w] = {}
      /\ logged' = [logged EXCEPT ![w] = @ + 1]
      /\ IF connections # {}
         THEN Send(connections, <<msg>>) /\ UNCHANGED held
         ELSE held' = [held EXCEPT ![w] = {msg}] /\ UNCHANGED got
      /\ owed' = [c \in Clients |-> IF Welcomed(c) THEN owed[c] \cup {msg}
                                    ELSE owed[c]]
      /\ UNCHANGED <<manager, handler, socket>>

\* A message of a reader, at any time.
ReaderLogs(r) ==
  /\ logged[r] < MaxMessages
  /\ broadcast(r)
  /\ UNCHANGED deployer

\* A message of the deployment.  (Bound: one number is left for its outcome.)
DeployerLogs ==
  /\ phase = "loading"
  /\ logged[Deployer] + 1 < (MaxMessages + 1) * deployment
  /\ broadcast(Deployer)
  /\ UNCHANGED deployer

\* The second half, under the exclusive lock; whoever was registered since the
\* first half does not get the message.
Keep(w) ==
  /\ \E msg \in held[w] : pending' = Append(pending, msg)
  /\ held' = [held EXCEPT ![w] = {}]
  /\ UNCHANGED <<deployer, logged, connections, handler, socket, got, owed>>

-----------------------------------------------------------------------------
(* The deployment: deployProjectCached and ConnectionManager::complete *)

\* The row of a new deployment is inserted.
Begin ==
  /\ phase = "idle"
  /\ deployment < MaxDeployments
  /\ deployment' = deployment + 1
  /\ phase' = "loading"
  /\ UNCHANGED <<writer, manager, handler, socket, got, owed>>

\* The last update of the row.
Record ==
  /\ phase = "loading"
  /\ held[Deployer] = {}
  /\ phase' = "recorded"
  /\ UNCHANGED <<deployment, writer, manager, handler, socket, got, owed>>

\* complete broadcasts the outcome ...
complete ==
  /\ phase = "recorded"
  /\ broadcast(Deployer)
  /\ phase' = "told"
  /\ UNCHANGED deployment

\* (Mutants: pending_ is kept; the sockets are not shut down.)
ShutdownKeepsPending ==
  /\ phase = "told"
  /\ held[Deployer] = {}
  /\ open' = [c \in Clients |-> open[c] /\ c \notin connections]
  /\ connections' = {}
  /\ phase' = "idle"
  /\ UNCHANGED <<deployment, writer, pending, handler, closed, got, owed>>

ShutdownForgets ==
  /\ phase = "told"
  /\ held[Deployer] = {}
  /\ connections' = {}
  /\ pending' = <<>>
  /\ phase' = "idle"
  /\ UNCHANGED <<deployment, writer, handler, socket, got, owed>>

\* ... and shuts the registered sockets down; both entries are erased.
shutdown ==
  /\ phase = "told"
  /\ held[Deployer] = {}
  /\ open' = [c \in Clients |-> open[c] /\ c \notin connections]
  /\ connections' = {}
  /\ pending' = <<>>
  /\ phase' = "idle"
  /\ UNCHANGED <<deployment, writer, handler, closed, got, owed>>

-----------------------------------------------------------------------------
(* Clients: ProjectWebSocketController *)

Goto(c, l) == pc' = [pc EXCEPT ![c] = l]

\* The server shuts the socket down and the handler ends.
Refuse(c) ==
  /\ Goto(c, "end")
  /\ open' = [open EXCEPT ![c] = FALSE]

Connect(c) ==
  /\ pc[c] = "new"
  /\ open' = [open EXCEPT ![c] = TRUE]
  /\ Goto(c, "auth")
  /\ UNCHANGED <<deployer, writer, manager, told, closed, got, owed>>

\* Token, session and access to the project: accepted or not.
Authorize(c) ==
  /\ pc[c] = "auth"
  /\ \/ Goto(c, "check") /\ UNCHANGED open
     \/ Refuse(c)
  /\ UNCHANGED <<deployer, writer, manager, told, closed, got, owed>>

\* getLoadingDeployment: if none is found the project is loaded already.
Check(c) ==
  /\ pc[c] = "check"
  /\ IF phase = "loading"
     THEN /\ told' = [told EXCEPT ![c] = deployment]
          /\ Goto(c, "connect")
          /\ UNCHANGED open
     ELSE Refuse(c) /\ UNCHANGED told
  /\ UNCHANGED <<deployer, writer, manager, closed, got, owed>>

\* (Mutant: connected() is not asked for.)
RegisterUnchecked(c) ==
  /\ pc[c] = "connect"
  /\ connections' = connections \cup {c}
  /\ Send({c}, pending)
  /\ Goto(c, "hello")
  /\ UNCHANGED <<deployer, writer, pending, told, socket, owed>>

\* ConnectionManager::connect: registered, and sent what was kept, which stays
\* for those who come later.
Register(c) ==
  /\ pc[c] = "connect"
  /\ connections' = IF open[c] THEN connections \cup {c} ELSE connections
  /\ Send({c}, pending)
  /\ Goto(c, "hello")
  /\ UNCHANGED <<deployer, writer, pending, told, socket, owed>>

\* (Mutant: what was kept is sent with the hello again.)
HelloReplays(c) ==
  /\ pc[c] = "hello"
  /\ Send({c}, pending)
  /\ Goto(c, "end")
  /\ UNCHANGED <<deployer, writer, manager, told, socket, owed>>

\* The deployment's id is sent, and the handler ends.
Hello(c) ==
  /\ pc[c] = "hello"
  /\ Goto(c, "end")
  /\ UNCHANGED <<deployer, writer, manager, told, socket, got, owed>>

\* The client closes its socket, or the network does.
Leave(c) ==
  /\ open[c]
  /\ open' = [open EXCEPT ![c] = FALSE]
  /\ UNCHANGED <<deployer, writer, manager, handler, closed, got, owed>>

\* (Mutant: the project's whole entry is erased.)
DisconnectAll(c) ==
  /\ pc[c] # "new" /\ ~open[c] /\ ~closed[c]
  /\ closed' = [closed EXCEPT ![c] = TRUE]
  /\ connections' = IF c \in connections THEN {} ELSE connections
  /\ UNCHANGED <<deployer, writer, pending, handler, open, got, owed>>

\* handleConnectionClosed, after either end has closed the socket.
disconnect(c) ==
  /\ pc[c] # "new" /\ ~open[c] /\ ~closed[c]
  /\ closed' = [closed EXCEPT ![c] = TRUE]
  /\ connections' = connections \ {c}
  /\ UNCHANGED <<deployer, writer, pending, handler, open, got, owed>>

HandlerStep(c) == Authorize(c) \/ Check(c) \/ Register(c) \/ Hello(c)

-----------------------------------------------------------------------------
Next ==
  \/ Begin \/ DeployerLogs \/ Record \/ complete \/ shutdown
  \/ \E r \in Readers : ReaderLogs(r)
  \/ \E w \in Writers : Keep(w)
  \/ \E c \in Clients : Connect(c) \/ HandlerStep(c) \/ Leave(c)
                        \/ disconnect(c)

Spec == Init /\ [][Next]_vars

-----------------------------------------------------------------------------
(* Properties *)

\* A client gets the messages of each writer in the order they were logged,
\* none of them twice, although some come from pending_ and some directly.
InOrder ==
  \A c \in Clients : \A i, j \in 1..Len(got[c]) :
    i < j /\ got[c][i].from = got[c][j].from
      => got[c][i].number < got[c][j].number

\* From its "hello" on, a client gets every message until its socket is
\* closed, whoever else comes and goes; the deployment's outcome is one.
NothingMissed ==
  \A c \in Clients : \A msg \in owed[c] :
    \E i \in 1..Len(got[c]) : got[c][i] = msg

\* A client never gets messages of a deployment that was over before the one
\* it was told of began: what was kept does not outlive its deployment.
NotFromBefore ==
  \A c \in Clients : \A i \in 1..Len(got[c]) :
    got[c][i].from = Deployer => got[c][i].during >= told[c]

\* A socket that was reported closed is not registered, and never will be,
\* although its handler may still be on its way to connect.
GoneIsForgotten ==
  \A c \in Clients : closed[c] => c \notin connections

\* A client that was there for a message of a deployment is dismissed when the
\* deployment ends, and does not wait on for an outcome that was already sent.
WatchersAreDismissed ==
  \A c \in Clients : \A msg \in owed[c] :
    msg.from = Deployer /\ (phase = "idle" \/ msg.during < deployment)
      => ~open[c]
=============================================================================
