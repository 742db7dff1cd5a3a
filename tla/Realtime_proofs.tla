-------------------------- MODULE Realtime_proofs ---------------------------
(***************************************************************************)
(* What a web socket gets of a project's log, for any number of sockets,   *)
(* writers, messages and deployments: in order, nothing twice, nothing     *)
(* missing, nothing from a deployment before; and that it is dismissed.    *)
(***************************************************************************)
EXTENDS Realtime, SequenceTheorems, TLAPS

-----------------------------------------------------------------------------
(* Sequences *)

\* Of each writer, in the order of the numbers.
Ordered(s) ==
  \A i, j \in 1..Len(s) : i < j /\ s[i].from = s[j].from => s[i].number < s[j].number

\* What follows when a message is appended (broadcast and the second half of it).
LEMMA Appended ==
  ASSUME NEW s \in Seq(Message), NEW m \in Message
  PROVE  /\ s \o <<m>> \in Seq(Message)
         /\ Append(s, m) = s \o <<m>>
         /\ Len(s \o <<m>>) = Len(s) + 1
         /\ Len(s) \in Nat
         /\ \A i \in 1..Len(s) : (s \o <<m>>)[i] = s[i]
         /\ (s \o <<m>>)[Len(s) + 1] = m
<1>1. <<m>> \in Seq(Message) /\ Len(<<m>>) = 1 /\ <<m>>[1] = m
  OBVIOUS
<1>2. Len(s) \in Nat
  BY LenProperties
<1>3. /\ s \o <<m>> \in Seq(Message)
      /\ Len(s \o <<m>>) = Len(s) + 1
      /\ \A i \in 1..(Len(s) + 1) :
           (s \o <<m>>)[i] = IF i <= Len(s) THEN s[i] ELSE <<m>>[i - Len(s)]
  BY <1>1, ConcatProperties
<1>4. \A i \in 1..Len(s) : (s \o <<m>>)[i] = s[i]
  BY <1>2, <1>3
<1>5. (s \o <<m>>)[Len(s) + 1] = m
  BY <1>1, <1>2, <1>3
<1>6. Append(s, m) = s \o <<m>>
  <2>1. Append(s, m) \in Seq(Message) /\ Len(Append(s, m)) = Len(s) + 1
    BY <1>2
  <2>2. \A i \in 1..Len(s) + 1 : Append(s, m)[i] = (s \o <<m>>)[i]
    BY <1>2, <1>4, <1>5
  <2>3. QED BY <1>3, <2>1, <2>2, SeqEqual
<1>7. QED BY <1>2, <1>3, <1>4, <1>5, <1>6

\* A message whose number is new keeps a sequence in order.
LEMMA AppendedInOrder ==
  ASSUME NEW s \in Seq(Message), NEW m \in Message, Ordered(s),
         \A i \in 1..Len(s) : s[i].from = m.from => s[i].number < m.number
  PROVE  Ordered(s \o <<m>>)
<1> DEFINE t == s \o <<m>>
<1>1. /\ Len(t) = Len(s) + 1 /\ Len(s) \in Nat
      /\ \A i \in 1..Len(s) : t[i] = s[i]
      /\ t[Len(s) + 1] = m
  BY Appended
<1> HIDE DEF t
<1>2. Ordered(t)
  BY <1>1 DEF Ordered
<1>3. QED BY <1>2 DEF t

-----------------------------------------------------------------------------
(* Types *)

\* Numbers are never used up: of the deployer's, one is left for the outcome.
Counted ==
  /\ \A r \in Readers : logged[r] <= MaxMessages
  /\ IF phase \in {"loading", "recorded"}
     THEN logged[Deployer] < (MaxMessages + 1) * deployment
     ELSE logged[Deployer] <= (MaxMessages + 1) * deployment

Typed == TypeOK /\ Counted

\* The numbers that deployments leave for each other.
LEMMA Shares ==
  ASSUME NEW d \in 0..MaxDeployments
  PROVE  /\ (MaxMessages + 1) * d \in Nat
         /\ (MaxMessages + 1) * d <= (MaxMessages + 1) * (MaxDeployments + 1)
         /\ (MaxMessages + 1) * d < (MaxMessages + 1) * (d + 1)
         /\ MaxMessages < (MaxMessages + 1) * (MaxDeployments + 1)
<1>1. MaxMessages \in Nat /\ MaxDeployments \in Nat
  BY BoundsAssumption
<1>2. \A x, y, z \in Nat : x * (y + z) = x * y + x * z
  OBVIOUS
<1>3. \A x, y \in Nat : x * y \in Nat
  OBVIOUS
<1>4. /\ (MaxMessages + 1) * (d + (MaxDeployments - d)) =
           (MaxMessages + 1) * d + (MaxMessages + 1) * (MaxDeployments - d)
      /\ (MaxMessages + 1) * (MaxDeployments - d) \in Nat
      /\ (MaxMessages + 1) * d \in Nat
  BY <1>1, <1>2, <1>3
<1>5. (MaxMessages + 1) * (d + 1) = (MaxMessages + 1) * d + (MaxMessages + 1)
  BY <1>1
<1>6. (MaxMessages + 1) * (MaxDeployments + 1) =
        (MaxMessages + 1) * MaxDeployments + (MaxMessages + 1)
  BY <1>1
<1>7. (MaxMessages + 1) * MaxDeployments \in Nat
  BY <1>1, <1>3
<1>8. d + (MaxDeployments - d) = MaxDeployments
  BY <1>1
<1> DEFINE a == (MaxMessages + 1) * d
           b == (MaxMessages + 1) * (MaxDeployments - d)
           e == (MaxMessages + 1) * MaxDeployments
<1>9. /\ a \in Nat /\ b \in Nat /\ e = a + b
      /\ (MaxMessages + 1) * (MaxDeployments + 1) = e + (MaxMessages + 1)
      /\ (MaxMessages + 1) * (d + 1) = a + (MaxMessages + 1)
  BY <1>4, <1>5, <1>6, <1>8
<1>10. QED BY <1>1, <1>7, <1>9

\* The tables are empty at the start.
LEMMA TypedInit == Init => Typed
BY BoundsAssumption DEF Init, Typed, TypeOK, Counted, Writers, HandlerPc

\* A writer that has a number left: what its message is and where it goes.
LEMMA Broadcasts ==
  ASSUME Typed, NEW w \in Writers, broadcast(w),
         w \in Readers => logged[w] < MaxMessages,
         w = Deployer => logged[w] < (MaxMessages + 1) * deployment
  PROVE  \E m \in Message :
           /\ m.from = w /\ m.number = logged[w] + 1 /\ m.during = deployment
           /\ logged' = [logged EXCEPT ![w] = m.number]
           /\ logged' \in [Writers -> Numbers \cup {0}]
           /\ held[w] = {}
           /\ held' = [held EXCEPT ![w] = IF connections = {} THEN {m} ELSE {}]
           /\ got' = [c \in Clients |-> IF c \in connections /\ open[c]
                                        THEN got[c] \o <<m>> ELSE got[c]]
           /\ owed' = [c \in Clients |-> IF Welcomed(c) THEN owed[c] \cup {m} ELSE owed[c]]
<1> DEFINE m == [from |-> w, number |-> logged[w] + 1, during |-> deployment]
<1>1. logged[w] + 1 \in Numbers
  <2>1. /\ logged[w] \in Nat /\ deployment \in 0..MaxDeployments /\ MaxMessages \in Nat
        /\ (MaxMessages + 1) * (MaxDeployments + 1) \in Nat
        /\ (MaxMessages + 1) * deployment \in Nat
        /\ (MaxMessages + 1) * deployment <= (MaxMessages + 1) * (MaxDeployments + 1)
        /\ MaxMessages < (MaxMessages + 1) * (MaxDeployments + 1)
    BY BoundsAssumption, Shares DEF Typed, TypeOK, Numbers
  <2> DEFINE top == (MaxMessages + 1) * (MaxDeployments + 1)
             now == (MaxMessages + 1) * deployment
  <2>2. /\ top \in Nat /\ now \in Nat /\ now <= top /\ MaxMessages < top
        /\ logged[w] < MaxMessages \/ logged[w] < now
    BY <2>1 DEF Writers
  <2> HIDE DEF top, now
  <2>3. logged[w] + 1 \in 1..top
    BY <2>1, <2>2
  <2>4. QED BY <2>3 DEF Numbers, top
<1>2. m \in Message /\ m.number = logged[w] + 1
  BY <1>1 DEF Message, Typed, TypeOK
<1>3. held' = [held EXCEPT ![w] = IF connections = {} THEN {m} ELSE {}]
  BY DEF broadcast, Typed, TypeOK
<1>4. got' = [c \in Clients |-> IF c \in connections /\ open[c]
                                 THEN got[c] \o <<m>> ELSE got[c]]
  <2>1. got = [c \in Clients |-> got[c]]
    BY DEF Typed, TypeOK
  <2>2. CASE connections = {}
    BY <2>1, <2>2 DEF broadcast
  <2>3. CASE connections # {}
    BY <2>3 DEF broadcast, Send
  <2>4. QED BY <2>2, <2>3
<1>5. logged' = [logged EXCEPT ![w] = m.number] /\ logged' \in [Writers -> Numbers \cup {0}]
  BY <1>1 DEF broadcast, Typed, TypeOK
<1>6. QED BY <1>2, <1>3, <1>4, <1>5 DEF broadcast

\* What a broadcast does not touch, and that the sequences stay sequences.
LEMMA BroadcastType ==
  ASSUME Typed, NEW w \in Writers, broadcast(w),
         w \in Readers => logged[w] < MaxMessages,
         w = Deployer => logged[w] < (MaxMessages + 1) * deployment
  PROVE  /\ logged' \in [Writers -> Numbers \cup {0}]
         /\ held' \in [Writers -> SUBSET Message]
         /\ got' \in [Clients -> Seq(Message)]
         /\ owed' \in [Clients -> SUBSET Message]
         /\ UNCHANGED <<pending, connections, pc, told, open, closed>>
<1>1. PICK m \in Message :
           /\ m.from = w /\ m.number = logged[w] + 1 /\ m.during = deployment
           /\ logged' = [logged EXCEPT ![w] = m.number]
           /\ logged' \in [Writers -> Numbers \cup {0}]
           /\ held[w] = {}
           /\ held' = [held EXCEPT ![w] = IF connections = {} THEN {m} ELSE {}]
           /\ got' = [c \in Clients |-> IF c \in connections /\ open[c]
                                        THEN got[c] \o <<m>> ELSE got[c]]
           /\ owed' = [c \in Clients |-> IF Welcomed(c) THEN owed[c] \cup {m} ELSE owed[c]]
  BY Broadcasts
<1>2. held' \in [Writers -> SUBSET Message]
  BY <1>1 DEF Typed, TypeOK
<1>3. owed' \in [Clients -> SUBSET Message]
  BY <1>1 DEF Typed, TypeOK
<1>4. got' \in [Clients -> Seq(Message)]
  <2>1. \A c \in Clients : got[c] \in Seq(Message) /\ got[c] \o <<m>> \in Seq(Message)
    BY Appended DEF Typed, TypeOK
  <2>2. QED BY <1>1, <2>1
<1>5. QED BY <1>1, <1>2, <1>3, <1>4 DEF broadcast, manager, handler, socket

\* Every message of a reader has a number.
LEMMA ReaderType == ASSUME Typed, NEW r \in Readers, ReaderLogs(r) PROVE Typed'
<1>1. r \in Writers /\ r # Deployer /\ logged[r] < MaxMessages /\ broadcast(r)
      /\ UNCHANGED <<deployment, phase>>
  BY BoundsAssumption DEF ReaderLogs, Writers, deployer
<1>2. TypeOK'
  BY <1>1, BroadcastType DEF Typed, TypeOK
<1>3. logged' = [logged EXCEPT ![r] = logged[r] + 1]
  BY <1>1 DEF broadcast
<1>4. Counted'
  <2>1. Deployer \in Writers /\ \A q \in Readers : q \in Writers
    BY DEF Writers
  <2>2. logged'[Deployer] = logged[Deployer]
    BY <1>1, <1>3, <2>1 DEF Typed, TypeOK
  <2>3. \A q \in Readers : logged'[q] <= MaxMessages
    <3>1. logged'[r] = logged[r] + 1 /\ logged[r] \in Nat /\ MaxMessages \in Nat
      BY <1>1, <1>3, BoundsAssumption DEF Typed, TypeOK, Numbers
    <3>2. logged'[r] <= MaxMessages
      BY <1>1, <3>1
    <3>3. \A q \in Readers : q # r => logged'[q] = logged[q]
      BY <1>1, <1>3, <2>1 DEF Typed, TypeOK
    <3>4. QED BY <3>2, <3>3 DEF Typed, Counted
  <2>4. QED BY <1>1, <2>2, <2>3 DEF Typed, Counted
<1>5. QED BY <1>2, <1>4 DEF Typed

\* Those of the deployer too, and what is left afterwards.
LEMMA DeployerType ==
  ASSUME Typed, broadcast(Deployer), UNCHANGED deployment,
         phase \in {"loading", "recorded"},
         \/ phase' = "told"
         \/ phase' = "loading" /\ logged[Deployer] + 1 < (MaxMessages + 1) * deployment
  PROVE  Typed'
<1>1. Deployer \in Writers /\ Deployer \notin Readers
      /\ logged[Deployer] < (MaxMessages + 1) * deployment
  BY BoundsAssumption DEF Writers, Typed, Counted
<1>2. TypeOK'
  BY <1>1, BroadcastType DEF Typed, TypeOK
<1>3. logged' = [logged EXCEPT ![Deployer] = logged[Deployer] + 1]
  BY DEF broadcast
<1>4. \A q \in Readers : q \in Writers /\ q # Deployer
  BY <1>1 DEF Writers
<1>5. /\ logged'[Deployer] = logged[Deployer] + 1
      /\ \A q \in Readers : logged'[q] = logged[q]
  BY <1>1, <1>3, <1>4 DEF Typed, TypeOK
<1> DEFINE n == (MaxMessages + 1) * deployment
<1>6. n \in Nat /\ logged[Deployer] \in Nat
  BY <1>1, Shares DEF Typed, TypeOK, Numbers
<1>7. IF phase' \in {"loading", "recorded"} THEN logged'[Deployer] < n
      ELSE logged'[Deployer] <= n
  <2>1. logged[Deployer] < n
    BY <1>1
  <2>2. phase' = "told" \/ (phase' = "loading" /\ logged[Deployer] + 1 < n)
    OBVIOUS
  <2> HIDE DEF n
  <2>3. QED BY <1>5, <1>6, <2>1, <2>2
<1>8. Counted'
  BY <1>5, <1>7 DEF Typed, Counted
<1>9. QED BY <1>2, <1>8 DEF Typed

\* The steps of clients, and of the deployment, that log nothing.
LEMMA TypedNext == Typed /\ [Next]_vars => Typed'
<1> SUFFICES ASSUME Typed, [Next]_vars PROVE Typed'
  OBVIOUS
<1> USE DEF Typed, manager, writer, deployer, handler, socket
<1>1. CASE Begin
  <2>1. logged'[Deployer] < (MaxMessages + 1) * deployment'
    <3> DEFINE n == (MaxMessages + 1) * deployment
               k == (MaxMessages + 1) * (deployment + 1)
    <3>1. n < k /\ n \in Nat /\ k \in Nat /\ logged[Deployer] \in Nat /\ logged[Deployer] <= n
      <4>1. deployment + 1 \in 0..MaxDeployments /\ deployment \in 0..MaxDeployments
        BY <1>1, BoundsAssumption DEF Begin, TypeOK
      <4>2. QED BY <1>1, <4>1, Shares DEF Begin, TypeOK, Counted, Writers, Numbers
    <3>2. logged' = logged /\ deployment' = deployment + 1
      BY <1>1 DEF Begin
    <3> HIDE DEF n, k
    <3>3. logged[Deployer] < k
      BY <3>1
    <3>4. QED BY <3>2, <3>3 DEF k
  <2>2. TypeOK'
    BY <1>1, BoundsAssumption DEF Begin, TypeOK
  <2>3. QED BY <1>1, <2>1, <2>2 DEF Begin, Counted
<1>2. CASE DeployerLogs
  BY <1>2, DeployerType DEF DeployerLogs
<1>3. CASE Record
  BY <1>3 DEF Record, TypeOK, Counted
<1>4. CASE complete
  BY <1>4, DeployerType DEF complete
<1>5. CASE shutdown
  BY <1>5, EmptySeq DEF shutdown, TypeOK, Counted
<1>6. ASSUME NEW r \in Readers, ReaderLogs(r) PROVE Typed'
  BY <1>6, ReaderType
<1>7. ASSUME NEW w \in Writers, Keep(w) PROVE Typed'
  BY <1>7, Appended DEF Keep, TypeOK, Counted
<1>8. ASSUME NEW c \in Clients, Connect(c) PROVE Typed'
  BY <1>8 DEF Connect, Goto, TypeOK, HandlerPc, Counted
<1>9. ASSUME NEW c \in Clients, Authorize(c) PROVE Typed'
  BY <1>9 DEF Authorize, Refuse, Goto, TypeOK, HandlerPc, Counted
<1>10. ASSUME NEW c \in Clients, Check(c) PROVE Typed'
  BY <1>10 DEF Check, Refuse, Goto, TypeOK, HandlerPc, Counted
<1>11. ASSUME NEW c \in Clients, Register(c) PROVE Typed'
  <2>1. \A b \in Clients : got[b] \o pending \in Seq(Message)
    BY ConcatProperties DEF TypeOK
  <2>2. got' \in [Clients -> Seq(Message)]
    BY <1>11, <2>1 DEF Register, Send, TypeOK
  <2>3. QED BY <1>11, <2>2 DEF Register, Goto, TypeOK, HandlerPc, Counted
<1>12. ASSUME NEW c \in Clients, Hello(c) PROVE Typed'
  BY <1>12 DEF Hello, Goto, TypeOK, HandlerPc, Counted
<1>13. ASSUME NEW c \in Clients, Leave(c) PROVE Typed'
  BY <1>13 DEF Leave, TypeOK, Counted
<1>14. ASSUME NEW c \in Clients, disconnect(c) PROVE Typed'
  BY <1>14 DEF disconnect, TypeOK, Counted
<1>15. CASE UNCHANGED vars
  BY <1>15 DEF vars, TypeOK, Counted
<1>16. QED
  BY <1>1, <1>2, <1>3, <1>4, <1>5, <1>6, <1>7, <1>8, <1>9, <1>10, <1>11, <1>12,
     <1>13, <1>14, <1>15 DEF Next, HandlerStep

\* What is kept, held and sent are messages, and their numbers stay within the bounds:
\* the bounds of the guards are the only ones that a deployment can meet.
THEOREM TypeCorrect == Spec => []TypeOK
<1>1. Typed => TypeOK
  BY DEF Typed
<1>2. QED BY <1>1, TypedInit, TypedNext, PTL DEF Spec

-----------------------------------------------------------------------------
(* Sockets *)

\* Nothing is sent, or owed, to a socket that was never registered.
Waiting ==
  \A c \in Clients :
    /\ pc[c] \in {"new", "auth", "check", "connect"} => got[c] = <<>> /\ c \notin connections
    /\ pc[c] # "end" => owed[c] = {}

\* A socket that its handler has registered stays so as long as it is open.
Registered ==
  \A c \in Clients : pc[c] \in {"hello", "end"} /\ open[c] => c \in connections

\* A socket that was reported closed stays closed.
Gone ==
  \A c \in Clients : closed[c] => ~open[c] /\ pc[c] # "new" /\ c \notin connections

Sockets == Typed /\ Waiting /\ Registered /\ Gone

\* No socket is there at the start.
LEMMA SocketsInit == Init => Sockets
BY TypedInit DEF Init, Sockets, Waiting, Registered, Gone

\* Messages reach registered sockets only, and are owed to those.
LEMMA BroadcastSockets ==
  ASSUME Sockets, Typed', NEW w \in Writers, broadcast(w)
  PROVE  Sockets'
<1>1. /\ UNCHANGED <<connections, pc, open, closed>>
      /\ \A c \in Clients : c \notin connections => got'[c] = got[c]
      /\ \A c \in Clients : pc[c] # "end" => owed'[c] = owed[c]
  BY DEF broadcast, Send, manager, handler, socket, Welcomed, Sockets, Typed, TypeOK
<1>2. Waiting'
  BY <1>1 DEF Sockets, Waiting
<1>3. Registered' /\ Gone'
  BY <1>1 DEF Sockets, Registered, Gone
<1>4. QED BY <1>2, <1>3 DEF Sockets

\* Sockets come, are registered and go.
LEMMA SocketsNext == Sockets /\ [Next]_vars => Sockets'
<1> SUFFICES ASSUME Sockets, [Next]_vars PROVE Sockets'
  OBVIOUS
<1>0. Typed'
  BY TypedNext DEF Sockets
<1>1. CASE Begin \/ Record
  BY <1>0, <1>1 DEF Begin, Record, Sockets, Waiting, Registered, Gone,
       manager, handler, socket
<1>2. CASE DeployerLogs
  BY <1>0, <1>2, BroadcastSockets DEF DeployerLogs, Writers
<1>3. CASE complete
  BY <1>0, <1>3, BroadcastSockets DEF complete, Writers
<1>4. ASSUME NEW r \in Readers, ReaderLogs(r) PROVE Sockets'
  BY <1>0, <1>4, BroadcastSockets DEF ReaderLogs, Writers
<1>5. CASE shutdown
  <2>1. /\ connections' = {} /\ UNCHANGED <<pc, told, closed, got, owed>>
        /\ \A c \in Clients : open'[c] = (open[c] /\ c \notin connections)
    BY <1>5 DEF shutdown, handler, Sockets, Typed, TypeOK
  <2>2. QED BY <1>0, <2>1 DEF Sockets, Waiting, Registered, Gone
<1>6. ASSUME NEW w \in Writers, Keep(w) PROVE Sockets'
  BY <1>0, <1>6 DEF Keep, Sockets, Waiting, Registered, Gone, handler, socket
<1>7. ASSUME NEW c \in Clients, Connect(c) \/ Authorize(c) \/ Check(c) PROVE Sockets'
  <2>1. /\ pc[c] \in {"new", "auth", "check"} /\ pc'[c] # "new"
        /\ UNCHANGED <<connections, closed, got, owed>>
        /\ pc'[c] \in {"hello", "end"} => pc'[c] = "end" /\ ~open'[c]
        /\ open'[c] => pc[c] = "new" \/ open[c]
        /\ \A b \in Clients : b # c => pc'[b] = pc[b] /\ open'[b] = open[b]
    BY <1>7 DEF Connect, Authorize, Check, Refuse, Goto, manager, Sockets, Typed, TypeOK
  <2>2. owed[c] = {}
    BY <2>1 DEF Sockets, Waiting
  <2>3. Waiting'
    BY <2>1, <2>2 DEF Sockets, Waiting
  <2>4. Registered'
    BY <2>1 DEF Sockets, Registered
  <2>5. Gone'
    BY <2>1 DEF Sockets, Gone
  <2>6. QED BY <1>0, <2>3, <2>4, <2>5 DEF Sockets
<1>8. ASSUME NEW c \in Clients, Register(c) PROVE Sockets'
  <2>1. /\ pc[c] = "connect" /\ pc'[c] = "hello"
        /\ UNCHANGED <<open, closed, owed>>
        /\ open[c] => c \in connections'
        /\ ~open[c] => c \notin connections'
        /\ \A b \in Clients : b # c => /\ pc'[b] = pc[b] /\ got'[b] = got[b]
                                       /\ (b \in connections' <=> b \in connections)
    BY <1>8 DEF Register, Send, Goto, socket, Sockets, Waiting, Typed, TypeOK
  <2>2. Waiting'
    BY <2>1 DEF Sockets, Waiting
  <2>3. Registered'
    BY <2>1 DEF Sockets, Registered
  <2>4. Gone'
    BY <2>1 DEF Sockets, Gone
  <2>5. QED BY <1>0, <2>2, <2>3, <2>4 DEF Sockets
<1>9. ASSUME NEW c \in Clients, Hello(c) PROVE Sockets'
  <2>1. /\ pc[c] = "hello" /\ pc'[c] = "end"
        /\ UNCHANGED <<connections, open, closed, got, owed>>
        /\ \A b \in Clients : b # c => pc'[b] = pc[b]
    BY <1>9 DEF Hello, Goto, manager, socket, Sockets, Typed, TypeOK
  <2>2. QED BY <1>0, <2>1 DEF Sockets, Waiting, Registered, Gone
<1>10. ASSUME NEW c \in Clients, Leave(c) PROVE Sockets'
  <2>1. /\ UNCHANGED <<connections, pc, closed, got, owed>> /\ ~open'[c]
        /\ \A b \in Clients : b # c => open'[b] = open[b]
    BY <1>10 DEF Leave, manager, handler, Sockets, Typed, TypeOK
  <2>2. QED BY <1>0, <2>1 DEF Sockets, Waiting, Registered, Gone
<1>11. ASSUME NEW c \in Clients, disconnect(c) PROVE Sockets'
  <2>1. /\ UNCHANGED <<pc, open, got, owed>> /\ ~open[c] /\ pc[c] # "new"
        /\ connections' = connections \ {c}
        /\ \A b \in Clients : b # c => closed'[b] = closed[b]
    BY <1>11 DEF disconnect, handler, Sockets, Typed, TypeOK
  <2>2. QED BY <1>0, <2>1 DEF Sockets, Waiting, Registered, Gone
<1>12. CASE UNCHANGED vars
  BY <1>0, <1>12 DEF vars, manager, handler, socket, Sockets, Waiting, Registered, Gone
<1>13. QED
  BY <1>1, <1>2, <1>3, <1>4, <1>5, <1>6, <1>7, <1>8, <1>9, <1>10, <1>11, <1>12
  DEF Next, HandlerStep

\* A socket that was reported closed is never registered afterwards (connect asks
\* connected() under the lock that disconnect takes).
THEOREM GoneIsForgottenHolds == Spec => []GoneIsForgotten
<1>1. Sockets => GoneIsForgotten
  BY DEF Sockets, Gone, GoneIsForgotten
<1>2. QED BY <1>1, SocketsInit, SocketsNext, PTL DEF Spec

\* What a socket is owed was logged while it was registered, and its outcome is not
\* sent before it is shut down.
Watched ==
  /\ \A c \in Clients : \A msg \in owed[c] : msg.during <= deployment
  /\ WatchersAreDismissed
Dismissal == Sockets /\ Watched

\* Whoever is owed a message of a deployment is dismissed with it.
LEMMA DismissalNext == Dismissal /\ [Next]_vars => Dismissal'
<1> SUFFICES ASSUME Dismissal, [Next]_vars PROVE Dismissal'
  OBVIOUS
<1>0. Sockets' /\ deployment \in Nat /\ owed \in [Clients -> SUBSET Message]
  BY SocketsNext DEF Dismissal, Sockets, Typed, TypeOK
<1>m. \A c \in Clients : \A msg \in owed[c] : msg.during \in Nat
  BY <1>0 DEF Message
<1>1. CASE Begin
  <2>1. phase = "idle" /\ deployment' = deployment + 1 /\ UNCHANGED <<owed, open>>
    BY <1>1 DEF Begin, socket
  <2>2. QED BY <1>0, <1>m, <2>1 DEF Dismissal, Watched, WatchersAreDismissed
<1>2. ASSUME NEW w \in Writers, broadcast(w), UNCHANGED deployment,
             w = Deployer => phase # "idle" /\ phase' # "idle",
             w # Deployer => phase' = phase
      PROVE  Dismissal'
  <2>1. /\ open' = open
        /\ \A c \in Clients : \A msg \in owed'[c] :
             \/ msg \in owed[c]
             \/ msg.from = w /\ msg.during = deployment
    BY <1>2, <1>0 DEF broadcast, socket
  <2>2. QED BY <1>0, <1>2, <2>1 DEF Dismissal, Watched, WatchersAreDismissed
<1>3. CASE DeployerLogs \/ complete
  BY <1>2, <1>3 DEF DeployerLogs, complete, deployer, Writers
<1>4. ASSUME NEW r \in Readers, ReaderLogs(r) PROVE Dismissal'
  BY <1>2, <1>4, BoundsAssumption DEF ReaderLogs, deployer, Writers
<1>5. CASE shutdown
  <2>1. UNCHANGED <<deployment, owed>>
        /\ \A c \in Clients : open'[c] = (open[c] /\ c \notin connections)
    BY <1>5 DEF shutdown, Dismissal, Sockets, Typed, TypeOK
  <2>2. \A c \in Clients : owed[c] # {} => ~open'[c]
    BY <2>1 DEF Dismissal, Sockets, Waiting, Registered
  <2>3. QED BY <1>0, <2>1, <2>2 DEF Dismissal, Watched, WatchersAreDismissed
<1>6. CASE /\ UNCHANGED <<deployment, owed>>
           /\ phase' = phase \/ phase' # "idle"
           /\ \A c \in Clients : owed[c] # {} /\ open'[c] => open[c]
  BY <1>0, <1>6 DEF Dismissal, Watched, WatchersAreDismissed
<1>7. CASE Record
  BY <1>6, <1>7 DEF Record, socket
<1>8. ASSUME NEW w \in Writers, Keep(w) PROVE Dismissal'
  BY <1>6, <1>8 DEF Keep, deployer, socket
<1>9. ASSUME NEW c \in Clients, Connect(c) PROVE Dismissal'
  <2>1. owed[c] = {}
    BY <1>9 DEF Connect, Dismissal, Sockets, Waiting
  <2>2. QED BY <1>6, <1>9, <2>1 DEF Connect, deployer, Dismissal, Sockets, Typed, TypeOK
<1>10. ASSUME NEW c \in Clients, Authorize(c) \/ Check(c) \/ Leave(c) PROVE Dismissal'
  BY <1>6, <1>10 DEF Authorize, Check, Leave, Refuse, deployer, Dismissal, Sockets, Typed, TypeOK
<1>11. ASSUME NEW c \in Clients, Register(c) \/ Hello(c) \/ disconnect(c) PROVE Dismissal'
  BY <1>6, <1>11 DEF Register, Hello, disconnect, deployer, socket
<1>12. CASE UNCHANGED vars
  BY <1>6, <1>12 DEF vars, deployer, socket
<1>13. QED
  BY <1>1, <1>3, <1>4, <1>5, <1>7, <1>8, <1>9, <1>10, <1>11, <1>12 DEF Next, HandlerStep

\* A socket that was owed a message of a deployment is closed by the time the next one
\* begins (complete shuts down what connect registered).
THEOREM WatchersAreDismissedHolds == Spec => []WatchersAreDismissed
<1>1. Init => Dismissal
  BY SocketsInit DEF Init, Dismissal, Watched, WatchersAreDismissed
<1>2. Dismissal => WatchersAreDismissed
  BY DEF Dismissal, Watched
<1>3. QED BY <1>1, <1>2, DismissalNext, PTL DEF Spec

-----------------------------------------------------------------------------
(* What is kept *)

\* A message between the halves of broadcast is its writer's last one.
Held ==
  \A w \in Writers : \A m \in held[w] :
    /\ m.from = w /\ m.number = logged[w]
    /\ w = Deployer => phase # "idle" /\ m.during = deployment

\* What is kept is in order, and older than what is held; the deployer's messages in
\* it are those of the deployment under way.
Pending ==
  /\ Ordered(pending)
  /\ \A i \in 1..Len(pending) :
       /\ pending[i].number <= logged[pending[i].from]
       /\ held[pending[i].from] # {} => pending[i].number < logged[pending[i].from]
       /\ pending[i].from = Deployer => phase # "idle" /\ pending[i].during = deployment

Kept == Sockets /\ Held /\ Pending

\* Nothing is kept at the start.
LEMMA KeptInit == Init => Kept
BY SocketsInit, EmptySeq DEF Init, Kept, Held, Pending, Ordered

\* A new message is held while nothing else of its writer is.
LEMMA BroadcastKept ==
  ASSUME Kept, Sockets', NEW w \in Writers, broadcast(w), UNCHANGED deployment,
         w \in Readers => logged[w] < MaxMessages,
         w = Deployer => logged[w] < (MaxMessages + 1) * deployment,
         w = Deployer => phase # "idle" /\ phase' # "idle",
         w # Deployer => phase' = phase
  PROVE  Kept'
<1>0. Typed
  BY DEF Kept, Sockets
<1>1. PICK m \in Message :
           /\ m.from = w /\ m.number = logged[w] + 1 /\ m.during = deployment
           /\ logged' = [logged EXCEPT ![w] = m.number]
           /\ logged' \in [Writers -> Numbers \cup {0}]
           /\ held[w] = {}
           /\ held' = [held EXCEPT ![w] = IF connections = {} THEN {m} ELSE {}]
           /\ got' = [c \in Clients |-> IF c \in connections /\ open[c]
                                        THEN got[c] \o <<m>> ELSE got[c]]
           /\ owed' = [c \in Clients |-> IF Welcomed(c) THEN owed[c] \cup {m} ELSE owed[c]]
  BY <1>0, Broadcasts
<1>2. /\ logged'[w] = logged[w] + 1 /\ logged[w] \in Nat
      /\ \A v \in Writers : v # w => logged'[v] = logged[v] /\ held'[v] = held[v]
      /\ \A x \in held'[w] : x = m
  BY <1>1 DEF Kept, Sockets, Typed, TypeOK, Numbers
<1>3. Held'
  BY <1>1, <1>2 DEF Kept, Held
<1>4. pending' = pending
  BY DEF broadcast, manager
<1>5. \A i \in 1..Len(pending) : pending[i] \in Message
  BY ElementOfSeq DEF Kept, Sockets, Typed, TypeOK
<1>6. Pending'
  <2> SUFFICES ASSUME NEW i \in 1..Len(pending)
               PROVE  /\ pending[i].number <= logged'[pending[i].from]
                      /\ held'[pending[i].from] # {} => pending[i].number < logged'[pending[i].from]
                      /\ pending[i].from = Deployer => phase' # "idle" /\ pending[i].during = deployment
    BY <1>4 DEF Kept, Pending
  <2>1. pending[i].number \in Nat /\ pending[i].from \in Writers
    BY <1>5 DEF Message, Numbers
  <2>2. CASE pending[i].from = w
    BY <1>2, <2>1, <2>2 DEF Kept, Pending
  <2>3. CASE pending[i].from # w
    BY <1>2, <2>1, <2>3 DEF Kept, Pending
  <2>4. QED BY <2>2, <2>3
<1>7. QED BY <1>3, <1>6 DEF Kept

\* The second half keeps it after everything else of its writer.
LEMMA KeepKept ==
  ASSUME Kept, Sockets', NEW w \in Writers, Keep(w)
  PROVE  Kept'
<1>1. PICK m \in held[w] : pending' = Append(pending, m)
  BY DEF Keep
<1>2. /\ m \in Message /\ pending \in Seq(Message)
      /\ held' = [held EXCEPT ![w] = {}] /\ UNCHANGED <<deployment, phase, logged>>
  BY DEF Keep, deployer, Kept, Sockets, Typed, TypeOK
<1>3. /\ held'[w] = {} /\ \A v \in Writers : v # w => held'[v] = held[v]
  BY <1>2 DEF Kept, Sockets, Typed, TypeOK
<1>4. /\ m.from = w /\ m.number = logged[w] /\ m.number \in Nat
      /\ w = Deployer => phase # "idle" /\ m.during = deployment
  BY <1>2 DEF Kept, Held, Message, Numbers
<1>5. Held'
  BY <1>2, <1>3 DEF Kept, Held
<1>6. /\ pending' = pending \o <<m>>
      /\ Len(pending') = Len(pending) + 1 /\ Len(pending) \in Nat
      /\ \A i \in 1..Len(pending) : pending'[i] = pending[i] /\ pending[i] \in Message
      /\ pending'[Len(pending) + 1] = m
  BY <1>1, <1>2, Appended, ElementOfSeq
<1>7. Ordered(pending')
  BY <1>2, <1>4, <1>6, AppendedInOrder DEF Kept, Pending
<1>8. Pending'
  <2> SUFFICES ASSUME NEW i \in 1..Len(pending')
               PROVE  /\ pending'[i].number <= logged[pending'[i].from]
                      /\ held'[pending'[i].from] # {} => pending'[i].number < logged[pending'[i].from]
                      /\ pending'[i].from = Deployer => phase # "idle" /\ pending'[i].during = deployment
    BY <1>2, <1>7 DEF Pending
  <2>1. CASE i \in 1..Len(pending)
    <3>1. pending'[i] = pending[i] /\ pending[i].from \in Writers
      BY <1>6, <2>1 DEF Message
    <3>2. held'[pending[i].from] # {} => held[pending[i].from] # {}
      BY <1>3, <3>1
    <3>3. QED BY <2>1, <3>1, <3>2 DEF Kept, Pending
  <2>2. CASE i = Len(pending) + 1
    BY <1>3, <1>4, <1>6, <2>2
  <2>3. i \in 1..Len(pending) \/ i = Len(pending) + 1
    BY <1>6
  <2>4. QED BY <2>1, <2>2, <2>3
<1>9. QED BY <1>5, <1>8 DEF Kept

\* What the steps that deployments log with have in common.
LEMMA DeployerSpeaks ==
  ASSUME Typed, DeployerLogs \/ complete
  PROVE  /\ broadcast(Deployer) /\ UNCHANGED deployment
         /\ phase # "idle" /\ phase' # "idle"
         /\ Deployer \in Writers /\ Deployer \notin Readers
         /\ logged[Deployer] < (MaxMessages + 1) * deployment
BY BoundsAssumption DEF DeployerLogs, complete, deployer, Writers, Typed, Counted

\* And the readers'.
LEMMA ReaderSpeaks ==
  ASSUME NEW r \in Readers, ReaderLogs(r)
  PROVE  /\ broadcast(r) /\ UNCHANGED <<deployment, phase>>
         /\ r \in Writers /\ r # Deployer /\ logged[r] < MaxMessages
BY BoundsAssumption DEF ReaderLogs, deployer, Writers

\* Nothing that is kept outlives its deployment.
LEMMA KeptNext == Kept /\ [Next]_vars => Kept'
<1> SUFFICES ASSUME Kept, [Next]_vars PROVE Kept'
  OBVIOUS
<1>0. Sockets'
  BY SocketsNext DEF Kept
<1>d. Deployer \in Writers /\ pending \in Seq(Message)
  BY DEF Writers, Kept, Sockets, Typed, TypeOK
<1>1. CASE Begin
  BY <1>0, <1>1, <1>d DEF Begin, writer, manager, Kept, Held, Pending
<1>2. CASE DeployerLogs \/ complete
  BY <1>0, <1>2, DeployerSpeaks, BroadcastKept DEF Kept, Sockets
<1>3. ASSUME NEW r \in Readers, ReaderLogs(r) PROVE Kept'
  BY <1>0, <1>3, ReaderSpeaks, BroadcastKept
<1>4. CASE shutdown
  <2>1. held[Deployer] = {} /\ pending' = <<>> /\ UNCHANGED <<deployment, logged, held>>
    BY <1>4 DEF shutdown, writer
  <2>2. Len(pending') = 0
    BY <2>1
  <2>3. Held'
    BY <2>1 DEF Kept, Held
  <2>4. Pending'
    BY <2>2 DEF Pending, Ordered
  <2>5. QED BY <1>0, <2>3, <2>4 DEF Kept
<1>5. CASE /\ UNCHANGED <<deployment, logged, held, pending>>
           /\ phase' = phase \/ phase' # "idle"
  BY <1>0, <1>5 DEF Kept, Held, Pending
<1>6. CASE Record
  BY <1>5, <1>6 DEF Record, writer, manager
<1>7. ASSUME NEW w \in Writers, Keep(w) PROVE Kept'
  BY <1>0, <1>7, KeepKept
<1>8. ASSUME NEW c \in Clients,
             Connect(c) \/ HandlerStep(c) \/ Leave(c) \/ disconnect(c)
      PROVE  Kept'
  BY <1>5, <1>8 DEF Connect, HandlerStep, Authorize, Check, Register, Hello, Leave,
       disconnect, deployer, writer, manager
<1>9. CASE UNCHANGED vars
  BY <1>5, <1>9 DEF vars, deployer, writer, manager
<1>10. QED BY <1>1, <1>2, <1>3, <1>4, <1>6, <1>7, <1>8, <1>9 DEF Next
-----------------------------------------------------------------------------
(* What sockets got *)

\* A message that is owed is among those sent.
Among(msg, s) == \E i \in 1..Len(s) : s[i] = msg

\* What a socket got: older than whatever its writers will log next.
Received(c) ==
  /\ Ordered(got[c])
  /\ told[c] <= deployment
  /\ \A i \in 1..Len(got[c]) :
       /\ got[c][i].number <= logged[got[c][i].from]
       /\ got[c][i].from = Deployer => got[c][i].during >= told[c]
  /\ \A msg \in owed[c] : Among(msg, got[c])

Delivered == Kept /\ \A c \in Clients : Received(c)

\* A message that is sent to those registered comes after all that they got.
LEMMA BroadcastDelivered ==
  ASSUME Delivered, Kept', NEW w \in Writers, broadcast(w), UNCHANGED deployment,
         w \in Readers => logged[w] < MaxMessages,
         w = Deployer => logged[w] < (MaxMessages + 1) * deployment
  PROVE  Delivered'
<1>0. Typed
  BY DEF Delivered, Kept, Sockets
<1>1. PICK m \in Message :
           /\ m.from = w /\ m.number = logged[w] + 1 /\ m.during = deployment
           /\ logged' = [logged EXCEPT ![w] = m.number]
           /\ logged' \in [Writers -> Numbers \cup {0}]
           /\ held[w] = {}
           /\ held' = [held EXCEPT ![w] = IF connections = {} THEN {m} ELSE {}]
           /\ got' = [c \in Clients |-> IF c \in connections /\ open[c]
                                        THEN got[c] \o <<m>> ELSE got[c]]
           /\ owed' = [c \in Clients |-> IF Welcomed(c) THEN owed[c] \cup {m} ELSE owed[c]]
  BY <1>0, Broadcasts
<1>2. /\ logged'[w] = m.number /\ logged[w] \in Nat
      /\ \A v \in Writers : v # w => logged'[v] = logged[v]
  BY <1>1 DEF Delivered, Kept, Sockets, Typed, TypeOK, Numbers
<1>3. SUFFICES ASSUME NEW c \in Clients PROVE Received(c)'
  BY DEF Delivered
<1>4. /\ got[c] \in Seq(Message) /\ told' = told /\ Received(c)
      /\ told[c] <= deployment /\ deployment \in Nat /\ told[c] \in Nat
  <2>1. Received(c) /\ TypeOK
    BY DEF Delivered, Kept, Sockets, Typed
  <2>2. told[c] <= deployment
    BY <2>1 DEF Received
  <2>3. got[c] \in Seq(Message) /\ deployment \in Nat /\ told[c] \in Nat
    BY <2>1 DEF TypeOK
  <2>4. told' = told
    BY DEF broadcast, handler
  <2>5. QED BY <2>1, <2>2, <2>3, <2>4
<1>5. \A i \in 1..Len(got[c]) :
        /\ got[c][i] \in Message
        /\ got[c][i].number \in Nat /\ got[c][i].from \in Writers
  <2>1. \A i \in 1..Len(got[c]) : got[c][i] \in Message
    BY <1>4, ElementOfSeq
  <2>2. \A x \in Message : x.number \in Nat /\ x.from \in Writers
    BY DEF Message, Numbers
  <2>3. QED BY <2>1, <2>2
<1>6. \A i \in 1..Len(got[c]) :
        /\ got[c][i].number <= logged[got[c][i].from]
        /\ got[c][i].from = Deployer => got[c][i].during >= told[c]
  BY <1>4 DEF Received
<1>7. \A i \in 1..Len(got[c]) : got[c][i].number <= logged'[got[c][i].from]
  <2> TAKE i \in 1..Len(got[c])
  <2>1. CASE got[c][i].from = w
    BY <1>1, <1>2, <1>5, <1>6, <2>1
  <2>2. CASE got[c][i].from # w
    BY <1>2, <1>5, <1>6, <2>2
  <2>3. QED BY <2>1, <2>2
<1>8. CASE c \in connections /\ open[c]
  <2> DEFINE t == got[c] \o <<m>>
  <2>1. got'[c] = t /\ owed'[c] \subseteq owed[c] \cup {m}
    BY <1>1, <1>8
  <2>2. /\ Len(t) = Len(got[c]) + 1 /\ Len(got[c]) \in Nat
        /\ \A i \in 1..Len(got[c]) : t[i] = got[c][i]
        /\ t[Len(got[c]) + 1] = m
    BY <1>4, Appended
  <2>3. \A i \in 1..Len(got[c]) : got[c][i].from = m.from => got[c][i].number < m.number
    BY <1>1, <1>2, <1>5, <1>6
  <2>4. Ordered(t)
    BY <1>4, <2>3, AppendedInOrder DEF Received
  <2> HIDE DEF t
  <2>5. \A i \in 1..Len(t) : i \in 1..Len(got[c]) \/ i = Len(got[c]) + 1
    BY <2>2
  <2>6. \A i \in 1..Len(t) :
          /\ t[i].number <= logged'[t[i].from]
          /\ t[i].from = Deployer => t[i].during >= told[c]
    <3> TAKE i \in 1..Len(t)
    <3>1. CASE i \in 1..Len(got[c])
      BY <1>6, <1>7, <2>2, <3>1
    <3>2. CASE i = Len(got[c]) + 1
      <4>1. t[i] = m /\ m.number \in Nat
        BY <2>2, <3>2 DEF Message, Numbers
      <4>2. QED BY <1>1, <1>2, <1>4, <4>1
    <3>3. QED BY <2>5, <3>1, <3>2
  <2>7. \A msg \in owed'[c] : Among(msg, t)
    <3>1. \A msg \in owed[c] : Among(msg, t)
      BY <1>4, <2>2 DEF Received, Among
    <3>2. Among(m, t)
      BY <2>2 DEF Among
    <3>3. QED BY <2>1, <3>1, <3>2
  <2>8. QED BY <1>4, <2>1, <2>4, <2>6, <2>7 DEF Received
<1>9. CASE ~(c \in connections /\ open[c])
  <2>1. ~Welcomed(c)
    BY <1>9 DEF Welcomed, Delivered, Kept, Sockets, Registered
  <2>2. got'[c] = got[c] /\ owed'[c] = owed[c]
    BY <1>1, <1>9, <2>1
  <2>3. QED BY <1>4, <1>6, <1>7, <2>2 DEF Received
<1>10. QED BY <1>8, <1>9

\* A socket that is registered has got nothing yet: it gets what is kept, which is of
\* the deployment under way.
LEMMA RegisterDelivers ==
  ASSUME Delivered, Kept', NEW c \in Clients, Register(c)
  PROVE  Delivered'
<1>1. /\ got[c] = <<>> /\ owed[c] = {}
      /\ UNCHANGED <<deployment, logged, told, owed>>
      /\ got' = [d \in Clients |-> IF d = c /\ open[d] THEN got[d] \o pending ELSE got[d]]
      /\ pending \in Seq(Message) /\ told[c] <= deployment
  <2>1. pc[c] = "connect" /\ UNCHANGED <<deployment, logged, told, owed>>
    BY DEF Register, deployer, writer
  <2>2. got[c] = <<>> /\ owed[c] = {}
    BY <2>1 DEF Delivered, Kept, Sockets, Waiting
  <2>3. got' = [d \in Clients |-> IF d = c /\ open[d] THEN got[d] \o pending ELSE got[d]]
    BY DEF Register, Send
  <2>4. pending \in Seq(Message)
    BY DEF Delivered, Kept, Sockets, Typed, TypeOK
  <2>5. told[c] <= deployment
    BY DEF Delivered, Received
  <2>6. QED BY <2>1, <2>2, <2>3, <2>4, <2>5
<1>2. SUFFICES ASSUME NEW d \in Clients PROVE Received(d)'
  BY DEF Delivered
<1>3. CASE d = c /\ open[c]
  <2>1. got'[c] = pending
    BY <1>1, <1>3, ConcatEmptySeq
  <2>2. \A i \in 1..Len(pending) :
          /\ pending[i].number <= logged[pending[i].from]
          /\ pending[i].from = Deployer => pending[i].during >= told[c]
    BY <1>1 DEF Delivered, Kept, Pending
  <2>3. Ordered(pending)
    BY DEF Delivered, Kept, Pending
  <2>4. QED BY <1>1, <1>3, <2>1, <2>2, <2>3 DEF Received
<1>4. CASE ~(d = c /\ open[c])
  <2>1. got'[d] = got[d]
    BY <1>1, <1>4
  <2>2. QED BY <1>1, <2>1 DEF Delivered, Received
<1>5. QED BY <1>3, <1>4

\* Sockets get messages in order, nothing from before and everything from their hello on.
LEMMA DeliveredNext == Delivered /\ [Next]_vars => Delivered'
<1> SUFFICES ASSUME Delivered, [Next]_vars PROVE Delivered'
  OBVIOUS
<1>0. Kept'
  BY KeptNext DEF Delivered
<1>1. CASE DeployerLogs \/ complete
  BY <1>0, <1>1, DeployerSpeaks, BroadcastDelivered DEF Delivered, Kept, Sockets
<1>2. ASSUME NEW r \in Readers, ReaderLogs(r) PROVE Delivered'
  BY <1>0, <1>2, ReaderSpeaks, BroadcastDelivered
<1>3. ASSUME NEW c \in Clients, Register(c) PROVE Delivered'
  BY <1>0, <1>3, RegisterDelivers
<1>4. CASE UNCHANGED <<deployment, logged, told, got, owed>>
  BY <1>0, <1>4 DEF Delivered, Received
<1>5. CASE Begin
  <2>1. deployment' = deployment + 1 /\ UNCHANGED <<logged, told, got, owed>>
    BY <1>5 DEF Begin, writer, handler
  <2>2. deployment \in Nat /\ \A c \in Clients : told[c] \in Nat
    BY DEF Delivered, Kept, Sockets, Typed, TypeOK
  <2>3. QED BY <1>0, <2>1, <2>2 DEF Delivered, Received
<1>6. CASE Record \/ shutdown
  BY <1>4, <1>6 DEF Record, shutdown, writer, handler
<1>7. ASSUME NEW w \in Writers, Keep(w) PROVE Delivered'
  BY <1>4, <1>7 DEF Keep, deployer, handler
<1>8. ASSUME NEW c \in Clients,
             Connect(c) \/ Authorize(c) \/ Hello(c) \/ Leave(c) \/ disconnect(c)
      PROVE  Delivered'
  BY <1>4, <1>8 DEF Connect, Authorize, Hello, Leave, disconnect, deployer, writer, handler
<1>9. ASSUME NEW c \in Clients, Check(c) PROVE Delivered'
  <2>1. /\ UNCHANGED <<deployment, logged, got, owed>>
        /\ got[c] = <<>> /\ deployment \in Nat
        /\ told' = told \/ told' = [told EXCEPT ![c] = deployment]
    BY <1>9 DEF Check, deployer, writer, Delivered, Kept, Sockets, Waiting, Typed, TypeOK
  <2>2. SUFFICES ASSUME NEW d \in Clients PROVE Received(d)'
    BY <1>0 DEF Delivered
  <2>3. told'[d] = told[d] \/ (d = c /\ told'[d] = deployment)
    BY <2>1 DEF Delivered, Kept, Sockets, Typed, TypeOK
  <2>4. got[c] = <<>> => Len(got[c]) = 0
    OBVIOUS
  <2>5. QED BY <2>1, <2>3, <2>4 DEF Delivered, Received
<1>10. CASE UNCHANGED vars
  BY <1>4, <1>10 DEF vars, deployer, writer, handler
<1>11. QED
  BY <1>1, <1>2, <1>3, <1>5, <1>6, <1>7, <1>8, <1>9, <1>10 DEF Next, HandlerStep

\* Nothing was sent at the start.
LEMMA DeliveredInit == Init => Delivered
BY KeptInit DEF Init, Delivered, Received, Ordered

\* A socket gets the messages of each writer in order and none twice, whether they were
\* kept in pending_ or sent directly.
THEOREM InOrderHolds == Spec => []InOrder
<1>1. Delivered => InOrder
  BY DEF Delivered, Received, Ordered, InOrder
<1>2. QED BY <1>1, DeliveredInit, DeliveredNext, PTL DEF Spec

\* From its hello on, a socket misses nothing as long as it is open.
THEOREM NothingMissedHolds == Spec => []NothingMissed
<1>1. Delivered => NothingMissed
  BY DEF Delivered, Received, Among, NothingMissed
<1>2. QED BY <1>1, DeliveredInit, DeliveredNext, PTL DEF Spec

\* What was kept for a deployment is forgotten with it.
THEOREM NotFromBeforeHolds == Spec => []NotFromBefore
<1>1. Delivered => NotFromBefore
  BY DEF Delivered, Received, NotFromBefore
<1>2. QED BY <1>1, DeliveredInit, DeliveredNext, PTL DEF Spec
=============================================================================
