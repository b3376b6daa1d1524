---------------------------- MODULE Servers_proofs ----------------------------
(***************************************************************************)
(* The servers, parts that share no state: the proxy's counters and        *)
(* sockets, the lines of the control port, the capture of what passes the  *)
(* proxy, what controllers are shown of the camera, and how long a source  *)
(* of telemetry waits to be polled.                                        *)
(***************************************************************************)
EXTENDS NativeProxy, TcpControl, NativeCapture, Feedback, TelemetrySchedule,
        FiniteSetTheorems, SequenceTheorems, TLAPS

-----------------------------------------------------------------------------
(***************************************************************************)
(* The proxy.  A connection is in one place, so that its move changes the  *)
(* sets of sessions and tunnels by that connection or not at all; that     *)
(* Accept moves it out of the backlog needs the backlog to hold each       *)
(* connection once, and nobody who is elsewhere.                           *)
(***************************************************************************)

Sessions == {c \in Connections : phase[c] \in InTask \cup {"claimed"}}
Tunnels == {c \in Connections : phase[c] \in InTunnel}

ProxyTypeOK ==
  /\ backlog \in Seq(Connections)
  /\ phase \in [Connections -> Phases]
  /\ clientOpen \subseteq Connections /\ cameraOpen \subseteq Connections
  /\ activeSessions \in 0..MaxSessions

BacklogHoldsEachOnce ==
  \A i \in 1..Len(backlog) :
    /\ phase[backlog[i]] = "backlog"
    /\ \A j \in 1..Len(backlog) : backlog[j] = backlog[i] => j = i

(* There is one listener, and it has one connection at a time.             *)
ListenerHoldsOne ==
  \A c, d \in Connections : phase[c] \in InListener /\ phase[d] \in InListener => c = d

OwnersOfSockets ==
  /\ \A c \in clientOpen : phase[c] \in InListener \cup (InTask \ {"leaving", "tunnelClosed"})
  /\ \A c \in cameraOpen : phase[c] \in {"forward", "response", "stream", "tunnel"}

ProxyInv ==
  /\ ProxyTypeOK /\ BacklogHoldsEachOnce /\ ListenerHoldsOne
  /\ OwnersOfSockets /\ CountersMatchTasks

-----------------------------------------------------------------------------

LEMMA SessionsAreFinite ==
  /\ IsFiniteSet(Sessions) /\ Cardinality(Sessions) \in Nat
  /\ IsFiniteSet(Tunnels) /\ Cardinality(Tunnels) \in Nat
<1>1. Sessions \in SUBSET Connections /\ Tunnels \in SUBSET Connections
  BY DEF Sessions, Tunnels
<1>2. IsFiniteSet(Sessions) /\ IsFiniteSet(Tunnels)
  BY <1>1, FS_Subset, ProxyAssumption
<1> QED  BY <1>2, FS_CardinalityType

LEMMA ProxyStarts == Init => ProxyInv
<1> SUFFICES ASSUME Init PROVE ProxyInv
  OBVIOUS
<1>1. Sessions = {} /\ Tunnels = {}
  BY DEF Init, Sessions, Tunnels, InTask, InTunnel
<1>2. CountersMatchTasks
  BY <1>1, FS_EmptySet DEF Init, CountersMatchTasks, Sessions, Tunnels
<1>3. "away" \in Phases /\ "away" \notin InListener
  BY DEF Phases, InListener
<1>4. ProxyTypeOK
  BY <1>3, ProxyAssumption DEF Init, ProxyTypeOK
<1>5. ListenerHoldsOne
  BY <1>3 DEF Init, ListenerHoldsOne
<1> QED
  BY <1>2, <1>4, <1>5 DEF Init, ProxyInv, BacklogHoldsEachOnce, OwnersOfSockets

(* What a move does to the sets the counters count.                        *)
LEMMA Moves ==
  ASSUME ProxyTypeOK, NEW c \in Connections, NEW next \in Phases, Goto(c, next)
  PROVE  /\ phase' \in [Connections -> Phases] /\ phase'[c] = next
         /\ \A d \in Connections \ {c} : phase'[d] = phase[d]
         /\ Sessions' = IF next \in InTask \cup {"claimed"} THEN Sessions \cup {c}
                                                             ELSE Sessions \ {c}
         /\ Tunnels' = IF next \in InTunnel THEN Tunnels \cup {c} ELSE Tunnels \ {c}
<1>1. /\ phase' \in [Connections -> Phases] /\ phase'[c] = next
      /\ \A d \in Connections \ {c} : phase'[d] = phase[d]
  BY DEF ProxyTypeOK, Goto
<1> QED  BY <1>1 DEF Sessions, Tunnels

(* A move is counted if it enters or leaves a set with its counter.        *)
LEMMA MoveIsCounted ==
  ASSUME ProxyInv, NEW c \in Connections, NEW next \in Phases, Goto(c, next),
         activeSessions' =
           activeSessions + (IF next \in InTask \cup {"claimed"} THEN 1 ELSE 0)
                          - (IF phase[c] \in InTask \cup {"claimed"} THEN 1 ELSE 0),
         activeLinearSessions' =
           activeLinearSessions + (IF next \in InTunnel THEN 1 ELSE 0)
                                - (IF phase[c] \in InTunnel THEN 1 ELSE 0)
  PROVE  CountersMatchTasks'
<1>1. /\ c \in Sessions <=> phase[c] \in InTask \cup {"claimed"}
      /\ c \in Tunnels <=> phase[c] \in InTunnel
  BY DEF Sessions, Tunnels
<1>2. /\ activeSessions = Cardinality(Sessions)
      /\ activeLinearSessions = Cardinality(Tunnels)
  BY DEF ProxyInv, CountersMatchTasks, Sessions, Tunnels
<1>3. activeSessions' = Cardinality(Sessions')
  <2>1. CASE next \in InTask \cup {"claimed"}
    <3>1. Sessions' = Sessions \cup {c}
      BY <2>1, Moves DEF ProxyInv
    <3>2. Cardinality(Sessions') =
            IF c \in Sessions THEN Cardinality(Sessions) ELSE Cardinality(Sessions) + 1
      BY <3>1, FS_AddElement, SessionsAreFinite
    <3> QED  BY <1>1, <1>2, <2>1, <3>2, SessionsAreFinite
  <2>2. CASE next \notin InTask \cup {"claimed"}
    <3>1. Sessions' = Sessions \ {c}
      BY <2>2, Moves DEF ProxyInv
    <3>2. Cardinality(Sessions') =
            IF c \in Sessions THEN Cardinality(Sessions) - 1 ELSE Cardinality(Sessions)
      BY <3>1, FS_RemoveElement, SessionsAreFinite
    <3> QED  BY <1>1, <1>2, <2>2, <3>2, SessionsAreFinite
  <2> QED  BY <2>1, <2>2
<1>4. activeLinearSessions' = Cardinality(Tunnels')
  <2>1. CASE next \in InTunnel
    <3>1. Tunnels' = Tunnels \cup {c}
      BY <2>1, Moves DEF ProxyInv
    <3>2. Cardinality(Tunnels') =
            IF c \in Tunnels THEN Cardinality(Tunnels) ELSE Cardinality(Tunnels) + 1
      BY <3>1, FS_AddElement, SessionsAreFinite
    <3> QED  BY <1>1, <1>2, <2>1, <3>2, SessionsAreFinite
  <2>2. CASE next \notin InTunnel
    <3>1. Tunnels' = Tunnels \ {c}
      BY <2>2, Moves DEF ProxyInv
    <3>2. Cardinality(Tunnels') =
            IF c \in Tunnels THEN Cardinality(Tunnels) - 1 ELSE Cardinality(Tunnels)
      BY <3>1, FS_RemoveElement, SessionsAreFinite
    <3> QED  BY <1>1, <1>2, <2>2, <3>2, SessionsAreFinite
  <2> QED  BY <2>1, <2>2
<1> QED  BY <1>3, <1>4 DEF CountersMatchTasks, Sessions, Tunnels

(* A slot is never given back that was not taken: the saturation of the    *)
(* two subtractions is never needed.                                       *)
LEMMA CountsArePositive ==
  ASSUME ProxyInv, NEW c \in Connections
  PROVE  /\ activeSessions \in Nat /\ activeLinearSessions \in Nat
         /\ phase[c] \in InTask \cup {"claimed"} => activeSessions > 0
         /\ phase[c] \in InTunnel => activeLinearSessions > 0
<1>1. /\ activeSessions = Cardinality(Sessions)
      /\ activeLinearSessions = Cardinality(Tunnels)
  BY DEF ProxyInv, CountersMatchTasks, Sessions, Tunnels
<1>2. /\ Cardinality(Sessions) = 0 => Sessions = {}
      /\ Cardinality(Tunnels) = 0 => Tunnels = {}
  BY FS_EmptySet, SessionsAreFinite
<1>3. /\ phase[c] \in InTask \cup {"claimed"} => c \in Sessions
      /\ phase[c] \in InTunnel => c \in Tunnels
  BY DEF Sessions, Tunnels
<1> QED  BY <1>1, <1>2, <1>3, SessionsAreFinite

(* A move that neither enters nor leaves the backlog keeps it; the         *)
(* listener gets no second connection.                                     *)
LEMMA MoveKeepsPlaces ==
  ASSUME ProxyInv, NEW c \in Connections, NEW next \in Phases, Goto(c, next),
         backlog' = backlog, phase[c] # "backlog",
         next \in InListener => phase[c] \in InListener
  PROVE  BacklogHoldsEachOnce' /\ ListenerHoldsOne'
<1>1. /\ phase'[c] = next /\ \A d \in Connections \ {c} : phase'[d] = phase[d]
  BY Moves DEF ProxyInv
<1>2. \A i \in 1..Len(backlog) : backlog[i] \in Connections \ {c}
  BY DEF ProxyInv, ProxyTypeOK, BacklogHoldsEachOnce
<1>3. BacklogHoldsEachOnce'
  BY <1>1, <1>2 DEF ProxyInv, BacklogHoldsEachOnce
<1>4. \A d \in Connections : phase'[d] \in InListener => phase[d] \in InListener
  BY <1>1
<1> QED  BY <1>3, <1>4 DEF ProxyInv, ListenerHoldsOne

-----------------------------------------------------------------------------

LEMMA BrowserKeeps ==
  ASSUME ProxyInv, NEW c \in Connections, Connect(c)
  PROVE  ProxyInv'
<1> USE DEF ProxyInv
<1>1. /\ phase[c] = "away" /\ backlog' = Append(backlog, c) /\ Goto(c, "backlog")
      /\ UNCHANGED <<clientOpen, cameraOpen, activeSessions, activeLinearSessions>>
  BY DEF Connect, sockets, counters
<1>2. "backlog" \in Phases
  BY DEF Phases
<1>3. /\ phase' \in [Connections -> Phases] /\ phase'[c] = "backlog"
      /\ \A d \in Connections \ {c} : phase'[d] = phase[d]
  BY <1>1, <1>2, Moves
<1>4. CountersMatchTasks'
  BY <1>1, <1>2, MoveIsCounted, CountsArePositive DEF InTask, InTunnel
<1>5. /\ Len(backlog) \in Nat /\ Len(backlog') = Len(backlog) + 1
      /\ \A i \in 1..Len(backlog) : backlog'[i] = backlog[i] /\ backlog[i] \in Connections
      /\ backlog'[Len(backlog')] = c
  BY <1>1 DEF ProxyTypeOK
<1>6. \A i \in 1..Len(backlog) : phase[backlog[i]] = "backlog" /\ backlog[i] # c
  BY <1>1 DEF BacklogHoldsEachOnce
<1>7. BacklogHoldsEachOnce'
  <2> SUFFICES ASSUME NEW i \in 1..Len(backlog')
               PROVE  /\ phase'[backlog'[i]] = "backlog"
                      /\ \A j \in 1..Len(backlog') : backlog'[j] = backlog'[i] => j = i
    BY DEF BacklogHoldsEachOnce
  <2>1. CASE i = Len(backlog) + 1
    BY <1>3, <1>5, <1>6, <2>1
  <2>2. CASE i \in 1..Len(backlog)
    BY <1>3, <1>5, <1>6, <2>2 DEF BacklogHoldsEachOnce
  <2> QED  BY <1>5, <2>1, <2>2
<1>8. ListenerHoldsOne'
  BY <1>3 DEF ListenerHoldsOne, InListener
<1>9. OwnersOfSockets'
  <2>1. c \notin clientOpen /\ c \notin cameraOpen
    BY <1>1 DEF OwnersOfSockets, InListener, InTask, InTunnel
  <2> QED  BY <1>1, <1>3, <2>1 DEF OwnersOfSockets, ProxyTypeOK
<1> QED  BY <1>1, <1>3, <1>4, <1>7, <1>8, <1>9 DEF ProxyTypeOK

LEMMA AcceptTakesTheFirst ==
  ASSUME ProxyInv, Accept
  PROVE  ProxyInv'
<1> USE DEF ProxyInv
<1> DEFINE c == Head(backlog)
<1>1. /\ Listening /\ backlog # <<>> /\ backlog' = Tail(backlog)
      /\ clientOpen' = clientOpen \cup {c} /\ Goto(c, "waiting")
      /\ UNCHANGED <<cameraOpen, activeSessions, activeLinearSessions>>
  BY DEF Accept, counters
<1>2. /\ Len(backlog) \in Nat \ {0} /\ c = backlog[1] /\ c \in Connections
      /\ Len(backlog') = Len(backlog) - 1 /\ backlog' \in Seq(Connections)
      /\ \A i \in 1..Len(backlog') : backlog'[i] = backlog[i + 1]
  BY <1>1 DEF ProxyTypeOK
<1>3. phase[c] = "backlog"
  BY <1>2 DEF BacklogHoldsEachOnce
<1>4. "waiting" \in Phases
  BY DEF Phases, InListener
<1> HIDE DEF c
<1>5. /\ phase' \in [Connections -> Phases] /\ phase'[c] = "waiting"
      /\ \A d \in Connections \ {c} : phase'[d] = phase[d]
  BY <1>1, <1>2, <1>4, Moves
<1>6. CountersMatchTasks'
  BY <1>1, <1>2, <1>3, <1>4, MoveIsCounted, CountsArePositive DEF InTask, InTunnel
<1>7. BacklogHoldsEachOnce'
  <2> SUFFICES ASSUME NEW i \in 1..Len(backlog')
               PROVE  /\ phase'[backlog'[i]] = "backlog"
                      /\ \A j \in 1..Len(backlog') : backlog'[j] = backlog'[i] => j = i
    BY DEF BacklogHoldsEachOnce
  <2>1. i + 1 \in 1..Len(backlog) /\ i + 1 # 1 /\ 1 \in 1..Len(backlog)
    BY <1>2
  <2>2. /\ backlog'[i] = backlog[i + 1] /\ backlog[i + 1] \in Connections
        /\ phase[backlog[i + 1]] = "backlog"
    BY <1>2, <2>1 DEF BacklogHoldsEachOnce, ProxyTypeOK
  <2>3. backlog[i + 1] # c
    BY <1>2, <2>1 DEF BacklogHoldsEachOnce
  <2>4. ASSUME NEW j \in 1..Len(backlog'), backlog'[j] = backlog'[i] PROVE j = i
    <3>1. j + 1 \in 1..Len(backlog) /\ backlog[j + 1] = backlog[i + 1]
      BY <1>2, <2>2, <2>4
    <3>2. j + 1 = i + 1
      BY <2>1, <3>1 DEF BacklogHoldsEachOnce
    <3> QED  BY <1>2, <3>2
  <2> QED  BY <1>5, <2>2, <2>3, <2>4
<1>8. ListenerHoldsOne'
  BY <1>1, <1>5 DEF Listening, ListenerHoldsOne
<1>9. OwnersOfSockets'
  <2>1. c \notin cameraOpen
    BY <1>3 DEF OwnersOfSockets
  <2> QED  BY <1>1, <1>5, <2>1 DEF OwnersOfSockets, ProxyTypeOK, InListener
<1> QED  BY <1>1, <1>2, <1>5, <1>6, <1>7, <1>8, <1>9 DEF ProxyTypeOK

LEMMA ListenerKeeps ==
  ASSUME ProxyInv, NEW c \in Connections, ListenerStep(c)
  PROVE  ProxyInv'
<1> USE DEF ProxyInv
<1>p. \A p \in {"away", "request"} \cup InListener : p \in Phases
  BY DEF Phases, InTask
<1>c. /\ activeSessions \in Nat /\ activeLinearSessions \in Nat
      /\ phase[c] \in InTask \cup {"claimed"} => activeSessions > 0
  BY CountsArePositive
<1>l. \A d \in cameraOpen : phase[d] \notin InListener
  BY DEF OwnersOfSockets, InListener
<1>1. CASE Claim(c)
  <2>1. /\ phase[c] = "waiting" /\ activeSessions < MaxSessions
        /\ activeSessions' = activeSessions + 1 /\ Goto(c, "claimed")
        /\ UNCHANGED <<backlog, clientOpen, cameraOpen, activeLinearSessions>>
    BY <1>1 DEF Claim, ClaimSession, arrivals, sockets
  <2>2. "claimed" \in Phases
    BY <1>p DEF InListener
  <2>3. CountersMatchTasks'
    BY <1>c, <2>1, <2>2, MoveIsCounted DEF InTask, InTunnel
  <2>4. BacklogHoldsEachOnce' /\ ListenerHoldsOne'
    BY <2>1, <2>2, MoveKeepsPlaces DEF InListener
  <2>5. /\ phase' \in [Connections -> Phases] /\ phase'[c] = "claimed"
        /\ \A d \in Connections \ {c} : phase'[d] = phase[d]
    BY <2>1, <2>2, Moves
  <2>6. OwnersOfSockets'
    BY <1>l, <2>1, <2>5 DEF OwnersOfSockets, ProxyTypeOK, InListener
  <2> QED
    BY <1>c, <2>1, <2>3, <2>4, <2>5, <2>6, ProxyAssumption DEF ProxyTypeOK
<1>2. CASE RetryClaim(c)
  <2>1. /\ phase[c] = "waiting" /\ UNCHANGED <<backlog, clientOpen, cameraOpen>>
        /\ UNCHANGED <<activeSessions, activeLinearSessions>>
        /\ UNCHANGED phase \/ Goto(c, "refused")
    BY <1>2 DEF RetryClaim, sockets, counters
  <2>2. "refused" \in Phases
    BY <1>p DEF InListener
  <2>3. CASE UNCHANGED phase
    BY <2>1, <2>3 DEF ProxyTypeOK, BacklogHoldsEachOnce, ListenerHoldsOne, OwnersOfSockets,
                      CountersMatchTasks
  <2>4. CASE Goto(c, "refused")
    <3>1. CountersMatchTasks'
      BY <1>c, <2>1, <2>2, <2>4, MoveIsCounted DEF InTask, InTunnel
    <3>2. BacklogHoldsEachOnce' /\ ListenerHoldsOne'
      BY <2>1, <2>2, <2>4, MoveKeepsPlaces DEF InListener
    <3>3. /\ phase' \in [Connections -> Phases] /\ phase'[c] = "refused"
          /\ \A d \in Connections \ {c} : phase'[d] = phase[d]
      BY <2>2, <2>4, Moves
    <3>4. OwnersOfSockets'
      BY <1>l, <2>1, <3>3 DEF OwnersOfSockets, ProxyTypeOK, InListener
    <3> QED  BY <2>1, <3>1, <3>2, <3>3, <3>4 DEF ProxyTypeOK
  <2> QED  BY <2>1, <2>3, <2>4
<1>3. CASE SendBusy(c)
  <2>1. /\ phase[c] = "refused" /\ clientOpen' = clientOpen \ {c} /\ Goto(c, "away")
        /\ UNCHANGED <<backlog, cameraOpen, activeSessions, activeLinearSessions>>
    BY <1>3 DEF SendBusy, arrivals, counters
  <2>2. "away" \in Phases
    BY <1>p
  <2>3. CountersMatchTasks'
    BY <1>c, <2>1, <2>2, MoveIsCounted DEF InTask, InTunnel
  <2>4. BacklogHoldsEachOnce' /\ ListenerHoldsOne'
    BY <2>1, <2>2, MoveKeepsPlaces DEF InListener
  <2>5. /\ phase' \in [Connections -> Phases] /\ phase'[c] = "away"
        /\ \A d \in Connections \ {c} : phase'[d] = phase[d]
    BY <2>1, <2>2, Moves
  <2>6. OwnersOfSockets'
    BY <1>l, <2>1, <2>5 DEF OwnersOfSockets, ProxyTypeOK, InListener
  <2> QED  BY <2>1, <2>3, <2>4, <2>5, <2>6 DEF ProxyTypeOK
<1>4. CASE CreateTask(c)
  <2>1. phase[c] = "claimed" /\ UNCHANGED <<backlog, cameraOpen, activeLinearSessions>>
    BY <1>4 DEF CreateTask, arrivals
  <2>2. PICK next \in {"request", "away"} :
          /\ Goto(c, next)
          /\ next = "request" => UNCHANGED <<clientOpen, activeSessions>>
          /\ next = "away" => /\ clientOpen' = clientOpen \ {c}
                              /\ activeSessions' = activeSessions - 1
    BY <1>4, <1>c, <2>1 DEF CreateTask, ReleaseSession
  <2>3. next \in Phases
    BY <1>p
  <2>4. CountersMatchTasks'
    BY <1>c, <2>1, <2>2, <2>3, MoveIsCounted DEF InTask, InTunnel
  <2>5. BacklogHoldsEachOnce' /\ ListenerHoldsOne'
    BY <2>1, <2>2, <2>3, MoveKeepsPlaces DEF InListener
  <2>6. /\ phase' \in [Connections -> Phases] /\ phase'[c] = next
        /\ \A d \in Connections \ {c} : phase'[d] = phase[d]
    BY <2>2, <2>3, Moves
  <2>7. OwnersOfSockets'
    BY <1>l, <2>1, <2>2, <2>6 DEF OwnersOfSockets, ProxyTypeOK, InListener, InTask
  <2>8. activeSessions' \in 0..MaxSessions
    BY <1>c, <2>1, <2>2, ProxyAssumption DEF ProxyTypeOK
  <2> QED  BY <2>1, <2>2, <2>4, <2>5, <2>6, <2>7, <2>8 DEF ProxyTypeOK
<1> QED  BY <1>1, <1>2, <1>3, <1>4 DEF ListenerStep

(* Every step of a task moves it along, with its sockets kept open only    *)
(* where the next phase owns them, and the counters following the move.    *)
LEMMA TaskMoves ==
  ASSUME ProxyInv, NEW c \in Connections, SessionStep(c)
  PROVE  \E next \in InTask \cup {"away"} :
           /\ phase[c] \in InTask /\ Goto(c, next) /\ backlog' = backlog
           /\ clientOpen' \subseteq clientOpen
           /\ c \in clientOpen' => next \in InTask \ {"leaving", "tunnelClosed"}
           /\ cameraOpen' \subseteq cameraOpen \cup {c}
           /\ c \in cameraOpen' => next \in {"forward", "response", "stream", "tunnel"}
           /\ activeSessions' =
                activeSessions + (IF next \in InTask THEN 1 ELSE 0) - 1
           /\ activeLinearSessions' =
                activeLinearSessions + (IF next \in InTunnel THEN 1 ELSE 0)
                                     - (IF phase[c] \in InTunnel THEN 1 ELSE 0)
<1>c. /\ activeSessions \in Nat /\ activeLinearSessions \in Nat
      /\ phase[c] \in InTask \cup {"claimed"} => activeSessions > 0
      /\ phase[c] \in InTunnel => activeLinearSessions > 0
  BY CountsArePositive
<1>o. /\ c \in clientOpen => phase[c] \in InListener \cup (InTask \ {"leaving", "tunnelClosed"})
      /\ c \in cameraOpen => phase[c] \in {"forward", "response", "stream", "tunnel"}
  BY DEF ProxyInv, OwnersOfSockets
<1> USE DEF Stays, HangUp, arrivals, counters, sockets, InTask, InTunnel
<1>1. CASE ReadRequest(c)
  BY <1>1, <1>c, <1>o DEF ReadRequest
<1>2. CASE ConnectCamera(c)
  BY <1>2, <1>c, <1>o DEF ConnectCamera
<1>3. CASE ForwardRequest(c)
  BY <1>3, <1>c, <1>o DEF ForwardRequest
<1>4. CASE ForwardResponse(c)
  BY <1>4, <1>c, <1>o DEF ForwardResponse
<1>5. CASE StreamEnds(c)
  BY <1>5, <1>c, <1>o DEF StreamEnds
<1>6. CASE TunnelEnds(c)
  BY <1>6, <1>c, <1>o DEF TunnelEnds
<1>7. CASE TunnelLeaves(c)
  BY <1>7, <1>c, <1>o DEF TunnelLeaves, InListener
<1>8. CASE TaskEnds(c)
  BY <1>8, <1>c, <1>o DEF TaskEnds, ReleaseSession, InListener
<1> QED  BY <1>1, <1>2, <1>3, <1>4, <1>5, <1>6, <1>7, <1>8 DEF SessionStep

LEMMA SessionKeeps ==
  ASSUME ProxyInv, NEW c \in Connections, SessionStep(c)
  PROVE  ProxyInv'
<1> USE DEF ProxyInv
<1>1. PICK next \in InTask \cup {"away"} :
           /\ phase[c] \in InTask /\ Goto(c, next) /\ backlog' = backlog
           /\ clientOpen' \subseteq clientOpen
           /\ c \in clientOpen' => next \in InTask \ {"leaving", "tunnelClosed"}
           /\ cameraOpen' \subseteq cameraOpen \cup {c}
           /\ c \in cameraOpen' => next \in {"forward", "response", "stream", "tunnel"}
           /\ activeSessions' =
                activeSessions + (IF next \in InTask THEN 1 ELSE 0) - 1
           /\ activeLinearSessions' =
                activeLinearSessions + (IF next \in InTunnel THEN 1 ELSE 0)
                                     - (IF phase[c] \in InTunnel THEN 1 ELSE 0)
  BY TaskMoves
<1>2. next \in Phases /\ (next \in InTask \cup {"claimed"} <=> next \in InTask)
  BY DEF Phases, InTask, InTunnel
<1>3. next \notin InListener /\ phase[c] # "backlog"
  BY <1>1 DEF InListener, InTask, InTunnel
<1>c. activeSessions \in Nat /\ activeSessions > 0
  BY <1>1, CountsArePositive
<1>4. CountersMatchTasks'
  BY <1>1, <1>2, <1>c, MoveIsCounted
<1>5. BacklogHoldsEachOnce' /\ ListenerHoldsOne'
  BY <1>1, <1>2, <1>3, MoveKeepsPlaces
<1>6. /\ phase' \in [Connections -> Phases] /\ phase'[c] = next
      /\ \A d \in Connections \ {c} : phase'[d] = phase[d]
  BY <1>1, <1>2, Moves
<1>7. OwnersOfSockets'
  <2>1. ASSUME NEW d \in clientOpen'
        PROVE  phase'[d] \in InListener \cup (InTask \ {"leaving", "tunnelClosed"})
    BY <1>1, <1>6, <2>1 DEF OwnersOfSockets, ProxyTypeOK
  <2>2. ASSUME NEW d \in cameraOpen'
        PROVE  phase'[d] \in {"forward", "response", "stream", "tunnel"}
    BY <1>1, <1>6, <2>2 DEF OwnersOfSockets, ProxyTypeOK
  <2> QED  BY <2>1, <2>2 DEF OwnersOfSockets
<1>8. activeSessions' \in 0..MaxSessions
  BY <1>1, <1>c, ProxyAssumption DEF ProxyTypeOK
<1> QED  BY <1>1, <1>4, <1>5, <1>6, <1>7, <1>8 DEF ProxyTypeOK

LEMMA ProxySteps == ProxyInv /\ [Next]_vars => ProxyInv'
<1> SUFFICES ASSUME ProxyInv, [Next]_vars PROVE ProxyInv'
  OBVIOUS
<1>1. CASE UNCHANGED vars
  BY <1>1 DEF vars, ProxyInv, ProxyTypeOK, BacklogHoldsEachOnce, ListenerHoldsOne,
              OwnersOfSockets, CountersMatchTasks
<1>2. CASE Accept
  BY <1>2, AcceptTakesTheFirst
<1>3. ASSUME NEW c \in Connections, Connect(c) \/ ListenerStep(c) \/ SessionStep(c)
      PROVE  ProxyInv'
  BY <1>3, BrowserKeeps, ListenerKeeps, SessionKeeps
<1> QED  BY <1>1, <1>2, <1>3 DEF Next

-----------------------------------------------------------------------------

(* The places of the connections, their sockets and the two counters are   *)
(* together inductive (SonyProxy.cpp: listener and session tasks).         *)
THEOREM ProxyInvariant == Spec => []ProxyInv
  BY ProxyStarts, ProxySteps, PTL DEF Spec

(* For any number of browsers and sessions: the two counters under         *)
(* sessionMux_ are the numbers of claimed slots and of tunnels, whatever   *)
(* the order in which tasks start, fail and end.                           *)
THEOREM CountersAlwaysMatchTasks == Spec => []CountersMatchTasks
<1>1. ProxyInv => CountersMatchTasks
  BY DEF ProxyInv
<1> QED  BY <1>1, ProxyInvariant, PTL

(* For any number of browsers and sessions: no early return leaks a        *)
(* socket, and the sockets of browsers are at most one more than there are *)
(* session slots.                                                          *)
THEOREM SocketsAlwaysHaveOwners == Spec => []SocketsHaveOwners
<1>1. ASSUME ProxyInv PROVE SocketsHaveOwners
  <2>1. Cardinality(Sessions) <= MaxSessions
    BY <1>1 DEF ProxyInv, ProxyTypeOK, CountersMatchTasks, Sessions
  <2>2. /\ clientOpen \subseteq Connections
        /\ \A c \in clientOpen : c \in Sessions \/ phase[c] \in InListener
    BY <1>1 DEF ProxyInv, ProxyTypeOK, OwnersOfSockets, Sessions
  <2>3. \E held : clientOpen \subseteq Sessions \cup {held}
    <3>1. CASE \E held \in Connections : phase[held] \in InListener
      <4>1. PICK held \in Connections : phase[held] \in InListener
        BY <3>1
      <4> QED  BY <1>1, <2>2, <4>1 DEF ProxyInv, ListenerHoldsOne
    <3>2. CASE ~\E held \in Connections : phase[held] \in InListener
      BY <2>2, <3>2
    <3> QED  BY <3>1, <3>2
  <2>4. PICK held : clientOpen \subseteq Sessions \cup {held}
    BY <2>3
  <2>5. /\ IsFiniteSet(Sessions \cup {held})
        /\ Cardinality(Sessions \cup {held}) <= Cardinality(Sessions) + 1
    BY SessionsAreFinite, FS_AddElement
  <2>6. Cardinality(clientOpen) <= Cardinality(Sessions \cup {held})
    BY <2>4, <2>5, FS_Subset
  <2>7. IsFiniteSet(clientOpen)
    BY <2>4, <2>5, FS_Subset
  <2>8. Cardinality(clientOpen) <= MaxSessions + 1
    BY <2>1, <2>5, <2>6, <2>7, SessionsAreFinite, FS_CardinalityType, ProxyAssumption
  <2> QED  BY <1>1, <2>8 DEF ProxyInv, OwnersOfSockets, SocketsHaveOwners
<1> QED  BY <1>1, ProxyInvariant, PTL

-----------------------------------------------------------------------------
(***************************************************************************)
(* The control port.  For all clients, numbers of bytes, line feeds among  *)
(* them, limits and timeouts: a line that is answered is all that one      *)
(* client sent between two line feeds, up to the limit, and is answered to *)
(* it.                                                                     *)
(*                                                                         *)
(* The line buffer alone does not say what has been left out of it.  The   *)
(* invariant names the line feed after which it was begun: the buffer has  *)
(* what is kept of the bytes read since, and nothing has been read of a    *)
(* client that waits.                                                      *)
(***************************************************************************)

TcpTypeOK ==
  /\ pending \in Seq(Clients)
  /\ client \in Clients \cup {NoClient}
  /\ sent \in [Clients -> Nat]
  /\ read \in [Clients -> Nat]
  /\ feeds \in [Clients -> SUBSET Nat]
  /\ reading \in BOOLEAN

(* What is read was sent, and so were the line feeds.                      *)
BytesWereSent ==
  \A c \in Clients :
    /\ read[c] <= sent[c]
    /\ \A b \in feeds[c] : 1 <= b /\ b <= sent[c]

(* The buffer has what is kept of a line begun and not yet ended.          *)
LineBegun ==
  client # NoClient =>
    \E a \in feeds[client] \cup {0} :
      SameLine(feeds[client], a, read[client]) /\ rx = Kept(client, a, read[client])

(* Those who wait wait once, and nothing of them has been read.            *)
Queue ==
  \A i \in 1..Len(pending) :
    /\ pending[i] # client /\ read[pending[i]] = 0
    /\ \A j \in 1..Len(pending) : pending[j] = pending[i] => j = i

ReaderIsThere == reading => client # NoClient

TcpInv ==
  TcpTypeOK /\ BytesWereSent /\ LineBegun /\ Queue /\ ReaderIsThere /\ LinesAreWhole

-----------------------------------------------------------------------------

LEMMA NothingKept ==
  ASSUME NEW c, NEW a \in Nat
  PROVE  Kept(c, a, a) = <<>> /\ \A ends : SameLine(ends, 0, 0)
<1>1. a - a = 0 /\ RxLimit \in Nat
  BY TcpAssumption
<1>2. Kept(c, a, a) = [i \in 1..0 |-> <<c, a + i>>]
  BY <1>1 DEF Kept
<1>3. 1..0 = {} /\ 0 + 1..0 = {}
  OBVIOUS
<1> QED  BY <1>2, <1>3 DEF SameLine

(* A byte that is no line feed is appended while there is room.            *)
LEMMA ByteKept ==
  ASSUME NEW c, NEW a \in Nat, NEW n \in Nat, a <= n
  PROVE  LET line == Kept(c, a, n)
         IN  /\ line \in Seq({c} \X Nat) /\ Len(line) \in Nat
             /\ (line = <<>>) <=> (n = a \/ RxLimit = 0)
             /\ Len(line) < RxLimit => Kept(c, a, n + 1) = Append(line, <<c, n + 1>>)
             /\ ~(Len(line) < RxLimit) => Kept(c, a, n + 1) = line
<1> DEFINE size == IF n - a < RxLimit THEN n - a ELSE RxLimit
           next == IF n + 1 - a < RxLimit THEN n + 1 - a ELSE RxLimit
<1>1. /\ RxLimit \in Nat /\ size \in Nat /\ next \in Nat
      /\ Kept(c, a, n) = [i \in 1..size |-> <<c, a + i>>]
      /\ Kept(c, a, n + 1) = [i \in 1..next |-> <<c, a + i>>]
  BY TcpAssumption DEF Kept
<1>2. \A i \in 1..size : <<c, a + i>> \in {c} \X Nat
  BY <1>1
<1>3. Kept(c, a, n) \in Seq({c} \X Nat) /\ Len(Kept(c, a, n)) = size
  BY <1>1, <1>2
<1>4. /\ size = 0 <=> (n = a \/ RxLimit = 0)
      /\ size < RxLimit => next = size + 1 /\ a + next = n + 1
      /\ ~(size < RxLimit) => next = size
  BY <1>1
<1> HIDE DEF size, next
<1>5. (Kept(c, a, n) = <<>>) <=> size = 0
  BY <1>1, <1>3, EmptySeq
<1>6. ASSUME size < RxLimit
      PROVE  Kept(c, a, n + 1) = Append(Kept(c, a, n), <<c, n + 1>>)
  <2>1. <<c, n + 1>> \in {c} \X Nat
    OBVIOUS
  <2> DEFINE more == Append(Kept(c, a, n), <<c, n + 1>>)
  <2>2. /\ more \in Seq({c} \X Nat) /\ Len(more) = size + 1
        /\ \A i \in 1..size : more[i] = Kept(c, a, n)[i]
        /\ more[size + 1] = <<c, n + 1>>
    BY <1>3, <2>1, AppendProperties
  <2> HIDE DEF more
  <2>3. ASSUME NEW i \in 1..size + 1 PROVE more[i] = <<c, a + i>>
    <3>1. CASE i \in 1..size
      BY <1>1, <2>2, <3>1
    <3>2. CASE i = size + 1
      BY <1>1, <1>4, <1>6, <2>2, <3>2
    <3> QED  BY <1>1, <3>1, <3>2
  <2>4. more = [i \in 1..Len(more) |-> more[i]]
    BY <2>2
  <2>5. more = [i \in 1..size + 1 |-> <<c, a + i>>]
    BY <2>2, <2>3, <2>4
  <2> QED  BY <1>1, <1>4, <1>6, <2>5 DEF more
<1>7. ASSUME ~(size < RxLimit)
      PROVE  Kept(c, a, n + 1) = Kept(c, a, n)
  BY <1>1, <1>4, <1>7
<1> QED  BY <1>1, <1>3, <1>4, <1>5, <1>6, <1>7

LEMMA TcpStarts == TcpInit => TcpInv
<1> SUFFICES ASSUME TcpInit PROVE TcpInv
  OBVIOUS
<1>1. TcpTypeOK
  <2>1. pending \in Seq(Clients) /\ feeds \in [Clients -> SUBSET Nat]
    BY DEF TcpInit
  <2>2. sent \in [Clients -> Nat] /\ read \in [Clients -> Nat]
    BY DEF TcpInit
  <2> QED  BY <2>1, <2>2 DEF TcpInit, TcpTypeOK
<1>2. BytesWereSent
  BY DEF TcpInit, BytesWereSent
<1>3. LineBegun /\ Queue /\ ReaderIsThere /\ LinesAreWhole
  BY DEF TcpInit, LineBegun, Queue, ReaderIsThere, LinesAreWhole
<1> QED  BY <1>1, <1>2, <1>3 DEF TcpInv

LEMMA ConnectKeeps ==
  ASSUME TcpInv, NEW c \in Clients, ClientConnects(c)
  PROVE  TcpInv'
<1> USE DEF TcpInv
<1>1. TcpTypeOK'
  BY DEF ClientConnects, TcpTypeOK
<1>2. read[c] = 0
  BY DEF ClientConnects, TcpTypeOK, BytesWereSent
<1>3. /\ Len(pending') = Len(pending) + 1
      /\ \A i \in 1..Len(pending) : pending'[i] = pending[i] /\ pending[i] # c
      /\ pending'[Len(pending')] = c
  <2>1. pending' = Append(pending, c) /\ ~Contains(pending, c) /\ pending \in Seq(Clients)
    BY DEF ClientConnects, TcpTypeOK
  <2>2. \A i \in 1..Len(pending) : pending[i] # c
    BY <2>1 DEF Contains
  <2> QED  BY <2>1, <2>2
<1>4. c # client /\ UNCHANGED <<sent, read, feeds, client, rx, reading, answered>>
  BY DEF ClientConnects
<1>5. Queue'
  <2> SUFFICES ASSUME NEW i \in 1..Len(pending')
               PROVE  /\ pending'[i] # client /\ read[pending'[i]] = 0
                      /\ \A j \in 1..Len(pending') : pending'[j] = pending'[i] => j = i
    BY <1>4 DEF Queue
  <2>1. Len(pending) \in Nat
    BY DEF TcpTypeOK
  <2>2. CASE i = Len(pending) + 1
    BY <1>2, <1>3, <1>4, <2>1, <2>2
  <2>3. CASE i \in 1..Len(pending)
    BY <1>2, <1>3, <1>4, <2>1, <2>3 DEF Queue
  <2> QED  BY <1>3, <2>1, <2>2, <2>3
<1> QED
  BY <1>1, <1>4, <1>5 DEF BytesWereSent, LineBegun, ReaderIsThere, LinesAreWhole, SameLine, Kept

(* A byte is sent behind all that was, and leaves what was read alone.     *)
LEMMA SendKeeps ==
  ASSUME TcpInv, NEW c \in Clients, Send(c)
  PROVE  TcpInv'
<1> USE DEF TcpInv
<1> DEFINE n == sent[c] + 1
<1>1. /\ sent' = [sent EXCEPT ![c] = n] /\ sent[c] \in Nat
      /\ feeds' = feeds \/ feeds' = [feeds EXCEPT ![c] = @ \cup {n}]
      /\ UNCHANGED <<pending, read, client, rx, reading, answered>>
  <2>1. sent' = [sent EXCEPT ![c] = n] /\ sent'[c] = n /\ sent[c] \in Nat
    BY DEF Send, TcpTypeOK
  <2> QED  BY <2>1 DEF Send
<1>2. /\ \A d \in Clients : sent[d] \in Nat /\ sent'[d] \in Nat /\ sent[d] <= sent'[d]
      /\ \A d \in Clients : feeds[d] \subseteq feeds'[d]
      /\ \A d \in Clients : \A b \in feeds'[d] \ feeds[d] :
           b \in Nat /\ b > sent[d] /\ b <= sent'[d] /\ b >= 1
  <2> SUFFICES ASSUME NEW d \in Clients
               PROVE  /\ sent[d] \in Nat /\ sent'[d] \in Nat /\ sent[d] <= sent'[d]
                      /\ feeds[d] \subseteq feeds'[d]
                      /\ \A b \in feeds'[d] \ feeds[d] :
                           b \in Nat /\ b > sent[d] /\ b <= sent'[d] /\ b >= 1
    OBVIOUS
  <2>1. sent[d] \in Nat /\ (d = c => sent'[d] = n) /\ (d # c => sent'[d] = sent[d])
    BY <1>1 DEF TcpTypeOK
  <2>2. feeds'[d] = feeds[d] \/ (d = c /\ feeds'[d] = feeds[d] \cup {n})
    BY <1>1 DEF TcpTypeOK
  <2>3. n \in Nat /\ n >= 1 /\ n > sent[c]
    BY <1>1
  <2> HIDE DEF n
  <2> QED  BY <2>1, <2>2, <2>3
<1>3. TcpTypeOK'
  <2>1. n \in Nat
    BY <1>1
  <2>2. sent' \in [Clients -> Nat]
    BY <1>1, <2>1 DEF TcpTypeOK
  <2>3. feeds' \in [Clients -> SUBSET Nat]
    <3>1. CASE feeds' = feeds
      BY <3>1 DEF TcpTypeOK
    <3>2. CASE feeds' = [feeds EXCEPT ![c] = @ \cup {n}]
      <4>1. feeds[c] \cup {n} \in SUBSET Nat
        BY <2>1 DEF TcpTypeOK
      <4> HIDE DEF n
      <4> QED  BY <3>2, <4>1 DEF TcpTypeOK
    <3> QED  BY <1>1, <3>1, <3>2
  <2> QED  BY <1>1, <2>2, <2>3 DEF TcpTypeOK
<1>4. BytesWereSent'
  <2> SUFFICES ASSUME NEW d \in Clients
               PROVE  read[d] <= sent'[d] /\ \A b \in feeds'[d] : 1 <= b /\ b <= sent'[d]
    BY <1>1 DEF BytesWereSent
  <2>1. read[d] \in Nat /\ read[d] <= sent[d] /\ feeds[d] \subseteq Nat
    BY DEF BytesWereSent, TcpTypeOK
  <2>2. ASSUME NEW b \in feeds'[d] PROVE 1 <= b /\ b <= sent'[d]
    <3>1. CASE b \in feeds[d]
      BY <1>2, <2>1, <3>1 DEF BytesWereSent
    <3>2. CASE b \notin feeds[d]
      BY <1>2, <3>2
    <3> QED  BY <3>1, <3>2
  <2> QED  BY <1>2, <2>1, <2>2
<1>5. LineBegun'
  <2> SUFFICES ASSUME client # NoClient
               PROVE  \E a \in feeds'[client] \cup {0} :
                        SameLine(feeds'[client], a, read[client]) /\ rx = Kept(client, a, read[client])
    BY <1>1 DEF LineBegun, Kept
  <2>1. PICK a \in feeds[client] \cup {0} :
          SameLine(feeds[client], a, read[client]) /\ rx = Kept(client, a, read[client])
    BY DEF LineBegun
  <2>2. client \in Clients /\ a \in Nat /\ read[client] \in Nat /\ read[client] <= sent[client]
    BY DEF TcpTypeOK, BytesWereSent
  <2>3. \A b \in feeds'[client] \ feeds[client] : b \in Nat /\ b > read[client]
    BY <1>2, <2>2
  <2>4. feeds[client] \subseteq feeds'[client]
    BY <1>2, <2>2
  <2>5. SameLine(feeds'[client], a, read[client])
    <3>1. a \in feeds[client] \cup {0} /\ a <= read[client] /\ feeds[client] \cap a+1..read[client] = {}
      BY <2>1 DEF SameLine
    <3>2. feeds'[client] \cap a+1..read[client] = {}
      BY <2>2, <2>3, <3>1
    <3> QED  BY <1>1, <2>4, <3>1, <3>2 DEF SameLine
  <2> QED  BY <2>1, <2>4, <2>5
<1>6. LinesAreWhole'
  <2> SUFFICES ASSUME answered # Nothing
               PROVE  \E d \in Clients : \E b \in feeds'[d], a \in feeds'[d] \cup {0} :
                        /\ a < b /\ SameLine(feeds'[d], a, b - 1)
                        /\ answered = [line |-> Kept(d, a, b - 1), to |-> d]
    BY <1>1 DEF LinesAreWhole, Kept, Nothing
  <2>1. PICK d \in Clients : \E b \in feeds[d], a \in feeds[d] \cup {0} :
          /\ a < b /\ SameLine(feeds[d], a, b - 1)
          /\ answered = [line |-> Kept(d, a, b - 1), to |-> d]
    BY DEF LinesAreWhole
  <2>2. PICK b \in feeds[d], a \in feeds[d] \cup {0} :
          /\ a < b /\ SameLine(feeds[d], a, b - 1)
          /\ answered = [line |-> Kept(d, a, b - 1), to |-> d]
    BY <2>1
  <2>3. a \in Nat /\ b \in Nat /\ 1 <= b /\ b <= sent[d] /\ sent[d] \in Nat
    BY DEF TcpTypeOK, BytesWereSent
  <2>4. feeds[d] \subseteq feeds'[d]
    BY <1>2
  <2>5. feeds'[d] \cap a+1..b - 1 = {}
    <3>1. feeds[d] \cap a+1..b - 1 = {}
      BY <2>2 DEF SameLine
    <3>2. \A k \in feeds'[d] \ feeds[d] : k \in Nat /\ k > b - 1
      BY <1>2, <2>3
    <3> QED  BY <2>3, <3>1, <3>2
  <2>6. SameLine(feeds'[d], a, b - 1)
    BY <2>2, <2>4, <2>5 DEF SameLine
  <2> QED  BY <2>2, <2>4, <2>6
<1>7. Queue' /\ ReaderIsThere'
  BY <1>1 DEF Queue, ReaderIsThere
<1> QED  BY <1>3, <1>4, <1>5, <1>6, <1>7

(* What is said of the bytes depends on the clients' counts alone.         *)
LEMMA NoBytesMoved ==
  ASSUME TcpInv, UNCHANGED <<sent, read, feeds>>
  PROVE  BytesWereSent' /\ (answered' \in {answered, Nothing} => LinesAreWhole')
<1>1. BytesWereSent'
  BY DEF TcpInv, BytesWereSent
<1>2. ASSUME answered' \in {answered, Nothing} PROVE LinesAreWhole'
  <2>1. CASE answered' = Nothing
    BY <2>1 DEF LinesAreWhole, Nothing
  <2>2. CASE answered' = answered
    BY <2>2 DEF TcpInv, LinesAreWhole, Nothing, SameLine, Kept
  <2> QED  BY <1>2, <2>1, <2>2
<1> QED  BY <1>1, <1>2

LEMMA QuietStepKeeps ==
  ASSUME TcpInv, UNCHANGED <<pending, client, sent, read, feeds, rx>>,
         reading' \in BOOLEAN, reading' => client # NoClient,
         answered' \in {answered, Nothing}
  PROVE  TcpInv'
<1>1. BytesWereSent' /\ LinesAreWhole'
  BY NoBytesMoved
<1>2. LineBegun'
  BY DEF TcpInv, LineBegun, SameLine, Kept
<1>3. TcpTypeOK' /\ Queue' /\ ReaderIsThere'
  BY DEF TcpInv, TcpTypeOK, Queue, ReaderIsThere
<1> QED  BY <1>1, <1>2, <1>3 DEF TcpInv

LEMMA AcceptKeeps ==
  ASSUME TcpInv, AcceptPass
  PROVE  TcpInv'
<1> USE DEF TcpInv
<1>1. CASE AcceptClient
  <2>1. /\ pending # <<>> /\ client' = Head(pending) /\ pending' = Tail(pending)
        /\ rx' = <<>> /\ reading' = TRUE /\ answered' = Nothing /\ UNCHANGED <<sent, read, feeds>>
    BY <1>1 DEF AcceptPass, AcceptClient
  <2>2. /\ Len(pending) \in Nat \ {0} /\ client' = pending[1] /\ client' \in Clients
        /\ Len(pending') = Len(pending) - 1 /\ pending' \in Seq(Clients)
        /\ \A i \in 1..Len(pending') : pending'[i] = pending[i + 1]
    BY <2>1 DEF TcpTypeOK
  <2>3. read[client'] = 0 /\ client' # NoClient
    BY <2>2, TcpAssumption DEF Queue
  <2>4. Queue'
    <3> SUFFICES ASSUME NEW i \in 1..Len(pending')
                 PROVE  /\ pending'[i] # client' /\ read[pending'[i]] = 0
                        /\ \A j \in 1..Len(pending') : pending'[j] = pending'[i] => j = i
      BY <2>1 DEF Queue
    <3>1. i + 1 \in 1..Len(pending) /\ 1 \in 1..Len(pending) /\ i + 1 # 1
      BY <2>2
    <3>2. pending[i + 1] # pending[1] /\ read[pending[i + 1]] = 0
      BY <3>1 DEF Queue
    <3>3. ASSUME NEW j \in 1..Len(pending'), pending'[j] = pending'[i] PROVE j = i
      <4>1. j + 1 \in 1..Len(pending) /\ pending[j + 1] = pending[i + 1]
        BY <2>2, <3>3
      <4>2. j + 1 = i + 1
        BY <3>1, <4>1 DEF Queue
      <4> QED  BY <2>2, <4>2
    <3> QED  BY <2>2, <3>2, <3>3
  <2>5. LineBegun'
    <3>1. SameLine(feeds'[client'], 0, 0) /\ Kept(client', 0, 0) = <<>>
      BY NothingKept
    <3>2. read'[client'] = 0 /\ rx' = Kept(client', 0, 0)
      BY <2>1, <2>3, <3>1
    <3> QED  BY <3>1, <3>2 DEF LineBegun, SameLine, Kept
  <2> QED
    BY <2>1, <2>2, <2>3, <2>4, <2>5, NoBytesMoved DEF TcpTypeOK, ReaderIsThere
<1>2. CASE UNCHANGED <<pending, client, rx, reading>>
  BY <1>2, QuietStepKeeps DEF AcceptPass, TcpTypeOK, ReaderIsThere
<1> QED  BY <1>1, <1>2 DEF AcceptPass

LEMMA ServeKeeps ==
  ASSUME TcpInv, ServePass
  PROVE  TcpInv'
<1>1. CASE idle > IdleTimeout
  <2>1. /\ client' = NoClient /\ answered' = Nothing
        /\ UNCHANGED <<pending, sent, read, feeds, reading>> /\ ~reading
    BY <1>1 DEF ServePass
  <2>2. \A i \in 1..Len(pending) : pending[i] # NoClient
    BY TcpAssumption DEF TcpInv, TcpTypeOK
  <2>3. BytesWereSent' /\ LinesAreWhole'
    BY <2>1, NoBytesMoved
  <2>4. TcpTypeOK' /\ LineBegun' /\ Queue' /\ ReaderIsThere'
    BY <2>1, <2>2 DEF TcpInv, TcpTypeOK, LineBegun, Queue, ReaderIsThere
  <2> QED  BY <2>3, <2>4 DEF TcpInv
<1>2. CASE ~(idle > IdleTimeout)
  BY <1>2, QuietStepKeeps DEF ServePass, MayBeConnected
<1> QED  BY <1>1, <1>2

(* A byte continues the line begun, or is the line feed that ends it.      *)
LEMMA ReadKeeps ==
  ASSUME TcpInv, ReadByte
  PROVE  TcpInv'
<1> USE DEF TcpInv
<1> DEFINE c == client
           m == read[client]
           n == m + 1
<1>1. c \in Clients /\ c # NoClient
  BY DEF ReadByte, ReaderIsThere, TcpTypeOK
<1>2. /\ m \in Nat /\ sent[c] \in Nat /\ m < sent[c] /\ feeds[c] \subseteq Nat
  BY <1>1 DEF ReadByte, Unread, TcpTypeOK
<1>3. /\ read' = [read EXCEPT ![c] = n] /\ read'[c] = n
      /\ \A d \in Clients \ {c} : read'[d] = read[d]
      /\ UNCHANGED <<pending, sent, feeds, client, reading>>
  BY <1>1, <1>2 DEF ReadByte, TcpTypeOK
<1>4. PICK a \in feeds[c] \cup {0} : SameLine(feeds[c], a, m) /\ rx = Kept(c, a, m)
  BY <1>1 DEF LineBegun
<1>5. a \in Nat /\ a <= m
  BY <1>2, <1>4 DEF SameLine
<1>6. TcpTypeOK'
  BY <1>2, <1>3 DEF TcpTypeOK
<1>7. BytesWereSent'
  BY <1>1, <1>2, <1>3 DEF BytesWereSent, TcpTypeOK
<1>8. Queue' /\ ReaderIsThere'
  <2>1. \A i \in 1..Len(pending) : pending[i] \in Clients \ {c}
    BY DEF Queue, TcpTypeOK
  <2> QED  BY <1>3, <2>1 DEF Queue, ReaderIsThere
<1>9. LineBegun' /\ LinesAreWhole'
  <2>1. CASE n \in feeds[c]
    <3>1. rx' = <<>> /\ answered' = IF rx = <<>> THEN Nothing ELSE [line |-> rx, to |-> c]
      BY <1>3, <2>1 DEF ReadByte
    <3>2. SameLine(feeds'[c], n, n) /\ Kept(c, n, n) = <<>>
      <4>1. n \in Nat /\ n+1..n = {}
        BY <1>2
      <4> QED  BY <1>3, <2>1, <4>1, NothingKept DEF SameLine
    <3>3. LineBegun'
      BY <1>3, <2>1, <3>1, <3>2 DEF LineBegun, SameLine, Kept
    <3>4. CASE rx = <<>>
      BY <3>1, <3>3, <3>4 DEF LinesAreWhole, Nothing
    <3>5. CASE rx # <<>>
      <4>1. a < n /\ n - 1 = m
        BY <1>2, <1>5
      <4>2. SameLine(feeds'[c], a, n - 1) /\ answered' = [line |-> Kept(c, a, n - 1), to |-> c]
        BY <1>3, <1>4, <3>1, <3>5, <4>1 DEF SameLine
      <4>3. feeds' = feeds /\ n \in feeds'[c] /\ a \in feeds'[c] \cup {0} /\ c \in Clients
        BY <1>1, <1>3, <1>4, <2>1
      <4> HIDE DEF n
      <4> QED  BY <3>3, <4>1, <4>2, <4>3 DEF LinesAreWhole
    <3> QED  BY <3>4, <3>5
  <2>2. CASE n \notin feeds[c]
    <3>1. answered' = Nothing /\ rx' = IF Len(rx) < RxLimit THEN Append(rx, <<c, n>>) ELSE rx
      BY <1>3, <2>2 DEF ReadByte
    <3>2. SameLine(feeds'[c], a, n)
      <4>1. feeds[c] \cap a+1..m = {}
        BY <1>4 DEF SameLine
      <4>2. feeds[c] \cap a+1..n = {}
        BY <1>2, <1>5, <2>2, <4>1
      <4> QED  BY <1>2, <1>3, <1>4, <1>5, <4>2 DEF SameLine
    <3>3. rx' = Kept(c, a, n)
      BY <1>2, <1>4, <1>5, <3>1, ByteKept
    <3>4. client' = c /\ read'[c] = n /\ a \in feeds'[c] \cup {0}
      BY <1>3, <1>4
    <3> HIDE DEF n
    <3>5. LineBegun'
      BY <3>2, <3>3, <3>4 DEF LineBegun
    <3>6. LinesAreWhole'
      BY <3>1 DEF LinesAreWhole, Nothing
    <3> QED  BY <3>5, <3>6
  <2> QED  BY <2>1, <2>2
<1> QED  BY <1>6, <1>7, <1>8, <1>9

LEMMA TcpSteps == TcpInv /\ [TcpNext]_tcpVars => TcpInv'
<1> SUFFICES ASSUME TcpInv, [TcpNext]_tcpVars PROVE TcpInv'
  OBVIOUS
<1>1. CASE UNCHANGED tcpVars
  BY <1>1, QuietStepKeeps DEF tcpVars, clients, TcpInv, TcpTypeOK, ReaderIsThere
<1>2. CASE AcceptPass \/ ServePass \/ ReadByte
  BY <1>2, AcceptKeeps, ServeKeeps, ReadKeeps
<1>3. CASE PassEnds
  BY <1>3, QuietStepKeeps DEF PassEnds, clients
<1>4. CASE Tick
  BY <1>4, QuietStepKeeps DEF Tick, clients, TcpInv, TcpTypeOK, ReaderIsThere
<1>5. ASSUME NEW c \in Clients, ClientConnects(c) \/ Send(c) PROVE TcpInv'
  BY <1>5, ConnectKeeps, SendKeeps
<1>6. ASSUME NEW c \in Clients, Disconnect(c) PROVE TcpInv'
  BY <1>6, QuietStepKeeps DEF Disconnect, TcpInv, TcpTypeOK, ReaderIsThere
<1> QED
  BY <1>1, <1>2, <1>3, <1>4, <1>5, <1>6 DEF TcpNext, LoopPass

-----------------------------------------------------------------------------

(* The order of the bytes, the buffer and the queue are together inductive *)
(* (ControlProtocol.cpp:14-50).                                            *)
THEOREM TcpInvariant == TcpSpec => []TcpInv
  BY TcpStarts, TcpSteps, PTL DEF TcpSpec

(* However clients come, go, fall silent and are replaced, every line that *)
(* is answered is what its receiver sent between two line feeds, as far as *)
(* the limit lets it.                                                      *)
THEOREM LinesAreAlwaysWhole == TcpSpec => []LinesAreWhole
<1>1. TcpInv => LinesAreWhole
  BY DEF TcpInv
<1> QED  BY <1>1, TcpInvariant, PTL

-----------------------------------------------------------------------------
(* Remainders.                                                             *)

LEMMA ModFacts ==
  ASSUME NEW a \in Int, NEW n \in Nat \ {0}
  PROVE  a % n \in 0..n-1 /\ a \div n \in Int /\ a = n * (a \div n) + (a % n)
OBVIOUS

LEMMA GapOfMultiples ==
  ASSUME NEW n \in Nat \ {0}, NEW p \in Int, NEW q \in Int, p < q
  PROVE  n * p + n <= n * q
<1>1. n * (q - p) >= n
  OBVIOUS
<1> QED  BY <1>1

LEMMA ModUnique ==
  ASSUME NEW a \in Int, NEW n \in Nat \ {0}, NEW q \in Int, NEW r \in 0..n-1, a = n * q + r
  PROVE  a % n = r
<1>1. a % n \in 0..n-1 /\ a \div n \in Int /\ a = n * (a \div n) + (a % n)
  BY ModFacts
<1>2. ~(a \div n < q)
  BY <1>1, GapOfMultiples
<1>3. ~(q < a \div n)
  BY <1>1, GapOfMultiples
<1>4. a \div n = q
  BY <1>1, <1>2, <1>3
<1> QED  BY <1>1, <1>4

LEMMA ModSmall ==
  ASSUME NEW n \in Nat \ {0}, NEW r \in 0..n-1
  PROVE  r % n = r
OBVIOUS

(* Numbers less than n apart have different remainders.                    *)
LEMMA ModApart ==
  ASSUME NEW n \in Nat \ {0}, NEW a \in Int, NEW b \in Int, a < b, b < a + n
  PROVE  a % n # b % n
<1>1. /\ a % n \in 0..n-1 /\ a \div n \in Int /\ a = n * (a \div n) + (a % n)
      /\ b % n \in 0..n-1 /\ b \div n \in Int /\ b = n * (b \div n) + (b % n)
  BY ModFacts
<1> SUFFICES ASSUME a % n = b % n PROVE FALSE
  OBVIOUS
<1>2. CASE a \div n = b \div n
  BY <1>1, <1>2
<1>3. CASE a \div n < b \div n
  BY <1>1, <1>3, GapOfMultiples
<1>4. CASE b \div n < a \div n
  BY <1>1, <1>4, GapOfMultiples
<1> QED  BY <1>1, <1>2, <1>3, <1>4

(* Going round does not matter.                                            *)
LEMMA ModRound ==
  ASSUME NEW a \in Int, NEW n \in Nat \ {0}, NEW q \in Int
  PROVE  (n * q + a) % n = a % n
<1> DEFINE p == q + (a \div n)
           r == a % n
<1>1. r \in 0..n-1 /\ a \div n \in Int /\ a = n * (a \div n) + r
  BY ModFacts
<1>2. p \in Int /\ n * p = n * q + n * (a \div n) /\ n * q + a \in Int
  BY <1>1
<1>3. n * q + a = n * p + r
  BY <1>1, <1>2
<1> HIDE DEF p, r
<1>4. (n * q + a) % n = r
  BY <1>1, <1>2, <1>3, ModUnique
<1> QED  BY <1>4 DEF r

LEMMA ModPlus ==
  ASSUME NEW a \in Int, NEW n \in Nat \ {0}
  PROVE  (a + n) % n = a % n
<1>1. (n * 1 + a) % n = a % n
  BY 1 \in Int, ModRound
<1>2. n * 1 + a = a + n
  OBVIOUS
<1> QED  BY <1>1, <1>2

LEMMA ModAdd ==
  ASSUME NEW a \in Int, NEW n \in Nat \ {0}, NEW c \in Int
  PROVE  ((a % n) + c) % n = (a + c) % n
<1> DEFINE q == a \div n
           b == (a % n) + c
<1>1. a % n \in 0..n-1 /\ q \in Int /\ a = n * q + (a % n)
  BY ModFacts
<1>2. b \in Int /\ a + c = n * q + b
  BY <1>1
<1> HIDE DEF q, b
<1>3. (n * q + b) % n = b % n
  BY <1>1, <1>2, ModRound
<1> QED  BY <1>2, <1>3 DEF b

LEMMA ModSucc ==
  ASSUME NEW a \in Int, NEW n \in Nat \ {0}
  PROVE  (a + 1) % n = IF a % n = n - 1 THEN 0 ELSE (a % n) + 1
<1>1. a % n \in 0..n-1 /\ (a + 1) % n = ((a % n) + 1) % n
  <2>1. a % n \in 0..n-1
    BY ModFacts
  <2>2. 1 \in Int
    OBVIOUS
  <2>3. ((a % n) + 1) % n = (a + 1) % n
    BY <2>2, ModAdd
  <2> QED  BY <2>1, <2>3
<1>2. CASE a % n = n - 1
  <2>1. (a % n) + 1 = n
    BY <1>1, <1>2
  <2>2. n % n = 0
    OBVIOUS
  <2> QED  BY <1>1, <1>2, <2>1, <2>2
<1>3. CASE a % n # n - 1
  <2>1. (a % n) + 1 \in 0..n-1
    BY <1>1, <1>3
  <2> QED  BY <1>1, <1>3, <2>1, ModSmall
<1> QED  BY <1>2, <1>3

-----------------------------------------------------------------------------
(***************************************************************************)
(* The capture.  RingInv says of each place the number that is in it: the  *)
(* latest that it can hold.  A listing goes by the places alone, and what  *)
(* it finds in one is therefore no older than what it wants.  The order of *)
(* a direction's frames is that of its pipeline: recorded before found,    *)
(* found before what is in the buffer, that before what is to pass.        *)
(***************************************************************************)

TunnelParts == [frame : Nat, part : Nat \ {0}, size : Nat \ {0}]
Entries == [seq : Nat, from : Sniffers \cup {"blank"}, frame : Int]

CaptureTypeOK ==
  /\ captureEnabled \in BOOLEAN
  /\ capture \in [Slots -> Entries]
  /\ captureHead \in Slots /\ captureCount \in 0..RingSize /\ captureSeq \in Nat
  /\ passed \in [Sniffers -> [frame : Nat, part : Nat, size : Nat]]
  /\ buffer \in [Sniffers -> Seq(TunnelParts)]
  /\ feeding \in [Sniffers -> BOOLEAN]
  /\ entry \in [Sniffers -> [stage : {"none", "found", "checked"}, frame : Int]]

(* Each place holds the latest number it can hold.                         *)
Placed(p, n) ==
  /\ n <= captureSeq
  /\ n = 0 => captureSeq <= p
  /\ n > 0 => (n - 1) % RingSize = p /\ n > captureSeq - RingSize

RingInv ==
  /\ captureCount = (IF captureSeq < RingSize THEN captureSeq ELSE RingSize)
  /\ captureHead = captureSeq % RingSize
  /\ \A p \in Slots : Placed(p, capture[p].seq)

Keeps(was, n) == n >= was /\ n % RingSize = was % RingSize

ListingInv ==
  web.doing = "listing" =>
    /\ web \in [doing : {"listing"}, seq : Nat, count : 0..RingSize, start : Slots,
                listed : Seq(Entries)]
    /\ web.count <= web.seq /\ web.seq <= captureSeq
    /\ web.start = (web.seq - web.count) % RingSize
    /\ \A i \in 1..Len(web.listed) : Keeps(web.seq - web.count + i, web.listed[i].seq)

Recorded(s) == {p \in Slots : capture[p].seq > 0 /\ capture[p].from = s}

Before(f, s) ==
  /\ f <= passed[s].frame
  /\ \A i \in 1..Len(buffer[s]) : buffer[s][i].part = 1 => f < buffer[s][i].frame

DirectionInv(s) ==
  /\ passed[s].part = 0 => passed[s].size = 0
  /\ passed[s].size = 0 =>
       passed[s].frame = 0 /\ entry[s] = NoEntry /\ Recorded(s) = {} /\ buffer[s] = <<>>
  /\ \A p \in Recorded(s) : Before(capture[p].frame, s)
  /\ entry[s].stage # "none" =>
       /\ Before(entry[s].frame, s)
       /\ entry[s].frame # Garbage => \A p \in Recorded(s) : capture[p].frame < entry[s].frame
  /\ \A i \in 1..Len(buffer[s]) :
       /\ buffer[s][i].frame <= passed[s].frame
       /\ \A j \in 1..Len(buffer[s]) :
            i < j /\ buffer[s][j].part = 1 => buffer[s][i].frame < buffer[s][j].frame

CaptureInv ==
  /\ CaptureTypeOK /\ RingInv /\ ListingInv /\ FramesInOrder
  /\ \A s \in Sniffers : DirectionInv(s)
-----------------------------------------------------------------------------
(* The ring.                                                               *)

LEMMA SlotOf ==
  ASSUME NEW a \in Int
  PROVE  a % RingSize \in Slots /\ (a >= 0 => a % RingSize <= a)
<1>1. a % RingSize \in Slots
  BY ModFacts, CaptureAssumption DEF Slots
<1>2. CASE a >= RingSize
  BY <1>1, <1>2, CaptureAssumption DEF Slots
<1>3. CASE a \in 0..RingSize - 1
  BY <1>1, <1>3, ModSmall, CaptureAssumption
<1> QED  BY <1>1, <1>2, <1>3, CaptureAssumption

(* The number in the place of an earlier one is that one or a later.       *)
LEMMA PlaceHolds ==
  ASSUME CaptureTypeOK, RingInv, NEW was \in 1..captureSeq
  PROVE  LET n == capture[(was - 1) % RingSize].seq
         IN  /\ Keeps(was, n) /\ n > 0
             /\ was > captureSeq - RingSize => n = was
<1> DEFINE p == (was - 1) % RingSize
           n == capture[p].seq
<1>1. captureSeq \in Nat /\ was - 1 \in Int /\ was - 1 >= 0
  BY DEF CaptureTypeOK
<1>2. p \in Slots /\ p <= was - 1
  BY <1>1, SlotOf
<1>3. n \in Nat /\ Placed(p, n)
  BY <1>2 DEF CaptureTypeOK, RingInv, Entries
<1>4. p \in Int
  BY <1>2, CaptureAssumption DEF Slots
<1> HIDE DEF n
<1>5. n # 0
  BY <1>1, <1>2, <1>3, <1>4 DEF Placed
<1>6. (n - 1) % RingSize = (was - 1) % RingSize /\ n > captureSeq - RingSize /\ n <= captureSeq
  BY <1>3, <1>5 DEF Placed
<1> HIDE DEF p
<1>7. n >= was
  <2>1. SUFFICES ASSUME n < was PROVE FALSE
    BY <1>1, <1>3
  <2>2. n - 1 \in Int /\ n - 1 < was - 1 /\ was - 1 < (n - 1) + RingSize
    BY <2>1, <1>1, <1>3, <1>6, CaptureAssumption
  <2> QED  BY <2>2, <1>1, <1>6, ModApart, CaptureAssumption
<1>8. n % RingSize = was % RingSize
  <2>1. /\ ((n - 1) + 1) % RingSize = (((n - 1) % RingSize) + 1) % RingSize
        /\ ((was - 1) + 1) % RingSize = (((was - 1) % RingSize) + 1) % RingSize
    BY <1>1, <1>3, ModAdd, CaptureAssumption, 1 \in Int, n - 1 \in Int
  <2>2. (n - 1) + 1 = n /\ (was - 1) + 1 = was
    BY <1>1, <1>3
  <2> QED  BY <2>1, <2>2, <1>6
<1>9. ASSUME was > captureSeq - RingSize PROVE n = was
  <2>1. SUFFICES ASSUME n > was PROVE FALSE
    BY <1>1, <1>3, <1>7
  <2>2. n - 1 \in Int /\ was - 1 < n - 1 /\ n - 1 < (was - 1) + RingSize
    BY <2>1, <1>1, <1>3, <1>6, <1>9, CaptureAssumption
  <2> QED  BY <2>2, <1>1, <1>6, ModApart, CaptureAssumption
<1> QED  BY <1>3, <1>5, <1>7, <1>8, <1>9 DEF n, p, Keeps

LEMMA RingIsLatest ==
  ASSUME CaptureTypeOK, RingInv
  PROVE  RingHoldsLatest
<1> SUFFICES ASSUME NEW k \in 1..captureCount
             PROVE  capture[(captureSeq - k) % RingSize].seq = captureSeq + 1 - k
  BY DEF RingHoldsLatest, RingInv
<1>1. /\ captureSeq \in Nat /\ captureCount \in Nat
      /\ captureCount <= captureSeq /\ captureCount <= RingSize
  BY CaptureAssumption DEF CaptureTypeOK, RingInv
<1> DEFINE was == captureSeq + 1 - k
<1>2. was \in 1..captureSeq /\ was > captureSeq - RingSize /\ was - 1 = captureSeq - k
  BY <1>1, CaptureAssumption
<1> HIDE DEF was
<1>3. capture[(was - 1) % RingSize].seq = was
  BY <1>2, PlaceHolds
<1> QED  BY <1>2, <1>3 DEF was

LEMMA RingBegins ==
  ASSUME captureHead' = 0, captureCount' = 0, captureSeq' = 0, capture' = [i \in Slots |-> Blank]
  PROVE  RingInv' /\ FramesInOrder' /\ \A s \in Sniffers : Recorded(s)' = {}
<1>1. 0 % RingSize = 0 /\ 0 < RingSize
  BY ModSmall, CaptureAssumption
<1>2. \A p \in Slots : Placed(p, capture[p].seq)' /\ capture'[p].seq = 0
  BY CaptureAssumption DEF Placed, Blank, Slots
<1>3. RingInv'
  BY <1>1, <1>2 DEF RingInv
<1>4. FramesInOrder' /\ \A s \in Sniffers : Recorded(s)' = {}
  BY <1>2 DEF FramesInOrder, Recorded
<1> QED  BY <1>3, <1>4

LEMMA RingGoesOn ==
  ASSUME CaptureTypeOK, RingInv, NEW s \in Sniffers, CaptureEvent(s)
  PROVE  RingInv'
<1>1. /\ captureSeq \in Nat /\ captureSeq' = captureSeq + 1 /\ captureHead \in Slots
      /\ captureHead = captureSeq % RingSize /\ captureCount \in 0..RingSize
  BY DEF CaptureEvent, CaptureTypeOK, RingInv
<1>2. captureHead' = captureSeq' % RingSize
  <2>1. ((captureSeq % RingSize) + 1) % RingSize = (captureSeq + 1) % RingSize
    BY <1>1, ModAdd, CaptureAssumption, 1 \in Int, captureSeq \in Int
  <2> QED  BY <1>1, <2>1 DEF CaptureEvent
<1>3. captureCount' = (IF captureSeq' < RingSize THEN captureSeq' ELSE RingSize)
  BY <1>1, CaptureAssumption DEF CaptureEvent, RingInv
<1>4. ASSUME NEW p \in Slots PROVE Placed(p, capture[p].seq)'
  <2>1. p \in 0..RingSize - 1
    BY DEF Slots
  <2>2. CASE p = captureHead
    <3>1. capture'[p].seq = captureSeq + 1
      BY <1>1, <2>2 DEF CaptureEvent, CaptureTypeOK
    <3>2. (captureSeq + 1) - 1 = captureSeq
      BY <1>1
    <3> QED  BY <1>1, <2>2, <3>1, <3>2, CaptureAssumption DEF Placed
  <2>3. CASE p # captureHead
    <3> DEFINE n == capture[p].seq
    <3>1. capture'[p].seq = n /\ n \in Nat /\ Placed(p, n)
      BY <2>3 DEF CaptureEvent, CaptureTypeOK, RingInv, Entries
    <3> HIDE DEF n
    <3>2. n = 0 => captureSeq # p
      <4>1. captureSeq = p => captureHead = p
        BY <1>1, <2>1, ModSmall, CaptureAssumption
      <4> QED  BY <2>3, <4>1
    <3>3. n > 0 => n # captureSeq + 1 - RingSize
      <4>1. SUFFICES ASSUME n > 0, n = captureSeq + 1 - RingSize PROVE FALSE
        OBVIOUS
      <4>2. (n - 1) % RingSize = p /\ (n - 1) + RingSize = captureSeq
        BY <4>1, <3>1, <1>1, CaptureAssumption DEF Placed
      <4>3. ((n - 1) + RingSize) % RingSize = (n - 1) % RingSize
        BY <3>1, ModPlus, CaptureAssumption, n - 1 \in Int
      <4> QED  BY <1>1, <2>3, <4>2, <4>3
    <3> QED  BY <1>1, <2>1, <3>1, <3>2, <3>3, CaptureAssumption DEF Placed
  <2> QED  BY <2>2, <2>3
<1> QED  BY <1>2, <1>3, <1>4 DEF RingInv

-----------------------------------------------------------------------------
(* What an action leaves alone.                                            *)

LEMMA RingStays ==
  ASSUME UNCHANGED ring
  PROVE  /\ RingInv => RingInv'
         /\ FramesInOrder => FramesInOrder'
         /\ \A s : Recorded(s)' = Recorded(s)
BY DEF ring, RingInv, Placed, FramesInOrder, Recorded

LEMMA ListingStays ==
  ASSUME ListingInv, UNCHANGED web, captureSeq' = captureSeq \/ captureSeq' = captureSeq + 1,
         captureSeq \in Nat
  PROVE  ListingInv'
BY DEF ListingInv

LEMMA DirectionStays ==
  ASSUME NEW s, DirectionInv(s), passed'[s] = passed[s], buffer'[s] = buffer[s],
         entry'[s] = entry[s], UNCHANGED ring
  PROVE  DirectionInv(s)'
BY RingStays DEF DirectionInv, Before, ring

-----------------------------------------------------------------------------
(* The web application.                                                    *)

LEMMA RingIsCleared ==
  ASSUME CaptureInv, ClearCapture, web = Idle, web' = Idle \/ web' = [doing |-> "starting"],
         UNCHANGED <<captureEnabled, passed, buffer, feeding, entry>>
  PROVE  CaptureInv'
<1>1. RingInv' /\ FramesInOrder' /\ \A s \in Sniffers : Recorded(s)' = {}
  BY RingBegins DEF ClearCapture
<1>2. CaptureTypeOK'
  <2>1. 0 \in Slots /\ 0 \in 0..RingSize /\ Blank \in Entries
    BY CaptureAssumption DEF Slots, Blank, Entries, Garbage
  <2> QED  BY <2>1 DEF CaptureInv, CaptureTypeOK, ClearCapture
<1>3. ListingInv'
  BY DEF ListingInv, Idle
<1>4. ASSUME NEW s \in Sniffers PROVE DirectionInv(s)'
  <2>1. DirectionInv(s) /\ Recorded(s)' = {}
    BY <1>1 DEF CaptureInv
  <2> QED  BY <2>1 DEF DirectionInv, Before
<1> QED  BY <1>1, <1>2, <1>3, <1>4 DEF CaptureInv

LEMMA ListingBegins ==
  ASSUME CaptureInv, CaptureJson
  PROVE  ListingInv'
<1>1. /\ captureSeq \in Nat /\ captureCount \in 0..RingSize /\ captureCount <= captureSeq
      /\ captureHead = captureSeq % RingSize /\ UNCHANGED captureSeq
  BY CaptureAssumption DEF CaptureInv, CaptureTypeOK, RingInv, CaptureJson, ring
<1> DEFINE start == (captureHead + RingSize - captureCount) % RingSize
<1>2. start = (captureSeq - captureCount) % RingSize
  <2> DEFINE c == RingSize - captureCount
             a == captureSeq - captureCount
  <2>1. c \in Int /\ a \in Int /\ captureSeq + c = a + RingSize
        /\ captureHead \in Int /\ captureHead + RingSize - captureCount = captureHead + c
    BY <1>1, CaptureAssumption DEF CaptureInv, CaptureTypeOK, Slots
  <2> HIDE DEF c
  <2>2. ((captureSeq % RingSize) + c) % RingSize = (captureSeq + c) % RingSize
    BY <1>1, <2>1, ModAdd, CaptureAssumption, captureSeq \in Int
  <2> HIDE DEF a
  <2>3. (a + RingSize) % RingSize = a % RingSize
    BY <2>1, ModPlus, CaptureAssumption
  <2>4. start = (captureHead + c) % RingSize
    BY <2>1
  <2> QED  BY <1>1, <2>1, <2>2, <2>3, <2>4 DEF a
<1>3. captureSeq - captureCount \in Int
  BY <1>1
<1>4. start \in Slots
  BY <1>2, <1>3, SlotOf
<1>5. web' = [doing |-> "listing", seq |-> captureSeq, count |-> captureCount,
              start |-> start, listed |-> <<>>]
  BY DEF CaptureJson
<1> HIDE DEF start
<1>6. <<>> \in Seq(Entries) /\ Len(<<>>) = 0
  OBVIOUS
<1>7. web' \in [doing : {"listing"}, seq : Nat, count : 0..RingSize, start : Slots,
                listed : Seq(Entries)]
  BY <1>1, <1>4, <1>5, <1>6
<1>8. web'.seq = captureSeq /\ web'.count = captureCount /\ web'.start = start /\ web'.listed = <<>>
  BY <1>5
<1> QED  BY <1>1, <1>2, <1>6, <1>7, <1>8 DEF ListingInv

LEMMA EntryIsListed ==
  ASSUME CaptureInv, ListEntry
  PROVE  ListingInv'
<1> DEFINE listed == web.listed
           k == Len(listed) + 1
           was == web.seq - web.count + k
<1>1. /\ web \in [doing : {"listing"}, seq : Nat, count : 0..RingSize, start : Slots,
                   listed : Seq(Entries)]
      /\ web.count <= web.seq /\ web.seq <= captureSeq /\ captureSeq \in Nat
      /\ web.start = (web.seq - web.count) % RingSize
      /\ k <= web.count
      /\ \A i \in 1..Len(listed) : Keeps(web.seq - web.count + i, listed[i].seq)
  BY CaptureAssumption DEF CaptureInv, ListingInv, ListEntry, CaptureTypeOK
<1>2. /\ web.seq \in Nat /\ web.count \in Nat /\ listed \in Seq(Entries) /\ k - 1 = Len(listed)
      /\ k \in Nat /\ web.start \in Slots
  BY <1>1, CaptureAssumption
<1>3. was \in 1..captureSeq /\ was - 1 = (web.seq - web.count) + Len(listed)
  BY <1>1, <1>2
<1>4. (web.start + Len(listed)) % RingSize = (was - 1) % RingSize
  <2> DEFINE a == web.seq - web.count
  <2>1. a \in Int /\ Len(listed) \in Int
    BY <1>2
  <2> HIDE DEF a, listed
  <2>2. ((a % RingSize) + Len(listed)) % RingSize = (a + Len(listed)) % RingSize
    BY <2>1, ModAdd, CaptureAssumption
  <2> USE DEF a, listed
  <2> QED  BY <1>1, <1>3, <2>2
<1> DEFINE e == capture[(was - 1) % RingSize]
<1>5. e \in Entries /\ Keeps(was, e.seq)
  <2>1. (was - 1) % RingSize \in Slots
    BY <1>3, SlotOf, was - 1 \in Int
  <2> QED  BY <1>3, <2>1, PlaceHolds DEF CaptureInv, CaptureTypeOK
<1>6. web' = [web EXCEPT !.listed = Append(listed, e)] /\ UNCHANGED captureSeq
  BY <1>4 DEF ListEntry, ring
<1> HIDE DEF e
<1>7. /\ Append(listed, e) \in Seq(Entries) /\ Len(Append(listed, e)) = k
      /\ Append(listed, e)[k] = e
      /\ \A i \in 1..Len(listed) : Append(listed, e)[i] = listed[i]
  BY <1>2, <1>5
<1>8. /\ web' \in [doing : {"listing"}, seq : Nat, count : 0..RingSize, start : Slots,
                    listed : Seq(Entries)]
      /\ web'.seq = web.seq /\ web'.count = web.count /\ web'.start = web.start
      /\ web'.listed = Append(listed, e)
  BY <1>1, <1>6, <1>7
<1>9. ASSUME NEW i \in 1..Len(web'.listed) PROVE Keeps(web.seq - web.count + i, web'.listed[i].seq)
  <2>1. CASE i = k
    BY <2>1, <1>5, <1>7, <1>8
  <2>2. CASE i # k
    <3>1. i \in 1..Len(listed)
      BY <2>2, <1>2, <1>7, <1>8
    <3> QED  BY <3>1, <1>1, <1>7, <1>8
  <2> QED  BY <2>1, <2>2
<1>10. \A i \in 1..Len(web'.listed) :
         Keeps(web'.seq - web'.count + i, web'.listed[i].seq)
  BY <1>8, <1>9
<1> QED  BY <1>1, <1>6, <1>8, <1>10 DEF ListingInv

LEMMA WebKeepsCapture ==
  ASSUME CaptureInv, WebStep
  PROVE  CaptureInv'
<1>1. CASE Clear
  BY <1>1, RingIsCleared DEF Clear
<1>2. CASE StartCapture
  BY <1>2, RingIsCleared DEF StartCapture
<1>3. ASSUME UNCHANGED <<ring, passed, buffer, feeding, entry>>, ListingInv',
             captureEnabled' \in BOOLEAN
      PROVE  CaptureInv'
  <2>1. CaptureTypeOK'
    BY <1>3 DEF CaptureInv, CaptureTypeOK, ring
  <2>2. \A s \in Sniffers : DirectionInv(s)'
    BY <1>3, DirectionStays DEF CaptureInv
  <2> QED  BY <1>3, <2>1, <2>2, RingStays DEF CaptureInv
<1>4. CASE Enable \/ StopCapture
  <2>1. ListingInv'
    BY <1>4 DEF Enable, StopCapture, ListingInv, Idle
  <2> QED  BY <1>3, <1>4, <2>1 DEF Enable, StopCapture
<1>5. CASE CaptureJson
  BY <1>3, <1>5, ListingBegins DEF CaptureJson, CaptureInv, CaptureTypeOK
<1>6. CASE ListEntry
  BY <1>3, <1>6, EntryIsListed DEF ListEntry, CaptureInv, CaptureTypeOK
<1>7. CASE SendCapture
  <2>1. ListingInv'
    BY <1>7 DEF SendCapture, ListingInv, Idle
  <2> QED  BY <1>3, <1>7, <2>1 DEF SendCapture, CaptureInv, CaptureTypeOK
<1> QED  BY <1>1, <1>2, <1>4, <1>5, <1>6, <1>7 DEF WebStep

-----------------------------------------------------------------------------
(* The sniffers.                                                           *)

(* Of a task's step that leaves the ring alone its own direction is to be  *)
(* looked at.                                                              *)
LEMMA OwnDirection ==
  ASSUME CaptureInv, NEW s \in Sniffers, UNCHANGED <<captureEnabled, ring, web>>, CaptureTypeOK',
         \A t \in Sniffers \ {s} :
           passed'[t] = passed[t] /\ buffer'[t] = buffer[t] /\ entry'[t] = entry[t],
         DirectionInv(s)'
  PROVE  CaptureInv'
<1>1. RingInv' /\ FramesInOrder'
  BY RingStays DEF CaptureInv
<1>2. ListingInv'
  BY ListingStays DEF CaptureInv, CaptureTypeOK, ring
<1>3. \A t \in Sniffers : DirectionInv(t)'
  BY DirectionStays DEF CaptureInv
<1> QED  BY <1>1, <1>2, <1>3 DEF CaptureInv

LEMMA RequestKeeps ==
  ASSUME CaptureInv, NEW s \in Sniffers, CaptureHttpRequest(s)
  PROVE  CaptureInv'
<1>1. CaptureTypeOK'
  BY DEF CaptureInv, CaptureTypeOK, CaptureHttpRequest, ring, Found, Request
<1>2. /\ passed'[s].size = 1 /\ passed'[s].part = 1 /\ passed'[s].frame = 0
      /\ entry'[s] = [stage |-> "found", frame |-> 0]
      /\ buffer' = buffer /\ buffer[s] = <<>> /\ Recorded(s)' = {}
  BY RingStays DEF CaptureInv, CaptureTypeOK, CaptureHttpRequest, Found, Request, DirectionInv
<1>3. DirectionInv(s)'
  BY <1>2 DEF DirectionInv, Before
<1>4. \A t \in Sniffers \ {s} :
        passed'[t] = passed[t] /\ buffer'[t] = buffer[t] /\ entry'[t] = entry[t]
  BY DEF CaptureHttpRequest, CaptureInv, CaptureTypeOK
<1> QED  BY <1>1, <1>3, <1>4, OwnDirection DEF CaptureHttpRequest

(* What passes is the rest of the frame, or is beyond all before.          *)
LEMMA PartsThatPass ==
  ASSUME CaptureTypeOK, NEW s \in Sniffers, DirectionInv(s), NEW part \in NextParts(passed[s])
  PROVE  /\ part \in TunnelParts
         /\ part.frame >= passed[s].frame
         /\ part.part = 1 => part.frame > passed[s].frame
<1>1. /\ passed[s] \in [frame : Nat, part : Nat, size : Nat]
      /\ passed[s].part = 0 => passed[s].size = 0
  BY DEF CaptureTypeOK, DirectionInv
<1>2. CASE passed[s].part < passed[s].size
  <2>1. part = [passed[s] EXCEPT !.part = @ + 1]
    BY <1>2 DEF NextParts
  <2> QED  BY <1>1, <1>2, <2>1 DEF TunnelParts
<1>3. CASE ~(passed[s].part < passed[s].size)
  <2>1. PICK n \in FrameSizes : part = [frame |-> passed[s].frame + 1, part |-> 1, size |-> n]
    BY <1>3 DEF NextParts
  <2> QED  BY <1>1, <2>1, CaptureAssumption DEF TunnelParts
<1> QED  BY <1>2, <1>3

LEMMA PartsInBuffer ==
  ASSUME CaptureTypeOK, NEW s \in Sniffers
  PROVE  /\ buffer[s] \in Seq(TunnelParts) /\ Len(buffer[s]) \in Nat
         /\ \A i \in 1..Len(buffer[s]) : buffer[s][i] \in TunnelParts /\ buffer[s][i].frame \in Nat
<1>1. buffer[s] \in Seq(TunnelParts)
  BY DEF CaptureTypeOK
<1>2. \A q \in Seq(TunnelParts) : Len(q) \in Nat /\ \A i \in 1..Len(q) : q[i] \in TunnelParts
  OBVIOUS
<1>3. \A x \in TunnelParts : x.frame \in Nat
  BY DEF TunnelParts
<1> QED  BY <1>1, <1>2, <1>3

LEMMA FeedKeeps ==
  ASSUME CaptureInv, NEW s \in Sniffers, Feed(s)
  PROVE  CaptureInv'
<1>1. PICK part \in NextParts(passed[s]) :
        /\ passed' = [passed EXCEPT ![s] = part]
        /\ \/ UNCHANGED <<buffer, feeding>>
           \/ buffer' = [buffer EXCEPT ![s] = <<>>] /\ UNCHANGED feeding
           \/ /\ buffer' = [buffer EXCEPT ![s] = Append(@, part)]
              /\ feeding' = [feeding EXCEPT ![s] = TRUE]
  BY DEF Feed
<1>2. /\ part \in TunnelParts /\ passed[s] \in [frame : Nat, part : Nat, size : Nat]
      /\ part.frame >= passed[s].frame
      /\ part.part = 1 => part.frame > passed[s].frame
  BY PartsThatPass DEF CaptureInv, CaptureTypeOK
<1>3. /\ passed' = [passed EXCEPT ![s] = part] /\ passed'[s] = part
      /\ part.frame \in Nat /\ part.size > 0 /\ part.part > 0
  BY <1>1, <1>2 DEF CaptureInv, CaptureTypeOK, TunnelParts
<1>4. UNCHANGED <<captureEnabled, ring, entry, web>> /\ entry[s] = NoEntry /\ DirectionInv(s)
  BY DEF Feed, CaptureInv
<1>5. Recorded(s)' = Recorded(s) /\ \A p \in Recorded(s) : capture'[p].frame = capture[p].frame
                                                 /\ capture[p].frame \in Int
  BY <1>4, RingStays DEF ring, Recorded, CaptureInv, CaptureTypeOK, Entries
<1> DEFINE b == buffer[s]
<1>6. /\ b \in Seq(TunnelParts) /\ Len(b) \in Nat
      /\ \A i \in 1..Len(b) : b[i] \in TunnelParts /\ b[i].frame \in Nat
  BY PartsInBuffer DEF CaptureInv
<1>7. \/ buffer'[s] = b \/ buffer'[s] = <<>>
      \/ buffer'[s] = Append(b, part)
  BY <1>1 DEF CaptureInv, CaptureTypeOK
<1>8. CaptureTypeOK'
  <2>1. passed' \in [Sniffers -> [frame : Nat, part : Nat, size : Nat]]
    BY <1>1, <1>2 DEF CaptureInv, CaptureTypeOK, TunnelParts
  <2>2. buffer' \in [Sniffers -> Seq(TunnelParts)] /\ feeding' \in [Sniffers -> BOOLEAN]
    <3>1. <<>> \in Seq(TunnelParts) /\ Append(b, part) \in Seq(TunnelParts)
      BY <1>2, <1>6
    <3>2. buffer' = buffer \/ buffer' = [buffer EXCEPT ![s] = <<>>]
          \/ buffer' = [buffer EXCEPT ![s] = Append(b, part)]
      BY <1>1
    <3>3. feeding' = feeding \/ feeding' = [feeding EXCEPT ![s] = TRUE]
      BY <1>1
    <3> HIDE DEF b
    <3> QED  BY <3>1, <3>2, <3>3 DEF CaptureInv, CaptureTypeOK
  <2> QED  BY <2>1, <2>2, <1>4 DEF CaptureInv, CaptureTypeOK, ring
<1>9. DirectionInv(s)'
  <2>1. entry'[s].stage = "none"
    BY <1>4 DEF NoEntry
  <2>2. CASE buffer'[s] = b \/ buffer'[s] = <<>>
    <3> DEFINE c == buffer'[s]
    <3>1. /\ passed[s].frame \in Nat /\ passed'[s].frame = part.frame
          /\ passed'[s].size # 0 /\ passed'[s].part # 0
      BY <1>2, <1>3
    <3>2. c = b \/ (c = <<>> /\ Len(c) = 0)
      BY <2>2
    <3>3. ASSUME NEW p \in Recorded(s)' PROVE Before(capture[p].frame, s)'
      <4>1. /\ capture[p].frame <= passed[s].frame
            /\ \A i \in 1..Len(b) : b[i].part = 1 => capture[p].frame < b[i].frame
        BY <1>4, <1>5 DEF DirectionInv, Before
      <4>2. capture[p].frame <= part.frame
        BY <4>1, <1>2, <1>3, <1>5, <3>1
      <4>3. \A i \in 1..Len(c) : c[i].part = 1 => capture[p].frame < c[i].frame
        BY <4>1, <3>2
      <4> QED  BY <4>2, <4>3, <3>1, <1>5 DEF Before
    <3>4. ASSUME NEW i \in 1..Len(c)
          PROVE  /\ c[i].frame <= part.frame
                 /\ \A j \in 1..Len(c) : i < j /\ c[j].part = 1 => c[i].frame < c[j].frame
      <4>1. /\ i \in 1..Len(b) /\ c = b
            /\ b[i].frame <= passed[s].frame
            /\ \A j \in 1..Len(b) : i < j /\ b[j].part = 1 => b[i].frame < b[j].frame
        BY <3>2, <1>4 DEF DirectionInv
      <4>2. b[i].frame <= part.frame
        BY <4>1, <3>1, <1>2, <1>3, <1>6
      <4> QED  BY <4>1, <4>2
    <3> QED  BY <2>1, <3>1, <3>3, <3>4 DEF DirectionInv
  <2>3. CASE buffer'[s] = Append(b, part)
    <3> DEFINE c == Append(b, part)
    <3>1. /\ Len(c) = Len(b) + 1 /\ c[Len(b) + 1] = part /\ Len(b) \in Nat
          /\ \A i \in 1..Len(b) : c[i] = b[i]
      BY <1>2, <1>6
    <3>2. \A i \in 1..Len(c) : i \in 1..Len(b) \/ i = Len(b) + 1
      BY <3>1
    <3> HIDE DEF c
    <3>3. \A i \in 1..Len(b) :
            /\ b[i].frame <= passed[s].frame
            /\ \A j \in 1..Len(b) : i < j /\ b[j].part = 1 => b[i].frame < b[j].frame
      BY <1>4 DEF DirectionInv
    <3>4. \A i \in 1..Len(c) :
            /\ c[i].frame <= part.frame
            /\ \A j \in 1..Len(c) : i < j /\ c[j].part = 1 => c[i].frame < c[j].frame
      <4> SUFFICES ASSUME NEW i \in 1..Len(c)
                   PROVE  /\ c[i].frame <= part.frame
                          /\ \A j \in 1..Len(c) : i < j /\ c[j].part = 1 => c[i].frame < c[j].frame
        OBVIOUS
      <4>1. CASE i \in 1..Len(b)
        <5>1. c[i].frame <= passed[s].frame /\ c[i].frame \in Nat /\ passed[s].frame \in Nat
          BY <4>1, <3>1, <3>3, <1>2, <1>6
        <5>2. ASSUME NEW j \in 1..Len(c), i < j, c[j].part = 1 PROVE c[i].frame < c[j].frame
          <6>1. CASE j \in 1..Len(b)
            BY <6>1, <5>2, <4>1, <3>1, <3>3
          <6>2. CASE j = Len(b) + 1
            <7>1. part.frame > passed[s].frame
              BY <6>2, <5>2, <3>1, <1>2
            <7> QED  BY <7>1, <6>2, <5>1, <3>1, <1>3
          <6> QED  BY <6>1, <6>2, <3>2
        <5> QED  BY <5>1, <5>2, <1>2, <1>3
      <4>2. CASE i = Len(b) + 1
        BY <4>2, <3>1, <1>3
      <4> QED  BY <4>1, <4>2, <3>2
    <3>5. ASSUME NEW p \in Recorded(s) PROVE Before(capture[p].frame, s)'
      <4>1. /\ capture[p].frame <= passed[s].frame
            /\ \A i \in 1..Len(b) : b[i].part = 1 => capture[p].frame < b[i].frame
        BY <1>4 DEF DirectionInv, Before
      <4>2. \A i \in 1..Len(c) : c[i].part = 1 => capture[p].frame < c[i].frame
        BY <4>1, <3>1, <3>2, <1>2, <1>3, <1>5
      <4>3. capture[p].frame <= part.frame
        BY <4>1, <1>2, <1>3, <1>5
      <4> QED  BY <4>2, <4>3, <2>3, <1>3, <1>5 DEF Before, c
    <3> QED  BY <3>4, <3>5, <2>1, <2>3, <1>3, <1>5 DEF DirectionInv, c
  <2> QED  BY <1>7, <2>2, <2>3
<1>10. \A t \in Sniffers \ {s} :
         passed'[t] = passed[t] /\ buffer'[t] = buffer[t] /\ entry'[t] = entry[t]
  BY <1>1, <1>4 DEF CaptureInv, CaptureTypeOK
<1> QED  BY <1>4, <1>8, <1>9, <1>10, OwnDirection

(* A round of the parser leaves the end of the buffer, and finds the frame *)
(* at its front or none.                                                   *)
LEMMA ParseKeeps ==
  ASSUME CaptureInv, NEW s \in Sniffers, Parse(s)
  PROVE  CaptureInv'
<1> DEFINE b == buffer[s]
<1>1. /\ b \in Seq(TunnelParts) /\ Len(b) \in Nat /\ DirectionInv(s) /\ entry[s] = NoEntry
      /\ \A i \in 1..Len(b) : b[i] \in TunnelParts /\ b[i].frame \in Nat
      /\ UNCHANGED <<captureEnabled, ring, passed, web>>
  BY PartsInBuffer DEF CaptureInv, Parse
<1>2. Recorded(s)' = Recorded(s) /\ \A p \in Recorded(s) : capture'[p].frame = capture[p].frame
  BY <1>1, RingStays DEF ring
<1>3. CASE /\ buffer' = buffer \/ buffer' = [buffer EXCEPT ![s] = <<>>]
           /\ feeding' = [feeding EXCEPT ![s] = FALSE] /\ entry' = entry
  <2>1. CaptureTypeOK'
    <3>1. buffer' \in [Sniffers -> Seq(TunnelParts)]
      <4>1. <<>> \in Seq(TunnelParts)
        OBVIOUS
      <4> QED  BY <1>3, <4>1 DEF CaptureInv, CaptureTypeOK
    <3>2. feeding' \in [Sniffers -> BOOLEAN]
      BY <1>3 DEF CaptureInv, CaptureTypeOK
    <3> QED  BY <1>1, <1>3, <3>1, <3>2 DEF CaptureInv, CaptureTypeOK, ring
  <2>2. buffer'[s] = b \/ buffer'[s] = <<>>
    BY <1>3 DEF CaptureInv, CaptureTypeOK
  <2>3. DirectionInv(s)'
    BY <1>1, <1>2, <1>3, <2>2 DEF DirectionInv, Before, NoEntry
  <2>4. \A t \in Sniffers \ {s} :
          passed'[t] = passed[t] /\ buffer'[t] = buffer[t] /\ entry'[t] = entry[t]
    BY <1>1, <1>3 DEF CaptureInv, CaptureTypeOK
  <2> QED  BY <1>1, <2>1, <2>3, <2>4, OwnDirection
<1>4. ASSUME NEW n \in ClaimedSizes(Head(b)), b # <<>>, ~(n > Len(b)),
             buffer' = [buffer EXCEPT ![s] = SubSeq(@, n + 1, Len(@))], feeding' = feeding,
             NEW f \in {Garbage, b[1].frame}, f # Garbage => b[1].part = 1,
             entry' = entry \/ entry' = [entry EXCEPT ![s] = Found(f)]
      PROVE  CaptureInv'
  <2> DEFINE c == SubSeq(b, n + 1, Len(b))
  <2>1. n \in Nat \ {0}
    <3>1. Head(b) \in TunnelParts
      BY <1>1, <1>4
    <3> QED  BY <3>1, CaptureAssumption DEF ClaimedSizes, TunnelParts
  <2>2. /\ c \in Seq(TunnelParts) /\ Len(c) = Len(b) - n /\ \A i \in 1..Len(c) : c[i] = b[i + n]
    <3>1. n + 1 \in Int /\ Len(b) \in Int /\ \A i \in n + 1..Len(b) : b[i] \in TunnelParts
      BY <1>1, <2>1
    <3>2. /\ c \in Seq(TunnelParts)
          /\ Len(c) = IF n + 1 <= Len(b) THEN Len(b) - (n + 1) + 1 ELSE 0
          /\ \A i \in 1..Len(b) - (n + 1) + 1 : c[i] = b[(n + 1) + i - 1]
      BY <3>1, SubSeqProperties
    <3>3. Len(c) = Len(b) - n
      BY <3>2, <1>1, <1>4, <2>1
    <3>4. ASSUME NEW i \in 1..Len(c) PROVE c[i] = b[i + n]
      <4>1. i \in 1..Len(b) - (n + 1) + 1 /\ (n + 1) + i - 1 = i + n
        BY <3>3, <1>1, <2>1
      <4> QED  BY <4>1, <3>2
    <3> QED  BY <3>2, <3>3, <3>4
  <2>3. \A i \in 1..Len(c) :
          i + n \in 1..Len(b) /\ 1 < i + n /\ \A j \in 1..Len(c) : i < j => i + n < j + n
    BY <1>1, <2>1, <2>2
  <2>4. buffer'[s] = c /\ passed'[s] = passed[s]
    BY <1>1, <1>4 DEF CaptureInv, CaptureTypeOK
  <2>5. 1 \in 1..Len(b)
    BY <1>1, <1>4
  <2> HIDE DEF c, b
  <2>6. f \in Int
    BY <1>1, <2>5 DEF Garbage
  <2>7. \A i \in 1..Len(b) :
          /\ b[i].frame <= passed[s].frame
          /\ \A j \in 1..Len(b) : i < j /\ b[j].part = 1 => b[i].frame < b[j].frame
    BY <1>1 DEF DirectionInv, b
  <2>8. \A i \in 1..Len(c) :
          /\ c[i].frame <= passed[s].frame
          /\ \A j \in 1..Len(c) : i < j /\ c[j].part = 1 => c[i].frame < c[j].frame
    BY <2>2, <2>3, <2>7
  <2>9. passed[s].frame \in Nat
    BY DEF CaptureInv, CaptureTypeOK
  <2>10. f <= passed[s].frame /\ \A i \in 1..Len(c) : c[i].part = 1 => f < c[i].frame
    <3>1. CASE f = Garbage
      <4>1. \A i \in 1..Len(c) : c[i].frame \in Nat
        BY <1>1, <2>2, <2>3
      <4> QED  BY <3>1, <4>1, <2>9 DEF Garbage
    <3>2. CASE f = b[1].frame
      BY <3>2, <2>2, <2>3, <2>5, <2>7
    <3> QED  BY <3>1, <3>2, <1>4
  <2>11. ASSUME NEW p \in Recorded(s)
         PROVE  Before(capture[p].frame, s)' /\ (f # Garbage => capture[p].frame < f)
    <3>1. /\ capture[p].frame <= passed[s].frame
          /\ \A i \in 1..Len(b) : b[i].part = 1 => capture[p].frame < b[i].frame
      BY <1>1 DEF DirectionInv, Before, b
    <3>2. \A i \in 1..Len(c) : c[i].part = 1 => capture[p].frame < c[i].frame
      BY <3>1, <2>2, <2>3
    <3>3. f # Garbage => capture[p].frame < f
      BY <3>1, <1>4, <2>5
    <3> QED  BY <3>1, <3>2, <3>3, <2>4, <1>2 DEF Before
  <2>12. entry'[s] = NoEntry \/ entry'[s] = [stage |-> "found", frame |-> f]
    BY <1>1, <1>4 DEF CaptureInv, CaptureTypeOK, Found
  <2>13. Before(f, s)'
    BY <2>4, <2>10 DEF Before
  <2>14. /\ entry'[s].stage # "none" => entry'[s].frame = f
         /\ NoEntry.stage = "none"
    BY <2>12 DEF NoEntry
  <2>15. passed[s].size # 0 /\ (passed[s].part = 0 => passed[s].size = 0)
    BY <1>1, <1>4 DEF DirectionInv, b
  <2>16. DirectionInv(s)'
    <3>1. /\ passed'[s].part = 0 => passed'[s].size = 0
          /\ passed'[s].size # 0
      BY <2>4, <2>15
    <3>2. \A p \in Recorded(s)' : Before(capture[p].frame, s)' 
      BY <1>2, <2>11
    <3>3. entry'[s].stage # "none" =>
            /\ Before(entry[s].frame, s)'
            /\ entry'[s].frame # Garbage =>
                 \A p \in Recorded(s)' : capture'[p].frame < entry'[s].frame
      <4>1. CASE entry'[s].stage # "none"
        <5>1. entry'[s].frame = f
          BY <4>1, <2>14
        <5> QED  BY <5>1, <1>2, <2>11, <2>13 DEF Before
      <4> QED  BY <4>1
    <3>4. \A i \in 1..Len(buffer'[s]) :
            /\ buffer'[s][i].frame <= passed'[s].frame
            /\ \A j \in 1..Len(buffer'[s]) :
                 i < j /\ buffer'[s][j].part = 1 => buffer'[s][i].frame < buffer'[s][j].frame
      BY <2>4, <2>8
    <3> QED  BY <3>1, <3>2, <3>3, <3>4 DEF DirectionInv
  <2>17. CaptureTypeOK'
    <3>1. buffer' \in [Sniffers -> Seq(TunnelParts)]
      <4>1. buffer' = [buffer EXCEPT ![s] = c]
        BY <1>4 DEF c, b
      <4> QED  BY <4>1, <2>2 DEF CaptureInv, CaptureTypeOK
    <3>2. entry' \in [Sniffers -> [stage : {"none", "found", "checked"}, frame : Int]]
      <4>1. Found(f) \in [stage : {"none", "found", "checked"}, frame : Int]
        BY <2>6 DEF Found
      <4>2. CASE entry' = entry
        BY <4>2 DEF CaptureInv, CaptureTypeOK
      <4>3. CASE entry' = [entry EXCEPT ![s] = Found(f)]
        BY <4>1, <4>3 DEF CaptureInv, CaptureTypeOK
      <4> QED  BY <4>2, <4>3, <1>4
    <3> QED  BY <3>1, <3>2, <1>1, <1>4 DEF CaptureInv, CaptureTypeOK, ring
  <2>18. \A t \in Sniffers \ {s} :
           passed'[t] = passed[t] /\ buffer'[t] = buffer[t] /\ entry'[t] = entry[t]
    BY <1>1, <1>4 DEF CaptureInv, CaptureTypeOK
  <2> QED  BY <1>1, <2>16, <2>17, <2>18, OwnDirection
<1>5. CASE b = <<>>
  BY <1>3, <1>5 DEF Parse
<1>6. CASE b # <<>>
  <2>1. PICK n \in ClaimedSizes(Head(b)) :
          IF n > BufferSize
          THEN /\ buffer' = [buffer EXCEPT ![s] = <<>>]
               /\ feeding' = [feeding EXCEPT ![s] = FALSE]
               /\ UNCHANGED entry
          ELSE IF n > Len(buffer[s])
          THEN feeding' = [feeding EXCEPT ![s] = FALSE] /\ UNCHANGED <<buffer, entry>>
          ELSE /\ buffer' = [buffer EXCEPT ![s] = SubSeq(@, n + 1, Len(@))]
               /\ entry' \in {entry, [entry EXCEPT ![s] = Found(
                    IF Head(buffer[s]).part = 1 THEN Head(buffer[s]).frame ELSE Garbage)]}
               /\ UNCHANGED feeding
    BY <1>6 DEF Parse
  <2>2. CASE n > BufferSize \/ n > Len(b)
    BY <1>3, <2>1, <2>2
  <2>3. CASE ~(n > BufferSize) /\ ~(n > Len(b))
    <3> DEFINE f == IF Head(buffer[s]).part = 1 THEN Head(buffer[s]).frame ELSE Garbage
    <3>1. Head(b) = b[1]
      BY <1>1, <1>6
    <3>2. f \in {Garbage, b[1].frame} /\ (f # Garbage => b[1].part = 1)
      BY <3>1
    <3>3. /\ buffer' = [buffer EXCEPT ![s] = SubSeq(@, n + 1, Len(@))] /\ feeding' = feeding
          /\ entry' = entry \/ entry' = [entry EXCEPT ![s] = Found(f)]
      BY <2>1, <2>3
    <3> HIDE DEF f
    <3> QED  BY <1>4, <1>6, <2>3, <3>2, <3>3
  <2> QED  BY <2>2, <2>3
<1> QED  BY <1>5, <1>6

LEMMA CheckKeeps ==
  ASSUME CaptureInv, NEW s \in Sniffers, CaptureChecks(s)
  PROVE  CaptureInv'
<1>1. /\ entry[s] \in [stage : {"none", "found", "checked"}, frame : Int]
      /\ entry[s].stage = "found" /\ DirectionInv(s)
      /\ UNCHANGED <<captureEnabled, ring, passed, buffer, feeding, web>>
  BY DEF CaptureInv, CaptureTypeOK, CaptureChecks
<1>2. entry'[s] = NoEntry \/ entry'[s] = [entry[s] EXCEPT !.stage = "checked"]
  BY DEF CaptureInv, CaptureTypeOK, CaptureChecks
<1>3. CaptureTypeOK'
  <2>1. NoEntry \in [stage : {"none", "found", "checked"}, frame : Int]
    BY DEF NoEntry, Garbage
  <2>2. entry' \in [Sniffers -> [stage : {"none", "found", "checked"}, frame : Int]]
    <3>1. [entry[s] EXCEPT !.stage = "checked"] \in
            [stage : {"none", "found", "checked"}, frame : Int]
      BY <1>1
    <3>2. \E e \in [stage : {"none", "found", "checked"}, frame : Int] :
            entry' = [entry EXCEPT ![s] = e]
      <4>1. CASE captureEnabled
        <5>1. entry' = [entry EXCEPT ![s] = [entry[s] EXCEPT !.stage = "checked"]]
          BY <4>1 DEF CaptureChecks
        <5> QED  BY <5>1, <3>1
      <4>2. CASE ~captureEnabled
        <5>1. entry' = [entry EXCEPT ![s] = NoEntry]
          BY <4>2 DEF CaptureChecks
        <5> QED  BY <5>1, <2>1
      <4> QED  BY <4>1, <4>2
    <3> QED  BY <3>2 DEF CaptureInv, CaptureTypeOK
  <2> QED  BY <1>1, <2>2 DEF CaptureInv, CaptureTypeOK, ring
<1>4. Recorded(s)' = Recorded(s) /\ capture' = capture
  BY <1>1, RingStays DEF ring
<1>5. /\ entry'[s].stage # "none" => entry'[s].frame = entry[s].frame
      /\ passed[s].size # 0
  BY <1>1, <1>2 DEF NoEntry, DirectionInv
<1>6. DirectionInv(s)'
  BY <1>1, <1>4, <1>5 DEF DirectionInv, Before
<1>7. \A t \in Sniffers \ {s} :
        passed'[t] = passed[t] /\ buffer'[t] = buffer[t] /\ entry'[t] = entry[t]
  BY <1>1 DEF CaptureInv, CaptureTypeOK, CaptureChecks
<1> QED  BY <1>1, <1>3, <1>6, <1>7, OwnDirection

LEMMA EventKeeps ==
  ASSUME CaptureInv, NEW s \in Sniffers, CaptureEvent(s)
  PROVE  CaptureInv'
<1> DEFINE h == captureHead
           f == entry[s].frame
           new == [seq |-> captureSeq + 1, from |-> s, frame |-> f]
<1>1. /\ h \in Slots /\ captureSeq \in Nat /\ captureSeq' = captureSeq + 1
      /\ entry[s] \in [stage : {"none", "found", "checked"}, frame : Int]
      /\ entry[s].stage = "checked" /\ DirectionInv(s)
      /\ entry' = [entry EXCEPT ![s] = NoEntry]
      /\ UNCHANGED <<captureEnabled, passed, buffer, feeding, web>>
  BY DEF CaptureInv, CaptureTypeOK, CaptureEvent
<1>2. /\ capture \in [Slots -> Entries] /\ new \in Entries
      /\ capture' = [capture EXCEPT ![h] = new]
  BY <1>1 DEF CaptureInv, CaptureTypeOK, CaptureEvent, Entries
<1>3. RingInv'
  BY RingGoesOn DEF CaptureInv
<1>4. CaptureTypeOK'
  <2>1. capture' \in [Slots -> Entries]
    BY <1>1, <1>2
  <2>2. captureHead' \in Slots
    <3>1. captureHead' = (captureHead + 1) % RingSize /\ captureHead + 1 \in Int
      BY <1>1 DEF CaptureEvent, Slots
    <3> QED  BY <3>1, SlotOf
  <2>3. captureCount' \in 0..RingSize
    BY CaptureAssumption DEF CaptureEvent, CaptureInv, CaptureTypeOK
  <2>4. entry' \in [Sniffers -> [stage : {"none", "found", "checked"}, frame : Int]]
    <3>1. NoEntry \in [stage : {"none", "found", "checked"}, frame : Int]
      BY DEF NoEntry, Garbage
    <3> QED  BY <1>1, <3>1 DEF CaptureInv, CaptureTypeOK
  <2> QED  BY <1>1, <2>1, <2>2, <2>3, <2>4 DEF CaptureInv, CaptureTypeOK
<1>5. ListingInv'
  BY <1>1, ListingStays DEF CaptureInv
<1>6. \A p \in Slots : /\ capture[p].seq \in Nat /\ capture[p].seq <= captureSeq
                       /\ p # h => capture'[p] = capture[p]
  BY <1>1, <1>2 DEF CaptureInv, RingInv, Placed, Entries
<1>7. capture'[h].seq = captureSeq + 1 /\ capture'[h].from = s /\ capture'[h].frame = f
  BY <1>1, <1>2
<1> HIDE DEF h, new, f
<1>8. /\ Before(f, s) /\ passed[s].size # 0
      /\ f # Garbage => \A p \in Recorded(s) : capture[p].frame < f
  BY <1>1 DEF DirectionInv, f, NoEntry
<1>9. FramesInOrder'
  <2> SUFFICES ASSUME NEW i \in Slots, NEW j \in Slots,
                      capture'[i].seq > 0, capture'[j].seq > capture'[i].seq,
                      capture'[i].from = capture'[j].from,
                      capture'[i].frame # Garbage, capture'[j].frame # Garbage
               PROVE  capture'[i].frame < capture'[j].frame
    BY DEF FramesInOrder
  <2>1. i # h
    BY <1>1, <1>6, <1>7
  <2>2. CASE j = h
    <3>1. i \in Recorded(s)
      BY <1>6, <1>7, <2>1, <2>2 DEF Recorded
    <3> QED  BY <3>1, <1>6, <1>7, <1>8, <2>1, <2>2
  <2>3. CASE j # h
    BY <1>6, <2>1, <2>3 DEF CaptureInv, FramesInOrder
  <2> QED  BY <2>2, <2>3
<1>10. ASSUME NEW t \in Sniffers PROVE DirectionInv(t)'
  <2>1. \A x : Before(x, t)' <=> Before(x, t)
    BY <1>1 DEF Before
  <2>2. CASE t = s
    <3>1. entry'[s] = NoEntry /\ NoEntry.stage = "none"
      BY <1>1 DEF CaptureInv, CaptureTypeOK, NoEntry
    <3>2. ASSUME NEW p \in Recorded(s)' PROVE Before(capture[p].frame, s)'
      <4>1. CASE p = h
        BY <4>1, <1>7, <1>8, <1>1 DEF Before
      <4>2. CASE p # h
        <5>1. p \in Recorded(s) /\ capture'[p].frame = capture[p].frame
          BY <4>2, <1>6 DEF Recorded
        <5> QED  BY <5>1, <1>1 DEF DirectionInv, Before
      <4> QED  BY <4>1, <4>2
    <3> QED  BY <1>1, <1>8, <2>2, <3>1, <3>2 DEF DirectionInv
  <2>3. CASE t # s
    <3>1. \A p \in Recorded(t)' : p \in Recorded(t) /\ capture'[p].frame = capture[p].frame
      BY <2>3, <1>6, <1>7 DEF Recorded
    <3>2. entry'[t] = entry[t] /\ passed' = passed /\ buffer' = buffer /\ DirectionInv(t)
      BY <2>3, <1>1 DEF CaptureInv, CaptureTypeOK
    <3>3. ASSUME NEW p \in Recorded(t)' PROVE Before(capture[p].frame, t)'
      BY <3>1, <3>2 DEF DirectionInv, Before
    <3>4. Recorded(t) = {} => Recorded(t)' = {}
      BY <3>1
    <3>5. entry'[t].stage # "none" =>
            /\ Before(entry[t].frame, t)'
            /\ entry'[t].frame # Garbage =>
                 \A p \in Recorded(t)' : capture'[p].frame < entry'[t].frame
      BY <3>1, <3>2 DEF DirectionInv, Before
    <3> QED  BY <3>2, <3>3, <3>4, <3>5 DEF DirectionInv
  <2> QED  BY <2>2, <2>3
<1> QED  BY <1>3, <1>4, <1>5, <1>9, <1>10 DEF CaptureInv

LEMMA SniffersKeepCapture ==
  ASSUME CaptureInv, NEW s \in Sniffers, SnifferStep(s)
  PROVE  CaptureInv'
BY RequestKeeps, FeedKeeps, ParseKeeps, CheckKeeps, EventKeeps DEF SnifferStep

-----------------------------------------------------------------------------

LEMMA CaptureStarts == CaptureInit => CaptureInv
<1> SUFFICES ASSUME CaptureInit PROVE CaptureInv
  OBVIOUS
<1>1. 0 % RingSize = 0 /\ 0 < RingSize
  BY ModSmall, CaptureAssumption
<1>2. CaptureTypeOK
  <2>1. 0 \in Slots /\ 0 \in 0..RingSize /\ Blank \in Entries
    BY CaptureAssumption DEF Slots, Blank, Entries, Garbage
  <2>2. NoEntry \in [stage : {"none", "found", "checked"}, frame : Int] /\ <<>> \in Seq(TunnelParts)
    BY DEF NoEntry, Garbage
  <2> HIDE DEF NoEntry
  <2> QED  BY <2>1, <2>2 DEF CaptureInit, CaptureTypeOK
<1>3. \A p \in Slots : Placed(p, capture[p].seq) /\ capture[p].seq = 0
  BY CaptureAssumption DEF CaptureInit, Placed, Blank, Slots
<1>4. RingInv /\ FramesInOrder /\ \A s \in Sniffers : Recorded(s) = {}
  BY <1>1, <1>3 DEF CaptureInit, RingInv, FramesInOrder, Recorded
<1>5. ListingInv
  BY DEF CaptureInit, ListingInv, Idle
<1>6. \A s \in Sniffers : DirectionInv(s)
  <2> SUFFICES ASSUME NEW s \in Sniffers PROVE DirectionInv(s)
    OBVIOUS
  <2>1. /\ passed[s].size = 0 /\ passed[s].frame = 0 /\ entry[s] = NoEntry
        /\ buffer[s] = <<>> /\ Len(buffer[s]) = 0 /\ NoEntry.stage = "none"
    BY DEF CaptureInit, NoEntry
  <2> QED  BY <1>4, <2>1 DEF DirectionInv
<1> QED  BY <1>2, <1>4, <1>5, <1>6 DEF CaptureInv

LEMMA CaptureStutters == CaptureInv /\ UNCHANGED captureVars => CaptureInv'
<1> SUFFICES ASSUME CaptureInv, UNCHANGED captureVars PROVE CaptureInv'
  OBVIOUS
<1>1. CaptureTypeOK'
  BY DEF CaptureInv, CaptureTypeOK, captureVars, ring
<1>2. RingInv' /\ FramesInOrder' /\ ListingInv'
  BY RingStays, ListingStays DEF CaptureInv, CaptureTypeOK, captureVars, ring
<1>3. \A s \in Sniffers : DirectionInv(s)'
  BY DirectionStays DEF CaptureInv, captureVars
<1> QED  BY <1>1, <1>2, <1>3 DEF CaptureInv

LEMMA CaptureSteps == CaptureInv /\ [CaptureNext]_captureVars => CaptureInv'
BY WebKeepsCapture, SniffersKeepCapture, CaptureStutters DEF CaptureNext

(* Whatever the tasks and the web application do meanwhile, the capture's  *)
(* ring, counters and numbers agree (captureEvent, clearCapture,           *)
(* captureJson).                                                           *)
THEOREM CaptureInvariant == CaptureSpec => []CaptureInv
<1> QED  BY CaptureStarts, CaptureSteps, PTL DEF CaptureSpec

(* The ring holds the latest entries since it was cleared.                 *)
THEOREM RingAlwaysHoldsLatest == CaptureSpec => []RingHoldsLatest
<1>1. CaptureInv => RingHoldsLatest
  BY RingIsLatest DEF CaptureInv
<1> QED  BY <1>1, CaptureInvariant, PTL

(* A listing made while tasks go on recording has no blank entry and none  *)
(* twice (captureJson, which takes the lock for each entry anew).          *)
THEOREM ListingAlwaysKeepsPlaces == CaptureSpec => []ListingKeepsPlaces
<1>1. CaptureInv => ListingKeepsPlaces
  BY DEF CaptureInv, ListingInv, ListingKeepsPlaces, Keeps
<1> QED  BY <1>1, CaptureInvariant, PTL

(* The frames of a direction are recorded once and in their order, though  *)
(* a capture may be turned off and on between the parts of one.            *)
THEOREM FramesAlwaysInOrder == CaptureSpec => []FramesInOrder
<1>1. CaptureInv => FramesInOrder
  BY DEF CaptureInv
<1> QED  BY <1>1, CaptureInvariant, PTL

-----------------------------------------------------------------------------
(***************************************************************************)
(* The feedback.  While a sample is younger than the clock's span, its     *)
(* stamp and its age together are the clock, or the clock and one round.   *)
(***************************************************************************)

FeedbackTypeOK ==
  /\ millis \in 0..ClockSpan - 1
  /\ values \in [States -> [raw : Texts, valid : BOOLEAN, updatedMs : 0..ClockSpan - 1]]
  /\ said \in [States -> Texts \cup {NoText}]
  /\ age \in [States -> Nat]

(* The store has what the camera said, and the stamp tells its age while   *)
(* that is below the clock's span.                                         *)
SampleInv(s) ==
  /\ values[s].valid <=> said[s] # NoText
  /\ said[s] # NoText =>
       /\ values[s].raw = said[s]
       /\ age[s] < ClockSpan =>
            \/ values[s].updatedMs + age[s] = millis
            \/ values[s].updatedMs + age[s] = millis + ClockSpan

FeedbackInv == FeedbackTypeOK /\ \A s \in States : SampleInv(s)

LEMMA SpanIsPositive == ClockSpan \in Nat \ {0} /\ FreshMs \in Nat /\ Horizon \in Nat
BY FeedbackAssumption

LEMMA FeedbackStarts == FeedbackInit => FeedbackInv
<1> SUFFICES ASSUME FeedbackInit PROVE FeedbackInv
  OBVIOUS
<1>1. FeedbackTypeOK
  <2>1. Unset \in [raw : Texts, valid : BOOLEAN, updatedMs : 0..ClockSpan - 1]
    BY SpanIsPositive DEF Unset, Texts, Empty
  <2> QED  BY <2>1, SpanIsPositive DEF FeedbackInit, FeedbackTypeOK
<1>2. \A s \in States : SampleInv(s)
  BY DEF FeedbackInit, SampleInv, Unset
<1> QED  BY <1>1, <1>2 DEF FeedbackInv

LEMMA TimeKeepsFeedback == FeedbackInv /\ TimePasses => FeedbackInv'
<1> SUFFICES ASSUME FeedbackInv, TimePasses PROVE FeedbackInv'
  OBVIOUS
<1>1. millis \in 0..ClockSpan - 1 /\ ClockSpan \in Nat \ {0} /\ age \in [States -> Nat]
  BY SpanIsPositive DEF FeedbackInv, FeedbackTypeOK
<1>2. millis' = IF millis = ClockSpan - 1 THEN 0 ELSE millis + 1
  <2>1. (millis + 1) % ClockSpan
          = IF millis % ClockSpan = ClockSpan - 1 THEN 0 ELSE (millis % ClockSpan) + 1
    BY <1>1, ModSucc, millis \in Int
  <2>2. millis % ClockSpan = millis
    BY <1>1, ModSmall
  <2> QED  BY <2>1, <2>2 DEF TimePasses
<1>3. FeedbackTypeOK'
  <2>1. age' \in [States -> Nat]
    BY <1>1 DEF TimePasses, Longer
  <2> QED  BY <1>1, <1>2, <2>1 DEF FeedbackInv, FeedbackTypeOK, TimePasses
<1>4. ASSUME NEW s \in States PROVE SampleInv(s)'
  <2>1. /\ values' = values /\ said' = said /\ SampleInv(s) /\ age[s] \in Nat
        /\ values[s].updatedMs \in 0..ClockSpan - 1
        /\ age'[s] = Longer(age[s])
    BY DEF TimePasses, FeedbackInv, FeedbackTypeOK
  <2>2. age'[s] < ClockSpan => age'[s] = age[s] + 1 /\ age[s] < ClockSpan
    BY <2>1, FeedbackAssumption DEF Longer
  <2> DEFINE u == values[s].updatedMs
             a == age[s]
  <2>3. u \in 0..ClockSpan - 1 /\ a \in Nat
    BY <2>1
  <2>4. ASSUME said[s] # NoText, age'[s] < ClockSpan
        PROVE  u + age'[s] = millis' \/ u + age'[s] = millis' + ClockSpan
    <3>1. u + a = millis \/ u + a = millis + ClockSpan
      BY <2>1, <2>2, <2>4 DEF SampleInv
    <3>2. age'[s] = a + 1 /\ a + 1 < ClockSpan
      BY <2>2, <2>4
    <3> HIDE DEF u, a
    <3>3. u + (a + 1) = millis' \/ u + (a + 1) = millis' + ClockSpan
      BY <1>1, <1>2, <2>3, <3>1, <3>2
    <3> QED  BY <3>2, <3>3
  <2> QED  BY <2>1, <2>4 DEF SampleInv
<1> QED  BY <1>3, <1>4 DEF FeedbackInv

(* A text that is stored as it is said is new and true.                    *)
LEMMA SaidIsStored ==
  ASSUME FeedbackInv, NEW told, DOMAIN told \subseteq States,
         \A s \in DOMAIN told : told[s] \in Texts,
         SetStates(told), Says(told), UNCHANGED millis
  PROVE  FeedbackInv'
<1>1. NoText \notin Texts
  BY DEF NoText, Texts, Empty
<1>2. millis \in 0..ClockSpan - 1 /\ ClockSpan \in Nat
  BY SpanIsPositive DEF FeedbackInv, FeedbackTypeOK
<1>3. ASSUME NEW s \in States
      PROVE  /\ s \in DOMAIN told =>
                  /\ values'[s] = [raw |-> told[s], valid |-> TRUE, updatedMs |-> millis]
                  /\ said'[s] = told[s] /\ age'[s] = 0 /\ told[s] \in Texts
             /\ s \notin DOMAIN told =>
                  values'[s] = values[s] /\ said'[s] = said[s] /\ age'[s] = age[s]
  BY DEF SetStates, Says
<1>4. FeedbackTypeOK'
  <2>1. \A s \in States :
          /\ values'[s] \in [raw : Texts, valid : BOOLEAN, updatedMs : 0..ClockSpan - 1]
          /\ said'[s] \in Texts \cup {NoText} /\ age'[s] \in Nat
    <3> SUFFICES ASSUME NEW s \in States
                 PROVE  /\ values'[s] \in
                             [raw : Texts, valid : BOOLEAN, updatedMs : 0..ClockSpan - 1]
                        /\ said'[s] \in Texts \cup {NoText} /\ age'[s] \in Nat
      OBVIOUS
    <3>1. CASE s \in DOMAIN told
      <4>1. /\ values'[s] = [raw |-> told[s], valid |-> TRUE, updatedMs |-> millis]
            /\ said'[s] = told[s] /\ age'[s] = 0 /\ told[s] \in Texts
        BY <3>1, <1>3
      <4>2. \A x \in Texts : [raw |-> x, valid |-> TRUE, updatedMs |-> millis]
                              \in [raw : Texts, valid : BOOLEAN, updatedMs : 0..ClockSpan - 1]
        BY <1>2
      <4>3. values'[s] \in [raw : Texts, valid : BOOLEAN, updatedMs : 0..ClockSpan - 1]
        BY <4>1, <4>2, Zenon
      <4>4. said'[s] \in Texts \cup {NoText} /\ age'[s] \in Nat
        BY <4>1
      <4> QED  BY <4>3, <4>4
    <3>2. CASE s \notin DOMAIN told
      BY <3>2, <1>3 DEF FeedbackInv, FeedbackTypeOK
    <3> QED  BY <3>1, <3>2
  <2>2. /\ values' = [s \in States |-> values'[s]] /\ said' = [s \in States |-> said'[s]]
        /\ age' = [s \in States |-> age'[s]]
    BY DEF SetStates, Says
  <2> QED  BY <2>1, <2>2, <1>2 DEF FeedbackTypeOK
<1>5. ASSUME NEW s \in States PROVE SampleInv(s)'
  <2>1. CASE s \in DOMAIN told
    <3>1. /\ values'[s] = [raw |-> told[s], valid |-> TRUE, updatedMs |-> millis]
          /\ said'[s] = told[s] /\ age'[s] = 0 /\ told[s] \in Texts
      BY <2>1, <1>3
    <3>2. values'[s].raw = told[s] /\ values'[s].valid = TRUE /\ values'[s].updatedMs = millis
      BY <3>1
    <3>3. said'[s] # NoText /\ values'[s].raw = said'[s]
      BY <3>1, <3>2, <1>1
    <3>4. values'[s].updatedMs + age'[s] = millis'
      BY <3>1, <3>2, <1>2
    <3> QED  BY <3>2, <3>3, <3>4 DEF SampleInv
  <2>2. CASE s \notin DOMAIN told
    BY <2>2, <1>3 DEF SampleInv, FeedbackInv
  <2> QED  BY <2>1, <2>2
<1> QED  BY <1>4, <1>5 DEF FeedbackInv

LEMMA ToldAreTexts ==
  ASSUME NEW source, NEW r \in Responses
  PROVE  /\ DOMAIN Told(source, r) \subseteq States
         /\ \A s \in DOMAIN Told(source, r) : Told(source, r)[s] \in Texts
<1>1. ASSUME NEW s \in States, Extract(Rule[s], r) # NoText
      PROVE  Normalize(Rule[s], Extract(Rule[s], r)) \in Texts
  <2>1. r.part[Rule[s].mode] \in Texts \cup {NoText}
    BY FeedbackAssumption
  <2>2. Extract(Rule[s], r) \in Texts
    BY <1>1, <2>1 DEF Extract
  <2>3. "true" \in Texts /\ "false" \in Texts
    BY DEF Texts
  <2> QED  BY <2>2, <2>3 DEF Normalize
<1> QED  BY <1>1 DEF Told

(* A step that neither stores nor says anything.                           *)
LEMMA SilenceKeepsFeedback ==
  ASSUME FeedbackInv, UNCHANGED <<millis, values>>,
         said' = [s \in States |-> said[s]], age' = [s \in States |-> age[s]]
  PROVE  FeedbackInv'
<1>1. said' = said /\ age' = age
  BY DEF FeedbackInv, FeedbackTypeOK
<1> QED  BY <1>1 DEF FeedbackInv, FeedbackTypeOK, SampleInv

LEMMA PollKeepsFeedback ==
  ASSUME FeedbackInv, NEW source, NEW r \in Responses, PollAnswered(source, r)
  PROVE  FeedbackInv'
<1> DEFINE told == Told(source, r)
<1>1. UNCHANGED millis
  BY DEF PollAnswered
<1>2. CASE r.transportOk /\ r.httpStatus \in 200..299
  <2>1. SetStates(told) /\ Says(told)
    BY <1>2 DEF PollAnswered, Accepted
  <2> QED  BY <1>1, <2>1, SaidIsStored, ToldAreTexts
<1>3. CASE ~(r.transportOk /\ r.httpStatus \in 200..299)
  <2>1. values' = values /\ Says(<<>>)
    BY <1>3 DEF PollAnswered, Accepted
  <2>2. DOMAIN <<>> = {}
    OBVIOUS
  <2> QED  BY <1>1, <2>1, <2>2, SilenceKeepsFeedback DEF Says
<1> QED  BY <1>2, <1>3

LEMMA FeedbackSteps == FeedbackInv /\ [FeedbackNext]_feedbackVars => FeedbackInv'
<1> SUFFICES ASSUME FeedbackInv, [FeedbackNext]_feedbackVars PROVE FeedbackInv'
  OBVIOUS
<1>1. CASE TimePasses
  BY <1>1, TimeKeepsFeedback
<1>2. CASE Contacted \/ UNCHANGED feedbackVars
  BY <1>2 DEF Contacted, feedbackVars, FeedbackInv, FeedbackTypeOK, SampleInv
<1>3. ASSUME NEW s \in States, NEW r \in Responses, PollAnswered(Rule[s].source, r)
      PROVE  FeedbackInv'
  BY <1>3, PollKeepsFeedback
<1>4. ASSUME NEW p \in DOMAIN Properties, NEW t \in DOMAIN Properties[p], MergeProperties(p, t)
      PROVE  FeedbackInv'
  <2> DEFINE told == Properties[p][t]
  <2>1. DOMAIN told \subseteq States /\ \A s \in DOMAIN told : told[s] \in Texts
    BY FeedbackAssumption
  <2>2. SetStates(told) /\ Says(told) /\ UNCHANGED millis
    BY <1>4 DEF MergeProperties
  <2> HIDE DEF told
  <2> QED  BY <2>1, <2>2, SaidIsStored
<1> QED  BY <1>1, <1>2, <1>3, <1>4 DEF FeedbackNext

(* The difference of the stamp and the clock is the age.                   *)
LEMMA AgeIsKnown ==
  ASSUME FeedbackInv, NEW s \in States, said[s] # NoText, age[s] < ClockSpan
  PROVE  Since(values[s].updatedMs) = age[s]
<1> DEFINE u == values[s].updatedMs
           a == age[s]
<1>1. /\ u \in 0..ClockSpan - 1 /\ a \in 0..ClockSpan - 1 /\ millis \in 0..ClockSpan - 1
      /\ ClockSpan \in Nat \ {0}
      /\ u + a = millis \/ u + a = millis + ClockSpan
  BY SpanIsPositive DEF FeedbackInv, FeedbackTypeOK, SampleInv
<1> HIDE DEF u, a
<1>2. a % ClockSpan = a
  BY <1>1, ModSmall
<1>3. (a + ClockSpan) % ClockSpan = a % ClockSpan
  BY <1>1, ModPlus, a \in Int
<1>4. millis + ClockSpan - u = a \/ millis + ClockSpan - u = a + ClockSpan
  BY <1>1
<1>5. (millis + ClockSpan - u) % ClockSpan = a
  BY <1>2, <1>3, <1>4
<1> QED  BY <1>5 DEF Since, u, a

(* The slots, the status and GET show a state exactly while what the       *)
(* camera said of it is recent, across the wrap-around of millis(), until  *)
(* a sample is as old as the clock's span.                                 *)
THEOREM FeedbackAlwaysCurrent == FeedbackSpec => []FeedbackIsCurrent
<1>1. FeedbackInv => FeedbackIsCurrent
  <2> SUFFICES ASSUME FeedbackInv, NEW s \in States, age[s] < ClockSpan \/ said[s] = NoText
               PROVE  /\ GetValue(s) = IF Known(s) THEN {said[s]} ELSE {}
                      /\ \A kind \in Kinds :
                           FeedbackSlot(kind, s) = IF Known(s) THEN Parsed(kind, said[s]) ELSE {}
                      /\ \A b \in FeedbackSlot("Bool", s) : StatusBool(s) = {b}
    BY DEF FeedbackIsCurrent
  <2>1. IsFresh(s) <=> Known(s)
    <3>1. CASE said[s] = NoText
      BY <3>1 DEF IsFresh, Known, FeedbackInv, SampleInv
    <3>2. CASE said[s] # NoText
      <4>1. values[s].valid /\ Since(values[s].updatedMs) = age[s]
        BY <3>2, AgeIsKnown DEF FeedbackInv, SampleInv
      <4> QED  BY <3>2, <4>1 DEF IsFresh, Known
    <3> QED  BY <3>1, <3>2
  <2>2. Known(s) => values[s].raw = said[s]
    BY DEF Known, FeedbackInv, SampleInv
  <2>3. \A kind \in Kinds : Parsed(kind, Empty) = {}
    BY DEF Kinds, Parsed, ParseBool, ParseNumber, Empty
  <2>4. SourceText(s) = IF Known(s) THEN said[s] ELSE Empty
    BY <2>1, <2>2 DEF SourceText
  <2>5. \A kind \in Kinds :
          FeedbackSlot(kind, s) = IF Known(s) THEN Parsed(kind, said[s]) ELSE {}
    BY <2>3, <2>4 DEF FeedbackSlot
  <2>6. ASSUME NEW b \in FeedbackSlot("Bool", s) PROVE StatusBool(s) = {b}
    <3>1. "Bool" \in Kinds
      BY DEF Kinds
    <3>2. Known(s) /\ b \in Parsed("Bool", said[s])
      BY <3>1, <2>5, <2>6
    <3>3. b \in ParseBool(said[s])
      BY <3>2 DEF Parsed
    <3>4. b = TextIsTrue(said[s])
      <4>1. CASE said[s] = "true"
        BY <4>1, <3>3 DEF ParseBool, TextIsTrue
      <4>2. CASE said[s] # "true"
        <5>1. said[s] \in {"false", "idle"} /\ b = FALSE
          BY <4>2, <3>3 DEF ParseBool
        <5>2. TextIsTrue(said[s]) <=> FALSE
          BY <5>1 DEF TextIsTrue
        <5>3. TextIsTrue(said[s]) \in BOOLEAN
          BY DEF TextIsTrue
        <5> QED  BY <5>1, <5>2, <5>3
      <4> QED  BY <4>1, <4>2
    <3> QED  BY <3>2, <3>4, <2>1, <2>2 DEF StatusBool
  <2> QED  BY <2>1, <2>2, <2>5, <2>6 DEF GetValue
<1> QED  BY <1>1, FeedbackStarts, FeedbackSteps, PTL DEF FeedbackSpec

-----------------------------------------------------------------------------
(***************************************************************************)
(* The telemetry schedule, for any number of sources.  That each is polled *)
(* again and again is beyond a proof without fairness, but it rests on a   *)
(* fact of safety: of the sources that fail at the full delay, none goes   *)
(* twice ahead of one that is due.  Who has gone ahead is due again only   *)
(* after that delay, and until then there is time for all others to fail   *)
(* as well.                                                                *)
(***************************************************************************)

FullDelay(i) == AtMost(interval[i] * MaxMultiplier, MaxDelay)

ScheduleTypeOK ==
  /\ enabled \subseteq Sources
  /\ interval \in [Sources -> Intervals]
  /\ due \in [Sources -> Nat]
  /\ multiplier \in [Sources -> Nat \ {0}]
  /\ ahead \in [Sources -> SUBSET Sources]

(* One that has gone ahead of a source is before it, and waits for what is *)
(* left of its delay after the polls of the others that did.               *)
AheadInv ==
  /\ \A i \in Sources \ Due : ahead[i] = {}
  /\ \A i \in Due :
       /\ ahead[i] \subseteq 1..i - 1
       /\ \A j \in ahead[i] :
            FullDelay(j) <= due[j] + (Cardinality(ahead[i]) - 1) * FailLimit + RestLimit

ScheduleInv == ScheduleTypeOK /\ AheadInv

LEMMA IntervalIs ==
  ASSUME ScheduleTypeOK, NEW i \in Sources
  PROVE  interval[i] \in Intervals /\ interval[i] \in Nat /\ interval[i] \in 1..MaxDelay
<1>1. interval[i] \in Intervals
  BY DEF ScheduleTypeOK
<1>2. Intervals \subseteq 1..MaxDelay /\ MaxDelay \in Nat
  BY ScheduleAssumption
<1>3. interval[i] \in 1..MaxDelay
  BY <1>1, <1>2
<1> QED  BY <1>1, <1>2, <1>3

(* The delay is a number, whatever the answer and the failures before it.  *)
LEMMA DelayIs ==
  ASSUME ScheduleTypeOK, NEW i \in Sources, NEW succeeds \in BOOLEAN, NEW times \in Nat \ {0}
  PROVE  NextDelay(i, succeeds, times) \in Nat
<1>1. interval[i] \in Nat /\ MaxDelay \in Nat
  BY IntervalIs, ScheduleAssumption
<1> DEFINE n == interval[i] * times
<1>2. n \in Nat
  BY <1>1
<1> HIDE DEF n
<1>3. AtMost(n, MaxDelay) \in Nat
  BY <1>1, <1>2 DEF AtMost
<1> QED  BY <1>1, <1>3 DEF NextDelay, n

LEMMA FullDelayIs ==
  ASSUME ScheduleTypeOK, NEW i \in Sources
  PROVE  FullDelay(i) \in Nat /\ FullDelay(i) > (SourceCount - 2) * FailLimit + RestLimit
<1>1. interval[i] \in Intervals /\ interval[i] \in Nat
  BY IntervalIs
<1> DEFINE n == interval[i] * MaxMultiplier
<1>2. n \in Nat /\ MaxDelay \in Nat
  BY <1>1, ScheduleAssumption
<1>3. AtMost(n, MaxDelay) > (SourceCount - 2) * FailLimit + RestLimit
  BY <1>1, BackoffAssumption
<1> HIDE DEF n
<1>4. AtMost(n, MaxDelay) \in Nat
  BY <1>2 DEF AtMost
<1> QED  BY <1>3, <1>4 DEF FullDelay, n

(* Those before a source in the table are fewer than its place.            *)
LEMMA AheadIsFew ==
  ASSUME NEW i \in Sources, NEW s, s \subseteq 1..i - 1
  PROVE  IsFiniteSet(s) /\ Cardinality(s) \in Nat /\ Cardinality(s) <= i - 1
<1>1. i - 1 \in Nat /\ 1 \in Int /\ i - 1 \in Int
  BY ScheduleAssumption DEF Sources
<1>2. IsFiniteSet(1..i - 1) /\ Cardinality(1..i - 1) = i - 1
  <2>1. Cardinality(1..i - 1) = IF 1 > i - 1 THEN 0 ELSE i - 1 - 1 + 1
    BY <1>1, FS_Interval
  <2> QED  BY <1>1, <2>1, FS_Interval
<1>3. IsFiniteSet(s) /\ Cardinality(s) <= Cardinality(1..i - 1)
  BY <1>2, FS_Subset
<1> QED  BY <1>2, <1>3, FS_CardinalityType

LEMMA RoomIs ==
  ASSUME NEW n \in Nat
  PROVE  /\ n * FailLimit \in Nat
         /\ (n + 1 - 1) * FailLimit = n * FailLimit
         /\ n # 0 => (n - 1) * FailLimit + FailLimit = n * FailLimit
BY BackoffAssumption

(* What a poll does to the table.                                          *)
LEMMA PollOf ==
  ASSUME ScheduleTypeOK, NEW i \in Sources, Poll(i)
  PROVE  /\ ScheduleTypeOK'
         /\ i \in Due /\ \A j \in Due : i <= j
         /\ enabled' = enabled /\ interval' = interval
         /\ \A j \in Sources \ {i} : due[j] = 0 => due'[j] = 0
<1>1. PICK succeeds \in BOOLEAN, time \in AnswerTimes \cup FailTimes, pause \in PassTimes :
        PollEnds(i, succeeds, time, pause)
  BY DEF Poll
<1>2. /\ multiplier' = [multiplier EXCEPT ![i] = Multiplier(i, succeeds)]
      /\ due' = [j \in Sources |->
                   IF j = i THEN Later(NextDelay(i, succeeds, multiplier'[i]), pause)
                   ELSE Later(due[j], time + pause)]
      /\ ahead' = [j \in Sources |->
                     IF j \in Due \ {i} /\ ~succeeds /\ multiplier'[i] = MaxMultiplier
                     THEN ahead[j] \cup {i} ELSE {}]
  BY <1>1 DEF PollEnds
<1>3. multiplier' \in [Sources -> Nat \ {0}]
  <2>1. multiplier[i] \in Nat \ {0} /\ MaxMultiplier \in Nat \ {0}
    BY ScheduleAssumption DEF ScheduleTypeOK
  <2>2. Multiplier(i, succeeds) \in Nat \ {0}
    BY <2>1 DEF Multiplier, AtMost
  <2> QED  BY <1>2, <2>2 DEF ScheduleTypeOK
<1> DEFINE delay == NextDelay(i, succeeds, multiplier'[i])
<1>4. delay \in Nat
  BY <1>3, DelayIs
<1>5. time \in Nat /\ pause \in Nat
  BY ScheduleAssumption
<1>6. /\ due'[i] = Later(delay, pause)
      /\ \A j \in Sources \ {i} : due'[j] = Later(due[j], time + pause)
  BY <1>2
<1> HIDE DEF delay
<1>7. due'[i] \in Nat
  BY <1>4, <1>5, <1>6 DEF Later
<1>8. ASSUME NEW j \in Sources \ {i}
      PROVE  due'[j] \in Nat /\ (due[j] = 0 => due'[j] = 0)
  <2>1. due[j] \in Nat
    BY DEF ScheduleTypeOK
  <2> QED  BY <1>5, <1>6, <2>1 DEF Later
<1>9. due' \in [Sources -> Nat]
  <2>1. DOMAIN due' = Sources /\ due' = [j \in Sources |-> due'[j]]
    BY <1>2
  <2>2. \A j \in Sources : due'[j] \in Nat
    BY <1>7, <1>8
  <2> QED  BY <2>1, <2>2
<1>10. /\ i \in Due /\ \A j \in Due : i <= j
       /\ enabled' = enabled /\ interval' = interval
  BY DEF Poll
<1>11. ahead' \in [Sources -> SUBSET Sources]
  <2>1. \A j \in Sources : ahead[j] \cup {i} \in SUBSET Sources
    BY DEF ScheduleTypeOK
  <2> QED  BY <1>2, <2>1
<1>12. ScheduleTypeOK'
  BY <1>3, <1>9, <1>10, <1>11 DEF ScheduleTypeOK
<1> QED  BY <1>8, <1>10, <1>12

(* Only a failure at the full delay adds to those that went ahead; it      *)
(* brings the others closer by the length of its pass.                     *)
LEMMA PollAhead ==
  ASSUME ScheduleTypeOK, NEW i \in Sources, Poll(i)
  PROVE  \/ ahead' = [j \in Sources |-> {}]
         \/ /\ ahead' = [j \in Sources |-> IF j \in Due \ {i} THEN ahead[j] \cup {i} ELSE {}]
            /\ due'[i] + RestLimit >= FullDelay(i)
            /\ \A j \in Sources \ {i} : due'[j] + FailLimit >= due[j]
<1>1. PICK pause \in PassTimes :
        \/ \E time \in AnswerTimes : PollEnds(i, TRUE, time, pause)
        \/ \E time \in FailTimes : PollEnds(i, FALSE, time, pause)
  BY DEF Poll
<1>2. CASE \E time \in AnswerTimes : PollEnds(i, TRUE, time, pause)
  BY <1>2 DEF PollEnds
<1>3. ASSUME NEW time \in FailTimes, PollEnds(i, FALSE, time, pause)
      PROVE  \/ ahead' = [j \in Sources |-> {}]
             \/ /\ ahead' = [j \in Sources |-> IF j \in Due \ {i} THEN ahead[j] \cup {i} ELSE {}]
                /\ due'[i] + RestLimit >= FullDelay(i)
                /\ \A j \in Sources \ {i} : due'[j] + FailLimit >= due[j]
  <2>1. CASE multiplier'[i] # MaxMultiplier
    BY <1>3, <2>1 DEF PollEnds
  <2>2. CASE multiplier'[i] = MaxMultiplier
    <3>1. ahead' = [j \in Sources |-> IF j \in Due \ {i} THEN ahead[j] \cup {i} ELSE {}]
      BY <1>3, <2>2 DEF PollEnds
    <3>2. time \in FailTimes /\ time \in Nat /\ pause \in Nat
      BY ScheduleAssumption
    <3>3. time + pause <= FailLimit /\ pause <= RestLimit /\ FailLimit \in Nat /\ RestLimit \in Nat
      BY <3>2, BackoffAssumption
    <3>4. due'[i] = Later(FullDelay(i), pause) /\ FullDelay(i) \in Nat
      <4>1. NextDelay(i, FALSE, multiplier'[i]) = FullDelay(i)
        BY <2>2 DEF NextDelay, FullDelay
      <4> QED  BY <1>3, <4>1, FullDelayIs DEF PollEnds
    <3>5. due'[i] + RestLimit >= FullDelay(i)
      BY <3>2, <3>3, <3>4 DEF Later
    <3>6. ASSUME NEW j \in Sources \ {i} PROVE due'[j] + FailLimit >= due[j]
      <4>1. due[j] \in Nat /\ due'[j] = Later(due[j], time + pause)
        BY <1>3 DEF ScheduleTypeOK, PollEnds
      <4> QED  BY <3>2, <3>3, <4>1 DEF Later
    <3> QED  BY <3>1, <3>5, <3>6
  <2> QED  BY <2>1, <2>2
<1> QED  BY <1>1, <1>2, <1>3

(* What has gone ahead cannot be due again: too little time has passed.    *)
LEMMA NotYetDue ==
  ASSUME ScheduleInv, NEW i \in Due, NEW j \in ahead[i]
  PROVE  due[j] # 0
<1> SUFFICES ASSUME due[j] = 0 PROVE FALSE
  OBVIOUS
<1> DEFINE n == Cardinality(ahead[i])
<1>1. i \in Sources /\ j \in Sources /\ ahead[i] \subseteq 1..i - 1
  BY DEF ScheduleInv, ScheduleTypeOK, AheadInv, Due
<1>2. n \in Nat /\ n <= i - 1 /\ i <= SourceCount /\ i \in Nat /\ SourceCount \in Nat
  BY <1>1, AheadIsFew, ScheduleAssumption DEF Sources
<1>3. n - 1 <= SourceCount - 2
  BY <1>2
<1>4. FullDelay(j) <= due[j] + (n - 1) * FailLimit + RestLimit
  BY DEF ScheduleInv, AheadInv
<1>5. FullDelay(j) > (SourceCount - 2) * FailLimit + RestLimit /\ FullDelay(j) \in Nat
  BY <1>1, FullDelayIs DEF ScheduleInv
<1>6. FailLimit \in Nat /\ RestLimit \in Nat
  BY BackoffAssumption
<1> HIDE DEF n
<1>7. (n - 1) * FailLimit <= (SourceCount - 2) * FailLimit
  BY <1>2, <1>3, <1>6
<1>8. (n - 1) * FailLimit \in Int /\ (SourceCount - 2) * FailLimit \in Int
  BY <1>2, <1>6
<1> QED  BY <1>4, <1>5, <1>6, <1>7, <1>8

LEMMA NobodyAhead ==
  ASSUME ScheduleTypeOK', \A i \in Sources : ahead'[i] = {}
  PROVE  AheadInv'
<1>1. Due' \subseteq Sources
  BY DEF Due, ScheduleTypeOK
<1>2. \A i \in Due' : ahead'[i] = {}
  BY <1>1
<1> QED  BY <1>2 DEF AheadInv

LEMMA PollKeepsAhead ==
  ASSUME ScheduleInv, NEW p \in Sources, Poll(p)
  PROVE  AheadInv'
<1>1. /\ ScheduleTypeOK'
      /\ p \in Due /\ \A j \in Due : p <= j
      /\ enabled' = enabled /\ interval' = interval
      /\ \A j \in Sources \ {p} : due[j] = 0 => due'[j] = 0
  BY PollOf DEF ScheduleInv
<1>b. CASE ahead' = [j \in Sources |-> {}]
  BY <1>1, <1>b, NobodyAhead
<1>c. SUFFICES ASSUME /\ ahead' = [j \in Sources |-> IF j \in Due \ {p} THEN ahead[j] \cup {p} ELSE {}]
                      /\ due'[p] + RestLimit >= FullDelay(p)
                      /\ \A j \in Sources \ {p} : due'[j] + FailLimit >= due[j]
               PROVE  AheadInv'
  BY <1>b, PollAhead DEF ScheduleInv
<1>d. \A j \in Sources : FullDelay(j)' = FullDelay(j)
  BY <1>1 DEF FullDelay
<1>a. ASSUME NEW i \in Sources, i \notin Due'
      PROVE  ahead'[i] = {}
  <2>1. i \notin Due \ {p}
    <3> SUFFICES ASSUME i \in Due, i # p PROVE FALSE
      OBVIOUS
    <3>1. i \in enabled /\ due[i] = 0
      BY DEF Due
    <3>2. due'[i] = 0
      BY <1>1, <1>a, <3>1
    <3> QED  BY <1>1, <1>a, <3>1, <3>2 DEF Due
  <2> QED  BY <1>c, <1>a, <2>1
<1> SUFFICES ASSUME NEW i \in Due'
             PROVE  /\ ahead'[i] \subseteq 1..i - 1
                    /\ \A j \in ahead'[i] :
                         FullDelay(j)' <= due'[j] + (Cardinality(ahead'[i]) - 1) * FailLimit + RestLimit
  BY <1>a DEF AheadInv
<1>2. i \in Sources
  BY <1>1 DEF Due, ScheduleInv, ScheduleTypeOK
<1>3. CASE i \notin Due \ {p}
  <2>1. ahead'[i] = {}
    BY <1>c, <1>2, <1>3
  <2> QED  BY <2>1
<1>4. CASE i \in Due \ {p}
  <2>1. ahead'[i] = ahead[i] \cup {p}
    BY <1>c, <1>2, <1>4
  <2>2. ahead[i] \subseteq 1..i - 1 /\ p \in 1..i - 1
    <3>1. p < i /\ p \in Nat /\ p >= 1
      BY <1>1, <1>2, <1>4, ScheduleAssumption DEF Sources
    <3> QED  BY <1>2, <1>4, <3>1, ScheduleAssumption DEF ScheduleInv, AheadInv, Sources
  <2>3. p \notin ahead[i]
    <3>1. due[p] = 0
      BY <1>1 DEF Due
    <3> QED  BY <1>4, <3>1, NotYetDue
  <2> DEFINE n == Cardinality(ahead[i])
  <2>4. IsFiniteSet(ahead[i]) /\ n \in Nat
    BY <1>2, <2>2, AheadIsFew
  <2>5. Cardinality(ahead'[i]) = n + 1
    BY <2>1, <2>3, <2>4, FS_AddElement
  <2>6. ASSUME NEW j \in ahead'[i]
        PROVE  FullDelay(j)' <= due'[j] + (Cardinality(ahead'[i]) - 1) * FailLimit + RestLimit
    <3>1. /\ j \in Sources /\ due'[j] \in Nat /\ due[j] \in Nat /\ FullDelay(j) \in Nat
          /\ FailLimit \in Nat /\ RestLimit \in Nat
      <4>1. j \in Sources
        BY <1>1, <1>2 DEF ScheduleTypeOK
      <4>2. FullDelay(j) \in Nat /\ FailLimit \in Nat /\ RestLimit \in Nat
        BY <4>1, FullDelayIs, BackoffAssumption DEF ScheduleInv
      <4> QED  BY <1>1, <4>1, <4>2 DEF ScheduleInv, ScheduleTypeOK
    <3>2. n * FailLimit \in Nat /\ Cardinality(ahead'[i]) - 1 = n
      <4>1. Cardinality(ahead'[i]) - 1 = n
        <5> HIDE DEF n
        <5> QED  BY <2>4, <2>5
      <4> QED  BY <2>4, <4>1, RoomIs
    <3>0. SUFFICES FullDelay(j) <= due'[j] + n * FailLimit + RestLimit
      <4> HIDE DEF n
      <4> QED  BY <1>d, <3>1, <3>2
    <3>3. CASE j = p
      <4> HIDE DEF n
      <4> QED  BY <1>c, <3>1, <3>2, <3>3
    <3>4. CASE j # p
      <4>1. j \in ahead[i]
        BY <2>1, <3>4
      <4>2. FullDelay(j) <= due[j] + (n - 1) * FailLimit + RestLimit
        BY <1>4, <4>1 DEF ScheduleInv, AheadInv
      <4>3. n # 0
        BY <2>4, <4>1, FS_EmptySet
      <4>4. (n - 1) * FailLimit + FailLimit = n * FailLimit /\ (n - 1) * FailLimit \in Nat
        <5> HIDE DEF n
        <5>1. n - 1 \in Nat
          BY <2>4, <4>3
        <5> QED  BY <2>4, <4>3, <5>1, RoomIs
      <4>5. due'[j] + FailLimit >= due[j]
        BY <1>c, <3>1, <3>4
      <4> HIDE DEF n
      <4> QED  BY <3>1, <3>2, <4>2, <4>4, <4>5
    <3> QED  BY <3>3, <3>4
  <2>7. ahead'[i] \subseteq 1..i - 1
    BY <2>1, <2>2
  <2> QED  BY <2>6, <2>7
<1> QED  BY <1>3, <1>4

(* What the time since a source failed leaves of its delay is              *)
(* inductive (TelemetryManager::loop, poll, reload).                       *)
THEOREM ScheduleInvariant ==
  ScheduleSpec => []ScheduleInv
<1>1. ScheduleInit => ScheduleInv
  <2> SUFFICES ASSUME ScheduleInit PROVE ScheduleInv
    OBVIOUS
  <2>1. ScheduleTypeOK
    BY ScheduleAssumption DEF ScheduleInit, ScheduleTypeOK
  <2>2. AheadInv
    BY <2>1 DEF ScheduleInit, AheadInv, Due, ScheduleTypeOK
  <2> QED  BY <2>1, <2>2 DEF ScheduleInv
<1>2. ASSUME ScheduleInv, [ScheduleNext]_scheduleVars
      PROVE  ScheduleInv'
  <2>1. CASE QuietPass
    <3>1. PICK pause \in PassTimes : due' = [i \in Sources |-> Later(due[i], pause)]
      BY <2>1 DEF QuietPass
    <3>2. due' \in [Sources -> Nat]
      <4>1. ASSUME NEW i \in Sources PROVE Later(due[i], pause) \in Nat
        BY <1>2, ScheduleAssumption DEF Later, ScheduleInv, ScheduleTypeOK
      <4> QED  BY <3>1, <4>1
    <3>3. ScheduleTypeOK'
      BY <1>2, <2>1, <3>2 DEF QuietPass, ScheduleInv, ScheduleTypeOK
    <3>4. ahead' = ahead /\ \A i \in Sources : ahead[i] = {}
      BY <1>2, <2>1 DEF QuietPass, ScheduleInv, AheadInv
    <3>5. AheadInv'
      BY <3>3, <3>4, NobodyAhead
    <3> QED  BY <3>3, <3>5 DEF ScheduleInv
  <2>2. ASSUME NEW i \in Sources, Poll(i)
        PROVE  ScheduleInv'
    <3>1. ScheduleTypeOK'
      BY <1>2, <2>2, PollOf DEF ScheduleInv
    <3>2. AheadInv'
      BY <1>2, <2>2, PollKeepsAhead
    <3> QED  BY <3>1, <3>2 DEF ScheduleInv
  <2>3. CASE Reload
    <3>1. ScheduleTypeOK' /\ ahead' = [i \in Sources |-> {}]
      BY <2>3, ScheduleAssumption DEF Reload, Load, ScheduleTypeOK
    <3>2. AheadInv'
      BY <3>1, NobodyAhead
    <3> QED  BY <3>1, <3>2 DEF ScheduleInv
  <2>4. CASE UNCHANGED scheduleVars
    BY <1>2, <2>4 DEF scheduleVars, ScheduleInv, ScheduleTypeOK, AheadInv, FullDelay, Due
  <2> QED  BY <1>2, <2>1, <2>2, <2>3, <2>4 DEF ScheduleNext, Pass
<1> QED  BY <1>1, <1>2, PTL DEF ScheduleSpec

(* Of sources that fail at the full delay, each is polled once at most     *)
(* while another one is due, so that one is polled after fewer polls than  *)
(* its place in the table, whatever the intervals and however much longer  *)
(* the failing polls (TelemetryManager::loop, poll).                       *)
THEOREM FailingAlwaysGoAheadOnce ==
  ScheduleSpec => FailingGoAheadOnce
<1>1. ASSUME ScheduleInv
      PROVE  \A i \in Sources : Poll(i) => \A j \in Due \ {i} : i \notin ahead[j]
  <2> SUFFICES ASSUME NEW i \in Sources, Poll(i), NEW j \in Due \ {i}, i \in ahead[j]
               PROVE  FALSE
    OBVIOUS
  <2>1. due[i] = 0
    BY DEF Poll, Due
  <2>2. due[i] # 0
    BY <1>1, NotYetDue
  <2> QED  BY <2>1, <2>2
<1>2. ScheduleInv /\ [ScheduleNext]_scheduleVars =>
        [\A i \in Sources : Poll(i) => \A j \in Due \ {i} : i \notin ahead[j]]_scheduleVars
  BY <1>1
<1>3. ScheduleSpec => []ScheduleInv
  BY ScheduleInvariant
<1> QED  BY <1>2, <1>3, PTL DEF ScheduleSpec, FailingGoAheadOnce
=============================================================================
