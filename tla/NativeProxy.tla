---------------------------- MODULE NativeProxy ----------------------------
(***************************************************************************)
(* The proxy for Sony's own web page: one listener task and at most        *)
(* MaxSessions session tasks, all on the other core than loop().  Browsers *)
(* open more connections than there are sessions; the listener holds an    *)
(* accepted connection for SlotWait before it answers 503.  A session      *)
(* forwards one request, and stays as a tunnel if it became /linear.       *)
(*                                                                         *)
(* A connection's phase is where its owner is: the kernel's backlog, the   *)
(* listener, or its session task.  Both counters change under sessionMux_. *)
(***************************************************************************)
EXTENDS Naturals, Sequences, FiniteSets

CONSTANTS Connections,    \* connections browsers may open
          MaxSessions,    \* MAX_SESSIONS
          SlotWait        \* SESSION_SLOT_WAIT_MS, in ticks

ASSUME ProxyAssumption ==
  /\ IsFiniteSet(Connections)
  /\ MaxSessions \in Nat \ {0}
  /\ SlotWait \in Nat

VARIABLES backlog,        \* connections the kernel holds for accept()
          phase,
          waited,         \* how long the listener has held a connection
          clientOpen,     \* connections whose browser socket is open
          cameraOpen,     \* connections whose camera socket is open
          activeSessions, activeLinearSessions

vars == <<backlog, phase, waited, clientOpen, cameraOpen, activeSessions, activeLinearSessions>>

sockets == <<clientOpen, cameraOpen>>
counters == <<activeSessions, activeLinearSessions>>
arrivals == <<backlog, waited>>

(* "waiting", "refused" and "claimed" are the listener's; from "request"   *)
(* to "leaving" the connection has a task.                                 *)
InListener == {"waiting", "refused", "claimed"}
InTunnel == {"tunnel", "tunnelClosed"}
InTask == {"request", "connect", "forward", "response", "stream", "leaving"} \cup InTunnel
Phases == {"away", "backlog"} \cup InListener \cup InTask

Init ==
  /\ backlog = <<>> /\ waited = 0
  /\ phase = [c \in Connections |-> "away"]
  /\ clientOpen = {} /\ cameraOpen = {}
  /\ activeSessions = 0 /\ activeLinearSessions = 0

Goto(c, next) == phase' = [phase EXCEPT ![c] = next]

(* A browser connects; the kernel completes the connection by itself. *)
Connect(c) ==
  /\ phase[c] = "away"
  /\ backlog' = Append(backlog, c)
  /\ Goto(c, "backlog")
  /\ UNCHANGED <<waited, sockets, counters>>

-----------------------------------------------------------------------------
(* The listener                                                            *)

Listening == \A c \in Connections : phase[c] \notin InListener

ClaimSession(c) ==
  /\ activeSessions < MaxSessions
  /\ activeSessions' = activeSessions + 1
  /\ Goto(c, "claimed")

ReleaseSession == activeSessions' = IF activeSessions > 0 THEN activeSessions - 1 ELSE 0

Accept ==
  /\ Listening
  /\ backlog # <<>>
  /\ backlog' = Tail(backlog)
  /\ waited' = 0
  /\ clientOpen' = clientOpen \cup {Head(backlog)}
  /\ Goto(Head(backlog), "waiting")
  /\ UNCHANGED <<cameraOpen, counters>>

Claim(c) ==
  /\ phase[c] = "waiting"
  /\ ClaimSession(c)
  /\ UNCHANGED <<arrivals, sockets, activeLinearSessions>>

(* Slip: the deadline is not looked at. *)
RetryClaimForever(c) ==
  /\ phase[c] = "waiting"
  /\ activeSessions = MaxSessions
  /\ UNCHANGED vars

(* Every slot was taken: try again while there is time, else give up. *)
RetryClaim(c) ==
  /\ phase[c] = "waiting"
  /\ activeSessions = MaxSessions
  /\ IF waited < SlotWait
     THEN waited' = waited + 1 /\ UNCHANGED phase
     ELSE Goto(c, "refused") /\ UNCHANGED waited
  /\ UNCHANGED <<backlog, sockets, counters>>

SendBusy(c) ==
  /\ phase[c] = "refused"
  /\ clientOpen' = clientOpen \ {c}
  /\ Goto(c, "away")
  /\ UNCHANGED <<arrivals, cameraOpen, counters>>

(* Without memory for the context or the task, the slot is given back. *)
CreateTask(c) ==
  /\ phase[c] = "claimed"
  /\ \/ Goto(c, "request") /\ UNCHANGED <<clientOpen, activeSessions>>
     \/ Goto(c, "away") /\ clientOpen' = clientOpen \ {c} /\ ReleaseSession
  /\ UNCHANGED <<arrivals, cameraOpen, activeLinearSessions>>

ListenerStep(c) == Claim(c) \/ RetryClaim(c) \/ SendBusy(c) \/ CreateTask(c)

-----------------------------------------------------------------------------
(* A session task                                                          *)

Stays(c, next) == Goto(c, next) /\ UNCHANGED sockets

(* Slip: an early end forgets the camera's socket. *)
HangUpClientOnly(c, next) ==
  /\ clientOpen' = clientOpen \ {c}
  /\ UNCHANGED cameraOpen
  /\ Goto(c, next)

HangUp(c, next) ==
  /\ clientOpen' = clientOpen \ {c}
  /\ cameraOpen' = cameraOpen \ {c}
  /\ Goto(c, next)

ReadRequest(c) ==
  /\ phase[c] = "request"
  /\ Stays(c, "connect") \/ HangUp(c, "leaving")
  /\ UNCHANGED <<arrivals, counters>>

ConnectCamera(c) ==
  /\ phase[c] = "connect"
  /\ \/ cameraOpen' = cameraOpen \cup {c} /\ UNCHANGED clientOpen /\ Goto(c, "forward")
     \/ HangUp(c, "leaving")
  /\ UNCHANGED <<arrivals, counters>>

ForwardRequest(c) ==
  /\ phase[c] = "forward"
  /\ Stays(c, "response") \/ HangUp(c, "leaving")
  /\ UNCHANGED <<arrivals, counters>>

ForwardResponse(c) ==
  /\ phase[c] = "response"
  /\ \/ (Stays(c, "stream") \/ HangUp(c, "leaving")) /\ UNCHANGED activeLinearSessions
     \/ Stays(c, "tunnel") /\ activeLinearSessions' = activeLinearSessions + 1
  /\ UNCHANGED <<arrivals, activeSessions>>

StreamEnds(c) ==
  /\ phase[c] = "stream"
  /\ HangUp(c, "leaving")
  /\ UNCHANGED <<arrivals, counters>>

TunnelEnds(c) ==
  /\ phase[c] = "tunnel"
  /\ HangUp(c, "tunnelClosed")
  /\ UNCHANGED <<arrivals, counters>>

(* Slip: only a tunnel the browser closed is counted out. *)
TunnelLeavesUncounted(c) ==
  /\ phase[c] = "tunnelClosed"
  /\ Stays(c, "leaving")
  /\ UNCHANGED <<arrivals, counters>>

TunnelLeaves(c) ==
  /\ phase[c] = "tunnelClosed"
  /\ Stays(c, "leaving")
  /\ activeLinearSessions' = IF activeLinearSessions > 0 THEN activeLinearSessions - 1 ELSE 0
  /\ UNCHANGED <<arrivals, activeSessions>>

TaskEnds(c) ==
  /\ phase[c] = "leaving"
  /\ ReleaseSession
  /\ Goto(c, "away")
  /\ UNCHANGED <<arrivals, sockets, activeLinearSessions>>

SessionStep(c) ==
  \/ ReadRequest(c) \/ ConnectCamera(c) \/ ForwardRequest(c) \/ ForwardResponse(c)
  \/ StreamEnds(c) \/ TunnelEnds(c) \/ TunnelLeaves(c) \/ TaskEnds(c)

Next == Accept \/ \E c \in Connections : Connect(c) \/ ListenerStep(c) \/ SessionStep(c)

(* The listener runs; a session may stay in recv() or in its tunnel as     *)
(* long as its peers keep it there.                                        *)
Spec == Init /\ [][Next]_vars /\ WF_vars(Accept \/ \E c \in Connections : ListenerStep(c))

-----------------------------------------------------------------------------
(* Properties                                                              *)

(* The counters tell the truth whatever order the tasks end in: a claim    *)
(* is counted until its task is gone, a tunnel until both sides are shut.  *)
(* The status page adds activeLinearSessions to the bridge's own session.  *)
CountersMatchTasks ==
  /\ activeSessions = Cardinality({c \in Connections : phase[c] \in InTask \cup {"claimed"}})
  /\ activeLinearSessions = Cardinality({c \in Connections : phase[c] \in InTunnel})

(* No early return leaks a socket: an open one has an owner that will      *)
(* close it, and at most one browser is held beside the sessions.          *)
SocketsHaveOwners ==
  /\ \A c \in clientOpen : phase[c] \in InListener \cup (InTask \ {"leaving", "tunnelClosed"})
  /\ \A c \in cameraOpen : phase[c] \in {"forward", "response", "stream", "tunnel"}
  /\ Cardinality(clientOpen) <= MaxSessions + 1

(* However long tunnels and slow peers keep the slots, each connection is  *)
(* taken up in its turn.                                                   *)
BacklogDrains == \A c \in Connections : phase[c] = "backlog" ~> phase[c] # "backlog"
=============================================================================
