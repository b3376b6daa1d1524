----------------------------- MODULE CameraLink -----------------------------
(***************************************************************************)
(* How the bridge gets to the camera and back to it: the Wi-Fi association *)
(* (NetworkManager), the request for /rm.html that wakes the camera's      *)
(* remote service (SonyRemote) and the one persistent, subscribed /linear  *)
(* session that commands share (SonyLinear).                               *)
(*                                                                         *)
(* One task runs them all.  A request to the camera blocks that task, and  *)
(* is a step that begins it and one that ends it; the association and the  *)
(* camera's side of the session may change in between.  The association is *)
(* a number, one more for each, and has an address; loop() sees only the   *)
(* address.                                                                *)
(***************************************************************************)
EXTENDS Naturals

CONSTANTS Addresses,      \* what the camera's DHCP server may give the bridge
          MaxAssociations,
          RejoinAfter,    \* between two attempts to join, 10 s
          JoinTime,       \* how long joining takes when the camera is in range
          RetryAfter      \* between two attempts of loop() at a session, 1.5 s

ASSUME LinkAssumption ==
  /\ MaxAssociations \in Nat \ {0}
  /\ {RejoinAfter, JoinTime, RetryAfter} \subseteq Nat \ {0}

VARIABLES wifi, wifiIp, association,
          lastWifiAttempt,          \* its age
          joining,                  \* how long this attempt has been going on
          cameraSessionPrimed, primedWifiIp,
          session,                  \* fd_ and connectedWifiIp_
          retryIn,                  \* nextConnectAttemptMs_, as time to go
          call,                     \* the request the task is blocked in
          settled,                  \* the camera stays in range and answers
          warmups                   \* history: /rm.html requests in this association

network == <<wifi, wifiIp, association, lastWifiAttempt, joining, warmups>>
primed == <<cameraSessionPrimed, primedWifiIp>>
vars == <<network, primed, session, retryIn, call, settled>>

NoIp == "none"
NoCall == [doing |-> "none"]
(* answered: the camera's side of it is there; hungUp: its end has arrived. *)
NoSession ==
  [open |-> FALSE, ip |-> NoIp, subscribed |-> FALSE, answered |-> FALSE, hungUp |-> FALSE]

(* networkManager.begin() has just asked for the first association. *)
Init ==
  /\ wifi = "joining" /\ wifiIp = NoIp /\ association = 0
  /\ lastWifiAttempt = 0 /\ joining = 0 /\ warmups = 0
  /\ cameraSessionPrimed = FALSE /\ primedWifiIp = NoIp
  /\ session = NoSession /\ retryIn = 0
  /\ call = NoCall
  /\ settled = FALSE

-----------------------------------------------------------------------------
(* The camera and its network                                              *)

Joined ==
  /\ wifi = "joining"
  /\ association < MaxAssociations
  /\ wifi' = "up" /\ wifiIp' \in Addresses
  /\ association' = association + 1
  /\ warmups' = 0
  /\ UNCHANGED <<lastWifiAttempt, joining, primed, session, retryIn, call, settled>>

LinkDrops ==
  /\ ~settled /\ wifi = "up"
  /\ wifi' = "down" /\ wifiIp' = NoIp
  /\ UNCHANGED <<association, lastWifiAttempt, joining, warmups, primed, session, retryIn, call, settled>>

(* The camera closes the session, or restarts and nothing tells the bridge. *)
CameraForgets ==
  /\ ~settled /\ session.answered
  /\ \E told \in BOOLEAN : session' = [session EXCEPT !.answered = FALSE, !.hungUp = told]
  /\ UNCHANGED <<network, primed, retryIn, call, settled>>

(* From now on nothing goes wrong any more. *)
CameraSettles ==
  /\ ~settled
  /\ association < MaxAssociations
  /\ settled' = TRUE
  /\ UNCHANGED <<network, primed, session, retryIn, call>>

Saturated(age, limit) == IF age < limit THEN age + 1 ELSE age

(* A camera in range does not let a bridge join for longer than JoinTime. *)
Tick ==
  /\ ~(settled /\ wifi = "joining" /\ joining >= JoinTime)
  /\ lastWifiAttempt' = Saturated(lastWifiAttempt, RejoinAfter + 1)
  /\ joining' = Saturated(joining, JoinTime)
  /\ retryIn' = IF retryIn > 0 THEN retryIn - 1 ELSE 0
  /\ UNCHANGED <<wifi, wifiIp, association, warmups, primed, session, call, settled>>

-----------------------------------------------------------------------------
(* NetworkManager                                                          *)

ReconnectCameraWifi ==
  /\ lastWifiAttempt' = 0 /\ joining' = 0
  /\ wifi' = "joining" /\ wifiIp' = NoIp
  /\ UNCHANGED <<association, warmups>>

(* Slip: every pass joins anew. *)
NetworkLoopEager ==
  /\ call = NoCall
  /\ wifi # "up"
  /\ ReconnectCameraWifi
  /\ UNCHANGED <<primed, session, retryIn, call, settled>>

NetworkLoop ==
  /\ call = NoCall
  /\ wifi # "up" /\ lastWifiAttempt > RejoinAfter
  /\ ReconnectCameraWifi
  /\ UNCHANGED <<primed, session, retryIn, call, settled>>

(* The operator's button; the console asks for it after new settings. *)
ReconnectRequest ==
  /\ call = NoCall
  /\ ~settled
  /\ ReconnectCameraWifi
  /\ UNCHANGED <<primed, session, retryIn, call, settled>>

-----------------------------------------------------------------------------
(* SonyLinear                                                              *)

Opening(by) == call' = [doing |-> "opening", for |-> by, ip |-> wifiIp]

(* One pass of SonyLinear::loop.  A session that looks open is only asked  *)
(* for input.                                                              *)
LinearLoop ==
  \/ wifi # "up" /\ session' = NoSession /\ call' = NoCall /\ UNCHANGED retryIn
  \/ wifi = "up" /\ ~session.open /\ retryIn > 0 /\ call' = NoCall /\ UNCHANGED <<session, retryIn>>
  \/ /\ wifi = "up" /\ ~session.open /\ retryIn = 0
     /\ retryIn' = RetryAfter /\ Opening("loop") /\ UNCHANGED session
  \/ /\ wifi = "up" /\ session.open
     /\ session' = IF session.hungUp THEN NoSession ELSE session
     /\ call' = NoCall /\ UNCHANGED retryIn

(* A command's request: the open session, or a new one. *)
LinearRequest ==
  /\ UNCHANGED retryIn
  /\ \/ /\ wifi # "up"
        /\ call' = NoCall /\ UNCHANGED session
     \/ /\ wifi = "up" /\ session.open /\ session.ip = wifiIp
        /\ call' = [doing |-> "requesting"] /\ UNCHANGED session
     \/ /\ wifi = "up" /\ ~(session.open /\ session.ip = wifiIp)
        /\ session' = NoSession /\ Opening("command")

(* The socket is connected and upgraded, or not.  A socket may be bound to *)
(* the address of an association that has ended since.                     *)
Opens ==
  /\ call.doing = "opening"
  /\ \/ /\ wifiIp = call.ip
        /\ session' = [NoSession EXCEPT !.open = TRUE, !.ip = call.ip, !.answered = TRUE]
        /\ call' = [call EXCEPT !.doing = "subscribing"]
     \/ /\ ~(settled /\ wifiIp = call.ip)
        /\ session' = NoSession
        /\ call' = NoCall
  /\ UNCHANGED <<network, primed, retryIn, settled>>

After(by) == IF by = "loop" THEN NoCall ELSE [doing |-> "requesting"]

(* Slip: a session that could not be subscribed is kept. *)
SubscribedAnyway ==
  /\ call.doing = "subscribing"
  /\ \/ session.answered /\ session' = [session EXCEPT !.subscribed = TRUE] /\ call' = After(call.for)
     \/ ~(settled /\ session.answered) /\ UNCHANGED session /\ call' = NoCall
  /\ UNCHANGED <<network, primed, retryIn, settled>>

(* subscribeAndPrime: four requests, of which each may fail. *)
Subscribed ==
  /\ call.doing = "subscribing"
  /\ \/ session.answered /\ session' = [session EXCEPT !.subscribed = TRUE] /\ call' = After(call.for)
     \/ ~(settled /\ session.answered) /\ session' = NoSession /\ call' = NoCall
  /\ UNCHANGED <<network, primed, retryIn, settled>>

(* Slip: a command that fails leaves the session as it is. *)
RequestReturnsOnly ==
  /\ call.doing = "requesting"
  /\ UNCHANGED session
  /\ call' = NoCall
  /\ UNCHANGED <<network, primed, retryIn, settled>>

(* A command that fails, for whatever reason, closes the session; the      *)
(* camera ignores some keys however well it is.                            *)
RequestReturns ==
  /\ call.doing = "requesting"
  /\ \/ session.answered /\ UNCHANGED session
     \/ session' = NoSession
  /\ call' = NoCall
  /\ UNCHANGED <<network, primed, retryIn, settled>>

-----------------------------------------------------------------------------
(* SonyRemote                                                              *)

IsPrimed == cameraSessionPrimed /\ primedWifiIp = wifiIp

Warmup(by) ==
  /\ call' = [doing |-> "warmup", for |-> by, ip |-> wifiIp]
  /\ warmups' = warmups + 1
  /\ UNCHANGED <<wifi, wifiIp, association, lastWifiAttempt, joining, primed, session, retryIn, settled>>

RemoteLoop ==
  /\ call = NoCall
  /\ \/ wifi = "up" /\ ~IsPrimed /\ Warmup("loop")
     \/ (wifi # "up" \/ IsPrimed) /\ LinearLoop /\ UNCHANGED <<network, primed, settled>>

(* send() and linearRequest(): a command with a /linear mapping. *)
Command ==
  /\ call = NoCall
  /\ \/ wifi = "up" /\ ~IsPrimed /\ Warmup("command")
     \/ wifi = "up" /\ IsPrimed /\ LinearRequest /\ UNCHANGED <<network, primed, settled>>
     \/ /\ wifi # "up"
        /\ cameraSessionPrimed' = FALSE /\ primedWifiIp' = NoIp
        /\ LinearRequest
        /\ UNCHANGED <<network, settled>>

(* Slip: only a warmup that was answered counts. *)
WarmupReturnsConfirmed ==
  /\ call.doing = "warmup"
  /\ \/ cameraSessionPrimed' = TRUE /\ primedWifiIp' = call.ip
     \/ UNCHANGED primed
  /\ IF call.for = "loop" THEN LinearLoop ELSE LinearRequest
  /\ UNCHANGED <<network, settled>>

(* Confirmed or not, the warmup is not repeated, and the task goes on. *)
WarmupReturns ==
  /\ call.doing = "warmup"
  /\ cameraSessionPrimed' = TRUE /\ primedWifiIp' = call.ip
  /\ IF call.for = "loop" THEN LinearLoop ELSE LinearRequest
  /\ UNCHANGED <<network, settled>>

-----------------------------------------------------------------------------
CallEnds == WarmupReturns \/ Opens \/ Subscribed \/ RequestReturns

Next ==
  \/ Joined \/ LinkDrops \/ CameraForgets \/ CameraSettles \/ Tick
  \/ NetworkLoop \/ ReconnectRequest \/ RemoteLoop \/ Command
  \/ CallEnds

(* Every call returns and every pass of loop() runs both loops, whatever   *)
(* commands come between; a camera in range lets the bridge join.          *)
Spec ==
  /\ Init /\ [][Next]_vars
  /\ WF_vars(CallEnds) /\ SF_vars(NetworkLoop) /\ SF_vars(RemoteLoop)
  /\ WF_vars(Tick) /\ WF_vars(settled /\ joining >= JoinTime /\ Joined)

-----------------------------------------------------------------------------
(* Properties                                                              *)

Live == session.open /\ session.subscribed /\ session.answered

(* Between requests an open session is a subscribed one: whatever fails    *)
(* while it is set up, the engines never wait for notifications of a       *)
(* session that was not asked to send them.                                *)
OpenIsSubscribed == call = NoCall /\ session.open => session.subscribed

(* "Do not make every command pay another three-second warmup penalty if   *)
(* the camera did not answer this optional request" (SonyRemote.cpp:166).  *)
WarmupOnce == warmups <= 1

(* When the camera is back in range the bridge joins it, however its       *)
(* attempts, the operator's and the camera's absence interleaved before.   *)
JoinsAgain == settled ~> wifi = "up"

(* As long as commands are sent, a camera that has come back has a live    *)
(* session again, whatever state the loss has left the old one in: one     *)
(* that only looks open is found out by the first command.                 *)
SessionRecovers == []<><<Command>>_vars => (settled ~> Live)
=============================================================================
