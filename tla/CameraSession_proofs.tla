------------------------- MODULE CameraSession_proofs -------------------------
(***************************************************************************)
(* The bridge's connection with the camera, on its three levels.           *)
(*                                                                         *)
(* The link, for all addresses, waits and numbers of associations: between *)
(* requests an open session is a subscribed one, and an association costs  *)
(* at most one warm-up.  Neither holds by itself from step to step.  A     *)
(* session is unsubscribed while the task is in subscribeAndPrime, so the  *)
(* invariant names that call.  A warm-up that was sent in an association   *)
(* may still be under way when that association has ended, and then marks  *)
(* an address that is no longer the bridge's; the invariant tells the two  *)
(* cases apart by the number of warm-ups.                                  *)
(*                                                                         *)
(* The stream, for all timeouts, numbers of requests and notifications and *)
(* sizes of a payload: it implements MessageChannel, a request answers for *)
(* itself, and no reader takes longer than its bound.  All three rest on   *)
(* the place of the reader in what the camera has begun to send, frame by  *)
(* frame and piece by piece: an invariant that would not survive a reader  *)
(* that gives up and leaves the session open.                              *)
(*                                                                         *)
(* The HTTP exchange, for all answers, limits and sizes of what recv()     *)
(* returns: the body that is passed on is the one that was meant.          *)
(***************************************************************************)
EXTENDS CameraLink, LinearStream, HttpResponse,
        SequenceTheorems, FiniteSetTheorems, WellFoundedInduction, TLAPS

-----------------------------------------------------------------------------
(* The link.                                                               *)

Ips == Addresses \cup {NoIp}
Sessions == [open: BOOLEAN, ip: Ips, subscribed: BOOLEAN, answered: BOOLEAN, hungUp: BOOLEAN]
Calls ==
  [doing: {"none", "requesting"}]
    \cup [doing: {"opening", "subscribing", "warmup"}, for: {"loop", "command"}, ip: Ips]

LinkTypeOK ==
  /\ wifi \in {"joining", "up", "down"} /\ wifiIp \in Ips
  /\ warmups \in Nat
  /\ cameraSessionPrimed \in BOOLEAN /\ primedWifiIp \in Ips
  /\ session \in Sessions /\ call \in Calls

(* Only subscribeAndPrime may leave a session open without subscription.   *)
SubscribingNow == session.open /\ ~session.subscribed => call.doing = "subscribing"

(* The association's warm-up is under way, or its mark is set.             *)
WarmupIsMarked ==
  /\ warmups \in {0, 1}
  /\ wifi = "up" /\ warmups = 1 =>
       IF call.doing = "warmup" THEN call.ip = wifiIp ELSE IsPrimed

LinkInv == LinkTypeOK /\ SubscribingNow /\ WarmupIsMarked

-----------------------------------------------------------------------------

(* The values the task assigns to its call and to the session.             *)
LEMMA ClosedSession == NoSession \in Sessions /\ ~NoSession.open
  BY DEF NoSession, Sessions, Ips

LEMMA ShortCalls ==
  /\ NoCall \in Calls /\ NoCall.doing = "none"
  /\ [doing |-> "requesting"] \in Calls
<1>1. NoCall \in [doing: {"none", "requesting"}] /\ NoCall.doing = "none"
  BY DEF NoCall
<1>2. [doing |-> "requesting"] \in [doing: {"none", "requesting"}]
  OBVIOUS
<1> QED  BY <1>1, <1>2 DEF Calls

LEMMA OpeningCall ==
  ASSUME NEW by \in {"loop", "command"}, wifiIp \in Ips, Opening(by)
  PROVE  call' \in Calls /\ call'.doing = "opening"
<1>1. call' \in [doing: {"opening", "subscribing", "warmup"}, for: {"loop", "command"}, ip: Ips]
  BY DEF Opening
<1>2. call'.doing = "opening"
  BY DEF Opening
<1> QED  BY <1>1, <1>2 DEF Calls

LEMMA LinkStarts == Init => LinkInv
<1> SUFFICES ASSUME Init PROVE LinkInv
  OBVIOUS
<1>1. session \in Sessions /\ ~session.open
  BY ClosedSession DEF Init
<1>2. call \in Calls
  BY ShortCalls DEF Init
<1> QED
  BY <1>1, <1>2 DEF Init, LinkInv, LinkTypeOK, SubscribingNow, WarmupIsMarked, Ips

(* The camera, its network and the clock leave the task's call alone.      *)
LEMMA OutsideKeeps ==
  ASSUME LinkInv, Joined \/ LinkDrops \/ CameraForgets \/ CameraSettles \/ Tick
  PROVE  LinkInv'
<1> USE DEF LinkInv, LinkTypeOK, SubscribingNow, WarmupIsMarked, IsPrimed, Ips
<1>1. CASE Joined  BY <1>1 DEF Joined, primed
<1>2. CASE LinkDrops  BY <1>2 DEF LinkDrops, primed
<1>3. CASE CameraForgets  BY <1>3 DEF CameraForgets, network, primed, Sessions
<1>4. CASE CameraSettles  BY <1>4 DEF CameraSettles, network, primed
<1>5. CASE Tick  BY <1>5 DEF Tick, primed
<1> QED  BY <1>1, <1>2, <1>3, <1>4, <1>5

(* A new attempt to join ends the association and touches nothing else.    *)
LEMMA NetworkKeeps ==
  ASSUME LinkInv, NetworkLoop \/ ReconnectRequest
  PROVE  LinkInv'
  BY DEF NetworkLoop, ReconnectRequest, ReconnectCameraWifi, primed,
         LinkInv, LinkTypeOK, SubscribingNow, WarmupIsMarked, IsPrimed, Ips

(* What the session's two users leave behind, once the marks are right:    *)
(* the session is subscribed, closed, or about to be opened.               *)
LEMMA SessionUsersKeep ==
  ASSUME LinkTypeOK, session.open => session.subscribed, LinearLoop \/ LinearRequest
  PROVE  /\ session' \in Sessions /\ call' \in Calls
         /\ call'.doing # "warmup"
         /\ session'.open => session'.subscribed
<1>1. CASE LinearLoop
  <2>1. /\ session' \in {session, NoSession}
        /\ call' = NoCall \/ Opening("loop")
    BY <1>1 DEF LinearLoop
  <2>2. call' \in Calls /\ call'.doing # "warmup"
    BY <2>1, ShortCalls, OpeningCall DEF LinkTypeOK
  <2> QED  BY <2>1, <2>2, ClosedSession DEF LinkTypeOK
<1>2. CASE LinearRequest
  <2>1. /\ session' \in {session, NoSession}
        /\ call' \in {NoCall, [doing |-> "requesting"]} \/ Opening("command")
    BY <1>2 DEF LinearRequest
  <2>2. call' \in Calls /\ call'.doing # "warmup"
    BY <2>1, ShortCalls, OpeningCall DEF LinkTypeOK
  <2> QED  BY <2>1, <2>2, ClosedSession DEF LinkTypeOK
<1> QED  BY <1>1, <1>2

LEMMA WarmupKeeps ==
  ASSUME LinkInv, NEW by \in {"loop", "command"},
         call = NoCall, wifi = "up", ~IsPrimed, Warmup(by)
  PROVE  LinkInv'
<1>1. warmups = 0
  BY DEF LinkInv, WarmupIsMarked, NoCall
<1> QED
  BY <1>1 DEF Warmup, primed, NoCall, LinkInv, LinkTypeOK, SubscribingNow, WarmupIsMarked, IsPrimed,
              Calls, Ips

(* A pass of SonyRemote::loop, and a command.                              *)
LEMMA PassKeeps ==
  ASSUME LinkInv, RemoteLoop \/ Command
  PROVE  LinkInv'
<1>1. call = NoCall /\ call.doing = "none"
  BY DEF RemoteLoop, Command, NoCall
<1>2. session.open => session.subscribed
  BY <1>1 DEF LinkInv, SubscribingNow
<1>3. CASE wifi = "up" /\ ~IsPrimed /\ (Warmup("loop") \/ Warmup("command"))
  BY <1>1, <1>3, WarmupKeeps
<1>4. CASE /\ wifi # "up" \/ IsPrimed
           /\ LinearLoop \/ LinearRequest
           /\ UNCHANGED <<network, primed>>
  <2>1. /\ session' \in Sessions /\ call' \in Calls /\ call'.doing # "warmup"
        /\ session'.open => session'.subscribed
    BY <1>2, <1>4, SessionUsersKeep DEF LinkInv
  <2> QED
    BY <1>1, <1>4, <2>1 DEF LinkInv, LinkTypeOK, SubscribingNow, WarmupIsMarked, IsPrimed, network,
                            primed
<1>5. CASE /\ wifi # "up" /\ LinearRequest
           /\ cameraSessionPrimed' = FALSE /\ primedWifiIp' = NoIp
           /\ UNCHANGED network
  <2>1. /\ session' \in Sessions /\ call' \in Calls
        /\ session'.open => session'.subscribed
    BY <1>2, <1>5, SessionUsersKeep DEF LinkInv
  <2> QED
    BY <1>5, <2>1 DEF LinkInv, LinkTypeOK, SubscribingNow, WarmupIsMarked, network, Ips
<1> QED
  BY <1>3, <1>4, <1>5 DEF RemoteLoop, Command

(* The answer of the warm-up, or its timeout, sets the mark of the address *)
(* it was sent from, and the task goes on to the session.                  *)
LEMMA WarmupReturnKeeps ==
  ASSUME LinkInv, WarmupReturns
  PROVE  LinkInv'
<1>1. session.open => session.subscribed
  BY DEF WarmupReturns, LinkInv, SubscribingNow
<1>2. /\ session' \in Sessions /\ call' \in Calls /\ call'.doing # "warmup"
      /\ session'.open => session'.subscribed
  BY <1>1, SessionUsersKeep DEF WarmupReturns, LinkInv
<1>3. call.ip \in Ips
  BY DEF WarmupReturns, LinkInv, LinkTypeOK, Calls
<1> QED
  BY <1>2, <1>3 DEF WarmupReturns, LinkInv, LinkTypeOK, SubscribingNow, WarmupIsMarked, IsPrimed,
                    network

(* Only the calls that know for whom the session is have more than a name. *)
LEMMA LongCall ==
  ASSUME call \in Calls, call.doing \in {"opening", "subscribing", "warmup"}
  PROVE  call \in [doing: {"opening", "subscribing", "warmup"}, for: {"loop", "command"}, ip: Ips]
<1>1. call \notin [doing: {"none", "requesting"}]
  OBVIOUS
<1> QED  BY <1>1 DEF Calls

(* A step that ends a call, or goes on with another, and leaves the        *)
(* network and the marks alone.                                            *)
LEMMA CallEndKeeps ==
  ASSUME LinkInv, call.doing # "warmup",
         UNCHANGED <<network, primed>>,
         session' \in Sessions, call' \in Calls, call'.doing # "warmup",
         session'.open => session'.subscribed \/ call'.doing = "subscribing"
  PROVE  LinkInv'
  BY DEF LinkInv, LinkTypeOK, SubscribingNow, WarmupIsMarked, IsPrimed, network, primed

LEMMA SessionCallsKeep ==
  ASSUME LinkInv, Opens \/ Subscribed \/ RequestReturns
  PROVE  LinkInv'
<1> USE DEF LinkInv, LinkTypeOK
<1>1. CASE Opens
  <2>1. call \in [doing: {"opening", "subscribing", "warmup"}, for: {"loop", "command"}, ip: Ips]
    BY <1>1, LongCall DEF Opens
  <2>2. CASE /\ session' = [NoSession EXCEPT !.open = TRUE, !.ip = call.ip, !.answered = TRUE]
             /\ call' = [call EXCEPT !.doing = "subscribing"]
    <3>1. session' \in Sessions
      BY <2>1, <2>2 DEF NoSession, Sessions
    <3>2. /\ call' \in [doing: {"opening", "subscribing", "warmup"},
                        for: {"loop", "command"}, ip: Ips]
          /\ call'.doing = "subscribing"
      BY <2>1, <2>2
    <3>3. call' \in Calls
      BY <3>2 DEF Calls
    <3> QED  BY <1>1, <3>1, <3>2, <3>3, CallEndKeeps DEF Opens
  <2>3. CASE session' = NoSession /\ call' = NoCall
    BY <1>1, <2>3, ClosedSession, ShortCalls, CallEndKeeps DEF Opens
  <2> QED  BY <1>1, <2>2, <2>3 DEF Opens
<1>2. CASE Subscribed
  <2>1. call' \in {NoCall, [doing |-> "requesting"]}
    BY <1>2 DEF Subscribed, After
  <2>2. call' \in Calls /\ call'.doing # "warmup"
    BY <2>1, ShortCalls
  <2>3. session' \in Sessions /\ (session'.open => session'.subscribed)
    BY <1>2, ClosedSession DEF Subscribed, Sessions
  <2> QED  BY <1>2, <2>2, <2>3, CallEndKeeps DEF Subscribed
<1>3. CASE RequestReturns
  <2>1. session' \in {session, NoSession} /\ call' = NoCall
    BY <1>3 DEF RequestReturns
  <2>2. session' \in Sessions /\ (session'.open => session'.subscribed)
    BY <1>3, <2>1, ClosedSession DEF RequestReturns, SubscribingNow
  <2> QED  BY <1>3, <2>1, <2>2, ShortCalls, CallEndKeeps DEF RequestReturns
<1> QED  BY <1>1, <1>2, <1>3

LEMMA LinkSteps == LinkInv /\ [Next]_vars => LinkInv'
<1> SUFFICES ASSUME LinkInv, [Next]_vars PROVE LinkInv'
  OBVIOUS
<1>1. CASE UNCHANGED vars
  BY <1>1 DEF LinkInv, LinkTypeOK, SubscribingNow, WarmupIsMarked, IsPrimed, vars, network, primed
<1>2. CASE Next
  BY <1>2, OutsideKeeps, NetworkKeeps, PassKeeps, WarmupReturnKeeps, SessionCallsKeep
     DEF Next, CallEnds
<1> QED  BY <1>1, <1>2

-----------------------------------------------------------------------------

(* The types, the session under construction and the mark of the warm-up   *)
(* are together inductive (SonyLinear.cpp:580-597, SonyRemote.cpp:139-171).*)
THEOREM LinkInvariant == Spec => []LinkInv
  BY LinkStarts, LinkSteps, PTL DEF Spec

(* Whatever fails while a session is set up, and whatever the network does *)
(* meanwhile, no session stays open without its notifications.             *)
THEOREM OpenIsAlwaysSubscribed == Spec => []OpenIsSubscribed
<1>1. LinkInv => OpenIsSubscribed
  BY DEF LinkInv, LinkTypeOK, SubscribingNow, OpenIsSubscribed, NoCall, Sessions
<1> QED  BY <1>1, LinkInvariant, PTL

(* An association pays for one warm-up at most, answered or not.           *)
THEOREM WarmupAtMostOnce == Spec => []WarmupOnce
<1>1. LinkInv => WarmupOnce
  BY DEF LinkInv, WarmupIsMarked, WarmupOnce
<1> QED  BY <1>1, LinkInvariant, PTL

-----------------------------------------------------------------------------
(* The stream: where its reader may be.                                    *)

(* The header and the halves of a frame, and the locals of a reader that   *)
(* is between two frames.                                                  *)
Header(f) == [frame |-> f, k |-> 0]
Half(f, k) == [frame |-> f, k |-> k]
Between(opcode, payload) == Locals(NoFrame, 0, opcode, payload)

OneFrame(m) == Frame("binary", TRUE, Content(m))
Beginning(m) == Frame("binary", FALSE, <<<<m, 1>>>>)
Rest(m) == Frame("continuation", TRUE, <<<<m, 2>>>>)
AllOfIt(m) == Frame("binary", FALSE, Content(m))
NothingMore == Frame("continuation", TRUE, <<>>)
Pong == Frame("pong", TRUE, <<>>)
Text == Frame("text", TRUE, <<<<Notification(0), 1>>>>)
FirstText == Frame("text", FALSE, <<>>)
SecondText == Frame("text", TRUE, <<>>)
Masked == [Ping EXCEPT !.masked = TRUE]
Overlong == Frame("binary", TRUE, [i \in 1..MaxPayload + 1 |-> <<Malformed, i>>])
Reserved == Frame("reserved", TRUE, <<>>)
Goodbye == Frame("close", TRUE, <<>>)

(* Where a reader may be in a message: its locals and what is still to     *)
(* come of the message.                                                    *)
InOneFrame(m) ==
  LET f == OneFrame(m)
  IN { <<NewReader, <<Header(f), Half(f, 1), Half(f, 2)>>>>,
       <<Locals(f, 0, "none", <<>>), <<Half(f, 1), Half(f, 2)>>>>,
       <<Locals(f, 1, "none", <<>>), <<Half(f, 2)>>>> }

InTwoHalves(m) ==
  LET f == Beginning(m) g == Rest(m)
  IN { <<NewReader, <<Header(f), Half(f, 1), Header(g), Half(g, 1)>>>>,
       <<NewReader, <<Header(f), Half(f, 1), Header(Ping), Header(g), Half(g, 1)>>>>,
       <<Locals(f, 0, "none", <<>>), <<Half(f, 1), Header(g), Half(g, 1)>>>>,
       <<Locals(f, 0, "none", <<>>), <<Half(f, 1), Header(Ping), Header(g), Half(g, 1)>>>>,
       <<Between("binary", f.part), <<Header(Ping), Header(g), Half(g, 1)>>>>,
       <<Between("binary", f.part), <<Header(g), Half(g, 1)>>>>,
       <<Locals(g, 0, "binary", f.part), <<Half(g, 1)>>>> }

InAllThenNothing(m) ==
  LET f == AllOfIt(m)
  IN { <<NewReader, <<Header(f), Half(f, 1), Half(f, 2), Header(NothingMore)>>>>,
       <<Locals(f, 0, "none", <<>>), <<Half(f, 1), Half(f, 2), Header(NothingMore)>>>>,
       <<Locals(f, 1, "none", <<>>), <<Half(f, 2), Header(NothingMore)>>>>,
       <<Between("binary", f.part), <<Header(NothingMore)>>>> }

InMessage(m) == InOneFrame(m) \cup InTwoHalves(m) \cup InAllThenNothing(m)

InIdle ==
  { <<NewReader, <<Header(Ping)>>>>, <<NewReader, <<Header(Pong)>>>>,
    <<NewReader, <<Header(Text), Half(Text, 1)>>>>,
    <<Locals(Text, 0, "none", <<>>), <<Half(Text, 1)>>>> }

InBreach ==
  {<<NewReader, b>> : b \in Breaches}
    \cup {<<Between("text", <<>>), <<Header(SecondText)>>>>}

(* The reader is where the camera's pieces are: inside the one message     *)
(* that is under way, or in something that is no message.                  *)
Fits(r, rest) ==
  \/ \E m \in Sendable : <<r, rest>> \in InMessage(m) /\ transit = <<m>>
  \/ <<r, rest>> \in InOneFrame(Malformed) \cup InIdle /\ transit = <<>>
  \/ <<r, rest>> \in InBreach /\ transit = <<>> /\ broken
  \/ r = NewReader /\ rest = <<>> /\ transit = <<>>

(* A session that breaks loses all but a piece that has arrived.           *)
Remains(rest) ==
  \/ coming = rest
  \/ broken /\ coming \in {<<>>, <<Header(End)>>}
  \/ broken /\ rest # <<>> /\ coming \in {<<Head(rest)>>, <<Head(rest), Header(End)>>}

(* The time a reader has taken is that of the pieces it has read and of    *)
(* the one it waits for; a request may have read on for its timeout.       *)
TimeSpent(rest) ==
  \E count \in 0..LongestMessage - 1 :
    /\ count = 0 \/ (rest # <<>> /\ count + Len(rest) <= LongestMessage)
    /\ request.by = "loop" => /\ elapsed <= count * LoopTimeout + quiet
                              /\ ready \/ rest # <<>>
    /\ request.by = "call" => elapsed <= CallTimeout + count * CallTimeout + quiet

StreamTypeOK ==
  /\ nextRequestId \in 1..MaxId /\ asked \in 0..MaxId /\ note \in 0..NoteCount - 1
  /\ elapsed \in Nat /\ quiet \in Nat /\ broken \in BOOLEAN /\ ready \in BOOLEAN
  /\ request \in [by: {"nobody", "loop", "call"}, id: 0..MaxId]
  /\ request.by = "nobody" => request = Nobody
StreamInv ==
  /\ StreamTypeOK
  /\ ready => coming # <<>>
  /\ request = Nobody => reader = NewReader /\ elapsed = 0 /\ quiet = 0
  /\ request # Nobody => quiet <= RecvTimeout
  /\ \E rest : Fits(reader, rest) /\ Remains(rest) /\ TimeSpent(rest)

-----------------------------------------------------------------------------
(* What the camera sends, piece by piece.                                  *)

LEMMA PiecesOf ==
  ASSUME NEW f
  PROVE  /\ f.part = <<>> => Pieces(f) = <<Header(f)>>
         /\ \A a : f.part = <<a>> => Pieces(f) = <<Header(f), Half(f, 1)>>
         /\ \A a, b : f.part = <<a, b>> => Pieces(f) = <<Header(f), Half(f, 1), Half(f, 2)>>
<1>1. ASSUME f.part = <<>> PROVE Pieces(f) = <<Header(f)>>
  <2>1. Len(f.part) = 0
    BY <1>1
  <2> QED  BY <2>1 DEF Pieces, Header
<1>2. ASSUME NEW a, f.part = <<a>> PROVE Pieces(f) = <<Header(f), Half(f, 1)>>
  <2>1. Len(f.part) = 1
    BY <1>2
  <2> QED  BY <2>1 DEF Pieces, Header, Half
<1>3. ASSUME NEW a, NEW b, f.part = <<a, b>>
      PROVE  Pieces(f) = <<Header(f), Half(f, 1), Half(f, 2)>>
  <2>1. Len(f.part) = 2
    BY <1>3
  <2> QED  BY <2>1 DEF Pieces, Header, Half
<1> QED  BY <1>1, <1>2, <1>3

LEMMA FormsBegin ==
  ASSUME NEW m, NEW form \in Forms(m)
  PROVE  <<NewReader, form>> \in InMessage(m) /\ Len(form) \in 3..LongestMessage
<1>1. SubSeq(Content(m), 1, 1) = <<<<m, 1>>>> /\ SubSeq(Content(m), 2, 2) = <<<<m, 2>>>>
  <2>1. \A i \in 1..2 : Content(m)[i] = <<m, i>> /\ Content(m)[i] \in {<<m, 1>>, <<m, 2>>}
    BY DEF Content
  <2>2. \A i \in 1..2 :
          /\ SubSeq(Content(m), i, i) \in Seq({<<m, 1>>, <<m, 2>>})
          /\ Len(SubSeq(Content(m), i, i)) = 1 /\ SubSeq(Content(m), i, i)[1] = Content(m)[i]
    BY <2>1, SubSeqProperties
  <2>3. \A s \in Seq({<<m, 1>>, <<m, 2>>}) : Len(s) = 1 => s = <<s[1]>>
    OBVIOUS
  <2>4. ASSUME NEW i \in 1..2 PROVE SubSeq(Content(m), i, i) = <<Content(m)[i]>>
    <3> DEFINE s == SubSeq(Content(m), i, i)
    <3>1. s \in Seq({<<m, 1>>, <<m, 2>>}) /\ Len(s) = 1 /\ s[1] = Content(m)[i]
      BY <2>2
    <3> HIDE DEF s
    <3>2. s = <<Content(m)[i]>>
      BY <2>3, <3>1
    <3> QED  BY <3>2 DEF s
  <2> QED  BY <2>1, <2>4
<1>2. /\ Pieces(Beginning(m)) = <<Header(Beginning(m)), Half(Beginning(m), 1)>>
      /\ Pieces(Rest(m)) = <<Header(Rest(m)), Half(Rest(m), 1)>>
      /\ Pieces(Ping) = <<Header(Ping)>>
      /\ Pieces(NothingMore) = <<Header(NothingMore)>>
  BY PiecesOf DEF Beginning, Rest, Ping, NothingMore, Frame
<1>3. /\ Pieces(OneFrame(m)) =
           <<Header(OneFrame(m)), Half(OneFrame(m), 1), Half(OneFrame(m), 2)>>
      /\ Pieces(AllOfIt(m)) = <<Header(AllOfIt(m)), Half(AllOfIt(m), 1), Half(AllOfIt(m), 2)>>
  BY PiecesOf DEF OneFrame, AllOfIt, Frame, Content
<1>4. form \in { Pieces(OneFrame(m)), Pieces(Beginning(m)) \o <<>> \o Pieces(Rest(m)),
                 Pieces(Beginning(m)) \o Pieces(Ping) \o Pieces(Rest(m)),
                 Pieces(AllOfIt(m)) \o Pieces(NothingMore) }
  BY <1>1 DEF Forms, Whole, Split, OneFrame, Beginning, Rest, AllOfIt, NothingMore
<1>5. form \in
        { <<Header(OneFrame(m)), Half(OneFrame(m), 1), Half(OneFrame(m), 2)>>,
          <<Header(Beginning(m)), Half(Beginning(m), 1), Header(Rest(m)), Half(Rest(m), 1)>>,
          <<Header(Beginning(m)), Half(Beginning(m), 1), Header(Ping),
            Header(Rest(m)), Half(Rest(m), 1)>>,
          <<Header(AllOfIt(m)), Half(AllOfIt(m), 1), Half(AllOfIt(m), 2),
            Header(NothingMore)>> }
  BY <1>2, <1>3, <1>4
<1> QED
  BY <1>5 DEF InMessage, InOneFrame, InTwoHalves, InAllThenNothing, LongestMessage

-----------------------------------------------------------------------------
(* A reader that is where the pieces are reads on to the end of what it is *)
(* in, and is refused nothing on the way.                                  *)

LEMMA RoomForTwo ==
  /\ MaxPayload \in Nat /\ 2 <= MaxPayload /\ 0 + 2 <= MaxPayload /\ 1 + 1 <= MaxPayload
  /\ Len(<<>>) = 0
  BY StreamAssumption

LEMMA LocalsAre ==
  /\ NewReader = Between("none", <<>>)
  /\ \A f, got, opcode, payload :
       /\ Locals(f, got, opcode, payload).frame = f
       /\ Locals(f, got, opcode, payload).got = got
       /\ Locals(f, got, opcode, payload).opcode = opcode
       /\ Locals(f, got, opcode, payload).payload = payload
  BY DEF NewReader, Locals, Between

(* What the reader looks at in a frame.                                    *)
IsFrame(f, op, fin, n) ==
  /\ f.op = op /\ f.fin = fin /\ f.masked = FALSE /\ Len(f.part) = n
  /\ f # NoFrame /\ f # End

LEMMA FramesOf ==
  ASSUME NEW m
  PROVE  /\ IsFrame(OneFrame(m), "binary", TRUE, 2) /\ OneFrame(m).part = Content(m)
         /\ IsFrame(AllOfIt(m), "binary", FALSE, 2) /\ AllOfIt(m).part = Content(m)
         /\ IsFrame(Beginning(m), "binary", FALSE, 1) /\ Beginning(m).part = <<<<m, 1>>>>
         /\ IsFrame(Rest(m), "continuation", TRUE, 1) /\ Rest(m).part = <<<<m, 2>>>>
         /\ IsFrame(NothingMore, "continuation", TRUE, 0) /\ NothingMore.part = <<>>
         /\ IsFrame(Text, "text", TRUE, 1)
         /\ IsFrame(Ping, "ping", TRUE, 0) /\ Ping.part = <<>>
<1> USE DEF Frame, End, NoFrame, IsFrame
<1>1. IsFrame(OneFrame(m), "binary", TRUE, 2) /\ OneFrame(m).part = Content(m)
  BY DEF OneFrame, Content
<1>2. IsFrame(AllOfIt(m), "binary", FALSE, 2) /\ AllOfIt(m).part = Content(m)
  BY DEF AllOfIt, Content
<1>3. IsFrame(Beginning(m), "binary", FALSE, 1) /\ Beginning(m).part = <<<<m, 1>>>>
  BY DEF Beginning
<1>4. IsFrame(Rest(m), "continuation", TRUE, 1) /\ Rest(m).part = <<<<m, 2>>>>
  BY DEF Rest
<1>5. IsFrame(NothingMore, "continuation", TRUE, 0) /\ NothingMore.part = <<>>
  BY DEF NothingMore
<1>6. IsFrame(Text, "text", TRUE, 1)
  BY DEF Text
<1>7. IsFrame(Ping, "ping", TRUE, 0) /\ Ping.part = <<>>
  BY DEF Ping
<1> QED  BY <1>1, <1>2, <1>3, <1>4, <1>5, <1>6, <1>7

LEMMA PairOf ==
  ASSUME NEW a, NEW b
  PROVE  <<a>> \o <<b>> = <<a, b>>
<1> DEFINE s == <<a>> \o <<b>>
<1>1. <<a>> \in Seq({a, b}) /\ <<b>> \in Seq({a, b})
  OBVIOUS
<1>2. Len(s) = 2 /\ s[1] = a /\ s[2] = b /\ s \in Seq({a, b})
  BY <1>1
<1>3. \A t \in Seq({a, b}) : Len(t) = 2 => t = <<t[1], t[2]>>
  OBVIOUS
<1> HIDE DEF s
<1>4. s = <<a, b>>
  BY <1>2, <1>3
<1> QED  BY <1>4 DEF s

LEMMA HalvesMakeOne ==
  ASSUME NEW m
  PROVE  /\ <<<<m, 1>>>> \o <<<<m, 2>>>> = Content(m)
         /\ <<>> \o Content(m) = Content(m) /\ Content(m) \o <<>> = Content(m)
         /\ Len(Content(m)) = 2 /\ Len(<<<<m, 1>>>>) = 1 /\ Len(<<>>) = 0
<1>1. <<<<m, 1>>>> \o <<<<m, 2>>>> = Content(m)
  BY PairOf DEF Content
<1>2. Content(m) \in Seq({<<m, 1>>, <<m, 2>>}) /\ Len(Content(m)) = 2
  BY DEF Content
<1>3. <<>> \o Content(m) = Content(m) /\ Content(m) \o <<>> = Content(m)
  BY <1>2
<1> QED  BY <1>1, <1>2, <1>3

LEMMA AtItsHeader ==
  ASSUME NEW f, NEW opcode, NEW payload,
         reader = Between(opcode, payload), Head(coming) = Header(f)
  PROVE  /\ AtHeader /\ Current = f /\ Got = 0 /\ Head(coming).frame = f
         /\ reader.payload = payload /\ reader.opcode = opcode
<1>1. reader.frame = NoFrame /\ reader.payload = payload /\ reader.opcode = opcode
  BY LocalsAre DEF Between
<1>2. Head(coming).k = 0 /\ Head(coming).frame = f
  BY DEF Header
<1> QED  BY <1>1, <1>2 DEF AtHeader, Current, Got

LEMMA InsideIt ==
  ASSUME NEW f, NEW got, NEW k, NEW opcode, NEW payload, f # NoFrame,
         reader = Locals(f, got, opcode, payload), Head(coming) = Half(f, k)
  PROVE  /\ ~AtHeader /\ Current = f /\ Got = got + 1 /\ Head(coming).frame = f
         /\ reader.payload = payload /\ reader.opcode = opcode
<1>1. /\ reader.frame = f /\ reader.got = got
      /\ reader.payload = payload /\ reader.opcode = opcode
  BY LocalsAre
<1>2. Head(coming).frame = f
  BY DEF Half
<1> QED  BY <1>1, <1>2 DEF AtHeader, Current, Got

(* The header of a frame with a payload, a half that is not the last, and  *)
(* the piece that completes a frame.                                       *)
LEMMA ReadsHeader ==
  ASSUME NEW f, NEW op, NEW fin, NEW n \in {1, 2}, IsFrame(f, op, fin, n),
         NEW opcode, NEW payload, Len(payload) \in Nat, Len(payload) + n <= MaxPayload,
         reader = Between(opcode, payload), Head(coming) = Header(f)
  PROVE  /\ ~Refused /\ ~FrameRead
         /\ Locals(Current, Got, reader.opcode, reader.payload) = Locals(f, 0, opcode, payload)
<1>1. /\ AtHeader /\ Current = f /\ Got = 0 /\ Head(coming).frame = f
      /\ reader.payload = payload /\ reader.opcode = opcode
  BY AtItsHeader
<1>2. ~FrameRead
  BY <1>1 DEF FrameRead, IsFrame
<1>3. ~(Len(reader.payload) + Len(Current.part) > MaxPayload)
  BY <1>1, RoomForTwo DEF IsFrame
<1>4. ~Current.masked /\ Head(coming).frame # End
  BY <1>1 DEF IsFrame
<1> QED  BY <1>1, <1>2, <1>3, <1>4 DEF Refused

LEMMA ReadsHalf ==
  ASSUME NEW f, NEW op, NEW fin, IsFrame(f, op, fin, 2), NEW opcode, NEW payload,
         reader = Locals(f, 0, opcode, payload), Head(coming) = Half(f, 1)
  PROVE  /\ ~Refused /\ ~FrameRead
         /\ Locals(Current, Got, reader.opcode, reader.payload) = Locals(f, 1, opcode, payload)
<1>1. /\ ~AtHeader /\ Current = f /\ Got = 0 + 1 /\ Head(coming).frame = f
      /\ reader.payload = payload /\ reader.opcode = opcode
  BY InsideIt DEF IsFrame
<1>2. Got = 1 /\ ~FrameRead
  BY <1>1 DEF FrameRead, IsFrame
<1> QED  BY <1>1, <1>2 DEF Refused, IsFrame

(* The next piece is the last of frame f.                                  *)
LastOf(f, opcode, payload) ==
  \/ /\ reader = Between(opcode, payload) /\ Head(coming) = Header(f)
     /\ Len(f.part) = 0
     /\ Len(payload) \in Nat /\ Len(payload) <= MaxPayload
  \/ reader = Locals(f, 0, opcode, payload) /\ Head(coming) = Half(f, 1) /\ Len(f.part) = 1
  \/ reader = Locals(f, 1, opcode, payload) /\ Head(coming) = Half(f, 2) /\ Len(f.part) = 2

LEMMA ReadsLast ==
  ASSUME NEW f, NEW op, NEW fin, NEW n, IsFrame(f, op, fin, n),
         NEW opcode, NEW payload, LastOf(f, opcode, payload)
  PROVE  /\ FrameRead /\ Current = f /\ reader.payload = payload /\ reader.opcode = opcode
         /\ op \in {"text", "binary"} /\ opcode = "none" => ~Refused
         /\ op = "continuation" /\ opcode # "none" => ~Refused
         /\ op \in {"ping", "pong"} => ~Refused
<1>1. /\ FrameRead /\ Current = f /\ reader.payload = payload /\ reader.opcode = opcode
      /\ Head(coming).frame = f
      /\ AtHeader => ~(Len(reader.payload) + Len(Current.part) > MaxPayload)
  <2>1. CASE /\ reader = Between(opcode, payload) /\ Head(coming) = Header(f)
             /\ Len(f.part) = 0
             /\ Len(payload) \in Nat /\ Len(payload) <= MaxPayload
    <3>1. /\ AtHeader /\ Current = f /\ Got = 0 /\ Head(coming).frame = f
          /\ reader.payload = payload /\ reader.opcode = opcode
      BY <2>1, AtItsHeader
    <3> QED  BY <2>1, <3>1, RoomForTwo DEF FrameRead
  <2>2. CASE /\ reader = Locals(f, 0, opcode, payload) /\ Head(coming) = Half(f, 1)
             /\ Len(f.part) = 1
    <3>1. /\ ~AtHeader /\ Current = f /\ Got = 0 + 1 /\ Head(coming).frame = f
          /\ reader.payload = payload /\ reader.opcode = opcode
      BY <2>2, InsideIt DEF IsFrame
    <3>2. Got = Len(Current.part)
      BY <2>2, <3>1
    <3> QED  BY <3>1, <3>2 DEF FrameRead
  <2>3. CASE /\ reader = Locals(f, 1, opcode, payload) /\ Head(coming) = Half(f, 2)
             /\ Len(f.part) = 2
    <3>1. /\ ~AtHeader /\ Current = f /\ Got = 1 + 1 /\ Head(coming).frame = f
          /\ reader.payload = payload /\ reader.opcode = opcode
      BY <2>3, InsideIt DEF IsFrame
    <3>2. Got = Len(Current.part)
      BY <2>3, <3>1
    <3> QED  BY <3>1, <3>2 DEF FrameRead
  <2> QED  BY <2>1, <2>2, <2>3 DEF LastOf
<1>2. f.op = op /\ ~Current.masked /\ Head(coming).frame # End
  BY <1>1 DEF IsFrame
<1> QED  BY <1>1, <1>2 DEF Refused, Started

(* What a reader that is at a point does with the next piece: reads on to  *)
(* another of the points, or returns with this opcode and payload.         *)
ReadsWithin(points, rest, opcode, payload) ==
  /\ ~Refused
  /\ ~FrameRead =>
       <<Locals(Current, Got, reader.opcode, reader.payload), Tail(rest)>> \in points
  /\ FrameRead /\ ~MessageRead =>
       <<Locals(NoFrame, 0, Opcode, Payload), Tail(rest)>> \in points
  /\ FrameRead /\ MessageRead => Tail(rest) = <<>> /\ Opcode = opcode /\ Payload = payload

LEMMA ReadsOneFrame ==
  ASSUME NEW m, NEW rest, <<reader, rest>> \in InOneFrame(m), Head(coming) = Head(rest)
  PROVE  ReadsWithin(InOneFrame(m), rest, "binary", Content(m))
<1>f. IsFrame(OneFrame(m), "binary", TRUE, 2) /\ OneFrame(m).part = Content(m)
  BY FramesOf
<1>1. CASE reader = NewReader
           /\ rest = <<Header(OneFrame(m)), Half(OneFrame(m), 1), Half(OneFrame(m), 2)>>
  <2>1. /\ reader = Between("none", <<>>) /\ Head(coming) = Header(OneFrame(m))
        /\ Tail(rest) = <<Half(OneFrame(m), 1), Half(OneFrame(m), 2)>>
    BY <1>1, LocalsAre
  <2>2. Len(<<>>) \in Nat /\ Len(<<>>) + 2 <= MaxPayload
    BY RoomForTwo
  <2>3. /\ ~Refused /\ ~FrameRead
        /\ Locals(Current, Got, reader.opcode, reader.payload)
             = Locals(OneFrame(m), 0, "none", <<>>)
    BY <1>f, <2>1, <2>2, ReadsHeader
  <2> QED  BY <2>1, <2>3 DEF ReadsWithin, InOneFrame
<1>2. CASE reader = Locals(OneFrame(m), 0, "none", <<>>)
           /\ rest = <<Half(OneFrame(m), 1), Half(OneFrame(m), 2)>>
  <2>1. Head(coming) = Half(OneFrame(m), 1) /\ Tail(rest) = <<Half(OneFrame(m), 2)>>
    BY <1>2
  <2>2. /\ ~Refused /\ ~FrameRead
        /\ Locals(Current, Got, reader.opcode, reader.payload)
             = Locals(OneFrame(m), 1, "none", <<>>)
    BY <1>f, <1>2, <2>1, ReadsHalf
  <2> QED  BY <2>1, <2>2 DEF ReadsWithin, InOneFrame
<1>3. CASE reader = Locals(OneFrame(m), 1, "none", <<>>) /\ rest = <<Half(OneFrame(m), 2)>>
  <2>1. LastOf(OneFrame(m), "none", <<>>) /\ Tail(rest) = <<>>
    BY <1>3, <1>f DEF LastOf, IsFrame
  <2>2. /\ FrameRead /\ Current = OneFrame(m) /\ ~Refused
        /\ reader.payload = <<>> /\ reader.opcode = "none"
    BY <1>f, <2>1, ReadsLast
  <2>3. MessageRead /\ Opcode = "binary" /\ Payload = Content(m)
    BY <1>f, <2>2, HalvesMakeOne DEF IsFrame, Control, Payload, Opcode, MessageRead, Started
  <2> QED  BY <2>1, <2>2, <2>3 DEF ReadsWithin
<1> QED  BY <1>1, <1>2, <1>3 DEF InOneFrame

LEMMA EndsData ==
  ASSUME NEW f, NEW op \in {"text", "binary", "continuation"}, NEW fin, NEW n,
         IsFrame(f, op, fin, n), NEW opcode, NEW payload, LastOf(f, opcode, payload)
  PROVE  /\ fin = TRUE => MessageRead
         /\ fin = FALSE => ~MessageRead
         /\ Opcode = IF opcode = "none" THEN op ELSE opcode
         /\ Payload = payload \o f.part
<1>1. /\ FrameRead /\ Current = f /\ reader.payload = payload /\ reader.opcode = opcode
  BY ReadsLast
<1>2. f.op = op /\ f.fin = fin
  BY DEF IsFrame
<1> QED  BY <1>1, <1>2 DEF Control, Payload, Opcode, MessageRead, Started

LEMMA EndsControl ==
  ASSUME NEW f, NEW op \in {"ping", "pong"}, NEW fin, NEW n,
         IsFrame(f, op, fin, n), NEW opcode, NEW payload, LastOf(f, opcode, payload)
  PROVE  /\ MessageRead <=> opcode = "none"
         /\ Opcode = IF opcode = "none" THEN op ELSE opcode
         /\ Payload = payload
<1>1. /\ FrameRead /\ Current = f /\ reader.payload = payload /\ reader.opcode = opcode
  BY ReadsLast
<1>2. f.op = op
  BY DEF IsFrame
<1> QED  BY <1>1, <1>2 DEF Control, Payload, Opcode, MessageRead, Started

LEMMA ReadsTwoHalves ==
  ASSUME NEW m, NEW rest, <<reader, rest>> \in InTwoHalves(m), Head(coming) = Head(rest)
  PROVE  ReadsWithin(InTwoHalves(m), rest, "binary", Content(m))
<1>f. /\ IsFrame(Beginning(m), "binary", FALSE, 1) /\ Beginning(m).part = <<<<m, 1>>>>
      /\ IsFrame(Rest(m), "continuation", TRUE, 1) /\ Rest(m).part = <<<<m, 2>>>>
      /\ IsFrame(Ping, "ping", TRUE, 0) /\ Len(Ping.part) = 0
  BY FramesOf DEF IsFrame
<1>l. /\ Len(<<>>) \in Nat /\ Len(<<>>) + 1 <= MaxPayload
      /\ Len(<<<<m, 1>>>>) \in Nat /\ Len(<<<<m, 1>>>>) + 1 <= MaxPayload
      /\ Len(<<<<m, 1>>>>) <= MaxPayload
      /\ <<>> \o <<<<m, 1>>>> = <<<<m, 1>>>>
  BY RoomForTwo
<1>1. CASE /\ reader = NewReader
           /\ rest \in { <<Header(Beginning(m)), Half(Beginning(m), 1),
                           Header(Rest(m)), Half(Rest(m), 1)>>,
                         <<Header(Beginning(m)), Half(Beginning(m), 1),
                           Header(Ping), Header(Rest(m)), Half(Rest(m), 1)>> }
  <2>1. /\ reader = Between("none", <<>>) /\ Head(coming) = Header(Beginning(m))
        /\ Tail(rest) \in
             { <<Half(Beginning(m), 1), Header(Rest(m)), Half(Rest(m), 1)>>,
               <<Half(Beginning(m), 1), Header(Ping), Header(Rest(m)), Half(Rest(m), 1)>> }
    <3>1. CASE rest = <<Header(Beginning(m)), Half(Beginning(m), 1),
                        Header(Rest(m)), Half(Rest(m), 1)>>
      BY <1>1, <3>1, LocalsAre
    <3>2. CASE rest = <<Header(Beginning(m)), Half(Beginning(m), 1),
                        Header(Ping), Header(Rest(m)), Half(Rest(m), 1)>>
      BY <1>1, <3>2, LocalsAre
    <3> QED  BY <1>1, <3>1, <3>2
  <2>2. /\ ~Refused /\ ~FrameRead
        /\ Locals(Current, Got, reader.opcode, reader.payload)
             = Locals(Beginning(m), 0, "none", <<>>)
    BY <1>f, <1>l, <2>1, ReadsHeader
  <2>3. <<Locals(Beginning(m), 0, "none", <<>>), Tail(rest)>> \in InTwoHalves(m)
    BY <2>1 DEF InTwoHalves
  <2> QED  BY <2>2, <2>3 DEF ReadsWithin
<1>2. CASE /\ reader = Locals(Beginning(m), 0, "none", <<>>)
           /\ rest \in
                { <<Half(Beginning(m), 1), Header(Rest(m)), Half(Rest(m), 1)>>,
                  <<Half(Beginning(m), 1), Header(Ping), Header(Rest(m)), Half(Rest(m), 1)>> }
  <2>1. /\ Head(coming) = Half(Beginning(m), 1)
        /\ Tail(rest) \in { <<Header(Rest(m)), Half(Rest(m), 1)>>,
                            <<Header(Ping), Header(Rest(m)), Half(Rest(m), 1)>> }
    <3>1. CASE rest = <<Half(Beginning(m), 1), Header(Rest(m)), Half(Rest(m), 1)>>
      BY <3>1
    <3>2. CASE rest = <<Half(Beginning(m), 1), Header(Ping), Header(Rest(m)), Half(Rest(m), 1)>>
      BY <3>2
    <3> QED  BY <1>2, <3>1, <3>2
  <2>2. LastOf(Beginning(m), "none", <<>>)
    BY <1>2, <1>f, <2>1 DEF LastOf, IsFrame
  <2>3. FrameRead /\ ~Refused
    BY <1>f, <2>2, ReadsLast
  <2>4. ~MessageRead /\ Opcode = "binary" /\ Payload = <<<<m, 1>>>>
    BY <1>f, <1>l, <2>2, EndsData
  <2>5. <<Locals(NoFrame, 0, "binary", <<<<m, 1>>>>), Tail(rest)>> \in InTwoHalves(m)
    BY <2>1, <1>f DEF InTwoHalves, Between
  <2> QED  BY <2>1, <2>3, <2>4, <2>5 DEF ReadsWithin
<1>3. CASE /\ reader = Between("binary", Beginning(m).part)
           /\ rest = <<Header(Ping), Header(Rest(m)), Half(Rest(m), 1)>>
  <2>1. Head(coming) = Header(Ping) /\ Tail(rest) = <<Header(Rest(m)), Half(Rest(m), 1)>>
    BY <1>3
  <2>2. LastOf(Ping, "binary", <<<<m, 1>>>>)
    BY <1>3, <1>f, <1>l, <2>1 DEF LastOf
  <2>3. FrameRead /\ ~Refused
    BY <1>f, <2>2, ReadsLast
  <2>4. ~MessageRead /\ Opcode = "binary" /\ Payload = <<<<m, 1>>>>
    BY <1>f, <2>2, EndsControl
  <2>5. <<Locals(NoFrame, 0, "binary", <<<<m, 1>>>>), <<Header(Rest(m)), Half(Rest(m), 1)>> >>
          \in InTwoHalves(m)
    BY <1>f DEF InTwoHalves, Between
  <2> QED  BY <2>1, <2>3, <2>4, <2>5 DEF ReadsWithin
<1>4. CASE /\ reader = Between("binary", Beginning(m).part)
           /\ rest = <<Header(Rest(m)), Half(Rest(m), 1)>>
  <2>1. /\ reader = Between("binary", <<<<m, 1>>>>) /\ Head(coming) = Header(Rest(m))
        /\ Tail(rest) = <<Half(Rest(m), 1)>>
    BY <1>4, <1>f
  <2>2. /\ ~Refused /\ ~FrameRead
        /\ Locals(Current, Got, reader.opcode, reader.payload)
             = Locals(Rest(m), 0, "binary", <<<<m, 1>>>>)
    BY <1>f, <1>l, <2>1, ReadsHeader
  <2>3. <<Locals(Rest(m), 0, "binary", <<<<m, 1>>>>), Tail(rest)>> \in InTwoHalves(m)
    BY <1>f, <2>1 DEF InTwoHalves
  <2> QED  BY <2>2, <2>3 DEF ReadsWithin
<1>5. CASE /\ reader = Locals(Rest(m), 0, "binary", Beginning(m).part)
           /\ rest = <<Half(Rest(m), 1)>>
  <2>1. Head(coming) = Half(Rest(m), 1) /\ Tail(rest) = <<>>
    BY <1>5
  <2>2. LastOf(Rest(m), "binary", <<<<m, 1>>>>)
    BY <1>5, <1>f, <2>1 DEF LastOf, IsFrame
  <2>3. FrameRead /\ ~Refused
    BY <1>f, <2>2, ReadsLast
  <2>4. MessageRead /\ Opcode = "binary" /\ Payload = Content(m)
    BY <1>f, <2>2, EndsData, HalvesMakeOne
  <2> QED  BY <2>1, <2>3, <2>4 DEF ReadsWithin
<1> QED  BY <1>1, <1>2, <1>3, <1>4, <1>5 DEF InTwoHalves

LEMMA ReadsAllThenNothing ==
  ASSUME NEW m, NEW rest, <<reader, rest>> \in InAllThenNothing(m), Head(coming) = Head(rest)
  PROVE  ReadsWithin(InAllThenNothing(m), rest, "binary", Content(m))
<1>f. /\ IsFrame(AllOfIt(m), "binary", FALSE, 2) /\ AllOfIt(m).part = Content(m)
      /\ IsFrame(NothingMore, "continuation", TRUE, 0) /\ NothingMore.part = <<>>
      /\ Len(NothingMore.part) = 0
  BY FramesOf DEF IsFrame
<1>l. /\ Len(<<>>) \in Nat /\ Len(<<>>) + 2 <= MaxPayload
      /\ Len(Content(m)) \in Nat /\ Len(Content(m)) <= MaxPayload
  <2>1. Len(Content(m)) = 2
    BY HalvesMakeOne
  <2> QED  BY <2>1, RoomForTwo
<1>1. CASE /\ reader = NewReader
           /\ rest = <<Header(AllOfIt(m)), Half(AllOfIt(m), 1), Half(AllOfIt(m), 2),
                       Header(NothingMore)>>
  <2>1. /\ reader = Between("none", <<>>) /\ Head(coming) = Header(AllOfIt(m))
        /\ Tail(rest) = <<Half(AllOfIt(m), 1), Half(AllOfIt(m), 2), Header(NothingMore)>>
    BY <1>1, LocalsAre
  <2>2. /\ ~Refused /\ ~FrameRead
        /\ Locals(Current, Got, reader.opcode, reader.payload) = Locals(AllOfIt(m), 0, "none", <<>>)
    BY <1>f, <1>l, <2>1, ReadsHeader
  <2> QED  BY <2>1, <2>2 DEF ReadsWithin, InAllThenNothing
<1>2. CASE /\ reader = Locals(AllOfIt(m), 0, "none", <<>>)
           /\ rest = <<Half(AllOfIt(m), 1), Half(AllOfIt(m), 2), Header(NothingMore)>>
  <2>1. /\ Head(coming) = Half(AllOfIt(m), 1)
        /\ Tail(rest) = <<Half(AllOfIt(m), 2), Header(NothingMore)>>
    BY <1>2
  <2>2. /\ ~Refused /\ ~FrameRead
        /\ Locals(Current, Got, reader.opcode, reader.payload) = Locals(AllOfIt(m), 1, "none", <<>>)
    BY <1>f, <1>2, <2>1, ReadsHalf
  <2> QED  BY <2>1, <2>2 DEF ReadsWithin, InAllThenNothing
<1>3. CASE /\ reader = Locals(AllOfIt(m), 1, "none", <<>>)
           /\ rest = <<Half(AllOfIt(m), 2), Header(NothingMore)>>
  <2>1. Head(coming) = Half(AllOfIt(m), 2) /\ Tail(rest) = <<Header(NothingMore)>>
    BY <1>3
  <2>2. LastOf(AllOfIt(m), "none", <<>>)
    BY <1>3, <1>f, <2>1 DEF LastOf, IsFrame
  <2>3. FrameRead /\ ~Refused
    BY <1>f, <2>2, ReadsLast
  <2>4. ~MessageRead /\ Opcode = "binary" /\ Payload = Content(m)
    BY <1>f, <2>2, EndsData, HalvesMakeOne
  <2>5. <<Locals(NoFrame, 0, "binary", Content(m)), <<Header(NothingMore)>> >>
          \in InAllThenNothing(m)
    BY <1>f DEF InAllThenNothing, Between
  <2> QED  BY <2>1, <2>3, <2>4, <2>5 DEF ReadsWithin
<1>4. CASE /\ reader = Between("binary", AllOfIt(m).part)
           /\ rest = <<Header(NothingMore)>>
  <2>1. Head(coming) = Header(NothingMore) /\ Tail(rest) = <<>>
    BY <1>4
  <2>2. LastOf(NothingMore, "binary", Content(m))
    BY <1>4, <1>f, <1>l, <2>1 DEF LastOf
  <2>3. FrameRead /\ ~Refused
    BY <1>f, <2>2, ReadsLast
  <2>4. MessageRead /\ Opcode = "binary" /\ Payload = Content(m)
    BY <1>f, <2>2, EndsData, HalvesMakeOne
  <2> QED  BY <2>1, <2>3, <2>4 DEF ReadsWithin
<1> QED  BY <1>1, <1>2, <1>3, <1>4 DEF InAllThenNothing

LEMMA ReadsIdle ==
  ASSUME NEW rest, <<reader, rest>> \in InIdle, Head(coming) = Head(rest)
  PROVE  /\ ~Refused
         /\ ~FrameRead =>
              <<Locals(Current, Got, reader.opcode, reader.payload), Tail(rest)>> \in InIdle
         /\ FrameRead => MessageRead /\ Tail(rest) = <<>> /\ Opcode # "binary"
<1>f. /\ IsFrame(Ping, "ping", TRUE, 0) /\ IsFrame(Text, "text", TRUE, 1)
      /\ IsFrame(Pong, "pong", TRUE, 0) /\ Len(Ping.part) = 0 /\ Len(Pong.part) = 0
  BY FramesOf DEF IsFrame, Pong, Frame, NoFrame, End
<1>l. Len(<<>>) \in Nat /\ Len(<<>>) + 1 <= MaxPayload /\ Len(<<>>) <= MaxPayload
  BY RoomForTwo
<1>1. ASSUME NEW f, NEW op \in {"ping", "pong"}, IsFrame(f, op, TRUE, 0), Len(f.part) = 0,
             reader = NewReader, rest = <<Header(f)>>
      PROVE  /\ ~Refused /\ FrameRead /\ MessageRead /\ Tail(rest) = <<>> /\ Opcode # "binary"
  <2>1. reader = Between("none", <<>>) /\ Head(coming) = Header(f) /\ Tail(rest) = <<>>
    BY <1>1, LocalsAre
  <2>2. LastOf(f, "none", <<>>)
    BY <1>1, <1>l, <2>1 DEF LastOf
  <2>3. ~Refused /\ FrameRead
    BY <1>1, <2>2, ReadsLast
  <2>4. MessageRead /\ Opcode = op
    BY <1>1, <2>2, EndsControl
  <2> QED  BY <2>1, <2>3, <2>4
<1>2. CASE reader = NewReader /\ rest = <<Header(Text), Half(Text, 1)>>
  <2>1. /\ reader = Between("none", <<>>) /\ Head(coming) = Header(Text)
        /\ Tail(rest) = <<Half(Text, 1)>>
    BY <1>2, LocalsAre
  <2>2. /\ ~Refused /\ ~FrameRead
        /\ Locals(Current, Got, reader.opcode, reader.payload) = Locals(Text, 0, "none", <<>>)
    BY <1>f, <1>l, <2>1, ReadsHeader
  <2> QED  BY <2>1, <2>2 DEF InIdle
<1>3. CASE reader = Locals(Text, 0, "none", <<>>) /\ rest = <<Half(Text, 1)>>
  <2>1. Head(coming) = Half(Text, 1) /\ Tail(rest) = <<>>
    BY <1>3
  <2>2. LastOf(Text, "none", <<>>)
    BY <1>3, <1>f, <2>1 DEF LastOf, IsFrame
  <2>3. ~Refused /\ FrameRead
    BY <1>f, <2>2, ReadsLast
  <2>4. MessageRead /\ Opcode = "text"
    BY <1>f, <2>2, EndsData
  <2> QED  BY <2>1, <2>3, <2>4
<1> QED  BY <1>1, <1>2, <1>3, <1>f DEF InIdle

LEMMA PiecesBegin ==
  ASSUME NEW f, Len(f.part) \in Nat
  PROVE  Pieces(f) # <<>> /\ Head(Pieces(f)) = Header(f)
<1>1. Len(Pieces(f)) = 1 + Len(f.part) /\ Pieces(f)[1] = Header(f)
  BY DEF Pieces, Header
<1> QED  BY <1>1

LEMMA RefusedAtOnce ==
  ASSUME NEW f, reader = NewReader, Head(coming) = Head(Pieces(f)), Len(f.part) \in Nat,
         \/ f.masked = TRUE \/ Len(f.part) > MaxPayload
         \/ Len(f.part) = 0 /\ f.op \in {"reserved", "continuation", "close"}
  PROVE  Refused
<1>1. Head(coming) = Header(f)
  BY PiecesBegin
<1>2. /\ AtHeader /\ Current = f /\ Got = 0
      /\ reader.payload = <<>> /\ reader.opcode = "none"
  BY <1>1, AtItsHeader, LocalsAre
<1>3. f.masked = TRUE => Refused
  BY <1>2 DEF Refused
<1>4. Len(f.part) > MaxPayload => Refused
  <2>1. Len(f.part) > MaxPayload => Len(reader.payload) + Len(Current.part) > MaxPayload
    BY <1>2, RoomForTwo
  <2> QED  BY <1>2, <2>1 DEF Refused
<1>5. Len(f.part) = 0 /\ f.op \in {"reserved", "continuation", "close"} => Refused
  BY <1>2 DEF Refused, FrameRead, Started
<1> QED  BY <1>3, <1>4, <1>5

(* Whatever breaks the protocol is refused, a text within a text when its  *)
(* second frame comes.                                                     *)
LEMMA ReadsBreach ==
  ASSUME NEW rest, <<reader, rest>> \in InBreach, Head(coming) = Head(rest)
  PROVE  \/ Refused
         \/ /\ ~Refused /\ FrameRead /\ ~MessageRead /\ Len(rest) = 2 /\ Len(Tail(rest)) = 1
            /\ <<Locals(NoFrame, 0, Opcode, Payload), Tail(rest)>> \in InBreach
<1>l. Len(<<>>) \in Nat /\ Len(<<>>) <= MaxPayload
  BY RoomForTwo
<1>n. NewReader = Between("none", <<>>)
  BY LocalsAre
<1>2. CASE reader = NewReader /\ rest = <<Header(FirstText), Header(SecondText)>>
  <2>1. /\ IsFrame(FirstText, "text", FALSE, 0) /\ FirstText.part = <<>>
        /\ Len(FirstText.part) = 0
    BY DEF FirstText, Frame, IsFrame, NoFrame, End
  <2>2. /\ reader = Between("none", <<>>) /\ Head(coming) = Header(FirstText)
        /\ Tail(rest) = <<Header(SecondText)>>
    BY <1>2, <1>n
  <2>3. LastOf(FirstText, "none", <<>>)
    BY <1>l, <2>1, <2>2 DEF LastOf
  <2>4. FrameRead /\ ~Refused
    BY <2>1, <2>3, ReadsLast
  <2>5. ~MessageRead /\ Opcode = "text" /\ Payload = <<>>
    <3>1. <<>> \o <<>> = <<>>
      OBVIOUS
    <3> QED  BY <2>1, <2>3, <3>1, EndsData
  <2> QED  BY <1>2, <2>2, <2>4, <2>5 DEF InBreach, Between
<1>3. CASE reader = Between("text", <<>>) /\ rest = <<Header(SecondText)>>
  <2>1. Head(coming) = Header(SecondText)
    BY <1>3
  <2>2. /\ Current = SecondText /\ Got = 0 /\ reader.opcode = "text"
    BY <1>3, <2>1, AtItsHeader
  <2>3. SecondText.op = "text" /\ Len(SecondText.part) = 0
    BY DEF SecondText, Frame
  <2> QED  BY <2>2, <2>3 DEF Refused, FrameRead, Started
<1>4. ASSUME reader = NewReader, rest \in Breaches
      PROVE  \/ Refused \/ rest = <<Header(FirstText), Header(SecondText)>>
  <2>0. rest \in { Pieces(Masked), Pieces(Overlong), Pieces(Reserved), Pieces(NothingMore),
                   Pieces(FirstText) \o Pieces(SecondText), Pieces(Goodbye) }
    BY <1>4, Zenon DEF Breaches, Masked, Overlong, Reserved, NothingMore, FirstText, SecondText,
                       Goodbye
  <2>1. CASE rest = Pieces(Masked)
    <3>1. Masked.masked = TRUE /\ Len(Masked.part) = 0
      BY DEF Masked, Ping, Frame
    <3>2. Len(Masked.part) \in Nat /\ Head(coming) = Head(Pieces(Masked))
      BY <2>1, <3>1
    <3>3. Refused
      BY <1>4, <3>1, <3>2, RefusedAtOnce
    <3> QED  BY <3>3
  <2>2. CASE rest = Pieces(Overlong)
    <3>1. Len(Overlong.part) = MaxPayload + 1
      BY RoomForTwo DEF Overlong, Frame
    <3>2. Len(Overlong.part) \in Nat /\ Len(Overlong.part) > MaxPayload
      BY <3>1, RoomForTwo
    <3> QED  BY <1>4, <2>2, <3>2, RefusedAtOnce
  <2>3. CASE rest \in {Pieces(Reserved), Pieces(NothingMore), Pieces(Goodbye)}
    <3>1. /\ Reserved.op = "reserved" /\ Len(Reserved.part) = 0
          /\ NothingMore.op = "continuation" /\ Len(NothingMore.part) = 0
          /\ Goodbye.op = "close" /\ Len(Goodbye.part) = 0
      BY DEF Reserved, NothingMore, Goodbye, Frame
    <3>2. ASSUME NEW f \in {Reserved, NothingMore, Goodbye}, rest = Pieces(f) PROVE Refused
      <4>1. /\ Len(f.part) = 0 /\ Len(f.part) \in Nat
            /\ f.op \in {"reserved", "continuation", "close"}
        BY <3>1
      <4> QED  BY <1>4, <3>2, <4>1, RefusedAtOnce
    <3> QED  BY <2>3, <3>2
  <2>4. CASE rest = Pieces(FirstText) \o Pieces(SecondText)
    <3>1. Pieces(FirstText) = <<Header(FirstText)>> /\ Pieces(SecondText) = <<Header(SecondText)>>
      BY PiecesOf DEF FirstText, SecondText, Frame
    <3> QED  BY <2>4, <3>1, PairOf
  <2> QED  BY <2>0, <2>1, <2>2, <2>3, <2>4
<1> QED  BY <1>2, <1>3, <1>4 DEF InBreach

LEMMA Lengths ==
  ASSUME NEW m, NEW r, NEW rest, <<r, rest>> \in InMessage(m) \cup InIdle
  PROVE  /\ Len(rest) \in 1..LongestMessage /\ rest # <<>>
         /\ Len(Tail(rest)) = Len(rest) - 1
<1>1. CASE <<r, rest>> \in InOneFrame(m)
  BY <1>1 DEF InOneFrame, LongestMessage
<1>2. CASE <<r, rest>> \in InTwoHalves(m)
  <2>1. CASE rest = <<Header(Beginning(m)), Half(Beginning(m), 1), Header(Rest(m)),
                      Half(Rest(m), 1)>>
    BY <2>1 DEF LongestMessage
  <2>2. CASE rest = <<Header(Beginning(m)), Half(Beginning(m), 1), Header(Ping),
                      Header(Rest(m)), Half(Rest(m), 1)>>
    BY <2>2 DEF LongestMessage
  <2>3. CASE rest = <<Half(Beginning(m), 1), Header(Rest(m)), Half(Rest(m), 1)>>
    BY <2>3 DEF LongestMessage
  <2>4. CASE rest = <<Half(Beginning(m), 1), Header(Ping), Header(Rest(m)), Half(Rest(m), 1)>>
    BY <2>4 DEF LongestMessage
  <2>5. CASE rest = <<Header(Ping), Header(Rest(m)), Half(Rest(m), 1)>>
    BY <2>5 DEF LongestMessage
  <2>6. CASE rest = <<Header(Rest(m)), Half(Rest(m), 1)>>
    BY <2>6 DEF LongestMessage
  <2>7. CASE rest = <<Half(Rest(m), 1)>>
    BY <2>7 DEF LongestMessage
  <2> QED  BY <1>2, <2>1, <2>2, <2>3, <2>4, <2>5, <2>6, <2>7 DEF InTwoHalves
<1>3. CASE <<r, rest>> \in InAllThenNothing(m)
  BY <1>3 DEF InAllThenNothing, LongestMessage
<1>4. CASE <<r, rest>> \in InIdle
  BY <1>4 DEF InIdle, LongestMessage
<1> QED  BY <1>1, <1>2, <1>3, <1>4 DEF InMessage

(* What a message that has been read to its end turns out to be.           *)
Delivers ==
  \/ Opcode = "binary" /\ \E m \in Sendable : Payload = Content(m) /\ transit = <<m>>
  \/ Opcode = "binary" /\ Payload = Content(Malformed) /\ transit = <<>>
  \/ Opcode # "binary" /\ transit = <<>>

MoreToCome(rest) == Tail(rest) # <<>> /\ Len(Tail(rest)) \in 1..LongestMessage

(* The next piece and what a reader does with it.                          *)
Continues(rest) ==
  /\ ~Refused /\ rest # <<>>
  /\ Len(rest) \in 1..LongestMessage /\ Len(Tail(rest)) = Len(rest) - 1
  /\ \/ Tail(coming) = Tail(rest)
     \/ broken /\ Tail(coming) \in {<<>>, <<Header(End)>>}
  /\ ~FrameRead => /\ Fits(Locals(Current, Got, reader.opcode, reader.payload), Tail(rest))
                   /\ MoreToCome(rest)
  /\ FrameRead /\ ~MessageRead =>
       Fits(Locals(NoFrame, 0, Opcode, Payload), Tail(rest)) /\ MoreToCome(rest)
  /\ FrameRead /\ MessageRead => Tail(rest) = <<>> /\ Delivers

LEMMA EndIsRefused ==
  ASSUME coming = <<Header(End)>>
  PROVE  Refused
<1>1. Head(coming).frame = End
  BY DEF Header
<1> QED  BY <1>1 DEF Refused

LEMMA WithinContinues ==
  ASSUME NEW m, NEW points, NEW rest, Head(coming) = Head(rest),
         points \in {InOneFrame(m), InTwoHalves(m), InAllThenNothing(m)},
         <<reader, rest>> \in points
  PROVE  /\ ReadsWithin(points, rest, "binary", Content(m))
         /\ points \subseteq InMessage(m)
<1>1. CASE points = InOneFrame(m)
  BY <1>1, ReadsOneFrame DEF InMessage
<1>2. CASE points = InTwoHalves(m)
  BY <1>2, ReadsTwoHalves DEF InMessage
<1>3. CASE points = InAllThenNothing(m)
  BY <1>3, ReadsAllThenNothing DEF InMessage
<1> QED  BY <1>1, <1>2, <1>3

LEMMA ReadsOn ==
  ASSUME NEW rest, Fits(reader, rest), Remains(rest), coming # <<>>
  PROVE  (Refused /\ broken) \/ Continues(rest)
<1>1. CASE broken /\ coming = <<Header(End)>>
  BY <1>1, EndIsRefused
<1>2. ASSUME ~(broken /\ coming = <<Header(End)>>)
      PROVE  /\ rest # <<>> /\ Head(coming) = Head(rest)
             /\ \/ Tail(coming) = Tail(rest)
                \/ broken /\ Tail(coming) \in {<<>>, <<Header(End)>>}
  <2>1. CASE coming = rest
    BY <2>1
  <2>2. CASE broken /\ rest # <<>> /\ coming = <<Head(rest)>>
    <3>1. Head(coming) = Head(rest) /\ Tail(coming) = <<>>
      BY <2>2
    <3> QED  BY <2>2, <3>1
  <2>3. CASE broken /\ rest # <<>> /\ coming = <<Head(rest), Header(End)>>
    <3>1. Head(coming) = Head(rest) /\ Tail(coming) = <<Header(End)>>
      BY <2>3
    <3> QED  BY <2>3, <3>1
  <2> QED  BY <1>2, <2>1, <2>2, <2>3 DEF Remains
<1>3. ASSUME ~(broken /\ coming = <<Header(End)>>),
             NEW m \in Sendable, <<reader, rest>> \in InMessage(m), transit = <<m>>
      PROVE  Continues(rest)
  <2>1. PICK points \in {InOneFrame(m), InTwoHalves(m), InAllThenNothing(m)} :
          <<reader, rest>> \in points
    BY <1>3 DEF InMessage
  <2>2. /\ ReadsWithin(points, rest, "binary", Content(m)) /\ points \subseteq InMessage(m)
    BY <1>2, <1>3, <2>1, WithinContinues
  <2>3. /\ Len(rest) \in 1..LongestMessage /\ Len(Tail(rest)) = Len(rest) - 1
    BY <1>3, Lengths
  <2>4. ASSUME NEW r, <<r, Tail(rest)>> \in points PROVE Fits(r, Tail(rest)) /\ MoreToCome(rest)
    BY <1>3, <2>2, <2>4, Lengths DEF Fits, MoreToCome
  <2> QED  BY <1>2, <1>3, <2>2, <2>3, <2>4 DEF Continues, ReadsWithin, Delivers
<1>4. ASSUME ~(broken /\ coming = <<Header(End)>>),
             <<reader, rest>> \in InOneFrame(Malformed), transit = <<>>
      PROVE  Continues(rest)
  <2>1. ReadsWithin(InOneFrame(Malformed), rest, "binary", Content(Malformed))
    BY <1>2, <1>4, ReadsOneFrame
  <2>2. /\ Len(rest) \in 1..LongestMessage /\ Len(Tail(rest)) = Len(rest) - 1
    BY <1>4, Lengths DEF InMessage
  <2>3. ASSUME NEW r, <<r, Tail(rest)>> \in InOneFrame(Malformed)
        PROVE  Fits(r, Tail(rest)) /\ MoreToCome(rest)
    BY <1>4, <2>3, Lengths DEF Fits, InMessage, MoreToCome
  <2> QED  BY <1>2, <1>4, <2>1, <2>2, <2>3 DEF Continues, ReadsWithin, Delivers
<1>5. ASSUME ~(broken /\ coming = <<Header(End)>>), <<reader, rest>> \in InIdle, transit = <<>>
      PROVE  Continues(rest)
  <2>1. /\ ~Refused
        /\ ~FrameRead =>
             <<Locals(Current, Got, reader.opcode, reader.payload), Tail(rest)>> \in InIdle
        /\ FrameRead => MessageRead /\ Tail(rest) = <<>> /\ Opcode # "binary"
    BY <1>2, <1>5, ReadsIdle
  <2>2. /\ Len(rest) \in 1..LongestMessage /\ Len(Tail(rest)) = Len(rest) - 1
    BY <1>5, Lengths
  <2>3. ASSUME NEW r, <<r, Tail(rest)>> \in InIdle
        PROVE  Fits(r, Tail(rest)) /\ MoreToCome(rest)
    BY <1>5, <2>3, Lengths DEF Fits, MoreToCome
  <2> QED  BY <1>2, <1>5, <2>1, <2>2, <2>3 DEF Continues, Delivers
<1>6. ASSUME ~(broken /\ coming = <<Header(End)>>),
             <<reader, rest>> \in InBreach, transit = <<>>, broken
      PROVE  (Refused /\ broken) \/ Continues(rest)
  <2>1. \/ Refused
        \/ /\ ~Refused /\ FrameRead /\ ~MessageRead /\ Len(rest) = 2 /\ Len(Tail(rest)) = 1
           /\ <<Locals(NoFrame, 0, Opcode, Payload), Tail(rest)>> \in InBreach
    BY <1>2, <1>6, ReadsBreach
  <2>2. ASSUME ~Refused PROVE Continues(rest)
    <3>1. Fits(Locals(NoFrame, 0, Opcode, Payload), Tail(rest))
      BY <1>6, <2>1, <2>2 DEF Fits
    <3>2. MoreToCome(rest)
      <4>1. \A s : Len(s) = 1 => s # <<>>
        BY RoomForTwo
      <4>2. Tail(rest) # <<>>
        BY <2>1, <2>2, <4>1
      <4>3. Len(Tail(rest)) \in 1..LongestMessage
        BY <2>1, <2>2 DEF LongestMessage
      <4> QED  BY <4>2, <4>3 DEF MoreToCome
    <3> QED  BY <1>2, <1>6, <2>1, <2>2, <3>1, <3>2 DEF Continues, LongestMessage
  <2> QED  BY <1>6, <2>2
<1> QED  BY <1>1, <1>2, <1>3, <1>4, <1>5, <1>6 DEF Fits

(* Nothing that can be sent looks like what cannot be decoded.             *)
LEMMA SendableAre ==
  ASSUME NEW m \in Sendable
  PROVE  /\ m # Malformed /\ m.kind \in {"note", "answer"}
         /\ m.kind = "answer" =>
              m \in {Answer(id, ok) : id \in 1..MaxId, ok \in BOOLEAN}
<1>1. \/ \E n \in 0..NoteCount - 1 : m = Notification(n)
      \/ \E id \in 1..MaxId, ok \in BOOLEAN : m = Answer(id, ok)
  BY DEF Sendable
<1> QED  BY <1>1 DEF Notification, Answer, Malformed

LEMMA DecodesAs ==
  ASSUME Delivers
  PROVE  \/ \E m \in Sendable :
              /\ Opcode = "binary" /\ transit = <<m>>
              /\ Payload = Content(m) /\ Decoded = m /\ Payload # Content(Malformed)
         \/ /\ Opcode = "binary" /\ transit = <<>>
            /\ Payload = Content(Malformed) /\ Decoded = Malformed
         \/ Opcode # "binary" /\ transit = <<>>
<1>1. \A x, y : Content(x) = Content(y) => x = y
  BY DEF Content
<1>2. \A x : Content(x)[1][1] = x
  BY DEF Content
<1>3. ASSUME NEW m \in Sendable, Payload = Content(m)
      PROVE  Decoded = m /\ Payload # Content(Malformed)
  BY <1>1, <1>2, <1>3, SendableAre DEF Decoded
<1>4. Payload = Content(Malformed) => Decoded = Malformed
  BY <1>1, SendableAre DEF Decoded
<1> QED  BY <1>3, <1>4 DEF Delivers

-----------------------------------------------------------------------------
(* The types, step by step.                                                *)

LEMMA StreamConstants ==
  /\ CallTimeout \in Nat \ {0} /\ LoopTimeout \in Nat \ {0}
  /\ MaxId \in Nat \ {0} /\ NoteCount \in Nat \ {0}
  BY StreamAssumption

LEMMA ClosesTypes ==
  ASSUME StreamTypeOK, Closes,
         nextRequestId' \in 1..MaxId, note' \in 0..NoteCount - 1
  PROVE  StreamTypeOK'
<1>1. /\ request' = Nobody /\ elapsed' = 0 /\ quiet' = 0 /\ ready' = FALSE /\ asked' = 0
      /\ broken' = FALSE
  BY DEF Closes
<1>2. broken' \in BOOLEAN /\ ready' \in BOOLEAN
  BY <1>1
<1>3. request' \in [by: {"nobody", "loop", "call"}, id: 0..MaxId]
  BY <1>1, StreamConstants DEF Nobody
<1>4. asked' \in 0..MaxId /\ elapsed' \in Nat /\ quiet' \in Nat
  BY <1>1, StreamConstants
<1> QED  BY <1>1, <1>2, <1>3, <1>4 DEF StreamTypeOK

LEMMA ReadsTypes ==
  ASSUME NEW by \in {"loop", "call"}, NEW id \in 0..MaxId, Reads(by, id)
  PROVE  /\ request' \in [by: {"nobody", "loop", "call"}, id: 0..MaxId]
         /\ request'.by = by /\ request'.id = id /\ by # "nobody"
         /\ elapsed' = 0 /\ quiet' = 0
  BY DEF Reads

LEMMA StreamTypes ==
  ASSUME StreamTypeOK, [StreamNext]_streamVars
  PROVE  StreamTypeOK'
<1> USE StreamConstants
<1>0. ASSUME UNCHANGED <<nextRequestId, asked, note, elapsed, quiet, broken, ready, request>>
      PROVE  StreamTypeOK'
  <2>1. broken' \in BOOLEAN /\ ready' \in BOOLEAN
    BY <1>0 DEF StreamTypeOK
  <2>2. /\ request' \in [by: {"nobody", "loop", "call"}, id: 0..MaxId]
        /\ request'.by = "nobody" => request' = Nobody
    BY <1>0 DEF StreamTypeOK
  <2>3. /\ nextRequestId' \in 1..MaxId /\ asked' \in 0..MaxId /\ note' \in 0..NoteCount - 1
        /\ elapsed' \in Nat /\ quiet' \in Nat
    BY <1>0 DEF StreamTypeOK
  <2> QED  BY <2>1, <2>2, <2>3 DEF StreamTypeOK
<1>1. ASSUME CameraSends PROVE StreamTypeOK'
  <2>1. UNCHANGED <<nextRequestId, elapsed, quiet, ready, request>>
    BY <1>1 DEF CameraSends, Begins, bridgeVars
  <2>2. note' \in 0..NoteCount - 1
    <3>1. (note + 1) % NoteCount \in 0..NoteCount - 1
      BY DEF StreamTypeOK
    <3> QED  BY <1>1, <3>1 DEF CameraSends, StreamTypeOK
  <2>3. asked' \in 0..MaxId
    BY <1>1 DEF CameraSends, StreamTypeOK
  <2>4. broken' \in BOOLEAN
    <3>1. broken' = broken \/ broken' = (coming' \in Breaches)
      BY <1>1, Zenon DEF CameraSends, Begins
    <3>2. (coming' \in Breaches) \in BOOLEAN
      OBVIOUS
    <3> QED  BY <3>1, <3>2, Zenon DEF StreamTypeOK
  <2> QED  BY <2>1, <2>2, <2>3, <2>4 DEF StreamTypeOK, Nobody
<1>2. ASSUME Arrives PROVE StreamTypeOK'
  BY <1>2 DEF Arrives, StreamTypeOK, bridgeVars
<1>3. ASSUME SessionBreaks PROVE StreamTypeOK'
  BY <1>3 DEF SessionBreaks, StreamTypeOK, bridgeVars
<1>4. ASSUME StreamTick PROVE StreamTypeOK'
  BY <1>4 DEF StreamTick, StreamTypeOK, cameraVars
<1>5. ASSUME Connect PROVE StreamTypeOK'
  BY <1>5, <1>0 DEF Connect, cameraVars
<1>6. ASSUME StartRequest PROVE StreamTypeOK'
  <2>1. nextRequestId' \in 1..MaxId /\ nextRequestId \in 0..MaxId
    BY <1>6 DEF StartRequest, StreamTypeOK
  <2>2. ASSUME Closes, UNCHANGED note PROVE StreamTypeOK'
    <3>1. note' \in 0..NoteCount - 1
      BY <2>2 DEF StreamTypeOK
    <3> QED  BY <2>1, <2>2, <3>1, ClosesTypes
  <2>3. ASSUME Reads("call", nextRequestId), asked' = nextRequestId,
               UNCHANGED <<note, broken, ready>>
        PROVE  StreamTypeOK'
    <3>1. /\ request' \in [by: {"nobody", "loop", "call"}, id: 0..MaxId]
          /\ request'.by # "nobody" /\ elapsed' = 0 /\ quiet' = 0
      BY <2>1, <2>3, ReadsTypes
    <3> QED  BY <2>1, <2>3, <3>1 DEF StreamTypeOK
  <2> QED  BY <1>6, <2>2, <2>3 DEF StartRequest
<1>7. ASSUME LoopReads PROVE StreamTypeOK'
  <2>1. /\ request' \in [by: {"nobody", "loop", "call"}, id: 0..MaxId]
        /\ request'.by # "nobody" /\ elapsed' = 0 /\ quiet' = 0
    <3>1. 0 \in 0..MaxId /\ Reads("loop", 0)
      BY <1>7 DEF LoopReads
    <3> QED  BY <3>1, ReadsTypes
  <2> QED  BY <1>7, <2>1 DEF LoopReads, StreamTypeOK, cameraVars
<1>8. ASSUME Fails PROVE StreamTypeOK'
  BY <1>8, ClosesTypes DEF Fails, StreamTypeOK
<1>9. ASSUME ReadPiece \/ ReadFragment \/ RequestReadsOn PROVE StreamTypeOK'
  <2>1. /\ UNCHANGED <<nextRequestId, asked, note, broken, request, elapsed>>
        /\ quiet' = 0 /\ ready' = FALSE
    BY <1>9 DEF ReadPiece, ReadFragment, RequestReadsOn, Take
  <2>2. broken' \in BOOLEAN /\ ready' \in BOOLEAN
    BY <2>1 DEF StreamTypeOK
  <2>3. /\ request' \in [by: {"nobody", "loop", "call"}, id: 0..MaxId]
        /\ request'.by = "nobody" => request' = Nobody
    BY <2>1 DEF StreamTypeOK
  <2> QED  BY <2>1, <2>2, <2>3 DEF StreamTypeOK
<1>10. ASSUME LoopReturns \/ RequestAnswered PROVE StreamTypeOK'
  <2>1. /\ UNCHANGED <<nextRequestId, asked, note, broken>>
        /\ request' = Nobody /\ elapsed' = 0 /\ quiet' = 0 /\ ready' = FALSE
    BY <1>10 DEF LoopReturns, RequestAnswered, Take
  <2>2. broken' \in BOOLEAN /\ ready' \in BOOLEAN
    BY <2>1 DEF StreamTypeOK
  <2>3. request' \in [by: {"nobody", "loop", "call"}, id: 0..MaxId]
    BY <2>1 DEF Nobody
  <2> QED  BY <2>1, <2>2, <2>3 DEF StreamTypeOK, Nobody
<1>11. ASSUME RequestFails PROVE StreamTypeOK'
  <2>1. nextRequestId' \in 1..MaxId /\ note' \in 0..NoteCount - 1 /\ Closes
    BY <1>11 DEF RequestFails, StreamTypeOK
  <2> QED  BY <2>1, ClosesTypes
<1>12. ASSUME UNCHANGED streamVars PROVE StreamTypeOK'
  BY <1>12, <1>0 DEF streamVars, bridgeVars, cameraVars
<1>13. (RecvTimesOut \/ ReadRefused \/ PongFails) => Fails
  BY DEF RecvTimesOut, ReadRefused, PongFails
<1> QED
  BY <1>1, <1>2, <1>3, <1>4, <1>5, <1>6, <1>7, <1>8, <1>9, <1>10, <1>11, <1>12, <1>13
     DEF StreamNext

-----------------------------------------------------------------------------
(* The invariant, step by step.                                            *)

Tracks == \E rest : Fits(reader, rest) /\ Remains(rest) /\ TimeSpent(rest)

LEMMA FitsNext ==
  ASSUME NEW r, NEW rest, Fits(r, rest), reader' = r, transit' = transit, broken => broken'
  PROVE  Fits(reader, rest)'
  BY DEF Fits

LEMMA RemainsNext ==
  ASSUME NEW rest, broken => broken',
         \/ coming' = rest
         \/ broken' /\ coming' \in {<<>>, <<Header(End)>>}
  PROVE  Remains(rest)'
  BY DEF Remains

LEMMA NothingTaken ==
  /\ 0 \in 0..LongestMessage - 1
  /\ \A T \in Nat : 0 * T = 0
  BY DEF LongestMessage

LEMMA NoTimeSpent ==
  ASSUME NEW rest, quiet' = 0, elapsed' \in Nat,
         request'.by = "loop" => elapsed' = 0 /\ (ready' \/ rest # <<>>),
         request'.by = "call" => elapsed' <= CallTimeout
  PROVE  TimeSpent(rest)'
<1>1. request'.by = "loop" => elapsed' <= 0 * LoopTimeout + quiet'
  BY StreamConstants, NothingTaken
<1>2. request'.by = "call" => elapsed' <= CallTimeout + 0 * CallTimeout + quiet'
  BY StreamConstants, NothingTaken
<1> QED  BY <1>1, <1>2, NothingTaken DEF TimeSpent

LEMMA TimeSpentKept ==
  ASSUME NEW rest, TimeSpent(rest), request' = request, elapsed' = elapsed, quiet' = quiet,
         ready => ready'
  PROVE  TimeSpent(rest)'
  BY DEF TimeSpent

(* Nothing is known of the pieces any more: the session has been closed, or *)
(* a message read to its end.                                              *)
LEMMA StartsAnew ==
  ASSUME StreamTypeOK', ready' => coming' # <<>>,
         reader' = NewReader, transit' = <<>>, quiet' = 0,
         \/ coming' = <<>>
         \/ broken' /\ coming' = <<Header(End)>>,
         \/ request' = Nobody /\ elapsed' = 0
         \/ request'.by = "call" /\ elapsed' <= CallTimeout
  PROVE  StreamInv'
<1>1. Fits(reader, <<>>)'
  BY DEF Fits
<1>2. Remains(<<>>)'
  BY DEF Remains
<1>3. TimeSpent(<<>>)'
  <2>1. Nobody.by = "nobody"
    BY DEF Nobody
  <2>2. elapsed' \in Nat
    BY DEF StreamTypeOK
  <2>3. request'.by # "loop"
    BY <2>1
  <2>4. request'.by = "call" => elapsed' <= CallTimeout
    BY <2>1
  <2> QED  BY <2>2, <2>3, <2>4, NoTimeSpent
<1>4. /\ request' = Nobody => elapsed' = 0
      /\ request' # Nobody => quiet' <= RecvTimeout'
  <2>1. RecvTimeout' \in Nat
    BY StreamConstants DEF RecvTimeout
  <2>2. request' = Nobody => elapsed' = 0
    BY DEF Nobody
  <2> QED  BY <2>1, <2>2
<1> QED  BY <1>1, <1>2, <1>3, <1>4 DEF StreamInv

LEMMA ClosedAnew ==
  ASSUME StreamTypeOK', Closes
  PROVE  StreamInv'
<1>1. /\ reader' = NewReader /\ transit' = <<>> /\ quiet' = 0 /\ coming' = <<>>
      /\ request' = Nobody /\ elapsed' = 0 /\ ready' = FALSE
  BY DEF Closes
<1> QED  BY <1>1, StartsAnew

(* The session is quiet: nothing is coming and no message under way.       *)
LEMMA QuietSession ==
  ASSUME StreamInv, coming = <<>>, ~broken
  PROVE  reader = NewReader /\ transit = <<>> /\ ~ready /\ TimeSpent(<<>>)
<1>1. PICK rest : Fits(reader, rest) /\ Remains(rest) /\ TimeSpent(rest)
  BY DEF StreamInv
<1>2. rest = <<>>
  BY <1>1 DEF Remains
<1>3. \A m : <<reader, rest>> \notin InMessage(m) \cup InIdle
  BY <1>2, Lengths
<1>4. <<reader, rest>> \notin InOneFrame(Malformed) \cup InIdle
  BY <1>3 DEF InMessage
<1>5. reader = NewReader /\ transit = <<>>
  BY <1>1, <1>3, <1>4 DEF Fits
<1> QED  BY <1>1, <1>2, <1>5 DEF StreamInv

LEMMA IdleFits ==
  ASSUME NEW c \in Idle \cup {Whole(Malformed)}
  PROVE  <<NewReader, c>> \in InOneFrame(Malformed) \cup InIdle
<1>1. Pieces(Ping) = <<Header(Ping)>> /\ Pieces(Pong) = <<Header(Pong)>>
  BY PiecesOf DEF Ping, Pong, Frame
<1>2. Pieces(Text) = <<Header(Text), Half(Text, 1)>>
  BY PiecesOf DEF Text, Frame
<1>3. Pieces(OneFrame(Malformed)) =
        <<Header(OneFrame(Malformed)), Half(OneFrame(Malformed), 1), Half(OneFrame(Malformed), 2)>>
  BY PiecesOf DEF OneFrame, Frame, Content
<1>4. c \in {Pieces(Ping), Pieces(Pong), Pieces(Text), Pieces(OneFrame(Malformed))}
  BY DEF Idle, Whole, Pong, Text, OneFrame
<1> QED  BY <1>1, <1>2, <1>3, <1>4 DEF InOneFrame, InIdle

LEMMA CameraSendsKeeps ==
  ASSUME StreamInv, StreamTypeOK', CameraSends
  PROVE  StreamInv'
<1>1. reader = NewReader /\ transit = <<>> /\ ~ready /\ TimeSpent(<<>>)
  BY QuietSession DEF CameraSends
<1>2. UNCHANGED <<reader, request, elapsed, quiet, ready>>
  BY DEF CameraSends, Begins, bridgeVars
<1>3. PICK c : c = coming'
  OBVIOUS
<1>4. Fits(reader, c)'
  <2>1. ASSUME NEW m \in Sendable, Begins(m, Forms(m)) PROVE Fits(reader, c)'
    <3>1. <<NewReader, c>> \in InMessage(m)
      BY <1>3, <2>1, FormsBegin DEF Begins
    <3>2. transit' = <<m>>
      BY <1>1, <2>1 DEF Begins
    <3> QED  BY <1>1, <1>2, <3>1, <3>2 DEF Fits
  <2>2. ASSUME coming' \in Idle \cup {Whole(Malformed)}, UNCHANGED transit
        PROVE  Fits(reader, c)'
    <3>1. <<NewReader, c>> \in InOneFrame(Malformed) \cup InIdle
      BY <1>3, <2>2, IdleFits
    <3> QED  BY <1>1, <1>2, <2>2, <3>1 DEF Fits
  <2>3. ASSUME coming' \in Breaches, broken' = (coming' \in Breaches), UNCHANGED transit
        PROVE  Fits(reader, c)'
    <3>1. <<NewReader, c>> \in InBreach
      BY <1>3, <2>3 DEF InBreach
    <3>2. broken'
      BY <2>3, Zenon
    <3> QED  BY <1>1, <1>2, <2>3, <3>1, <3>2 DEF Fits
  <2>4. Notification(note) \in Sendable
    BY DEF StreamInv, StreamTypeOK, Sendable
  <2>5. asked # 0 => \A ok \in BOOLEAN : Answer(asked, ok) \in Sendable
    <3>1. asked # 0 => asked \in 1..MaxId
      BY StreamConstants DEF StreamInv, StreamTypeOK
    <3> QED  BY <3>1 DEF Sendable
  <2>6. \/ Begins(Notification(note), Forms(Notification(note)))
        \/ asked # 0 /\ \E ok \in BOOLEAN : Begins(Answer(asked, ok), Forms(Answer(asked, ok)))
        \/ /\ coming' \in Idle \cup {Whole(Malformed)} \cup Breaches
           /\ broken' = (coming' \in Breaches) /\ UNCHANGED transit
    BY Zenon DEF CameraSends
  <2> QED  BY <2>1, <2>2, <2>3, <2>4, <2>5, <2>6
<1>5. Remains(c)'
  BY <1>3 DEF Remains
<1>6. TimeSpent(c)'
  <2>1. PICK count \in 0..LongestMessage - 1 :
          /\ count = 0
          /\ request.by # "loop"
          /\ request.by = "call" => elapsed <= CallTimeout + count * CallTimeout + quiet
    BY <1>1 DEF TimeSpent
  <2> QED  BY <1>2, <2>1 DEF TimeSpent
<1>7. request' # Nobody => quiet' <= RecvTimeout'
  BY <1>2 DEF StreamInv, RecvTimeout
<1> QED  BY <1>1, <1>2, <1>4, <1>5, <1>6, <1>7 DEF StreamInv

LEMMA BreakKeeps ==
  ASSUME StreamInv, StreamTypeOK', SessionBreaks
  PROVE  StreamInv'
<1>1. PICK rest : Fits(reader, rest) /\ Remains(rest) /\ TimeSpent(rest)
  BY DEF StreamInv
<1>2. UNCHANGED <<reader, request, elapsed, quiet, ready, transit>> /\ broken' = TRUE /\ ~broken
  BY DEF SessionBreaks, bridgeVars
<1>3. coming = rest
  BY <1>1, <1>2 DEF Remains
<1>4. PICK farewell \in {<<>>, <<Header(End)>>} :
        coming' = (IF ready THEN <<Head(coming)>> ELSE <<>>) \o farewell
  <2>1. Pieces(End) = <<Header(End)>>
    BY PiecesOf DEF End, Frame
  <2> QED  BY <2>1 DEF SessionBreaks
<1>5. Remains(rest)' /\ (ready' => coming' # <<>>)
  <2>1. CASE ready
    <3>1. coming' \in {<<Head(rest)>>, <<Head(rest), Header(End)>>} /\ rest # <<>>
      <4>1. <<Head(coming)>> \o <<>> = <<Head(coming)>>
        OBVIOUS
      <4>2. <<Head(coming)>> \o <<Header(End)>> = <<Head(coming), Header(End)>>
        BY PairOf
      <4> QED  BY <1>3, <1>4, <2>1, <4>1, <4>2 DEF StreamInv
    <3>2. coming' # <<>>
      BY <3>1
    <3> QED  BY <1>2, <3>1, <3>2 DEF Remains
  <2>2. CASE ~ready
    <3>1. coming' \in {<<>>, <<Header(End)>>}
      <4>1. <<>> \o <<>> = <<>> /\ <<>> \o <<Header(End)>> = <<Header(End)>>
        OBVIOUS
      <4> QED  BY <1>4, <2>2, <4>1
    <3> QED  BY <1>2, <2>2, <3>1 DEF Remains
  <2> QED  BY <2>1, <2>2
<1>6. Fits(reader, rest)'
  BY <1>1, <1>2, FitsNext
<1>7. TimeSpent(rest)'
  BY <1>1, <1>2, TimeSpentKept
<1>8. /\ request' = Nobody => reader' = NewReader /\ elapsed' = 0 /\ quiet' = 0
      /\ request' # Nobody => quiet' <= RecvTimeout'
  BY <1>2 DEF StreamInv, RecvTimeout
<1> QED  BY <1>5, <1>6, <1>7, <1>8 DEF StreamInv

(* Steps that touch neither the pieces nor the reader.                     *)
LEMMA WaitingKeeps ==
  ASSUME StreamInv, StreamTypeOK', Arrives \/ Connect \/ StreamTick \/ UNCHANGED streamVars
  PROVE  StreamInv'
<1>1. PICK rest : Fits(reader, rest) /\ Remains(rest) /\ TimeSpent(rest)
  BY DEF StreamInv
<1>2. /\ UNCHANGED <<reader, request, coming, broken, transit>>
      /\ ready => ready'
      /\ ready' => coming # <<>>
  BY DEF Arrives, Connect, StreamTick, streamVars, bridgeVars, cameraVars, StreamInv
<1>3. \/ elapsed' = elapsed /\ quiet' = quiet
      \/ /\ request # Nobody /\ quiet < RecvTimeout
         /\ quiet' = quiet + 1 /\ elapsed' = elapsed + 1
  BY DEF Arrives, Connect, StreamTick, streamVars, bridgeVars
<1>4. Fits(reader, rest)'
  BY <1>1, <1>2, FitsNext
<1>5. Remains(rest)'
  BY <1>1, <1>2 DEF Remains
<1>6. TimeSpent(rest)'
  <2>1. CASE elapsed' = elapsed /\ quiet' = quiet
    BY <1>1, <1>2, <2>1, TimeSpentKept
  <2>2. CASE quiet' = quiet + 1 /\ elapsed' = elapsed + 1
    <3>1. PICK count \in 0..LongestMessage - 1 :
            /\ count = 0 \/ (rest # <<>> /\ count + Len(rest) <= LongestMessage)
            /\ request.by = "loop" => /\ elapsed <= count * LoopTimeout + quiet
                                      /\ ready \/ rest # <<>>
            /\ request.by = "call" => elapsed <= CallTimeout + count * CallTimeout + quiet
      BY <1>1 DEF TimeSpent
    <3>2. count * LoopTimeout \in Nat /\ count * CallTimeout \in Nat
      BY StreamConstants DEF LongestMessage
    <3>3. elapsed \in Nat /\ quiet \in Nat
      BY DEF StreamInv, StreamTypeOK
    <3>4. request' = request /\ (ready => ready')
      BY <1>2
    <3>5. \A most \in Nat : elapsed <= most + quiet => elapsed' <= most + quiet'
      BY <2>2, <3>3
    <3>6. request.by = "loop" => elapsed' <= count * LoopTimeout + quiet' /\ (ready' \/ rest # <<>>)
      <4> DEFINE most == count * LoopTimeout
      <4>1. most \in Nat /\ (request.by = "loop" => elapsed <= most + quiet)
        BY <3>1, <3>2
      <4>2. request.by = "loop" => ready' \/ rest # <<>>
        BY <3>1, <3>4
      <4> HIDE DEF most
      <4>3. request.by = "loop" => elapsed' <= most + quiet'
        BY <3>5, <4>1
      <4> QED  BY <4>2, <4>3 DEF most
    <3>7. request.by = "call" => elapsed' <= CallTimeout + count * CallTimeout + quiet'
      <4> DEFINE most == CallTimeout + count * CallTimeout
      <4>1. most \in Nat /\ (request.by = "call" => elapsed <= most + quiet)
        BY <3>1, <3>2, StreamConstants
      <4> HIDE DEF most
      <4>2. request.by = "call" => elapsed' <= most + quiet'
        BY <3>5, <4>1
      <4> QED  BY <4>2 DEF most
    <3>8. count = 0 \/ (rest # <<>> /\ count + Len(rest) <= LongestMessage)
      BY <3>1
    <3> QED  BY <3>4, <3>6, <3>7, <3>8 DEF TimeSpent
  <2> QED  BY <1>3, <2>1, <2>2
<1>7. /\ request' = Nobody => reader' = NewReader /\ elapsed' = 0 /\ quiet' = 0
      /\ request' # Nobody => quiet' <= RecvTimeout'
  <2>1. RecvTimeout' = RecvTimeout /\ RecvTimeout \in Nat /\ quiet \in Nat
    BY <1>2, StreamConstants DEF RecvTimeout, StreamInv, StreamTypeOK
  <2> QED  BY <1>2, <1>3, <2>1 DEF StreamInv
<1>8. ready' => coming' # <<>>
  BY <1>2
<1> QED  BY <1>4, <1>5, <1>6, <1>7, <1>8 DEF StreamInv

(* loop() or a request begins to read.                                     *)
LEMMA BeginsToRead ==
  ASSUME StreamInv, StreamTypeOK', request = Nobody,
         UNCHANGED <<reader, coming, ready, broken, transit>>,
         NEW id \in 0..MaxId, (Reads("loop", id) /\ ready) \/ Reads("call", id)
  PROVE  StreamInv'
<1>1. PICK rest : Fits(reader, rest) /\ Remains(rest) /\ TimeSpent(rest)
  BY DEF StreamInv
<1>2. /\ elapsed' = 0 /\ quiet' = 0 /\ request'.by # "nobody"
      /\ request'.by = "loop" => ready'
  BY DEF Reads
<1>3. Fits(reader, rest)'
  BY <1>1, FitsNext
<1>4. Remains(rest)'
  BY <1>1 DEF Remains
<1>5. TimeSpent(rest)'
  BY <1>2, StreamConstants, NoTimeSpent
<1>6. request' # Nobody /\ quiet' <= RecvTimeout'
  <2>1. request' # Nobody
    BY <1>2 DEF Nobody
  <2>2. RecvTimeout' \in Nat
    BY StreamConstants DEF RecvTimeout
  <2> QED  BY <1>2, <2>1, <2>2
<1> QED  BY <1>3, <1>4, <1>5, <1>6 DEF StreamInv

LEMMA OneMore ==
  ASSUME NEW count \in 0..LongestMessage - 1, NEW n \in 1..LongestMessage,
         NEW k \in 1..LongestMessage, k = n - 1, count = 0 \/ count + n <= LongestMessage
  PROVE  count + 1 \in 0..LongestMessage - 1 /\ count + 1 + k <= LongestMessage
  BY DEF LongestMessage

(* The reader takes a piece and reads on within a message.                 *)
LEMMA ReadingKeeps ==
  ASSUME StreamInv, StreamTypeOK', ReadPiece \/ ReadFragment
  PROVE  StreamInv'
<1>1. PICK rest : Fits(reader, rest) /\ Remains(rest) /\ TimeSpent(rest)
  BY DEF StreamInv
<1>2. /\ UNCHANGED <<request, elapsed, broken, transit>> /\ request # Nobody /\ coming # <<>>
      /\ coming' = Tail(coming) /\ ready' = FALSE /\ quiet' = 0 /\ ~Refused
  BY DEF ReadPiece, ReadFragment, Take, Reading, StreamInv
<1>3. Continues(rest)
  BY <1>1, <1>2, ReadsOn
<1>4. Fits(reader', Tail(rest)) /\ MoreToCome(rest)
  BY <1>3 DEF ReadPiece, ReadFragment, Continues
<1>5. Fits(reader, Tail(rest))'
  BY <1>2, <1>4 DEF Fits
<1>6. Remains(Tail(rest))'
  <2>1. \/ Tail(coming) = Tail(rest)
        \/ broken /\ Tail(coming) \in {<<>>, <<Header(End)>>}
    BY <1>3 DEF Continues
  <2> QED  BY <1>2, <2>1 DEF Remains
<1>7. TimeSpent(Tail(rest))'
  <2>1. PICK count \in 0..LongestMessage - 1 :
          /\ count = 0 \/ (rest # <<>> /\ count + Len(rest) <= LongestMessage)
          /\ request.by = "loop" => /\ elapsed <= count * LoopTimeout + quiet
                                    /\ ready \/ rest # <<>>
          /\ request.by = "call" => elapsed <= CallTimeout + count * CallTimeout + quiet
    BY <1>1 DEF TimeSpent
  <2>2. /\ Len(rest) \in 1..LongestMessage /\ Len(Tail(rest)) = Len(rest) - 1
        /\ Tail(rest) # <<>> /\ Len(Tail(rest)) \in 1..LongestMessage
    BY <1>3, <1>4 DEF Continues, MoreToCome
  <2>3. count + 1 \in 0..LongestMessage - 1 /\ count + 1 + Len(Tail(rest)) <= LongestMessage
    BY <2>1, <2>2, OneMore
  <2>4. /\ count * LoopTimeout \in Nat /\ count * CallTimeout \in Nat
        /\ (count + 1) * LoopTimeout = count * LoopTimeout + LoopTimeout
        /\ (count + 1) * CallTimeout = count * CallTimeout + CallTimeout
    BY StreamConstants DEF LongestMessage
  <2>5. elapsed \in Nat /\ quiet \in Nat /\ quiet <= RecvTimeout
    BY <1>2 DEF StreamInv, StreamTypeOK
  <2>6. request'.by = "loop" => elapsed' <= (count + 1) * LoopTimeout + quiet'
    <3>1. request.by = "loop" => RecvTimeout = LoopTimeout
      BY DEF RecvTimeout
    <3> QED  BY <1>2, <2>1, <2>4, <2>5, <3>1, StreamConstants
  <2>7. request'.by = "call" => elapsed' <= CallTimeout + (count + 1) * CallTimeout + quiet'
    <3>1. request.by = "call" => RecvTimeout = CallTimeout
      BY DEF RecvTimeout
    <3> QED  BY <1>2, <2>1, <2>4, <2>5, <3>1, StreamConstants
  <2> QED  BY <2>2, <2>3, <2>6, <2>7 DEF TimeSpent
<1>8. quiet' <= RecvTimeout'
  <2>1. RecvTimeout' \in Nat
    BY StreamConstants DEF RecvTimeout
  <2> QED  BY <1>2, <2>1
<1>9. /\ request' = Nobody => reader' = NewReader /\ elapsed' = 0 /\ quiet' = 0
      /\ ready' => coming' # <<>>
  BY <1>2
<1> QED  BY <1>5, <1>6, <1>7, <1>8, <1>9 DEF StreamInv

(* A message has been read to its end, by whichever reader.                *)
LEMMA AtMessageEnd ==
  ASSUME StreamInv, Reading, ~Refused, FrameRead, MessageRead
  PROVE  /\ Delivers
         /\ \/ Tail(coming) = <<>>
            \/ broken /\ Tail(coming) = <<Header(End)>>
<1>1. PICK rest : Fits(reader, rest) /\ Remains(rest) /\ TimeSpent(rest)
  BY DEF StreamInv
<1>2. Continues(rest)
  BY <1>1, ReadsOn DEF Reading, StreamInv
<1> QED  BY <1>2 DEF Continues

LEMMA MessageLeaves ==
  ASSUME Delivers, HandleIncoming
  PROVE  transit' = <<>>
<1>1. \A m : <<m>> # <<>> /\ Tail(<<m>>) = <<>>
  OBVIOUS
<1> QED  BY <1>1, DecodesAs, SendableAre DEF HandleIncoming

LEMMA MessageKeeps ==
  ASSUME StreamInv, StreamTypeOK', LoopReturns \/ RequestReadsOn \/ RequestAnswered
  PROVE  StreamInv'
<1>1. /\ Reading /\ ~Refused /\ FrameRead /\ MessageRead /\ HandleIncoming
      /\ reader' = NewReader /\ quiet' = 0 /\ ready' = FALSE /\ coming' = Tail(coming)
      /\ broken' = broken
  BY DEF LoopReturns, RequestReadsOn, RequestAnswered, Take
<1>2. \/ coming' = <<>>
      \/ broken' /\ coming' = <<Header(End)>>
  BY <1>1, AtMessageEnd
<1>3. transit' = <<>>
  BY <1>1, AtMessageEnd, MessageLeaves
<1>4. \/ request' = Nobody /\ elapsed' = 0
      \/ request'.by = "call" /\ elapsed' <= CallTimeout
  BY DEF LoopReturns, RequestReadsOn, RequestAnswered, MayReadOn
<1> QED  BY <1>1, <1>2, <1>3, <1>4, StartsAnew

LEMMA InvStep == StreamInv /\ [StreamNext]_streamVars => StreamInv'
<1> SUFFICES ASSUME StreamInv, [StreamNext]_streamVars PROVE StreamInv'
  OBVIOUS
<1>t. StreamTypeOK'
  BY StreamTypes DEF StreamInv
<1>1. ASSUME CameraSends PROVE StreamInv'
  BY <1>t, <1>1, CameraSendsKeeps
<1>2. ASSUME SessionBreaks PROVE StreamInv'
  BY <1>t, <1>2, BreakKeeps
<1>3. ASSUME Arrives \/ Connect \/ StreamTick \/ UNCHANGED streamVars PROVE StreamInv'
  BY <1>t, <1>3, WaitingKeeps
<1>4. ASSUME StartRequest PROVE StreamInv'
  <2>1. nextRequestId \in 0..MaxId /\ request = Nobody
    BY <1>4, StreamConstants DEF StreamInv, StreamTypeOK, StartRequest
  <2>2. ASSUME Reads("call", nextRequestId), UNCHANGED <<reader, coming, ready, broken, transit>>
        PROVE  StreamInv'
    BY <1>t, <2>1, <2>2, BeginsToRead
  <2> QED  BY <1>4, <1>t, <2>2, ClosedAnew DEF StartRequest
<1>5. ASSUME LoopReads PROVE StreamInv'
  <2>1. /\ 0 \in 0..MaxId /\ request = Nobody /\ Reads("loop", 0) /\ ready
        /\ UNCHANGED <<reader, coming, ready, broken, transit>>
    BY <1>5, StreamConstants DEF LoopReads, cameraVars
  <2> QED  BY <1>t, <2>1, BeginsToRead
<1>6. ASSUME RecvTimesOut \/ ReadRefused \/ PongFails \/ RequestFails PROVE StreamInv'
  BY <1>t, <1>6, ClosedAnew DEF RecvTimesOut, ReadRefused, PongFails, RequestFails, Fails
<1>7. ASSUME ReadPiece \/ ReadFragment PROVE StreamInv'
  BY <1>t, <1>7, ReadingKeeps
<1>8. ASSUME LoopReturns \/ RequestReadsOn \/ RequestAnswered PROVE StreamInv'
  BY <1>t, <1>8, MessageKeeps
<1> QED
  BY <1>1, <1>2, <1>3, <1>4, <1>5, <1>6, <1>7, <1>8 DEF StreamNext

-----------------------------------------------------------------------------
(* Whatever the camera and the network do, a reader is where the camera's  *)
(* pieces are: at a place of the one message that is under way, or in      *)
(* something that is no message.  Nothing is left over from a reader that  *)
(* gave up, because to give up closes the session (closeConnection).       *)
THEOREM StreamInvariant == StreamSpec => []StreamInv
<1>1. StreamInit => StreamInv
  <2> SUFFICES ASSUME StreamInit PROVE StreamInv
    OBVIOUS
  <2>1. StreamTypeOK
    <3>1. request \in [by: {"nobody", "loop", "call"}, id: 0..MaxId] /\ request = Nobody
      BY StreamConstants DEF StreamInit, Nobody
    <3>2. broken \in BOOLEAN /\ ready \in BOOLEAN
      BY DEF StreamInit
    <3>3. /\ nextRequestId \in 1..MaxId /\ asked \in 0..MaxId /\ note \in 0..NoteCount - 1
          /\ elapsed \in Nat /\ quiet \in Nat
      BY StreamConstants DEF StreamInit
    <3> QED  BY <3>1, <3>2, <3>3 DEF StreamTypeOK
  <2>2. Fits(reader, <<>>) /\ Remains(<<>>)
    BY DEF StreamInit, Fits, Remains
  <2>3. TimeSpent(<<>>)
    <3>1. request.by = "nobody"
      BY DEF StreamInit, Nobody
    <3> QED  BY <3>1, NothingTaken DEF TimeSpent
  <2>4. /\ ready => coming # <<>>
        /\ request = Nobody /\ reader = NewReader /\ elapsed = 0 /\ quiet = 0
    BY DEF StreamInit
  <2> QED  BY <2>1, <2>2, <2>3, <2>4 DEF StreamInv
<1> QED  BY <1>1, InvStep, PTL DEF StreamSpec

(* A request and loop() are done in bounded time, however the camera       *)
(* spaces the pieces of what it sends (recvWsMessage, request, loop).      *)
THEOREM ReadsAlwaysBounded == StreamSpec => []ReadsAreBounded
<1>1. StreamInv => ReadsAreBounded
  <2> SUFFICES ASSUME StreamInv PROVE elapsed <= ReadBound
    BY DEF ReadsAreBounded
  <2>1. PICK rest : TimeSpent(rest)
    BY DEF StreamInv
  <2>2. PICK count \in 0..LongestMessage - 1 :
          /\ request.by = "loop" => elapsed <= count * LoopTimeout + quiet
          /\ request.by = "call" => elapsed <= CallTimeout + count * CallTimeout + quiet
    BY <2>1 DEF TimeSpent
  <2>3. /\ elapsed \in Nat /\ quiet \in Nat /\ request.by \in {"nobody", "loop", "call"}
        /\ request.by = "nobody" => request = Nobody
    BY DEF StreamInv, StreamTypeOK
  <2>4. \A T \in Nat : count * T \in Nat /\ count * T <= 4 * T
    BY DEF LongestMessage
  <2>5. CASE request.by = "loop"
    <3>1. quiet <= LoopTimeout
      BY <2>5 DEF StreamInv, RecvTimeout, Nobody
    <3>2. elapsed <= 5 * LoopTimeout
      BY <2>2, <2>3, <2>4, <2>5, <3>1, StreamConstants
    <3> QED  BY <2>5, <3>2 DEF ReadBound, LongestMessage
  <2>6. CASE request.by = "call"
    <3>1. quiet <= CallTimeout
      BY <2>6 DEF StreamInv, RecvTimeout, Nobody
    <3>2. elapsed <= CallTimeout + 5 * CallTimeout
      BY <2>2, <2>3, <2>4, <2>6, <3>1, StreamConstants
    <3> QED  BY <2>6, <3>2 DEF ReadBound, LongestMessage
  <2>7. CASE request.by = "nobody"
    <3>1. elapsed = 0
      BY <2>3, <2>7 DEF StreamInv
    <3>2. 0 <= CallTimeout + 5 * CallTimeout
      BY StreamConstants
    <3> QED  BY <2>7, <3>1, <3>2 DEF ReadBound, LongestMessage
  <2> QED  BY <2>3, <2>5, <2>6, <2>7
<1> QED  BY <1>1, StreamInvariant, PTL

(* A request answers for itself: it returns what the camera answered to it *)
(* and fails for no notification, ping or fragment that comes in between.  *)
Outcome ==
  \/ outcome' = "ok" /\ merged' = <<Answer(request.id, TRUE)>>
  \/ outcome' = "failed" /\ (broken \/ Refusal)
  \/ outcome' = "failed" /\ (quiet = CallTimeout \/ elapsed > CallTimeout)

LEMMA DecodedBinary ==
  ASSUME Delivers, Opcode = "binary"
  PROVE  \/ Decoded \in Sendable /\ Payload = Content(Decoded) /\ Payload # Content(Malformed)
         \/ Decoded = Malformed /\ Payload = Content(Malformed)
  BY DecodesAs

LEMMA AnsweredByItself ==
  ASSUME StreamInv, RequestAnswered
  PROVE  outcome' = "ok" /\ merged' = <<Answer(request.id, TRUE)>>
<1>1. /\ Reading /\ ~Refused /\ FrameRead /\ MessageRead /\ HandleIncoming /\ outcome' = "ok"
      /\ ~Unrelated /\ Decoded.ok
  BY DEF RequestAnswered
<1>2. Delivers
  BY <1>1, AtMessageEnd
<1>3. /\ Opcode = "binary"
      /\ Decoded = Malformed \/ (Decoded.kind = "answer" /\ Decoded.n = request.id)
  BY <1>1 DEF Unrelated
<1>4. Decoded # Malformed
  BY <1>1 DEF Malformed
<1>5. Decoded \in Sendable /\ Payload # Content(Malformed)
  BY <1>2, <1>3, <1>4, DecodedBinary
<1>6. PICK id \in 1..MaxId, ok \in BOOLEAN : Decoded = Answer(id, ok)
  BY <1>3, <1>4, <1>5, SendableAre
<1>7. id = request.id /\ ok = TRUE
  BY <1>1, <1>3, <1>4, <1>6 DEF Answer
<1> QED  BY <1>1, <1>3, <1>5, <1>6, <1>7 DEF HandleIncoming

LEMMA FailsForAReason ==
  ASSUME StreamInv, RequestFails
  PROVE  outcome' = "failed" /\ (Refusal \/ elapsed > CallTimeout)
<1>1. /\ Reading /\ ~Refused /\ FrameRead /\ MessageRead /\ outcome' = "failed"
      /\ IF Unrelated THEN ~MayReadOn ELSE ~Decoded.ok
  BY DEF RequestFails, Closes
<1>2. CASE Unrelated
  <2>1. ~(elapsed <= CallTimeout) /\ elapsed \in Nat
    BY <1>1, <1>2 DEF MayReadOn, StreamInv, StreamTypeOK
  <2> QED  BY <1>1, <2>1, StreamConstants
<1>3. CASE ~Unrelated
  <2>1. Opcode = "binary" /\ ~Decoded.ok
    BY <1>1, <1>3 DEF Unrelated
  <2>2. Payload = Content(Decoded)
    BY <1>1, <2>1, AtMessageEnd, DecodedBinary
  <2>3. Payload = reader.payload \o Current.part
    BY <1>1, <2>1 DEF Payload, MessageRead, Control, Opcode, Started
  <2>4. <<Decoded, 1>> \in Range(Content(Decoded)) /\ <<Decoded, 1>>[1] = Decoded
    <3>1. 1 \in DOMAIN Content(Decoded) /\ Content(Decoded)[1] = <<Decoded, 1>>
      BY DEF Content
    <3> QED  BY <3>1 DEF Range
  <2>5. \E half \in Range(reader.payload \o Current.part) : ~half[1].ok
    BY <2>1, <2>2, <2>3, <2>4
  <2> QED  BY <1>1, <2>5 DEF Refusal, Reading
<1> QED  BY <1>2, <1>3

THEOREM RequestOutcomeHolds == StreamSpec => RequestOutcome
<1>1. ASSUME StreamInv, [StreamNext]_streamVars, request.by = "call", request' # request
      PROVE  Outcome
  <2>n. request # Nobody
    BY <1>1 DEF Nobody
  <2>1. ASSUME RecvTimesOut PROVE Outcome
    BY <1>1, <2>1 DEF RecvTimesOut, Fails, Closes, RecvTimeout, Outcome
  <2>2. ASSUME ReadRefused \/ PongFails PROVE Outcome
    <3>1. PICK rest : Fits(reader, rest) /\ Remains(rest)
      BY <1>1 DEF StreamInv
    <3>2. coming # <<>>
      BY <1>1, <2>2 DEF ReadRefused, PongFails, Reading, StreamInv
    <3>3. (Refused /\ broken) \/ ~Refused
      BY <3>1, <3>2, ReadsOn DEF Continues
    <3> QED  BY <2>2, <3>3 DEF ReadRefused, PongFails, Fails, Closes, Outcome
  <2>3. ASSUME RequestAnswered PROVE Outcome
    BY <1>1, <2>3, AnsweredByItself DEF Outcome
  <2>4. ASSUME RequestFails PROVE Outcome
    BY <1>1, <2>4, FailsForAReason DEF Outcome
  <2>5. /\ ~StartRequest /\ ~LoopReads /\ ~LoopReturns /\ ~Connect
    BY <1>1, <2>n DEF StartRequest, LoopReads, LoopReturns, Connect
  <2>6. /\ ~CameraSends /\ ~Arrives /\ ~SessionBreaks /\ ~StreamTick
        /\ ~ReadPiece /\ ~ReadFragment /\ ~RequestReadsOn /\ ~UNCHANGED streamVars
    BY <1>1 DEF CameraSends, Begins, Arrives, SessionBreaks, StreamTick, ReadPiece, ReadFragment,
                RequestReadsOn, streamVars, bridgeVars
  <2> QED  BY <1>1, <2>1, <2>2, <2>3, <2>4, <2>5, <2>6 DEF StreamNext
<1>2. StreamInv /\ [StreamNext]_streamVars =>
        [request.by = "call" /\ request' # request => Outcome]_streamVars
  BY <1>1
<1> QED  BY <1>2, StreamInvariant, PTL DEF StreamSpec, RequestOutcome, Outcome

(* What the users of the session see is a channel of whole messages: each  *)
(* that is merged is the first of those under way, and the others are lost *)
(* with the session only.                                                  *)
ChannelVars == <<transit, merged>>

LEMMA ChannelSends ==
  ASSUME NEW m \in Sendable, transit' = Append(transit, m), UNCHANGED merged
  PROVE  Channel!Next
  BY DEF Channel!Next, Channel!Send

LEMMA ChannelReceives ==
  ASSUME Delivers, transit' = <<>>,
         merged' = IF Opcode # "binary" \/ Payload = Content(Malformed) THEN merged ELSE <<Decoded>>
  PROVE  [Channel!Next]_ChannelVars
<1>1. ASSUME NEW m \in Sendable, Opcode = "binary", transit = <<m>>, Decoded = m,
             Payload # Content(Malformed)
      PROVE  Channel!Receive
  <2>1. transit # <<>> /\ Head(transit) = m /\ Tail(transit) = <<>>
    BY <1>1
  <2> QED  BY <1>1, <2>1 DEF Channel!Receive
<1>2. ASSUME Opcode # "binary" \/ Payload = Content(Malformed) PROVE Channel!Lose
  BY <1>2 DEF Channel!Lose
<1> QED  BY <1>1, <1>2, DecodesAs DEF Channel!Next

LEMMA ChannelStep == StreamInv /\ [StreamNext]_streamVars => [Channel!Next]_ChannelVars
<1> SUFFICES ASSUME StreamInv, [StreamNext]_streamVars PROVE [Channel!Next]_ChannelVars
  OBVIOUS
<1>1. ASSUME CameraSends PROVE [Channel!Next]_ChannelVars
  <2>1. Notification(note) \in Sendable
    BY DEF StreamInv, StreamTypeOK, Sendable
  <2>2. asked # 0 => \A ok \in BOOLEAN : Answer(asked, ok) \in Sendable
    <3>1. asked # 0 => asked \in 1..MaxId
      BY StreamConstants DEF StreamInv, StreamTypeOK
    <3> QED  BY <3>1 DEF Sendable
  <2>3. \/ \E m \in Sendable : transit' = Append(transit, m)
        \/ UNCHANGED transit
    BY <1>1, <2>1, <2>2 DEF CameraSends, Begins
  <2>4. UNCHANGED merged
    BY <1>1 DEF CameraSends, Begins, bridgeVars
  <2> QED  BY <2>3, <2>4, ChannelSends DEF ChannelVars
<1>2. ASSUME \/ Arrives \/ SessionBreaks \/ StreamTick \/ Connect \/ LoopReads
             \/ ReadPiece \/ ReadFragment \/ UNCHANGED streamVars
      PROVE  [Channel!Next]_ChannelVars
  BY <1>2 DEF Arrives, SessionBreaks, StreamTick, Connect, LoopReads, ReadPiece, ReadFragment,
              streamVars, bridgeVars, ChannelVars
<1>3. ASSUME StartRequest \/ RecvTimesOut \/ ReadRefused \/ PongFails
      PROVE  [Channel!Next]_ChannelVars
  <2>1. UNCHANGED ChannelVars \/ (transit' = <<>> /\ UNCHANGED merged)
    BY <1>3 DEF StartRequest, RecvTimesOut, ReadRefused, PongFails, Fails, Closes, ChannelVars
  <2> QED  BY <2>1 DEF Channel!Next, Channel!Lose
<1>4. ASSUME LoopReturns \/ RequestReadsOn \/ RequestAnswered
      PROVE  [Channel!Next]_ChannelVars
  <2>1. Reading /\ ~Refused /\ FrameRead /\ MessageRead /\ HandleIncoming
    BY <1>4 DEF LoopReturns, RequestReadsOn, RequestAnswered
  <2>2. Delivers /\ transit' = <<>>
    BY <2>1, AtMessageEnd, MessageLeaves
  <2> QED  BY <2>1, <2>2, ChannelReceives DEF HandleIncoming
<1>5. ASSUME RequestFails PROVE [Channel!Next]_ChannelVars
  <2>1. Reading /\ ~Refused /\ FrameRead /\ MessageRead /\ transit' = <<>>
    BY <1>5 DEF RequestFails, Closes
  <2>2. Delivers
    BY <2>1, AtMessageEnd
  <2> QED  BY <1>5, <2>1, <2>2, ChannelReceives DEF RequestFails
<1> QED  BY <1>1, <1>2, <1>3, <1>4, <1>5 DEF StreamNext

THEOREM StreamImplementsChannel == StreamSpec => StreamIsChannel
<1>1. StreamInit => Channel!Init
  BY DEF StreamInit, Channel!Init
<1>2. StreamInv /\ [StreamNext]_streamVars => [Channel!Next]_<<transit, merged>>
  BY ChannelStep DEF ChannelVars
<1> QED
  BY <1>1, <1>2, StreamInvariant, PTL DEF StreamSpec, StreamIsChannel, Channel!Spec

-----------------------------------------------------------------------------
(***************************************************************************)
(* The HTTP exchange.  A recursive function is the value of an equation    *)
(* that has to have one: DecoderIs shows that it has, from the last place  *)
(* of the wire to the first.  ChunksDecode and DecodedIsChunked then say   *)
(* the same of all turns of the loop: what has come of a sequence of       *)
(* chunks is decoded as far as it goes, and what is decoded to an end is   *)
(* such a sequence.  HttpInv carries this through the pieces in which an   *)
(* answer arrives.                                                         *)
(***************************************************************************)

(* Induction up to a number, for the members of a set.                     *)
LEMMA UpTo ==
  ASSUME NEW n \in Nat, NEW B, 0 \in B,
         \A k \in 1..n : k - 1 \in B => k \in B
  PROVE  \A k \in 0..n : k \in B
<1> DEFINE out == {k \in 0..n : k \notin B}
<1> SUFFICES ASSUME out # {} PROVE FALSE
  OBVIOUS
<1>1. PICK k \in out : \A j \in out : ~(<<j, k>> \in OpToRel(<, Nat))
  <2>1. out \subseteq Nat
    OBVIOUS
  <2> HIDE DEF out
  <2> QED  BY <2>1, NatLessThanWellFounded, WFMin
<1>2. k \in 1..n /\ k - 1 \in 0..n
  OBVIOUS
<1>3. k - 1 \notin B
  BY <1>2
<1>4. k - 1 \in out /\ k - 1 < k /\ k \in Nat /\ k - 1 \in Nat
  BY <1>2, <1>3
<1>5. <<k - 1, k>> \in OpToRel(<, Nat)
  BY <1>4 DEF OpToRel
<1> QED  BY <1>1, <1>4, <1>5

IsWire(wire) == wire \in Seq({wire[i] : i \in DOMAIN wire})

LEMMA SizesAreNoBreaks ==
  \A n : Size(n) # Break /\ Size(n)[2] = n /\ Size(n)[1] = "size"
  BY DEF Size, Break

(* What a turn of the loop looks at of the turns after it.                 *)
LEMMA LineBreakAt ==
  ASSUME NEW wire, IsWire(wire), NEW pos \in Nat \ {0}
  PROVE  LET ends == LineBreaks(wire, pos)
             end == CHOOSE i \in ends : \A j \in ends : i <= j
         IN  ends # {} => end \in pos..Len(wire) /\ wire[end] = Break
                          /\ \A j \in ends : end <= j
<1> DEFINE ends == LineBreaks(wire, pos)
           B == {k \in 0..Len(wire) : (\E i \in ends : i <= k)
                           => \E i \in ends : \A j \in ends : i <= j}
<1>1. Len(wire) \in Nat /\ ends \subseteq pos..Len(wire) /\ \A i \in ends : wire[i] = Break
  BY DEF LineBreaks, IsWire
<1>2. 0 \in B
  BY <1>1
<1>3. ASSUME NEW k \in 1..Len(wire), k - 1 \in B PROVE k \in B
  <2> SUFFICES ASSUME NEW i \in ends, i <= k PROVE \E m \in ends : \A j \in ends : m <= j
    BY <1>1
  <2>1. CASE \E m \in ends : m <= k - 1
    BY <1>3, <2>1
  <2>2. CASE \A m \in ends : ~(m <= k - 1)
    <3>1. \A m \in ends : i <= m
      <4> HIDE DEF ends, B
      <4> QED  BY <1>1, <2>2
    <3> QED  BY <3>1
  <2> QED  BY <2>1, <2>2
<1>4. Len(wire) \in B
  <2> HIDE DEF B
  <2>1. \A k \in 0..Len(wire) : k \in B
    BY <1>1, <1>2, <1>3, UpTo
  <2> QED  BY <1>1, <2>1
<1>5. ends # {} => \E i \in ends : \A j \in ends : i <= j
  <2>1. (\E i \in ends : i <= Len(wire)) => \E i \in ends : \A j \in ends : i <= j
    BY <1>4
  <2> HIDE DEF ends
  <2>2. \A i \in ends : i <= Len(wire)
    BY <1>1
  <2> QED  BY <2>1, <2>2
<1> QED  BY <1>1, <1>5

Turns(wire, limit) == (1..Len(wire) + 1) \X (0..limit)

LEMMA TurnLooksAhead ==
  ASSUME NEW wire, IsWire(wire), NEW limit \in Nat,
         NEW at \in Turns(wire, limit), NEW d, NEW e,
         \A later \in Turns(wire, limit) : later[1] > at[1] => d[later] = e[later]
  PROVE  DecodeFrom(at[1], at[2], d, wire, limit) = DecodeFrom(at[1], at[2], e, wire, limit)
<1> DEFINE pos == at[1]
           out == at[2]
           ends == LineBreaks(wire, pos)
           end == CHOOSE i \in ends : \A j \in ends : i <= j
           size == wire[pos][2]
           next == end + size + 2
<1>1. Len(wire) \in Nat /\ pos \in Nat \ {0} /\ out \in 0..limit
  BY DEF IsWire, Turns
<1>2. CASE \/ ends = {} \/ end # pos + 1
                \/ wire[pos] \notin {Size(n) : n \in 0..Len(wire) + limit + 1}
           \/ size = 0 \/ out + size > limit \/ Len(wire) < next - 1 \/ wire[next - 1] # Break
  BY <1>2 DEF DecodeFrom
<1>3. CASE ~(\/ ends = {} \/ end # pos + 1
                \/ wire[pos] \notin {Size(n) : n \in 0..Len(wire) + limit + 1}
           \/ size = 0 \/ out + size > limit \/ Len(wire) < next - 1 \/ wire[next - 1] # Break)
  <2>1. size \in 0..Len(wire) + limit + 1
    <3>1. PICK n \in 0..Len(wire) + limit + 1 : wire[pos] = Size(n)
      BY <1>3
    <3> QED  BY <3>1, SizesAreNoBreaks
  <2>2. next \in 1..Len(wire) + 1 /\ next > pos /\ out + size \in 0..limit
    <3> HIDE DEF size
    <3>1. end = pos + 1
      BY <1>3
    <3>2. ~(Len(wire) < next - 1) /\ size # 0 /\ ~(out + size > limit)
      BY <1>3
    <3> HIDE DEF end, pos, out
    <3> QED  BY <1>1, <2>1, <3>1, <3>2
  <2>3. <<next, out + size>> \in Turns(wire, limit) /\ <<next, out + size>>[1] > pos
    BY <2>2 DEF Turns
  <2>4. d[<<next, out + size>>] = e[<<next, out + size>>]
    BY <2>3
  <2> QED  BY <2>4 DEF DecodeFrom
<1> QED  BY <1>2, <1>3

(* The loop has a result at every turn: that of its step.                  *)
IsDecoder(d, wire, limit, from) ==
  \A at \in Turns(wire, limit) :
    at[1] >= from => d[at] = DecodeFrom(at[1], at[2], d, wire, limit)

LEMMA DecoderIs ==
  ASSUME NEW wire, IsWire(wire), NEW limit \in Nat
  PROVE  \A pos \in 1..Len(wire) + 1, out \in 0..limit :
           Decoder(wire, limit)[<<pos, out>>]
             = DecodeFrom(pos, out, Decoder(wire, limit), wire, limit)
<1> DEFINE last == Len(wire) + 1
           B == {k \in 0..last : \E d : IsDecoder(d, wire, limit, last + 1 - k)}
<1>1. Len(wire) \in Nat /\ last \in Nat
  BY DEF IsWire
<1>t. \A at \in Turns(wire, limit) : at[1] \in 1..last /\ at[2] \in 0..limit /\ at = <<at[1],
                at[2]>>
  BY DEF Turns
<1>2. 0 \in B
  <2>1. IsDecoder(<<>>, wire, limit, last + 1)
    <3>1. \A p \in 1..last : ~(p >= last + 1)
      BY <1>1
    <3> HIDE DEF last
    <3> QED  BY <1>t, <3>1 DEF IsDecoder
  <2> QED  BY <1>1, <2>1
<1>3. ASSUME NEW k \in 1..last, k - 1 \in B PROVE k \in B
  <2>1. PICK d : IsDecoder(d, wire, limit, last + 2 - k)
    <3>1. last + 1 - (k - 1) = last + 2 - k
      BY <1>1
    <3> QED  BY <1>3, <3>1
  <2> DEFINE e == [at \in Turns(wire, limit) |-> DecodeFrom(at[1], at[2], d, wire, limit)]
  <2>2. ASSUME NEW at \in Turns(wire, limit), at[1] >= last + 2 - k
        PROVE  e[at] = d[at]
    BY <2>1, <2>2 DEF IsDecoder
  <2>3. ASSUME NEW at \in Turns(wire, limit), at[1] >= last + 1 - k
        PROVE  e[at] = DecodeFrom(at[1], at[2], e, wire, limit)
    <3>1. \A later \in Turns(wire, limit) : later[1] > at[1] => d[later] = e[later]
      <4> SUFFICES ASSUME NEW later \in Turns(wire, limit), later[1] > at[1]
                   PROVE  d[later] = e[later]
        OBVIOUS
      <4>1. later[1] >= last + 2 - k
        <5>1. later[1] \in Int /\ at[1] \in Int /\ later[1] > at[1] /\ last \in Int /\ k \in Int
          BY <1>1, <1>t
        <5> HIDE DEF last
        <5> QED  BY <5>1, <2>3
      <4> QED  BY <2>2, <4>1
    <3> HIDE DEF e
    <3>2. DecodeFrom(at[1], at[2], d, wire, limit) = DecodeFrom(at[1], at[2], e, wire, limit)
      BY <3>1, TurnLooksAhead
    <3> QED  BY <3>2 DEF e
  <2>4. IsDecoder(e, wire, limit, last + 1 - k)
    <3> HIDE DEF e
    <3> QED  BY <2>3 DEF IsDecoder
  <2>5. k \in 0..last
    BY <1>1
  <2> HIDE DEF e
  <2> QED  BY <2>4, <2>5
<1>4. last \in B
  <2> HIDE DEF B, last
  <2>1. \A k \in 0..last : k \in B
    BY <1>1, <1>2, <1>3, UpTo
  <2> QED  BY <1>1, <2>1
<1>5. PICK d : IsDecoder(d, wire, limit, 1)
  <2>1. PICK d : IsDecoder(d, wire, limit, last + 1 - last)
    BY <1>4
  <2>2. last + 1 - last = 1
    BY <1>1
  <2> QED  BY <2>1, <2>2
<1> DEFINE Result(f) == [at \in Turns(wire, limit) |-> DecodeFrom(at[1], at[2], f, wire, limit)]
           e == Result(d)
<1>6. \A at \in Turns(wire, limit) : e[at] = d[at]
  <2>1. ASSUME NEW at \in Turns(wire, limit) PROVE e[at] = d[at]
    <3>1. at[1] >= 1
      BY <1>1, <1>t
    <3> QED  BY <1>5, <3>1 DEF IsDecoder
  <2> QED  BY <2>1
<1>7. e = Result(e)
  <2>1. ASSUME NEW at \in Turns(wire, limit)
        PROVE  DecodeFrom(at[1], at[2], d, wire, limit) = DecodeFrom(at[1], at[2], e, wire, limit)
    <3> HIDE DEF e, Result
    <3>1. \A later \in Turns(wire, limit) : later[1] > at[1] => d[later] = e[later]
      BY <1>6
    <3> QED  BY <3>1, TurnLooksAhead
  <2> QED  BY <2>1
<1>8. Decoder(wire, limit) = Result(Decoder(wire, limit))
  <2>1. Decoder(wire, limit) = CHOOSE f : f = Result(f)
    BY DEF Decoder, Turns
  <2> HIDE DEF e, Result
  <2> QED  BY <1>7, <2>1
<1>9. \A pos \in 1..Len(wire) + 1, out \in 0..limit : <<pos, out>> \in Turns(wire, limit)
  BY DEF Turns
<1> QED  BY <1>8, <1>9

LEMMA Downwards ==
  ASSUME NEW n \in Nat, NEW B,
         \A p \in 1..n : (\A q \in 1..n : q > p => q \in B) => p \in B
  PROVE  \A p \in 1..n : p \in B
<1> DEFINE C == {k \in 0..n : \A q \in 1..n : q > n - k => q \in B}
<1>1. 0 \in C
  OBVIOUS
<1>2. ASSUME NEW k \in 1..n, k - 1 \in C PROVE k \in C
  <2>1. \A q \in 1..n : q > n - (k - 1) => q \in B
    BY <1>2
  <2>2. n - k + 1 \in 1..n /\ \A q \in 1..n : q > n - k + 1 => q > n - (k - 1)
    OBVIOUS
  <2>3. n - k + 1 \in B
    BY <2>1, <2>2
  <2>4. \A q \in 1..n : q > n - k => q = n - k + 1 \/ q > n - (k - 1)
    OBVIOUS
  <2> QED  BY <2>1, <2>3, <2>4
<1>3. n \in C
  <2> HIDE DEF C
  <2>1. \A k \in 0..n : k \in C
    BY <1>1, <1>2, UpTo
  <2> QED  BY <2>1
<1> QED  BY <1>3

(* What has come of a wire.                                                *)
StartOf(part, wire) ==
  /\ IsWire(part) /\ Len(part) <= Len(wire)
  /\ \A i \in 1..Len(part) : part[i] = wire[i]

LEMMA SliceOfStart ==
  ASSUME NEW wire, IsWire(wire), NEW part, StartOf(part, wire),
         NEW i \in Nat \ {0}, NEW j \in Nat, j <= Len(part)
  PROVE  SubSeq(part, i, j) = SubSeq(wire, i, j)
  BY DEF StartOf, IsWire

LEMMA SlicesJoin ==
  ASSUME NEW s, IsWire(s), NEW i \in Nat, NEW j \in Nat, i <= j, j <= Len(s)
  PROVE  SubSeq(s, i + 1, j) \o SubSeq(s, j + 1, Len(s)) = SubSeq(s, i + 1, Len(s))
<1> DEFINE S == {s[x] : x \in DOMAIN s}
<1>1. Len(s) \in Nat /\ s \in Seq(S)
  BY DEF IsWire
<1>2. i + 1 \in 1..Len(s) + 1 /\ j \in (i + 1) - 1..Len(s) /\ Len(s) \in j..Len(s)
  <2> HIDE DEF S
  <2> QED  BY <1>1
<1> HIDE DEF S
<1> QED  BY <1>1, <1>2, ConcatAdjacentSubSeq

(* What a turn makes of what has come, in the words of the wire.           *)
TurnIs(turn, part, limit, pos, out, d) ==
  LET size == part[pos][2]
      rest == d[<<pos + size + 3, out + size>>]
  IN  \/ turn = Incomplete /\ LineBreaks(part, pos) = {}
      \/ /\ turn = Invalid /\ pos <= Len(part)
         /\ ~ \E n \in 0..limit : part[pos] = Size(n) /\ (pos < Len(part) => part[pos + 1] = Break)
      \/ /\ pos < Len(part) /\ part[pos + 1] = Break /\ part[pos] = Size(size) /\ size \in Nat
         /\ \/ size = 0 /\ TrailersEnd(part, pos + 2) /\ turn = Complete(<<>>)
            \/ size = 0 /\ ~TrailersEnd(part, pos + 2) /\ turn = Incomplete
            \/ size # 0 /\ out + size > limit /\ turn = Invalid
            \/ size # 0 /\ out + size <= limit /\ Len(part) < pos + size + 2 /\ turn = Incomplete
            \/ /\ size # 0 /\ out + size <= limit /\ Len(part) >= pos + size + 2
               /\ part[pos + size + 2] # Break /\ turn = Invalid
            \/ /\ size # 0 /\ out + size <= limit /\ Len(part) >= pos + size + 2
               /\ part[pos + size + 2] = Break
               /\ turn = [state |-> rest.state,
                          body |-> SubSeq(part, pos + 2, pos + size + 1) \o rest.body]

LEMMA TurnAtChunk ==
  ASSUME NEW part, IsWire(part), NEW limit \in Nat,
         NEW pos \in 1..Len(part) + 1, NEW out \in 0..limit, NEW d
  PROVE  TurnIs(DecodeFrom(pos, out, d, part, limit), part, limit, pos, out, d)
<1> DEFINE ends == LineBreaks(part, pos)
           end == CHOOSE i \in ends : \A j \in ends : i <= j
           size == part[pos][2]
           turn == DecodeFrom(pos, out, d, part, limit)
<1>1. Len(part) \in Nat /\ pos \in Nat \ {0}
  BY DEF IsWire
<1>2. CASE ends = {}
  BY <1>2 DEF DecodeFrom, TurnIs
<1>3. ASSUME ends # {}
      PROVE  end \in pos..Len(part) /\ part[end] = Break /\ \A j \in ends : end <= j
  <2> HIDE DEF end, ends
  <2> QED  BY <1>1, <1>3, LineBreakAt DEF end, ends
<1>4. CASE ends # {}
                /\ (end # pos + 1 \/ part[pos] \notin {Size(n) : n \in 0..Len(part) + limit + 1})
  <2>1. turn = Invalid /\ pos <= Len(part)
    BY <1>1, <1>3, <1>4 DEF DecodeFrom
  <2>2. ASSUME NEW n \in 0..limit, part[pos] = Size(n), pos < Len(part) => part[pos + 1] = Break
        PROVE  FALSE
    <3>1. end # pos /\ end \in pos..Len(part) /\ \A j \in ends : end <= j
      BY <1>3, <1>4, <2>2, SizesAreNoBreaks
    <3>2. pos < Len(part)
      <4> HIDE DEF end, ends
      <4> QED  BY <1>1, <3>1
    <3>3. pos + 1 \in ends
      BY <1>1, <2>2, <3>2 DEF LineBreaks
    <3>4. end = pos + 1
      <4> HIDE DEF end, ends
      <4> QED  BY <1>1, <3>1, <3>3
    <3>5. n \in 0..Len(part) + limit + 1
      BY <1>1
    <3> QED  BY <1>4, <2>2, <3>4, <3>5
  <2> QED  BY <2>1, <2>2 DEF TurnIs
<1>5. CASE ends # {}
                /\ ~(end # pos + 1 \/ part[pos] \notin {Size(n) : n \in 0..Len(part) + limit + 1})
  <2>1. end = pos + 1 /\ part[pos + 1] = Break /\ pos < Len(part)
    <3>1. end = pos + 1 /\ end \in pos..Len(part) /\ part[end] = Break
      BY <1>3, <1>5
    <3> HIDE DEF end, ends
    <3> QED  BY <1>1, <3>1
  <2>2. PICK n \in 0..Len(part) + limit + 1 : part[pos] = Size(n)
    BY <1>5
  <2>3. size = n /\ size \in Nat
    BY <1>1, <2>2, SizesAreNoBreaks
  <2>4. turn = LET next == pos + 1 + size + 2
                   rest == d[<<next, out + size>>]
               IN  IF size = 0
                   THEN IF TrailersEnd(part, pos + 1 + 1) THEN Complete(<<>>) ELSE Incomplete
                   ELSE IF out + size > limit THEN Invalid
                   ELSE IF Len(part) < next - 1 THEN Incomplete
                   ELSE IF part[next - 1] # Break THEN Invalid
                   ELSE [state |-> rest.state,
                         body |-> SubSeq(part, pos + 1 + 1, pos + 1 + size) \o rest.body]
    BY <1>5, <2>1 DEF DecodeFrom
  <2>5. /\ pos + 1 + size + 2 = pos + size + 3 /\ (pos + 1 + size + 2) - 1 = pos + size + 2
        /\ pos + 1 + 1 = pos + 2 /\ pos + 1 + size = pos + size + 1
    BY <1>1, <2>3
  <2>6. part[pos] = Size(size)
    BY <2>2, <2>3
  <2> HIDE DEF end, ends, turn
  <2>7. turn = LET rest == d[<<pos + size + 3, out + size>>]
               IN  IF size = 0
                   THEN IF TrailersEnd(part, pos + 2) THEN Complete(<<>>) ELSE Incomplete
                   ELSE IF out + size > limit THEN Invalid
                   ELSE IF Len(part) < pos + size + 2 THEN Incomplete
                   ELSE IF part[pos + size + 2] # Break THEN Invalid
                   ELSE [state |-> rest.state,
                         body |-> SubSeq(part, pos + 2, pos + size + 1) \o rest.body]
    BY <2>4, <2>5, Zenon
  <2>8. (out + size > limit <=> ~(out + size <= limit))
                  /\ (Len(part) < pos + size + 2 <=> ~(Len(part) >= pos + size + 2))
    BY <1>1, <2>3
  <2> HIDE DEF size
  <2> QED  BY <2>1, <2>3, <2>6, <2>7, <2>8 DEF turn, size, TurnIs
<1> QED  BY <1>2, <1>4, <1>5

(* At a chunk of the wire: of what has come the decoder makes what the     *)
(* wire carries from there on, if anything, and refuses it only for its    *)
(* size.                                                                   *)
DecodedAt(wire, at, body, part, limit, pos) ==
  LET turn == Decoder(part, limit)[<<pos, at[pos]>>]
  IN  /\ turn.state = "complete" =>
           turn.body = SubSeq(body, at[pos] + 1, Len(body)) /\ Len(body) <= limit
      /\ Len(body) <= limit => turn.state \in {"complete", "incomplete"}
      /\ Len(body) <= limit /\ Len(part) = Len(wire) => turn.state = "complete"

LEMMA StatesDiffer ==
  /\ Incomplete.state = "incomplete" /\ Invalid.state = "invalid"
  /\ \A body : Complete(body).state = "complete" /\ Complete(body).body = body
  BY DEF Incomplete, Invalid, Complete

LEMMA TrailersStay ==
  ASSUME NEW wire, IsWire(wire), NEW part, StartOf(part, wire), NEW p \in Nat \ {0}
  PROVE  /\ TrailersEnd(part, p) => TrailersEnd(wire, p)
         /\ Len(part) = Len(wire) => (TrailersEnd(wire, p) => TrailersEnd(part, p))
<1>1. Len(part) \in Nat /\ Len(wire) \in Nat /\ Len(part) <= Len(wire)
      /\ \A i \in 1..Len(part) : part[i] = wire[i]
  BY DEF StartOf, IsWire
<1> QED  BY <1>1 DEF TrailersEnd

LEMMA ChunksDecode ==
  ASSUME NEW wire, IsWire(wire), NEW body, IsWire(body), NEW at \in Offsets(wire),
         IsChunked(wire, at), Carries(wire, at, body),
         NEW part, StartOf(part, wire), NEW limit \in Nat
  PROVE  \A pos \in 1..Len(part) + 1 :
           pos \in DOMAIN at /\ at[pos] <= limit => DecodedAt(wire, at, body, part, limit, pos)
<1> DEFINE last == Len(part) + 1
           B == {pos \in 1..last : pos \in DOMAIN at /\ at[pos] <= limit
                                      => DecodedAt(wire, at, body, part, limit, pos)}
<1>1. /\ Len(part) \in Nat /\ Len(wire) \in Nat /\ Len(part) <= Len(wire) /\ IsWire(part)
      /\ Len(body) \in Nat
      /\ \A i \in 1..Len(part) : part[i] = wire[i]
  BY DEF StartOf, IsWire
<1>2. \A p \in DOMAIN at : p \in 1..Len(wire) /\ at[p] \in Nat /\ IsChunk(wire, at, p)
  <2> DEFINE sizes == {p \in 1..Len(wire) : wire[p][1] = "size"}
  <2>1. PICK places \in SUBSET sizes : at \in [places -> 0..Len(wire)]
    BY DEF Offsets
  <2>2. sizes \subseteq 1..Len(wire)
    OBVIOUS
  <2> HIDE DEF sizes
  <2>3. \A p \in DOMAIN at : p \in 1..Len(wire) /\ at[p] \in 0..Len(wire)
    BY <2>1, <2>2
  <2> QED  BY <1>1, <2>3 DEF IsChunked
<1>3. ASSUME NEW pos \in 1..last, \A q \in 1..last : q > pos => q \in B
      PROVE  pos \in B
  <2> SUFFICES ASSUME pos \in DOMAIN at, at[pos] <= limit
               PROVE  DecodedAt(wire, at, body, part, limit, pos)
    OBVIOUS
  <2> DEFINE d == Decoder(part, limit)
             out == at[pos]
             turn == d[<<pos, out>>]
             size == wire[pos][2]
             next == pos + size + 3
             rest == d[<<next, out + size>>]
  <2>1. /\ pos \in 1..Len(part) + 1 /\ out \in 0..limit /\ out \in Nat
        /\ turn = DecodeFrom(pos, out, d, part, limit)
    <3>1. pos \in 1..Len(part) + 1 /\ out \in 0..limit
      BY <1>2
    <3> QED  BY <1>1, <3>1, DecoderIs
  <2>2. /\ size \in Nat /\ wire[pos] = Size(size) /\ pos < Len(wire) /\ wire[pos + 1] = Break
        /\ size = 0 => TrailersEnd(wire, pos + 2) /\ out = Len(body)
        /\ size # 0 => next \in DOMAIN at /\ at[next] = out + size /\ wire[next - 1] = Break
        /\ out + size <= Len(body)
        /\ SubSeq(wire, pos + 2, pos + size + 1) = SubSeq(body, out + 1, out + size)
    BY <1>2 DEF IsChunk, Carries
  <2>3. pos <= Len(part) => part[pos] = wire[pos] /\ part[pos][2] = size
    BY <1>1, <2>1
  <2>4. pos < Len(part) => part[pos + 1] = wire[pos + 1]
    BY <1>1, <2>1
  <2>d. SUFFICES /\ turn.state = "complete" =>
                      turn.body = SubSeq(body, out + 1, Len(body)) /\ Len(body) <= limit
                 /\ Len(body) <= limit => turn.state \in {"complete", "incomplete"}
                 /\ Len(body) <= limit /\ Len(part) = Len(wire) => turn.state = "complete"
    BY DEF DecodedAt
  <2>i. turn = Incomplete => turn.state = "incomplete"
    BY StatesDiffer
  <2>v. turn = Invalid => turn.state # "complete"
    BY StatesDiffer
  <2>t. TurnIs(turn, part, limit, pos, out, d)
    <3> HIDE DEF d, out, turn
    <3> QED  BY <1>1, <2>1, TurnAtChunk
  <2> HIDE DEF d, out, turn, size
  <2>n. /\ pos \in Nat /\ pos # 0 /\ pos <= Len(part) + 1 /\ pos < Len(wire)
        /\ Len(part) \in Nat /\ Len(wire) \in Nat /\ Len(part) <= Len(wire) /\ Len(body) \in Nat
        /\ out \in Nat /\ out <= limit /\ size \in Nat /\ out + size <= Len(body)
    <3>1. pos \in 1..Len(part) + 1 /\ out \in 0..limit
      BY <2>1
    <3>2. pos < Len(wire) /\ size \in Nat /\ out + size <= Len(body)
      BY <2>2
    <3> QED  BY <1>1, <3>1, <3>2
  <2>s. pos <= Len(part) => part[pos][2] = size
    BY <2>3
  <2>z. size = 0 => TrailersEnd(wire, pos + 2) /\ out = Len(body)
    BY <2>2
  <2>x. /\ wire[pos + 1] = Break
        /\ size # 0 => next \in DOMAIN at /\ at[next] = out + size /\ wire[next - 1] = Break
    BY <2>2
  <2>b. SubSeq(wire, pos + 2, pos + size + 1) = SubSeq(body, out + 1, out + size)
    BY <2>2
  <2>5. LineBreaks(part, pos) = {} => Len(part) # Len(wire)
    BY <2>n, <2>x, <2>4 DEF LineBreaks
  <2>6. Len(body) <= limit => out + size <= limit /\ size \in 0..limit
    BY <2>n
  <2>c1. CASE turn = Incomplete /\ LineBreaks(part, pos) = {}
    BY <2>c1, <2>i, <2>5
  <2>c2. CASE /\ turn = Invalid /\ pos <= Len(part)
              /\ ~ \E n \in 0..limit :
                      part[pos] = Size(n) /\ (pos < Len(part) => part[pos + 1] = Break)
    <3>1. ~(Len(body) <= limit)
      BY <2>c2, <2>2, <2>3, <2>4, <2>6
    <3> QED  BY <2>c2, <2>v, <3>1
  <2>c3. CASE pos < Len(part) /\ part[pos][2] = 0 /\ TrailersEnd(part, pos + 2)
                  /\ turn = Complete(<<>>)
    <3>1. turn.state = "complete" /\ turn.body = <<>>
      BY <2>c3, StatesDiffer
    <3>2. size = 0 /\ out = Len(body)
      BY <2>n, <2>s, <2>z, <2>c3
    <3>3. SubSeq(body, out + 1, Len(body)) = <<>>
      BY <2>n, <3>2 DEF IsWire
    <3>4. Len(body) <= limit
      BY <2>n, <3>2
    <3> QED  BY <3>1, <3>3, <3>4
  <2>c4. CASE pos < Len(part) /\ part[pos][2] = 0 /\ ~TrailersEnd(part, pos + 2)
                  /\ turn = Incomplete
    <3>1. size = 0 /\ TrailersEnd(wire, pos + 2) /\ pos + 2 \in Nat \ {0}
      BY <2>n, <2>s, <2>z, <2>c4
    <3>2. Len(part) # Len(wire)
      BY <2>c4, <3>1, TrailersStay
    <3> QED  BY <2>c4, <2>i, <3>2
  <2>c5. CASE pos < Len(part) /\ out + part[pos][2] > limit /\ turn = Invalid
    <3>1. ~(Len(body) <= limit)
      BY <2>n, <2>s, <2>6, <2>c5
    <3> QED  BY <2>c5, <2>v, <3>1
  <2>c6. CASE pos < Len(part) /\ part[pos][2] # 0 /\ Len(part) < pos + part[pos][2] + 2
                  /\ turn = Incomplete
    <3>0. size # 0 /\ Len(part) < pos + size + 2
      BY <2>n, <2>s, <2>c6
    <3>1. next \in 1..Len(wire) /\ Len(part) < pos + size + 2
      BY <1>2, <2>x, <3>0
    <3>2. Len(part) # Len(wire)
      BY <2>n, <3>1
    <3> QED  BY <2>c6, <2>i, <3>2
  <2>c7. CASE /\ pos < Len(part) /\ part[pos][2] # 0 /\ Len(part) >= pos + part[pos][2] + 2
              /\ part[pos + part[pos][2] + 2] # Break
    <3>1. size # 0 /\ Len(part) >= pos + size + 2 /\ part[pos + size + 2] # Break
                    /\ wire[next - 1] = Break
      BY <2>n, <2>s, <2>x, <2>c7
    <3>2. next - 1 = pos + size + 2 /\ pos + size + 2 \in 1..Len(part)
      BY <2>n, <3>1
    <3> QED  BY <1>1, <3>1, <3>2
  <2>c8. CASE /\ pos < Len(part) /\ part[pos][2] # 0 /\ out + part[pos][2] <= limit
              /\ Len(part) >= pos + part[pos][2] + 2
              /\ turn = [state |-> d[<<pos + part[pos][2] + 3, out + part[pos][2]>>].state,
                         body |-> SubSeq(part, pos + 2, pos + part[pos][2] + 1)
                                    \o d[<<pos + part[pos][2] + 3, out + part[pos][2]>>].body]
    <3>1. size # 0 /\ out + size <= limit /\ Len(part) >= pos + size + 2 /\ part[pos][2] = size
      BY <2>n, <2>s, <2>c8
    <3>2. next \in 1..last /\ next > pos /\ next \in DOMAIN at /\ at[next] = out + size
      BY <2>n, <2>x, <3>1
    <3>3. DecodedAt(wire, at, body, part, limit, next)
      <4> HIDE DEF next
      <4>1. next \in B
        BY <1>3, <3>2
      <4> QED  BY <3>1, <3>2, <4>1
    <3>4. /\ rest.state = "complete" =>
                rest.body = SubSeq(body, out + size + 1, Len(body)) /\ Len(body) <= limit
          /\ Len(body) <= limit => rest.state \in {"complete", "incomplete"}
          /\ Len(body) <= limit /\ Len(part) = Len(wire) => rest.state = "complete"
      BY <3>2, <3>3 DEF DecodedAt, d
    <3>5. turn.state = rest.state /\ turn.body = SubSeq(part, pos + 2, pos + size + 1) \o rest.body
      BY <2>c8, <3>1
    <3>6. SubSeq(part, pos + 2, pos + size + 1) = SubSeq(body, out + 1, out + size)
      <4> DEFINE i == pos + 2
                 j == pos + size + 1
      <4>1. i \in Nat \ {0} /\ j \in Nat /\ j <= Len(part)
        BY <2>n, <3>1
      <4>2. SubSeq(part, i, j) = SubSeq(wire, i, j)
        <5> HIDE DEF i, j
        <5> QED  BY <4>1, SliceOfStart
      <4> QED  BY <4>2, <2>b
    <3>7. SubSeq(body, out + 1, out + size) \o SubSeq(body, out + size + 1, Len(body))
            = SubSeq(body, out + 1, Len(body))
      <4>1. out \in Nat /\ out + size \in Nat /\ out <= out + size /\ out + size <= Len(body)
        BY <2>n
      <4> QED  BY <4>1, SlicesJoin
    <3> QED  BY <3>4, <3>5, <3>6, <3>7
  <2> HIDE DEF rest, next
  <2> QED  BY <2>t, <2>c1, <2>c2, <2>c3, <2>c4, <2>c5, <2>c6, <2>c7, <2>c8, Zenon DEF TurnIs
<1>4. last \in Nat /\ \A p \in 1..last : (\A q \in 1..last : q > p => q \in B) => p \in B
  <2> HIDE DEF B, last
  <2>1. last \in Nat
    BY <1>1 DEF last
  <2> QED  BY <1>3, <2>1
<1>5. \A p \in 1..last : p \in B
  <2> HIDE DEF B, last
  <2> QED  BY <1>4, Downwards
<1> QED  BY <1>5

(* Conversely, what is decoded to an end are chunks, from there on.        *)
ChunksFrom(part, at, pos, out) ==
  /\ at \in [DOMAIN at -> 0..Len(part)]
  /\ \A p \in DOMAIN at : p \in pos..Len(part) /\ part[p][1] = "size" /\ IsChunk(part, at, p)
  /\ pos \in DOMAIN at /\ at[pos] = out

LEMMA LastChunk ==
  ASSUME NEW part, IsWire(part), NEW pos \in Nat \ {0}, NEW out \in Nat, out < pos,
         pos < Len(part), part[pos + 1] = Break, part[pos] = Size(0), TrailersEnd(part, pos + 2)
  PROVE  \E at : ChunksFrom(part, at, pos, out)
<1> DEFINE at == [p \in {pos} |-> out]
<1>1. Len(part) \in Nat /\ part[pos][2] = 0 /\ part[pos][1] = "size"
  BY SizesAreNoBreaks DEF IsWire
<1>2. IsChunk(part, at, pos)
  BY <1>1 DEF IsChunk
<1>3. DOMAIN at = {pos} /\ at[pos] = out /\ out \in 0..Len(part) /\ pos \in pos..Len(part)
  BY <1>1
<1>4. at \in [DOMAIN at -> 0..Len(part)]
  BY <1>3
<1>5. ChunksFrom(part, at, pos, out)
  <2> HIDE DEF at
  <2> QED  BY <1>1, <1>2, <1>3, <1>4 DEF ChunksFrom
<1> QED  BY <1>5

LEMMA OneMoreChunk ==
  ASSUME NEW part, IsWire(part), NEW pos \in Nat \ {0}, NEW out \in Nat, out < pos,
         NEW size \in Nat \ {0}, pos < Len(part), part[pos + 1] = Break, part[pos] = Size(size),
         part[pos + size + 2] = Break,
         NEW rest, ChunksFrom(part, rest, pos + size + 3, out + size)
  PROVE  \E at : ChunksFrom(part, at, pos, out)
<1> DEFINE next == pos + size + 3
           at == [p \in {pos} \cup DOMAIN rest |-> IF p = pos THEN out ELSE rest[p]]
<1>1. Len(part) \in Nat /\ part[pos][2] = size /\ part[pos][1] = "size"
  BY SizesAreNoBreaks DEF IsWire
<1>2. /\ \A p \in DOMAIN rest : /\ p \in next..Len(part) /\ part[p][1] = "size"
                                 /\ IsChunk(part, rest, p) /\ rest[p] \in 0..Len(part)
      /\ next \in DOMAIN rest /\ rest[next] = out + size
  <2> HIDE DEF next
  <2> QED  BY DEF ChunksFrom, next
<1>3. \A p \in DOMAIN rest : p # pos /\ p \in pos..Len(part) /\ p \in DOMAIN at /\ at[p] = rest[p]
  <2>1. \A p \in DOMAIN rest : p # pos /\ p \in pos..Len(part)
    <3> HIDE DEF at
    <3> QED  BY <1>1, <1>2
  <2> QED  BY <2>1
<1>4. DOMAIN at = {pos} \cup DOMAIN rest /\ at[pos] = out /\ pos \in pos..Len(part)
                /\ out \in 0..Len(part)
  BY <1>1
<1>5. IsChunk(part, at, pos)
  <2>1. next \in DOMAIN at /\ at[next] = out + size /\ next - 1 = pos + size + 2
    BY <1>2, <1>3
  <2>2. part[next - 1] = Break
    BY <2>1
  <2> HIDE DEF at
  <2> QED  BY <1>1, <1>4, <2>1, <2>2 DEF IsChunk, next
<1>6. ASSUME NEW p \in DOMAIN rest PROVE IsChunk(part, at, p)
  <2>1. IsChunk(part, rest, p) /\ at[p] = rest[p]
    BY <1>2, <1>3
  <2>2. \A q \in DOMAIN rest : q \in DOMAIN at /\ at[q] = rest[q]
    BY <1>3
  <2> HIDE DEF at
  <2> QED  BY <2>1, <2>2 DEF IsChunk
<1>7. at \in [DOMAIN at -> 0..Len(part)]
  <2>1. \A p \in {pos} \cup DOMAIN rest : (IF p = pos THEN out ELSE rest[p]) \in 0..Len(part)
    BY <1>2, <1>4
  <2> QED  BY <2>1
<1>8. ChunksFrom(part, at, pos, out)
  <2> HIDE DEF at
  <2> QED  BY <1>1, <1>2, <1>3, <1>4, <1>5, <1>6, <1>7 DEF ChunksFrom
<1> QED  BY <1>8

LEMMA DecodedIsChunked ==
  ASSUME NEW part, IsWire(part), NEW limit \in Nat,
         DecodeChunked(part, limit).state = "complete"
  PROVE  \E at \in Offsets(part) : IsChunked(part, at)
<1> DEFINE last == Len(part) + 1
           d == Decoder(part, limit)
           B == {pos \in 1..last : \A out \in 0..limit :
                   out < pos /\ d[<<pos, out>>].state = "complete"
                                   => \E at : ChunksFrom(part, at, pos, out)}
<1>1. Len(part) \in Nat /\ last \in Nat
  BY DEF IsWire
<1>2. ASSUME NEW pos \in 1..last, \A q \in 1..last : q > pos => q \in B
      PROVE  pos \in B
  <2> SUFFICES ASSUME NEW out \in 0..limit, out < pos, d[<<pos, out>>].state = "complete"
               PROVE  \E at : ChunksFrom(part, at, pos, out)
    OBVIOUS
  <2> DEFINE size == part[pos][2]
             turn == d[<<pos, out>>]
             next == pos + size + 3
             rest == d[<<next, out + size>>]
  <2>1. TurnIs(turn, part, limit, pos, out, d)
    <3>1. turn = DecodeFrom(pos, out, d, part, limit)
      BY DecoderIs
    <3> HIDE DEF d, turn
    <3> QED  BY <3>1, TurnAtChunk
  <2>n. pos \in Nat \ {0} /\ out \in Nat /\ Len(part) \in Nat
    BY <1>1
  <2>2. turn # Incomplete /\ turn # Invalid
    BY StatesDiffer
  <2>3. /\ pos < Len(part) /\ part[pos + 1] = Break /\ part[pos] = Size(size) /\ size \in Nat
        /\ \/ size = 0 /\ TrailersEnd(part, pos + 2)
           \/ /\ size # 0 /\ out + size <= limit /\ Len(part) >= pos + size + 2
              /\ part[pos + size + 2] = Break /\ turn.state = rest.state
    <3> HIDE DEF turn, d
    <3>1. \A body : [state |-> rest.state, body |-> body].state = rest.state
      OBVIOUS
    <3> QED  BY <2>1, <2>2, <3>1, Zenon DEF TurnIs
  <2>4. CASE size = 0
    BY <2>3, <2>4, <2>n, LastChunk
  <2>5. CASE size # 0
    <3> HIDE DEF size, d, turn
    <3>1. /\ size \in Nat \ {0} /\ Len(part) >= pos + size + 2 /\ part[pos + size + 2] = Break
          /\ turn.state = "complete" /\ turn.state = rest.state /\ out + size <= limit
      BY <2>3, <2>5 DEF turn
    <3>2. next \in 1..last /\ next > pos /\ out + size \in 0..limit /\ out + size < next
      BY <2>n, <3>1
    <3>3. next \in B
      <4> HIDE DEF next, last, B
      <4> QED  BY <1>2, <3>2
    <3>4. \E at : ChunksFrom(part, at, next, out + size)
      <4> HIDE DEF next
      <4>1. rest.state = "complete"
        BY <3>1
      <4> QED  BY <3>2, <3>3, <4>1
    <3> QED  BY <2>n, <2>3, <3>1, <3>4, OneMoreChunk
  <2> QED  BY <2>4, <2>5
<1>3. \A p \in 1..last : p \in B
  <2> HIDE DEF B, last
  <2> QED  BY <1>1, <1>2, Downwards
<1>4. PICK at : ChunksFrom(part, at, 1, 0)
  <2>1. 1 \in B
    BY <1>1, <1>3
  <2>2. d[<<1, 0>>].state = "complete"
    BY DEF DecodeChunked
  <2> QED  BY <2>1, <2>2
<1>5. at \in Offsets(part)
  <2> DEFINE sizes == {p \in 1..Len(part) : part[p][1] = "size"}
  <2>1. DOMAIN at \in SUBSET sizes /\ at \in [DOMAIN at -> 0..Len(part)]
    BY <1>1, <1>4 DEF ChunksFrom
  <2> HIDE DEF sizes
  <2>2. at \in UNION {[places -> 0..Len(part)] : places \in SUBSET sizes}
    BY <2>1
  <2> QED  BY <2>2 DEF Offsets, sizes
<1>6. IsChunked(part, at)
  BY <1>4 DEF ChunksFrom, IsChunked
<1> QED  BY <1>5, <1>6

(* The chunks of what has come are chunks of the whole wire.               *)
LEMMA ChunksOfStart ==
  ASSUME NEW wire, IsWire(wire), NEW part, StartOf(part, wire),
         NEW at \in Offsets(part), IsChunked(part, at)
  PROVE  at \in Offsets(wire) /\ IsChunked(wire, at)
<1>1. Len(part) \in Nat /\ Len(wire) \in Nat /\ Len(part) <= Len(wire)
      /\ \A i \in 1..Len(part) : part[i] = wire[i]
  BY DEF StartOf, IsWire
<1> DEFINE sizes == {p \in 1..Len(part) : part[p][1] = "size"}
           all == {p \in 1..Len(wire) : wire[p][1] = "size"}
<1>2. PICK places \in SUBSET sizes : at \in [places -> 0..Len(part)]
  BY DEF Offsets
<1>3. at \in Offsets(wire)
  <2>1. sizes \subseteq all /\ 0..Len(part) \subseteq 0..Len(wire)
    BY <1>1
  <2> HIDE DEF sizes, all
  <2>2. places \in SUBSET all /\ at \in [places -> 0..Len(wire)]
    BY <1>2, <2>1
  <2>3. at \in UNION {[p -> 0..Len(wire)] : p \in SUBSET all}
    BY <2>2
  <2> QED  BY <2>3 DEF Offsets, all
<1>4. ASSUME NEW p \in DOMAIN at PROVE IsChunk(wire, at, p)
  <2> DEFINE size == part[p][2]
             next == p + size + 3
  <2>1. IsChunk(part, at, p) /\ \A q \in DOMAIN at : q \in 1..Len(part)
    <3>1. sizes \subseteq 1..Len(part)
      OBVIOUS
    <3> HIDE DEF sizes
    <3> QED  BY <1>2, <3>1 DEF IsChunked
  <2>2. /\ p \in 1..Len(part) /\ size \in Nat /\ part[p] = Size(size)
        /\ p < Len(part) /\ part[p + 1] = Break
        /\ size = 0 => TrailersEnd(part, p + 2)
        /\ size # 0 => next \in DOMAIN at /\ at[next] = at[p] + size /\ part[next - 1] = Break
    BY <2>1 DEF IsChunk
  <2>3. wire[p] = part[p] /\ wire[p][2] = size /\ wire[p + 1] = part[p + 1] /\ p < Len(wire)
    BY <1>1, <2>2
  <2>4. size = 0 => TrailersEnd(wire, p + 2)
    <3>1. p + 2 \in Nat \ {0}
      BY <1>1, <2>2
    <3> QED  BY <2>2, <3>1, TrailersStay
  <2>5. size # 0 => wire[next - 1] = Break
    <3> HIDE DEF size
    <3>1. size # 0 => next \in 1..Len(part) /\ next - 1 \in 1..Len(part)
      BY <1>1, <2>1, <2>2
    <3> QED  BY <1>1, <2>2, <3>1
  <2> QED  BY <2>2, <2>3, <2>4, <2>5 DEF IsChunk
<1> QED  BY <1>3, <1>4 DEF IsChunked

-----------------------------------------------------------------------------
(* The exchange.                                                           *)

LEMMA LengthIs ==
  ASSUME NEW r, IsResponse(r), Framing(r) = "length"
  PROVE  /\ TheLength(r) \in r.lengths /\ TheLength(r) \in Nat
         /\ ~(Cardinality(r.lengths) > 1) =>
              Cardinality(r.lengths) = 1 /\ \A n \in r.lengths : n = TheLength(r)
<1>1. r.lengths # {} /\ r.lengths \subseteq Nat /\ IsFiniteSet(r.lengths)
  BY DEF IsResponse, Framing
<1>2. TheLength(r) \in r.lengths
  BY <1>1 DEF TheLength
<1>3. Cardinality(r.lengths) \in Nat /\ Cardinality(r.lengths) # 0
  BY <1>1, FS_CardinalityType, FS_EmptySet
<1>4. ASSUME ~(Cardinality(r.lengths) > 1)
      PROVE  Cardinality(r.lengths) = 1 /\ \A n \in r.lengths : n = TheLength(r)
  <2>1. Cardinality(r.lengths) = 1
    BY <1>3, <1>4
  <2>2. \E x : r.lengths = {x}
    BY <1>1, <2>1, FS_Singleton
  <2> QED  BY <1>2, <2>1, <2>2
<1> QED  BY <1>1, <1>2, <1>4

(* What the decoder makes of what has come of a chunked answer.            *)
LEMMA ChunkedAnswer ==
  ASSUME NEW r, IsResponse(r), r.coding = "chunked", r.lengths = {},
         NEW part, StartOf(part, r.wire), NEW limit \in Nat
  PROVE  LET decoded == DecodeChunked(part, limit)
         IN  /\ decoded.state = "complete" =>
                  r.wellFramed /\ decoded.body = r.meant /\ Len(r.meant) <= limit
             /\ r.wellFramed /\ Len(r.meant) <= limit
                             => decoded.state \in {"complete", "incomplete"}
             /\ r.wellFramed /\ Len(r.meant) <= limit /\ Len(part) = Len(r.wire)
                  => decoded.state = "complete"
<1> DEFINE decoded == DecodeChunked(part, limit)
<1>1. IsWire(r.wire) /\ IsWire(r.meant) /\ IsWire(part) /\ Len(part) \in Nat
  BY DEF IsResponse, IsWire, StartOf
<1>2. decoded.state = "complete" => r.wellFramed
  <2> SUFFICES ASSUME decoded.state = "complete" PROVE r.wellFramed
    OBVIOUS
  <2>1. PICK at \in Offsets(part) : IsChunked(part, at)
    BY <1>1, DecodedIsChunked
  <2>2. at \in Offsets(r.wire) /\ IsChunked(r.wire, at)
    BY <1>1, <2>1, ChunksOfStart
  <2> QED  BY <2>2 DEF IsResponse
<1>3. ASSUME r.wellFramed
      PROVE  /\ decoded.state = "complete" => decoded.body = r.meant /\ Len(r.meant) <= limit
             /\ Len(r.meant) <= limit => decoded.state \in {"complete", "incomplete"}
             /\ Len(r.meant) <= limit /\ Len(part) = Len(r.wire) => decoded.state = "complete"
  <2>1. PICK at \in Offsets(r.wire) : IsChunked(r.wire, at) /\ Carries(r.wire, at, r.meant)
    BY <1>3 DEF IsResponse
  <2>2. 1 \in DOMAIN at /\ at[1] = 0 /\ 1 \in 1..Len(part) + 1 /\ at[1] <= limit
    BY <1>1, <2>1 DEF IsChunked
  <2>3. DecodedAt(r.wire, at, r.meant, part, limit, 1)
    BY <1>1, <2>1, <2>2, ChunksDecode
  <2>4. SubSeq(r.meant, 0 + 1, Len(r.meant)) = r.meant
    <3>1. 0 + 1 = 1
      OBVIOUS
    <3> QED  BY <1>1, <3>1, SubSeqFull DEF IsWire
  <2> QED  BY <2>2, <2>3, <2>4 DEF DecodedAt, DecodeChunked
<1> QED  BY <1>2, <1>3

LEMMA AnswerIs ==
  ASSUME NEW r, IsResponse(r)
  PROVE  /\ Len(Stream(r)) \in Nat /\ Len(Stream(r)) = r.head + 1 + Len(r.wire)
         /\ \A n \in r.head + 1..Len(Stream(r)) :
              LET part == SubSeq(Stream(r), r.head + 2, n)
              IN  StartOf(part, r.wire) /\ Len(part) = n - r.head - 1
<1> DEFINE S == {r.wire[i] : i \in DOMAIN r.wire} \cup {"line", HeadEnd}
           lines == [i \in 1..r.head |-> "line"]
           s == Stream(r)
<1>1. r.head \in Nat /\ r.wire \in Seq(S) /\ Len(r.wire) \in Nat
  BY DEF IsResponse
<1>2. lines \in Seq(S) /\ Len(lines) = r.head /\ <<HeadEnd>> \in Seq(S) /\ Len(<<HeadEnd>>) = 1
  BY <1>1
<1>3. s = lines \o <<HeadEnd>> \o r.wire
  BY DEF Stream
<1> HIDE DEF S, lines, s
<1>4. /\ s \in Seq(S) /\ Len(s) = r.head + 1 + Len(r.wire)
      /\ \A i \in 1..Len(r.wire) : s[r.head + 1 + i] = r.wire[i]
  <2> DEFINE top == lines \o <<HeadEnd>>
  <2>1. top \in Seq(S) /\ Len(top) = r.head + 1
    BY <1>1, <1>2
  <2>2. s = top \o r.wire
    BY <1>3
  <2> HIDE DEF top
  <2>3. Len(top \o r.wire) = Len(top) + Len(r.wire) /\ top \o r.wire \in Seq(S)
    BY <1>1, <2>1, ConcatProperties
  <2>4. \A i \in 1..Len(top) + Len(r.wire) :
          (top \o r.wire)[i] = IF i <= Len(top) THEN top[i] ELSE r.wire[i - Len(top)]
    BY <1>1, <2>1, ConcatProperties
  <2>5. ASSUME NEW i \in 1..Len(r.wire) PROVE s[r.head + 1 + i] = r.wire[i]
    <3> DEFINE x == r.head + 1 + i
    <3>0. r.head \in Nat /\ Len(r.wire) \in Nat /\ Len(top) = r.head + 1
      BY <1>1, <2>1
    <3>1. x \in 1..Len(top) + Len(r.wire) /\ ~(x <= Len(top)) /\ x - Len(top) = i
      BY <3>0
    <3> HIDE DEF x
    <3>2. (top \o r.wire)[x] = r.wire[i]
      BY <2>4, <3>1
    <3> QED  BY <2>2, <3>2 DEF x
  <2> QED  BY <2>1, <2>2, <2>3, <2>5
<1>5. ASSUME NEW n \in r.head + 1..Len(s)
      PROVE  LET part == SubSeq(s, r.head + 2, n)
             IN  StartOf(part, r.wire) /\ Len(part) = n - r.head - 1
  <2> DEFINE part == SubSeq(s, r.head + 2, n)
  <2>1. /\ part \in Seq(S) /\ Len(part) = n - r.head - 1
        /\ \A i \in 1..n - r.head - 1 : part[i] = s[r.head + 1 + i]
    <3> DEFINE from == r.head + 2
    <3>1. from \in 1..Len(s) + 1 /\ n \in from - 1..Len(s) /\ n - from + 1 = n - r.head - 1
      BY <1>1, <1>4
    <3>2. \A i \in 1..n - r.head - 1 : from + i - 1 = r.head + 1 + i
      BY <1>1
    <3>3. /\ part \in Seq(S) /\ Len(part) = IF from <= n THEN n - from + 1 ELSE 0
          /\ \A i \in 1..n - from + 1 : part[i] = s[from + i - 1]
      <4>1. from \in Int /\ n \in Int /\ \A i \in from..n : s[i] \in S
        <5>1. \A i \in from..n : i \in 1..Len(s)
          BY <1>1, <1>4
        <5> HIDE DEF from
        <5> QED  BY <1>1, <1>4, <3>1, <5>1
      <4>2. part = SubSeq(s, from, n)
        OBVIOUS
      <4> HIDE DEF from, part
      <4> QED  BY <4>1, <4>2, SubSeqProperties
    <3>4. ~(from <= n) => n - r.head - 1 = 0
      BY <1>1, <3>1
    <3> HIDE DEF part, from
    <3> QED  BY <3>1, <3>2, <3>3, <3>4
  <2> HIDE DEF part
  <2>2. Len(part) \in Nat /\ Len(part) <= Len(r.wire)
    BY <1>1, <1>4, <2>1
  <2>3. \A i \in 1..Len(part) : part[i] = r.wire[i]
    BY <1>1, <1>4, <2>1, <2>2
  <2>4. part \in Seq({part[i] : i \in DOMAIN part})
    BY <2>1
  <2> QED  BY <2>1, <2>2, <2>3, <2>4 DEF StartOf, IsWire, part
<1> QED  BY <1>1, <1>4, <1>5 DEF s

(* The body that is passed on, or the refusal, is the right one.           *)
EndsRightly(r, method, limit, ok, body, cutOff) ==
  LET meant == IF method = "HEAD" \/ r.bare THEN <<>> ELSE r.meant
      endUntold == Framing(r) = "close" /\ cutOff
  IN  IF ok
      THEN \/ Acceptable(r, method, limit) /\ body = meant
           \/ endUntold /\ IsPrefix(body, meant)
      ELSE \/ cutOff \/ ~Acceptable(r, method, limit)
           \/ r.coding = "chunked" /\ Len(r.wire) > Len(r.meant) + Slack

LEMMA BodyStateWhole ==
  ASSUME IsResponse(response), exchange.limit \in Nat, response.head <= MaxHead,
         ~HeadersRefused(response, exchange.method, exchange.limit),
         NEW wire, StartOf(wire, response.wire), NEW closed \in BOOLEAN, interrupted \in BOOLEAN,
         closed /\ Len(wire) < Len(response.wire) => interrupted
  PROVE  LET body == BodyState(wire, closed)
         IN  body.state # "incomplete" =>
               EndsRightly(response, exchange.method, exchange.limit, body.state = "complete",
                               body.body, interrupted)
<1> DEFINE r == response
           limit == exchange.limit
           noBody == exchange.method = "HEAD" \/ r.bare
           body == BodyState(wire, closed)
           ok == body.state = "complete"
<1> SUFFICES ASSUME body.state # "incomplete"
             PROVE  EndsRightly(r, exchange.method, limit, ok, body.body, interrupted)
  OBVIOUS
<1>1. /\ Len(wire) \in Nat /\ Len(r.wire) \in Nat /\ Len(r.meant) \in Nat
      /\ IsWire(wire) /\ IsWire(r.wire)
      /\ Len(wire) <= Len(r.wire) /\ \A i \in 1..Len(wire) : wire[i] = r.wire[i]
      /\ r.coding \in {"none", "chunked", "other"} /\ Slack \in Nat
  BY ResponseAssumption DEF IsResponse, StartOf, IsWire
<1>2. /\ ~r.malformed /\ ~(Cardinality(r.lengths) > 1) /\ r.coding # "other"
      /\ r.coding = "chunked" => r.lengths = {}
      /\ ~noBody /\ r.coding = "none" => \A n \in r.lengths : ~(n > limit)
  BY DEF HeadersRefused
<1>3. Len(wire) = Len(r.wire) => wire = r.wire
  <2> SUFFICES ASSUME Len(wire) = Len(r.wire) PROVE wire = r.wire
    OBVIOUS
  <2> DEFINE S == {wire[i] : i \in DOMAIN wire} \cup {r.wire[i] : i \in DOMAIN r.wire}
  <2>1. wire \in Seq(S) /\ r.wire \in Seq(S)
    BY <1>1 DEF IsWire
  <2> HIDE DEF S
  <2> QED  BY <1>1, <2>1, SeqEqual
<1>4. ~(Len(wire) < Len(r.wire)) => Len(wire) = Len(r.wire)
  BY <1>1
<1>c1. CASE noBody
  <2>1. body = Complete(<<>>)
    BY <1>c1 DEF BodyState
  <2>2. Acceptable(r, exchange.method, limit)
    BY <1>2, <1>c1 DEF Acceptable
  <2>3. ok /\ body.body = <<>>
    BY <2>1, StatesDiffer
  <2> HIDE DEF body
  <2> QED  BY <1>c1, <2>2, <2>3 DEF EndsRightly
<1>c2. CASE ~noBody /\ Framing(r) = "length"
  <2> DEFINE n == TheLength(r)
  <2>1. n \in r.lengths /\ n \in Nat /\ Cardinality(r.lengths) = 1 /\ r.coding = "none"
                  /\ n <= limit
    <3>1. n \in r.lengths /\ n \in Nat /\ Cardinality(r.lengths) = 1
      BY <1>2, <1>c2, LengthIs
    <3>2. r.coding = "none"
      BY <1>c2 DEF Framing
    <3> HIDE DEF n
    <3> QED  BY <1>2, <1>c2, <3>1, <3>2
  <2>2. r.wellFramed <=> n <= Len(r.wire)
    BY <1>c2, <2>1 DEF IsResponse
  <2>3. r.wellFramed => r.meant = SubSeq(r.wire, 1, n)
    BY <1>c2 DEF IsResponse
  <2> HIDE DEF n
  <2>4. r.wellFramed => Len(r.meant) = n
    BY <1>1, <2>1, <2>2, <2>3 DEF IsWire
  <2>5. body = IF Len(wire) >= n THEN Complete(SubSeq(wire, 1, n))
               ELSE IF closed THEN Invalid ELSE Incomplete
    BY <1>c2 DEF BodyState, n
  <2> HIDE DEF body
  <2>6. CASE Len(wire) >= n
    <3>1. ok /\ body.body = SubSeq(wire, 1, n)
      BY <2>5, <2>6, StatesDiffer
    <3>2. SubSeq(wire, 1, n) = SubSeq(r.wire, 1, n)
      BY <1>1, <2>1, <2>6, SliceOfStart
    <3>3. r.wellFramed
      BY <1>1, <2>1, <2>2, <2>6
    <3>4. Acceptable(r, exchange.method, limit)
      BY <1>2, <2>1, <2>4, <3>3 DEF Acceptable
    <3> QED  BY <1>c2, <2>3, <3>1, <3>2, <3>3, <3>4 DEF EndsRightly
  <2>7. CASE ~(Len(wire) >= n) /\ closed
    <3>1. ~ok
      BY <2>5, <2>7, StatesDiffer
    <3>2. ~interrupted => ~r.wellFramed
      BY <1>1, <1>4, <2>1, <2>2, <2>7
    <3>3. ~interrupted => ~Acceptable(r, exchange.method, limit)
      BY <1>c2, <3>2 DEF Acceptable
    <3> QED  BY <3>1, <3>3 DEF EndsRightly
  <2>8. CASE ~(Len(wire) >= n) /\ ~closed
    BY <2>5, <2>8, StatesDiffer
  <2> QED  BY <2>6, <2>7, <2>8
<1>c3. CASE ~noBody /\ Framing(r) = "chunked"
  <2> DEFINE decoded == DecodeChunked(wire, limit)
  <2>1. r.coding = "chunked" /\ r.lengths = {}
    BY <1>2, <1>c3 DEF Framing
  <2>2. /\ decoded.state = "complete" =>
             r.wellFramed /\ decoded.body = r.meant /\ Len(r.meant) <= limit
        /\ r.wellFramed /\ Len(r.meant) <= limit => decoded.state \in {"complete", "incomplete"}
        /\ r.wellFramed /\ Len(r.meant) <= limit /\ Len(wire) = Len(r.wire)
             => decoded.state = "complete"
    BY <2>1, ChunkedAnswer
  <2>3. body = IF decoded.state = "incomplete" /\ (closed \/ Len(wire) > limit + Slack)
               THEN Invalid ELSE decoded
    BY <1>c3 DEF BodyState
  <2> HIDE DEF body, decoded
  <2>4. CASE decoded.state = "complete"
    <3>1. ok /\ body.body = r.meant
      BY <2>2, <2>3, <2>4
    <3>2. Acceptable(r, exchange.method, limit)
      BY <1>2, <2>2, <2>4 DEF Acceptable
    <3> QED  BY <1>c3, <3>1, <3>2 DEF EndsRightly
  <2>5. CASE decoded.state = "incomplete" /\ (closed \/ Len(wire) > limit + Slack)
    <3>1. ~ok
      BY <2>3, <2>5, StatesDiffer
    <3>2. ASSUME ~interrupted, Acceptable(r, exchange.method, limit)
          PROVE  Len(r.wire) > Len(r.meant) + Slack
      <4>1. r.wellFramed /\ Len(r.meant) <= limit
        BY <1>c3, <3>2 DEF Acceptable
      <4>2. ~closed
        BY <1>1, <1>4, <2>2, <2>5, <3>2, <4>1
      <4> QED  BY <1>1, <2>5, <4>1, <4>2
    <3> QED  BY <2>1, <3>1, <3>2 DEF EndsRightly
  <2>6. CASE decoded.state \notin {"complete", "incomplete"}
    <3>1. ~ok
      BY <2>3, <2>6
    <3>2. ~Acceptable(r, exchange.method, limit)
      BY <1>c3, <2>2, <2>6 DEF Acceptable
    <3> QED  BY <3>1, <3>2 DEF EndsRightly
  <2>7. CASE decoded.state = "incomplete" /\ ~(closed \/ Len(wire) > limit + Slack)
    BY <2>3, <2>7
  <2> QED  BY <2>4, <2>5, <2>6, <2>7
<1>c4. CASE ~noBody /\ Framing(r) = "close"
  <2>1. r.coding = "none" /\ r.meant = r.wire /\ r.wellFramed
    BY <1>1, <1>2, <1>c4 DEF Framing, IsResponse
  <2>2. body = IF Len(wire) > limit THEN Invalid
               ELSE IF closed THEN Complete(wire) ELSE Incomplete
    BY <1>c4 DEF BodyState
  <2> HIDE DEF body
  <2>3. CASE Len(wire) > limit
    <3>1. ~ok /\ ~(Len(r.meant) <= limit)
      BY <1>1, <2>1, <2>2, <2>3, StatesDiffer
    <3>2. ~Acceptable(r, exchange.method, limit)
      BY <1>c4, <3>1 DEF Acceptable
    <3> QED  BY <3>1, <3>2 DEF EndsRightly
  <2>4. CASE ~(Len(wire) > limit) /\ closed
    <3>1. ok /\ body.body = wire
      BY <2>2, <2>4, StatesDiffer
    <3>2. CASE interrupted
      <4>1. IsPrefix(wire, r.meant)
        <5>1. SubSeq(wire, 1, Len(wire)) = SubSeq(r.wire, 1, Len(wire))
          BY <1>1, SliceOfStart
        <5> QED  BY <1>1, <2>1, <5>1 DEF IsPrefix
      <4> QED  BY <1>c4, <3>1, <3>2, <4>1 DEF EndsRightly
    <3>3. CASE ~interrupted
      <4>1. wire = r.meant /\ Len(r.meant) <= limit
        BY <1>1, <1>3, <1>4, <2>1, <2>4, <3>3
      <4>2. Acceptable(r, exchange.method, limit)
        BY <1>2, <2>1, <4>1 DEF Acceptable
      <4> QED  BY <1>c4, <3>1, <4>1, <4>2 DEF EndsRightly
    <3> QED  BY <3>2, <3>3
  <2>5. CASE ~(Len(wire) > limit) /\ ~closed
    BY <2>2, <2>5, StatesDiffer
  <2> QED  BY <2>3, <2>4, <2>5
<1> QED  BY <1>c1, <1>c2, <1>c3, <1>c4 DEF Framing

Exchanges == [phase: {"none", "headers", "body", "done"}, method: {"GET", "HEAD"}, limit: Nat]

(* How far the exchange is, in what the camera answers: the body is read   *)
(* only once the headers are accepted, and a connection that is still read *)
(* from was interrupted if the camera closed it before its end.            *)
HttpInv ==
  /\ response \in Responses
  /\ arrived \in 0..Len(Stream(response)) /\ taken \in 0..arrived
  /\ peerClosed \in BOOLEAN /\ interrupted \in BOOLEAN
  /\ exchange \in Exchanges
  /\ exchange.phase = "none" => arrived = 0 /\ taken = 0 /\ ~peerClosed /\ ~interrupted
  /\ Receiving => (interrupted <=> peerClosed /\ arrived < Len(Stream(response)))
  /\ exchange.phase = "headers" => taken <= response.head /\ taken <= MaxHead
  /\ exchange.phase = "body" =>
       /\ taken > response.head /\ response.head <= MaxHead
       /\ ~HeadersRefused(response, exchange.method, exchange.limit)
  /\ exchange.phase = "done" =>
       EndsRightly(response, exchange.method, exchange.limit, result.ok, result.body, interrupted)

LEMMA ResponseIs ==
  ASSUME HttpInv
  PROVE  /\ IsResponse(response) /\ response.head \in Nat
         /\ Len(Stream(response)) \in Nat
         /\ Len(Stream(response)) = response.head + 1 + Len(response.wire)
         /\ Len(response.wire) \in Nat /\ arrived \in Nat /\ taken \in Nat
         /\ arrived <= Len(Stream(response)) /\ taken <= arrived
         /\ MaxHead \in Nat /\ BufferLength \in Nat
<1>1. IsResponse(response) /\ MaxHead \in Nat /\ BufferLength \in Nat
  BY ResponseAssumption DEF HttpInv
<1>2. /\ Len(Stream(response)) \in Nat
      /\ Len(Stream(response)) = response.head + 1 + Len(response.wire)
      /\ response.head \in Nat /\ Len(response.wire) \in Nat
  <2>1. /\ Len(Stream(response)) \in Nat
        /\ Len(Stream(response)) = response.head + 1 + Len(response.wire)
    BY <1>1, AnswerIs
  <2>2. response.head \in Nat /\ Len(response.wire) \in Nat
    BY <1>1 DEF IsResponse
  <2> QED  BY <2>1, <2>2
<1>3. arrived \in 0..Len(Stream(response)) /\ taken \in 0..arrived
  BY DEF HttpInv
<1>4. arrived \in Nat /\ arrived <= Len(Stream(response))
  BY <1>2, <1>3
<1>5. taken \in Nat /\ taken <= arrived
  BY <1>3, <1>4
<1> QED  BY <1>1, <1>2, <1>4, <1>5

(* What is done with the first n tokens keeps the invariant.               *)
LEMMA Proceeds ==
  ASSUME HttpInv, Receiving, NEW n \in Nat, n > response.head, n <= arrived,
         response.head <= MaxHead,
         ~HeadersRefused(response, exchange.method, exchange.limit),
         NEW closed \in BOOLEAN, closed => peerClosed /\ n = arrived,
         Proceed(AfterHead(n), closed), taken' = n,
         UNCHANGED <<response, arrived, peerClosed, interrupted>>
  PROVE  HttpInv'
<1> DEFINE part == AfterHead(n)
           body == BodyState(part, closed)
<1>1. /\ IsResponse(response) /\ response.head \in Nat
      /\ Len(Stream(response)) \in Nat
      /\ Len(Stream(response)) = response.head + 1 + Len(response.wire)
      /\ Len(response.wire) \in Nat /\ arrived \in Nat /\ arrived <= Len(Stream(response))
  BY ResponseIs
<1>2. StartOf(part, response.wire) /\ Len(part) = n - response.head - 1
  <2>1. n \in response.head + 1..Len(Stream(response))
    BY <1>1
  <2> QED  BY <1>1, <2>1, AnswerIs DEF AfterHead
<1>3. /\ exchange \in Exchanges /\ exchange.limit \in Nat /\ interrupted \in BOOLEAN
      /\ peerClosed \in BOOLEAN /\ response \in Responses
      /\ interrupted <=> peerClosed /\ arrived < Len(Stream(response))
  BY DEF HttpInv, Exchanges
<1>4. closed /\ Len(part) < Len(response.wire) => interrupted
  <2> HIDE DEF part
  <2> QED  BY <1>1, <1>2, <1>3
<1>5. body.state # "incomplete" =>
        EndsRightly(response, exchange.method, exchange.limit, body.state = "complete", body.body,
                        interrupted)
  <2> HIDE DEF part
  <2> QED  BY <1>1, <1>2, <1>3, <1>4, BodyStateWhole
<1>6. IF body.state = "incomplete"
      THEN exchange' = [exchange EXCEPT !.phase = "body"] /\ UNCHANGED result
      ELSE Ends(body.state = "complete", body.body)
  BY DEF Proceed
<1> HIDE DEF body, part
<1>7. /\ response' \in Responses
      /\ arrived' \in 0..Len(Stream(response')) /\ taken' \in 0..arrived'
      /\ peerClosed' \in BOOLEAN /\ interrupted' \in BOOLEAN
      /\ (interrupted' <=> peerClosed' /\ arrived' < Len(Stream(response')))
      /\ taken' > response'.head /\ response'.head <= MaxHead
  BY <1>1, <1>3
<1>c1. CASE body.state = "incomplete"
  <2>1. /\ exchange' \in Exchanges /\ exchange'.phase = "body"
        /\ exchange'.method = exchange.method /\ exchange'.limit = exchange.limit
    BY <1>3, <1>6, <1>c1 DEF Exchanges
  <2>2. ~HeadersRefused(response', exchange'.method, exchange'.limit)
    BY <2>1
  <2> QED  BY <1>7, <2>1, <2>2 DEF HttpInv
<1>c2. CASE body.state # "incomplete"
  <2>1. /\ exchange' \in Exchanges /\ exchange'.phase = "done"
        /\ exchange'.method = exchange.method /\ exchange'.limit = exchange.limit
        /\ result'.ok = (body.state = "complete") /\ result'.body = body.body
    BY <1>3, <1>6, <1>c2 DEF Exchanges, Ends
  <2>2. EndsRightly(response', exchange'.method, exchange'.limit, result'.ok, result'.body,
                  interrupted')
    BY <1>5, <1>c2, <2>1
  <2>3. ~Receiving'
    BY <2>1 DEF Receiving
  <2> QED  BY <1>7, <2>1, <2>2, <2>3 DEF HttpInv
<1> QED  BY <1>c1, <1>c2

(* A request that ends without a body.                                     *)
LEMMA EndsWithout ==
  ASSUME HttpInv, Ends(FALSE, <<>>), UNCHANGED <<response, arrived, peerClosed>>,
         NEW n \in 0..arrived, taken' = n, interrupted' \in BOOLEAN,
         interrupted' \/ ~Acceptable(response, exchange.method, exchange.limit)
  PROVE  HttpInv'
<1>1. /\ response' \in Responses
      /\ arrived' \in 0..Len(Stream(response')) /\ taken' \in 0..arrived'
      /\ peerClosed' \in BOOLEAN
  BY DEF HttpInv
<1>2. /\ exchange' \in Exchanges /\ exchange'.phase = "done"
      /\ exchange'.method = exchange.method /\ exchange'.limit = exchange.limit
      /\ ~result'.ok
  BY DEF HttpInv, Exchanges, Ends
<1>3. EndsRightly(response', exchange'.method, exchange'.limit, result'.ok, result'.body,
                interrupted')
  BY <1>2 DEF EndsRightly
<1> QED  BY <1>1, <1>2, <1>3 DEF HttpInv, Receiving

(* Headers that are refused, or are more than are read, are those of no    *)
(* acceptable answer.                                                      *)
LEMMA RefusedIsNotAcceptable ==
  ASSUME NEW r, IsResponse(r), NEW method, NEW limit \in Nat,
         HeadersRefused(r, method, limit) \/ r.head > MaxHead, MaxHead \in Nat
  PROVE  ~Acceptable(r, method, limit)
<1>1. CASE r.head > MaxHead
  BY <1>1 DEF Acceptable, IsResponse
<1>2. CASE HeadersRefused(r, method, limit)
  <2> SUFFICES ASSUME r.wellFramed, Len(r.meant) <= limit, ~r.malformed PROVE FALSE
    BY <1>2 DEF Acceptable
  <2>1. CASE r.coding = "chunked"
    <3>1. r.lengths = {} /\ Cardinality(r.lengths) = 0
      BY <2>1, FS_EmptySet DEF IsResponse
    <3> QED  BY <1>2, <2>1, <3>1 DEF HeadersRefused
  <2>2. CASE r.coding = "other"
    <3>1. Framing(r) = "close"
      BY <2>2 DEF Framing
    <3> QED  BY <2>2, <3>1 DEF IsResponse
  <2>3. CASE r.coding = "none" /\ r.lengths = {}
    <3>1. Cardinality(r.lengths) = 0
      BY <2>3, FS_EmptySet
    <3> QED  BY <1>2, <2>3, <3>1 DEF HeadersRefused
  <2>4. CASE r.coding = "none" /\ r.lengths # {}
    <3>1. Framing(r) = "length"
      BY <2>4 DEF Framing
    <3>2. Cardinality(r.lengths) = 1 /\ TheLength(r) <= Len(r.wire)
                    /\ r.meant = SubSeq(r.wire, 1, TheLength(r))
      BY <3>1 DEF IsResponse
    <3>3. \A n \in r.lengths : n = TheLength(r) /\ n \in Nat
      BY <3>1, <3>2, LengthIs
    <3>4. Len(r.meant) = TheLength(r)
      <4>1. TheLength(r) \in Nat
        BY <3>1, LengthIs
      <4> QED  BY <3>2, <4>1 DEF IsResponse
    <3> QED  BY <1>2, <2>4, <3>2, <3>3, <3>4 DEF HeadersRefused
  <2> QED  BY <2>1, <2>2, <2>3, <2>4 DEF IsResponse
<1> QED  BY <1>1, <1>2

LEMMA ReceivesIs ==
  ASSUME HttpInv, Receives, Available > 0
  PROVE  taken' \in Nat /\ taken' <= arrived /\ taken' >= taken /\ taken' \in 0..arrived
<1>1. arrived \in Nat /\ taken \in Nat /\ taken <= arrived /\ BufferLength \in Nat
  BY ResponseIs
<1> QED  BY <1>1 DEF Receives, Available

THEOREM HttpInvariant == HttpSpec => []HttpInv
<1>1. HttpInit => HttpInv
  <2> SUFFICES ASSUME HttpInit PROVE HttpInv
    OBVIOUS
  <2>1. IsResponse(response) /\ response \in Responses
    BY ResponseAssumption DEF HttpInit
  <2>2. Len(Stream(response)) \in Nat
    BY <2>1, AnswerIs
  <2>3. exchange \in Exchanges /\ exchange.phase = "none"
    BY DEF HttpInit, NoExchange, Exchanges
  <2>4. /\ arrived = 0 /\ taken = 0 /\ ~peerClosed /\ ~interrupted
        /\ peerClosed \in BOOLEAN /\ interrupted \in BOOLEAN
    BY DEF HttpInit
  <2>5. arrived \in 0..Len(Stream(response)) /\ taken \in 0..arrived
    BY <2>2, <2>4
  <2>6. ~Receiving
    BY <2>3 DEF Receiving
  <2> QED  BY <2>1, <2>3, <2>4, <2>5, <2>6 DEF HttpInv
<1>2. ASSUME HttpInv, [HttpNext]_httpVars PROVE HttpInv'
  <2>r. /\ IsResponse(response) /\ response.head \in Nat
        /\ Len(Stream(response)) \in Nat
        /\ Len(Stream(response)) = response.head + 1 + Len(response.wire)
        /\ Len(response.wire) \in Nat /\ arrived \in Nat /\ taken \in Nat
        /\ arrived <= Len(Stream(response)) /\ taken <= arrived
        /\ MaxHead \in Nat /\ BufferLength \in Nat
    BY <1>2, ResponseIs
  <2>e. exchange \in Exchanges /\ exchange.limit \in Nat
    BY <1>2 DEF HttpInv, Exchanges
  <2>1. CASE Arrive
    <3>1. arrived' \in 0..Len(Stream(response)) /\ taken \in 0..arrived' /\ ~peerClosed
      BY <2>1, <2>r DEF Arrive
    <3> QED  BY <1>2, <2>1, <3>1 DEF Arrive, HttpInv, Receiving
  <2>2. CASE PeerCloses
    <3>1. /\ Receiving /\ ~peerClosed /\ peerClosed' = TRUE
          /\ interrupted' = (arrived < Len(Stream(response)))
          /\ UNCHANGED <<response, arrived, exchange, taken, result>>
      BY <2>2 DEF PeerCloses
    <3>2. exchange'.phase \notin {"none", "done"}
      BY <3>1 DEF Receiving
    <3>3. interrupted' \in BOOLEAN
                    /\ (interrupted' <=> peerClosed' /\ arrived' < Len(Stream(response')))
      <4> DEFINE more == arrived < Len(Stream(response))
      <4>1. (arrived' < Len(Stream(response'))) <=> more
        BY <3>1
      <4>2. peerClosed' /\ interrupted' = more /\ more \in BOOLEAN
        BY <3>1
      <4> HIDE DEF more
      <4> QED  BY <4>1, <4>2, Zenon
    <3> QED  BY <1>2, <3>1, <3>2, <3>3 DEF HttpInv
  <2>3. CASE SendRequest
    <3>1. arrived = 0 /\ taken = 0 /\ ~peerClosed /\ ~interrupted /\ UNCHANGED <<response,
                    arrived, peerClosed, taken>>
      BY <1>2, <2>3 DEF SendRequest, HttpInv
    <3>2. CASE Ends(FALSE, <<>>) /\ interrupted' = TRUE
      <4>1. taken' = 0 /\ 0 \in 0..arrived /\ interrupted' \in BOOLEAN
        BY <3>1, <3>2
      <4> QED  BY <1>2, <3>1, <3>2, <4>1, EndsWithout
    <3>3. CASE /\ \E method \in {"GET", "HEAD"}, limit \in Limits :
                    exchange' = [phase |-> "headers", method |-> method, limit |-> limit]
               /\ UNCHANGED <<result, interrupted>>
      <4>1. exchange' \in Exchanges /\ exchange'.phase = "headers"
        BY <3>3, ResponseAssumption DEF Exchanges
      <4> QED  BY <1>2, <2>r, <3>1, <3>3, <4>1 DEF HttpInv, Receiving
    <3> QED  BY <2>3, <3>2, <3>3 DEF SendRequest
  <2>4. CASE ReceiveHeaders
    <3>1. /\ exchange.phase = "headers" /\ Receiving /\ Receives /\ Available > 0
          /\ UNCHANGED <<response, arrived, peerClosed, interrupted>>
      BY <2>4 DEF ReceiveHeaders, Receiving
    <3>2. taken' \in Nat /\ taken' <= arrived /\ taken' \in 0..arrived /\ interrupted' \in BOOLEAN
      BY <1>2, <3>1, ReceivesIs DEF HttpInv
    <3>3. CASE taken' <= response.head /\ taken' > MaxHead
      <4>1. Ends(FALSE, <<>>)
        BY <2>4, <3>3 DEF ReceiveHeaders
      <4>2. response.head > MaxHead
        BY <2>r, <3>2, <3>3
      <4>3. ~Acceptable(response, exchange.method, exchange.limit)
        BY <2>r, <2>e, <4>2, RefusedIsNotAcceptable
      <4> QED  BY <1>2, <3>1, <3>2, <4>1, <4>3, EndsWithout
    <3>4. CASE taken' <= response.head /\ ~(taken' > MaxHead)
      <4>1. UNCHANGED <<exchange, result>>
        BY <2>4, <3>4 DEF ReceiveHeaders
      <4>2. taken' <= MaxHead
        BY <2>r, <3>2, <3>4
      <4> QED  BY <1>2, <3>1, <3>2, <3>4, <4>1, <4>2 DEF HttpInv, Receiving
    <3>5. CASE ~(taken' <= response.head)
               /\ (response.head > MaxHead
                               \/ HeadersRefused(response, exchange.method, exchange.limit))
      <4>1. Ends(FALSE, <<>>)
        BY <2>4, <3>5 DEF ReceiveHeaders
      <4>2. ~Acceptable(response, exchange.method, exchange.limit)
        BY <2>r, <2>e, <3>5, RefusedIsNotAcceptable
      <4> QED  BY <1>2, <3>1, <3>2, <4>1, <4>2, EndsWithout
    <3>6. CASE ~(taken' <= response.head)
               /\ ~(response.head > MaxHead
                               \/ HeadersRefused(response, exchange.method, exchange.limit))
      <4>1. Proceed(AfterHead(taken'), FALSE)
        BY <2>4, <3>6 DEF ReceiveHeaders
      <4> DEFINE n == taken'
      <4>2. n \in Nat /\ n > response.head /\ n <= arrived /\ response.head <= MaxHead
        BY <2>r, <3>2, <3>6
      <4>3. taken' = n /\ Proceed(AfterHead(n), FALSE)
        BY <4>1
      <4> HIDE DEF n
      <4> QED  BY <1>2, <3>1, <3>6, <4>2, <4>3, Proceeds
    <3> QED  BY <3>3, <3>4, <3>5, <3>6
  <2>5. CASE ReceiveBody
    <3>1. /\ exchange.phase = "body" /\ Receiving /\ Receives /\ Available > 0
          /\ UNCHANGED <<response, arrived, peerClosed, interrupted>>
          /\ Proceed(AfterHead(taken'), FALSE)
      BY <2>5 DEF ReceiveBody, Receiving
    <3> DEFINE n == taken'
    <3>2. n \in Nat /\ n <= arrived /\ n >= taken
      BY <1>2, <3>1, ReceivesIs
    <3>3. taken' = n /\ Proceed(AfterHead(n), FALSE)
      BY <3>1
    <3>4. taken > response.head /\ response.head <= MaxHead
          /\ ~HeadersRefused(response, exchange.method, exchange.limit)
      BY <1>2, <3>1 DEF HttpInv
    <3> HIDE DEF n
    <3>5. n > response.head
      BY <2>r, <3>2, <3>4
    <3> QED  BY <1>2, <3>1, <3>2, <3>3, <3>4, <3>5, Proceeds
  <2>6. CASE ReceiveEnd
    <3>1. /\ Available = 0 /\ peerClosed /\ UNCHANGED <<response, arrived, peerClosed, taken,
                    interrupted>>
      BY <2>6 DEF ReceiveEnd
    <3>2. taken = arrived /\ taken \in 0..arrived
      BY <2>r, <3>1 DEF Available
    <3>3. CASE exchange.phase = "headers" /\ Ends(FALSE, <<>>)
      <4>1. taken <= response.head
                      /\ (interrupted <=> peerClosed /\ arrived < Len(Stream(response)))
            /\ interrupted \in BOOLEAN
        BY <1>2, <3>3 DEF HttpInv, Receiving
      <4>2. interrupted' /\ interrupted' \in BOOLEAN
        BY <2>r, <3>1, <3>2, <4>1
      <4> QED  BY <1>2, <3>1, <3>2, <3>3, <4>2, EndsWithout
    <3>4. CASE exchange.phase = "body" /\ Proceed(AfterHead(taken), TRUE)
      <4>1. taken > response.head /\ response.head <= MaxHead /\ Receiving
            /\ ~HeadersRefused(response, exchange.method, exchange.limit)
        BY <1>2, <3>4 DEF HttpInv, Receiving
      <4>2. taken \in Nat /\ taken' = taken /\ taken <= arrived
        BY <2>r, <3>1
      <4> QED  BY <1>2, <3>1, <3>2, <3>4, <4>1, <4>2, Proceeds
    <3> QED  BY <2>6, <3>3, <3>4 DEF ReceiveEnd
  <2>7. CASE ReceiveFails
    <3>1. /\ Ends(FALSE, <<>>) /\ interrupted' = TRUE
          /\ UNCHANGED <<response, arrived, peerClosed, taken>>
      BY <2>7 DEF ReceiveFails
    <3>2. taken \in 0..arrived /\ interrupted' \in BOOLEAN
      BY <2>r, <3>1
    <3> QED  BY <1>2, <3>1, <3>2, EndsWithout
  <2>8. CASE NextRequest
    <3>1. IsResponse(response') /\ response' \in Responses
      BY <2>8, ResponseAssumption DEF NextRequest
    <3>2. Len(Stream(response')) \in Nat
      BY <3>1, AnswerIs
    <3>3. exchange' \in Exchanges /\ exchange'.phase = "none"
      BY <2>8 DEF NextRequest, NoExchange, Exchanges
    <3>4. /\ arrived' = 0 /\ taken' = 0 /\ ~peerClosed' /\ ~interrupted'
          /\ peerClosed' \in BOOLEAN /\ interrupted' \in BOOLEAN
      BY <2>8 DEF NextRequest
    <3>5. arrived' \in 0..Len(Stream(response')) /\ taken' \in 0..arrived'
      BY <3>2, <3>4
    <3>6. ~Receiving'
      BY <3>3 DEF Receiving
    <3> QED  BY <3>1, <3>3, <3>4, <3>5, <3>6 DEF HttpInv
  <2>9. CASE UNCHANGED httpVars
    <3>1. UNCHANGED <<response, arrived, peerClosed, exchange, taken, result, interrupted>>
      BY <2>9 DEF httpVars
    <3> QED  BY <1>2, <3>1 DEF HttpInv, Receiving
  <2> QED  BY <1>2, <2>1, <2>2, <2>3, <2>4, <2>5, <2>6, <2>7, <2>8, <2>9 DEF HttpNext
<1> QED  BY <1>1, <1>2, PTL DEF HttpSpec

THEOREM BodyIsAlwaysWhole == HttpSpec => []BodyIsWhole
<1>1. HttpInv => BodyIsWhole
  BY DEF HttpInv, EndsRightly, BodyIsWhole
<1> QED  BY <1>1, HttpInvariant, PTL
=============================================================================
