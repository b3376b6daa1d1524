---------------------------- MODULE LinearStream ----------------------------
(***************************************************************************)
(* One /linear session as SonyLinear reads it: a TCP stream that carries   *)
(* WebSocket frames, whose payloads are MessagePack notifications and      *)
(* answers.  A frame arrives in pieces - its header, then its payload - at *)
(* any pace.  Two readers share the stream and never run at once: loop()   *)
(* takes a message when there is input, a request reads until its answer   *)
(* comes.  Nobody remembers how far a reader got that gave up, so whoever  *)
(* gives up must close the session.                                        *)
(*                                                                         *)
(* When a session is opened and what a command does with the outcome is    *)
(* CameraLink's; the four requests of subscribeAndPrime are like any.      *)
(***************************************************************************)
EXTENDS Naturals, Sequences, Functions

CONSTANTS CallTimeout,    \* of a request and of each recv() in it, in ticks
          LoopTimeout,    \* of each recv() of loop(), 250 ms
          MaxId,          \* request ids are 1..MaxId, 32 bits wide
          NoteCount,      \* notifications are numbered modulo this
          MaxPayload      \* MAX_WS_PAYLOAD, in pieces

ASSUME StreamAssumption ==
  /\ {CallTimeout, LoopTimeout, MaxId, NoteCount} \subseteq Nat \ {0}
  /\ MaxPayload >= 2 /\ MaxPayload \in Nat

VARIABLES fd,             \* whether there is a session
          nextRequestId,
          reader,         \* the locals of recvWsMessage
          request,        \* who is reading: loop(), or a request and its id
          elapsed,        \* since the request was sent
          quiet,          \* since this recv() began
          outcome,        \* of the last request that returned
          merged,         \* the last message handleIncoming has merged
          coming,         \* pieces the camera has begun to send
          ready,          \* the first of them has arrived
          asked,          \* the request the camera may still answer, 0 for none
          note,           \* number of its next notification
          broken,         \* the camera or the network has broken this session
          transit         \* history: messages begun and not yet merged

bridgeVars == <<fd, nextRequestId, reader, request, elapsed, quiet, outcome, merged>>
cameraVars == <<coming, ready, asked, note, broken>>
streamVars == <<bridgeVars, cameraVars, transit>>

(* A message is a notification or the answer to a request; its payload has *)
(* two halves, which fragmentation may part.                               *)
Notification(n) == [kind |-> "note", n |-> n, ok |-> TRUE]
Answer(id, ok) == [kind |-> "answer", n |-> id, ok |-> ok]
Malformed == [kind |-> "malformed", n |-> 0, ok |-> FALSE]
Sendable ==
  {Notification(n) : n \in 0..NoteCount - 1} \cup {Answer(id, ok) : id \in 1..MaxId, ok \in BOOLEAN}
Content(m) == <<<<m, 1>>, <<m, 2>>>>

Frame(op, fin, part) == [op |-> op, fin |-> fin, masked |-> FALSE, part |-> part]
Ping == Frame("ping", TRUE, <<>>)
Garbage == Frame("binary", TRUE, <<>>)

(* The pieces of a frame: 0 for its header with the length, then payload.  *)
Pieces(f) == [k \in 1..1 + Len(f.part) |-> [frame |-> f, k |-> k - 1]]

Whole(m) == Pieces(Frame("binary", TRUE, Content(m)))
Split(m, between) ==
  Pieces(Frame("binary", FALSE, SubSeq(Content(m), 1, 1))) \o between
    \o Pieces(Frame("continuation", TRUE, SubSeq(Content(m), 2, 2)))
Forms(m) ==
  { Whole(m), Split(m, <<>>), Split(m, Pieces(Ping)),
    Pieces(Frame("binary", FALSE, Content(m))) \o Pieces(Frame("continuation", TRUE, <<>>)) }
LongestMessage == 5

(* What ends a session once it is read: frames SonyLinear refuses, the     *)
(* camera's goodbye, and the end of the TCP stream.                        *)
End == Frame("end", TRUE, <<>>)
Breaches ==
  { Pieces([Ping EXCEPT !.masked = TRUE]),
    Pieces(Frame("binary", TRUE, [i \in 1..MaxPayload + 1 |-> <<Malformed, i>>])),
    Pieces(Frame("reserved", TRUE, <<>>)),
    Pieces(Frame("continuation", TRUE, <<>>)),
    Pieces(Frame("text", FALSE, <<>>)) \o Pieces(Frame("text", TRUE, <<>>)),
    Pieces(Frame("close", TRUE, <<>>)) }
(* What is read and not used. *)
Idle == {Pieces(Ping), Pieces(Frame("pong", TRUE, <<>>)), Pieces(Frame("text", TRUE, <<<<Notification(0), 1>>>>))}

NoFrame == Frame("none", TRUE, <<>>)
Locals(frame, got, opcode, payload) ==
  [frame |-> frame, got |-> got, opcode |-> opcode, payload |-> payload]
NewReader == Locals(NoFrame, 0, "none", <<>>)
Nobody == [by |-> "nobody", id |-> 0]

StreamInit ==
  /\ fd = FALSE /\ nextRequestId = 1
  /\ reader = NewReader /\ request = Nobody
  /\ elapsed = 0 /\ quiet = 0
  /\ outcome = "none" /\ merged = <<>>
  /\ coming = <<>> /\ ready = FALSE /\ asked = 0 /\ note = 0 /\ broken = FALSE
  /\ transit = <<>>

-----------------------------------------------------------------------------
(* The camera and the network                                              *)

Begins(message, forms) ==
  /\ coming' \in forms
  /\ transit' = Append(transit, message)
  /\ UNCHANGED <<bridgeVars, ready, broken>>

CameraSends ==
  /\ fd /\ ~broken /\ coming = <<>>
  /\ \/ /\ Begins(Notification(note), Forms(Notification(note)))
        /\ note' = (note + 1) % NoteCount /\ UNCHANGED asked
     \/ /\ asked # 0
        /\ \E ok \in BOOLEAN : Begins(Answer(asked, ok), Forms(Answer(asked, ok)))
        /\ asked' = 0 /\ UNCHANGED note
     \/ /\ coming' \in Idle \cup {Whole(Malformed)} \cup Breaches
        /\ broken' = (coming' \in Breaches)
        /\ UNCHANGED <<bridgeVars, ready, asked, note, transit>>

Arrives ==
  /\ coming # <<>> /\ ~ready
  /\ ready' = TRUE
  /\ UNCHANGED <<bridgeVars, coming, asked, note, broken, transit>>

(* The camera closes the stream, or is gone without a word; what has not   *)
(* arrived is lost.                                                        *)
SessionBreaks ==
  /\ fd /\ ~broken
  /\ broken' = TRUE
  /\ \E farewell \in {<<>>, Pieces(End)} :
       coming' = (IF ready THEN <<Head(coming)>> ELSE <<>>) \o farewell
  /\ UNCHANGED <<bridgeVars, ready, asked, note, transit>>

RecvTimeout == IF request.by = "loop" THEN LoopTimeout ELSE CallTimeout

(* Longest that a reader may take; a request checks its timeout between    *)
(* messages only, and each piece may take as long again.                   *)
ReadBound ==
  IF request.by = "loop" THEN LongestMessage * LoopTimeout
  ELSE CallTimeout + LongestMessage * CallTimeout

StreamTick ==
  /\ request # Nobody /\ ~ready
  /\ quiet < RecvTimeout /\ elapsed <= ReadBound
  /\ quiet' = quiet + 1 /\ elapsed' = elapsed + 1
  /\ UNCHANGED <<fd, nextRequestId, reader, request, outcome, merged, cameraVars, transit>>

-----------------------------------------------------------------------------
(* SonyLinear                                                              *)

(* openBoundSocket and websocketHandshake, which reads the answer byte by  *)
(* byte so as not to take the first frame with it.                         *)
Connect ==
  /\ ~fd /\ request = Nobody
  /\ fd' = TRUE
  /\ UNCHANGED <<nextRequestId, reader, request, elapsed, quiet, outcome, merged, cameraVars, transit>>

(* closeConnection, by whom the outcome is told to. *)
Closes ==
  /\ fd' = FALSE /\ reader' = NewReader /\ request' = Nobody
  /\ elapsed' = 0 /\ quiet' = 0 /\ outcome' = "failed"
  /\ coming' = <<>> /\ ready' = FALSE /\ asked' = 0 /\ broken' = FALSE
  /\ transit' = <<>>

Fails == Closes /\ UNCHANGED <<nextRequestId, merged, note>>

Reads(by, id) ==
  /\ request' = [by |-> by, id |-> id]
  /\ elapsed' = 0 /\ quiet' = 0

(* request() and the start of sendRpc; id 0 is not used. *)
StartRequest ==
  /\ fd /\ request = Nobody
  /\ nextRequestId' = IF nextRequestId = MaxId THEN 1 ELSE nextRequestId + 1
  /\ \/ /\ Reads("call", nextRequestId)
        /\ asked' = nextRequestId
        /\ UNCHANGED <<fd, reader, outcome, merged, coming, ready, note, broken, transit>>
     \/ Closes /\ UNCHANGED <<merged, note>>   \* it cannot be encoded or sent

(* loop() reads when select() says there is something. *)
LoopReads ==
  /\ fd /\ request = Nobody /\ ready
  /\ Reads("loop", 0)
  /\ UNCHANGED <<fd, nextRequestId, reader, outcome, merged, cameraVars, transit>>

(* Slip: the session survives a quiet camera. *)
RecvTimesOutKept ==
  /\ request # Nobody /\ ~ready /\ quiet = RecvTimeout
  /\ reader' = NewReader /\ request' = Nobody
  /\ elapsed' = 0 /\ quiet' = 0 /\ outcome' = "failed"
  /\ UNCHANGED <<fd, nextRequestId, merged, cameraVars, transit>>

RecvTimesOut ==
  /\ request # Nobody /\ ~ready /\ quiet = RecvTimeout
  /\ Fails

Reading == request # Nobody /\ ready
AtHeader == reader.frame = NoFrame
Started == reader.opcode # "none"

(* The frame that the next piece belongs to.  A reader that starts in the  *)
(* middle of one takes its payload for a header.                           *)
Current ==
  IF ~AtHeader THEN reader.frame
  ELSE IF Head(coming).k = 0 THEN Head(coming).frame ELSE Garbage

Got == IF AtHeader THEN 0 ELSE reader.got + 1
FrameRead == Got = Len(Current.part)

Take == coming' = Tail(coming) /\ ready' = FALSE /\ quiet' = 0

Refused ==
  \/ AtHeader /\ Current.masked
  \/ AtHeader /\ Len(reader.payload) + Len(Current.part) > MaxPayload
  \/ Head(coming).frame = End
  \/ FrameRead /\ Current.op \in {"close", "reserved"}
  \/ FrameRead /\ Current.op \in {"text", "binary"} /\ Started
  \/ FrameRead /\ Current.op = "continuation" /\ ~Started

ReadRefused == Reading /\ Refused /\ Fails

ReadPiece ==
  /\ Reading /\ ~Refused /\ ~FrameRead
  /\ reader' = Locals(Current, Got, reader.opcode, reader.payload)
  /\ Take
  /\ UNCHANGED <<fd, nextRequestId, request, elapsed, outcome, merged, asked, note, broken, transit>>

Control == Current.op \in {"ping", "pong"}
Payload == IF Control THEN reader.payload ELSE reader.payload \o Current.part
Opcode == IF Started THEN reader.opcode ELSE Current.op
MessageRead == IF Control THEN ~Started ELSE Current.fin

(* A ping is answered, even within a fragmented message. *)
PongFails == Reading /\ ~Refused /\ FrameRead /\ Current.op = "ping" /\ broken /\ Fails

ReadFragment ==
  /\ Reading /\ ~Refused /\ FrameRead /\ ~MessageRead
  /\ reader' = Locals(NoFrame, 0, Opcode, Payload)
  /\ Take
  /\ UNCHANGED <<fd, nextRequestId, request, elapsed, outcome, merged, asked, note, broken, transit>>

(* The message a payload decodes to. *)
Decoded ==
  IF \E m \in Sendable : Payload = Content(m) THEN Payload[1][1] ELSE Malformed

(* handleIncoming, whoever reads: what does not decode is ignored - unless *)
(* it is no message at all, which may look like anything.                  *)
HandleIncoming ==
  /\ merged' = IF Opcode # "binary" \/ Payload = Content(Malformed) THEN merged ELSE <<Decoded>>
  /\ transit' = IF Opcode = "binary" /\ Decoded # Malformed /\ transit # <<>>
                THEN Tail(transit) ELSE transit

LoopReturns ==
  /\ Reading /\ ~Refused /\ FrameRead /\ MessageRead
  /\ request.by = "loop"
  /\ HandleIncoming
  /\ request' = Nobody /\ reader' = NewReader /\ elapsed' = 0
  /\ Take
  /\ UNCHANGED <<fd, nextRequestId, outcome, asked, note, broken>>

(* Slips of parseRpcEnvelope and of the loop around it. *)
UnrelatedTyped == Opcode # "binary"
MayReadOnAlways == TRUE

(* Pings, text, notifications and answers to other requests. *)
Unrelated ==
  \/ Opcode # "binary"
  \/ Decoded # Malformed /\ ~(Decoded.kind = "answer" /\ Decoded.n = request.id)

MayReadOn == elapsed <= CallTimeout

RequestReadsOn ==
  /\ Reading /\ ~Refused /\ FrameRead /\ MessageRead
  /\ request.by = "call" /\ Unrelated /\ MayReadOn
  /\ HandleIncoming
  /\ reader' = NewReader
  /\ Take
  /\ UNCHANGED <<fd, nextRequestId, request, elapsed, outcome, asked, note, broken>>

RequestAnswered ==
  /\ Reading /\ ~Refused /\ FrameRead /\ MessageRead
  /\ request.by = "call" /\ ~Unrelated /\ Decoded.ok
  /\ HandleIncoming
  /\ request' = Nobody /\ reader' = NewReader /\ elapsed' = 0 /\ outcome' = "ok"
  /\ Take
  /\ UNCHANGED <<fd, nextRequestId, asked, note, broken>>

(* Its time is up, or the answer is an error or not one at all. *)
RequestFails ==
  /\ Reading /\ ~Refused /\ FrameRead /\ MessageRead
  /\ request.by = "call"
  /\ IF Unrelated THEN ~MayReadOn ELSE ~Decoded.ok
  /\ Closes
  /\ merged' = IF Opcode # "binary" \/ Payload = Content(Malformed) THEN merged ELSE <<Decoded>>
  /\ UNCHANGED <<nextRequestId, note>>

StreamNext ==
  \/ CameraSends \/ Arrives \/ SessionBreaks \/ StreamTick
  \/ Connect \/ StartRequest \/ LoopReads
  \/ RecvTimesOut \/ ReadRefused \/ ReadPiece \/ PongFails \/ ReadFragment
  \/ LoopReturns \/ RequestReadsOn \/ RequestAnswered \/ RequestFails

StreamSpec == StreamInit /\ [][StreamNext]_streamVars

-----------------------------------------------------------------------------
(* Properties                                                              *)

(* Whichever of the two readers takes it, whatever it is waiting for and   *)
(* wherever a reader before it gave up, handleIncoming is given what the   *)
(* camera sent, message by message and in order: the stream is never read  *)
(* from the middle of a frame and no notification that comes during a      *)
(* request is dropped.                                                     *)
Channel == INSTANCE MessageChannel
             WITH Message <- Sendable, queue <- transit, received <- merged
StreamIsChannel == Channel!Spec

(* "They can arrive between a request and its response" (SonyLinear.cpp:   *)
(* 439): notifications, pings and fragments never make a request fail.  It *)
(* returns with the answer to itself, or because the camera refused it,    *)
(* broke the session or took longer than the timeout.                      *)
Refusal == ready /\ \E half \in Range(reader.payload \o Current.part) : ~half[1].ok

RequestOutcome ==
  [][request.by = "call" /\ request' # request =>
       \/ outcome' = "ok" /\ merged' = <<Answer(request.id, TRUE)>>
       \/ outcome' = "failed" /\ (broken \/ Refusal)
       \/ outcome' = "failed" /\ (quiet = CallTimeout \/ elapsed > CallTimeout)]_streamVars

(* A request ends even when the camera ignores it and keeps sending, and   *)
(* loop() does not wait for long for the rest of a message: neither takes  *)
(* longer than its timeout and one message that arrives piece by piece.    *)
ReadsAreBounded == elapsed <= ReadBound
=============================================================================
