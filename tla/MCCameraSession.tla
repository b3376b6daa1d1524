--------------------------- MODULE MCCameraSession ---------------------------
(* The bridge's connection with the camera on three levels that are        *)
(* modelled apart: the link and its session, the messages on the session   *)
(* and the HTTP exchanges.  A behaviour is about one of them, the subject. *)
(*                                                                         *)
(* Two addresses, so that an association may or may not be given the one   *)
(* before it, and three associations: the warmup of the first must not     *)
(* pass for the second's, and the camera may settle with the third.        *)
(* Joining takes as long as the bridge waits for it.                       *)
EXTENDS CameraLink, LinearStream, HttpResponse

VARIABLE subject

MCResponse(head, lengths, coding, wire, meant) ==
  [head |-> head, lengths |-> lengths, coding |-> coding, wire |-> wire, meant |-> meant,
   malformed |-> FALSE, bare |-> FALSE, wellFramed |-> TRUE]
MCByte(c) == <<"byte", c>>
MCChunk(part) == <<Size(Len(part)), Break>> \o part \o <<Break>>

(* Bodies of none to three bytes, one of which looks like a line break,    *)
(* with each of the three ends; trailers; a second answer behind the body; *)
(* and answers whose headers or chunks contradict themselves.              *)
MCBody == <<MCByte("a"), Break, MCByte("b")>>
MCPlain == {MCResponse(1, {Len(b)}, "none", b, b) : b \in {<<>>, <<MCByte("a")>>, MCBody}}
MCClosed == {MCResponse(1, {}, "none", b, b) : b \in {<<>>, <<MCByte("a")>>, MCBody}}
MCChunked ==
  { MCResponse(1, {}, "chunked", MCChunk(<<MCByte("a"), Break>>) \o MCChunk(<<MCByte("b")>>)
                  \o <<Size(0), Break, Break>>, MCBody),
    MCResponse(2, {}, "chunked", MCChunk(<<MCByte("a")>>) \o <<Size(0), Break, MCByte("trailer"),
                    Break, Break>>, <<MCByte("a")>>),
    MCResponse(1, {}, "chunked", <<Size(0), Break, Break>>, <<>>) }
MCWrong ==
  {[r EXCEPT !.wellFramed = FALSE] :
     r \in { MCResponse(1, {1, 2}, "none", <<MCByte("a"), MCByte("b")>>, <<MCByte("a")>>),
             MCResponse(1, {1}, "chunked", MCChunk(<<MCByte("a")>>) \o <<Size(0), Break, Break>>,
                             <<MCByte("a")>>),
             MCResponse(1, {}, "other", <<MCByte("a")>>, <<MCByte("a")>>),
             MCResponse(1, {}, "chunked", <<Size(1), Break, MCByte("a"), MCByte("b"), Break>>,
                             <<MCByte("a")>>),
             MCResponse(1, {}, "chunked", <<MCByte("a"), Break>>, <<>>),
             MCResponse(1, {}, "chunked", <<Size(0), Break>>
                             \o [i \in 1..12 |-> MCByte("trailer")], <<>>),
             [MCResponse(1, {3}, "none", <<>>, <<>>) EXCEPT !.bare = TRUE] }}
MCResponses ==
  MCPlain \cup MCClosed \cup MCChunked \cup MCWrong
    \cup { MCResponse(1, {1}, "none", <<MCByte("a"), MCByte("more")>>, <<MCByte("a")>>),
           MCResponse(3, {1}, "none", <<MCByte("a")>>, <<MCByte("a")>>),
           [MCResponse(1, {}, "none", <<>>, <<>>) EXCEPT !.malformed = TRUE] }

MCInit ==
  /\ subject \in {"link", "stream", "http"} /\ Init /\ StreamInit /\ HttpInit
  /\ subject # "http" => response = CHOOSE r \in MCPlain : TRUE

MCNext ==
  /\ \/ subject = "link" /\ Next /\ UNCHANGED <<streamVars, httpVars>>
     \/ subject = "stream" /\ StreamNext /\ UNCHANGED <<vars, httpVars>>
     \/ subject = "http" /\ HttpNext /\ UNCHANGED <<vars, streamVars>>
  /\ UNCHANGED subject

MCVars == <<vars, streamVars, httpVars, subject>>

(* A step of the link in one of its own behaviours. *)
Link(A) == subject = "link" /\ A /\ UNCHANGED <<streamVars, httpVars, subject>>

(* The fairness of Spec, for its own behaviours. *)
MCSpec ==
  /\ MCInit /\ [][MCNext]_MCVars
  /\ WF_MCVars(Link(CallEnds)) /\ SF_MCVars(Link(NetworkLoop)) /\ SF_MCVars(Link(RemoteLoop))
  /\ WF_MCVars(Link(Tick)) /\ WF_MCVars(Link(settled /\ joining >= JoinTime /\ Joined))
=============================================================================
