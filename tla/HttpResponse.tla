---------------------------- MODULE HttpResponse ----------------------------
(***************************************************************************)
(* One HTTP request to the camera (SonyRemote::rawRequest): the answer     *)
(* comes in whatever pieces the network makes of it, and its end is told   *)
(* by a length, by chunks or by the end of the connection.  A token stands *)
(* for a header line, a chunk-size line, a line break or a byte of the     *)
(* body.  A piece may end between any two tokens.                          *)
(***************************************************************************)
EXTENDS Naturals, Sequences, FiniteSets, SequencesExt

CONSTANTS Responses,      \* what the camera may answer
          Limits,         \* maxBodyBytes of the callers
          MaxHead,        \* limit of the headers, 8192
          Slack,          \* what chunks may take beside their data, 8192
          BufferLength    \* of one recv(), 1024

VARIABLES response,       \* what the camera answers
          arrived,        \* how many tokens of it have come
          peerClosed,     \* the camera has closed the connection
          exchange,       \* the request: method, limit and how far it is
          taken,          \* tokens received
          result,
          interrupted     \* history: a timeout, an error or an early close

httpVars == <<response, arrived, peerClosed, exchange, taken, result, interrupted>>

NoResult == [ok |-> FALSE, body |-> <<>>]
NoExchange == [phase |-> "none", method |-> "GET", limit |-> 0]

(* head is its number of header lines, lengths its Content-Length values,  *)
(* coding its Transfer-Encoding, wire what follows the headers and meant   *)
(* the body the camera wants to send; bare, that its status has no body.   *)
Break == <<"break">>
Size(n) == <<"size", n>>
HeadEnd == "head end"
Stream(r) == [i \in 1..r.head |-> "line"] \o <<HeadEnd>> \o r.wire

(* What follows the last chunk is complete with its line break, or after   *)
(* an empty line when there are trailers.                                  *)
TrailersEnd(wire, pos) ==
  \/ pos <= Len(wire) /\ wire[pos] = Break
  \/ \E i \in pos..Len(wire) - 1 : wire[i] = Break /\ wire[i + 1] = Break

(* A sequence of chunks: at gives for the places of the chunk-size lines   *)
(* how much of the body comes before them.                                 *)
Offsets(wire) ==
  LET sizes == {p \in 1..Len(wire) : wire[p][1] = "size"}
  IN  UNION {[places -> 0..Len(wire)] : places \in SUBSET sizes}

IsChunk(wire, at, p) ==
  LET size == wire[p][2]
      next == p + size + 3
  IN  /\ size \in Nat /\ wire[p] = Size(size)
      /\ p < Len(wire) /\ wire[p + 1] = Break
      /\ IF size = 0 THEN TrailersEnd(wire, p + 2)
         ELSE next \in DOMAIN at /\ at[next] = at[p] + size /\ wire[next - 1] = Break

IsChunked(wire, at) ==
  1 \in DOMAIN at /\ at[1] = 0 /\ \A p \in DOMAIN at : IsChunk(wire, at, p)

Carries(wire, at, body) ==
  \A p \in DOMAIN at :
    LET size == wire[p][2]
    IN  /\ at[p] + size <= Len(body) /\ (size = 0 => at[p] = Len(body))
        /\ SubSeq(wire, p + 2, p + size + 1) = SubSeq(body, at[p] + 1, at[p] + size)

Framing(r) ==
  CASE r.coding = "chunked" -> "chunked"
    [] r.coding = "none" /\ r.lengths # {} -> "length"
    [] OTHER -> "close"

TheLength(r) == CHOOSE n \in r.lengths : TRUE

(* wellFramed says whether the headers tell the end of the body, and that  *)
(* the camera sends as much: the body that is meant is then this one.      *)
IsResponse(r) ==
  /\ r.head \in Nat /\ r.lengths \subseteq Nat /\ IsFiniteSet(r.lengths)
  /\ r.wire \in Seq({r.wire[i] : i \in DOMAIN r.wire})
  /\ r.meant \in Seq({r.meant[i] : i \in DOMAIN r.meant})
  /\ r.coding \in {"none", "chunked", "other"} /\ r.wellFramed \in BOOLEAN
  /\ r.coding = "chunked" =>
       IF r.wellFramed
       THEN /\ r.lengths = {}
            /\ \E at \in Offsets(r.wire) : IsChunked(r.wire, at) /\ Carries(r.wire, at, r.meant)
       ELSE r.lengths # {} \/ \A at \in Offsets(r.wire) : ~IsChunked(r.wire, at)
  /\ Framing(r) = "length" =>
       /\ r.wellFramed <=> Cardinality(r.lengths) = 1 /\ TheLength(r) <= Len(r.wire)
       /\ r.wellFramed => r.meant = SubSeq(r.wire, 1, TheLength(r))
  /\ Framing(r) = "close" => r.meant = r.wire /\ (r.wellFramed <=> r.coding = "none")

ASSUME ResponseAssumption ==
  /\ Limits \subseteq Nat
  /\ MaxHead \in Nat /\ Slack \in Nat /\ BufferLength \in Nat
  /\ \A r \in Responses : IsResponse(r)

Raw == SubSeq(Stream(response), 1, taken)

HttpInit ==
  /\ response \in Responses
  /\ arrived = 0 /\ peerClosed = FALSE
  /\ exchange = NoExchange
  /\ taken = 0
  /\ result = NoResult
  /\ interrupted = FALSE

-----------------------------------------------------------------------------
(* decodeChunkedBody                                                       *)

Incomplete == [state |-> "incomplete", body |-> <<>>]
Invalid == [state |-> "invalid", body |-> <<>>]
Complete(body) == [state |-> "complete", body |-> body]

LineBreaks(wire, pos) == {i \in pos..Len(wire) : wire[i] = Break}

(* One turn of the loop, at a chunk-size line or behind all there is; out  *)
(* is what the chunks before it carried, decode what the turns after it    *)
(* make of the rest.                                                       *)
DecodeFrom(pos, out, decode, wire, limit) ==
  LET lineEnd == CHOOSE i \in LineBreaks(wire, pos) : \A j \in LineBreaks(wire, pos) : i <= j
      size == wire[pos][2]
      next == lineEnd + size + 2
      rest == decode[<<next, out + size>>]
  IN IF LineBreaks(wire, pos) = {} THEN Incomplete
     ELSE IF lineEnd # pos + 1 \/ wire[pos] \notin {Size(n) : n \in 0..Len(wire) + limit + 1}
          THEN Invalid
     ELSE IF size = 0
          THEN IF TrailersEnd(wire, lineEnd + 1) THEN Complete(<<>>) ELSE Incomplete
     ELSE IF out + size > limit THEN Invalid
     ELSE IF Len(wire) < next - 1 THEN Incomplete
     ELSE IF wire[next - 1] # Break THEN Invalid
     ELSE [state |-> rest.state, body |-> SubSeq(wire, lineEnd + 1, lineEnd + size) \o rest.body]

Decoder(wire, limit) ==
  LET Decode[at \in (1..Len(wire) + 1) \X (0..limit)] ==
        DecodeFrom(at[1], at[2], Decode, wire, limit)
  IN  Decode

DecodeChunked(wire, limit) == Decoder(wire, limit)[<<1, 0>>]

-----------------------------------------------------------------------------
(* The camera                                                              *)

Receiving == exchange.phase \in {"headers", "body"}

Arrive ==
  /\ Receiving
  /\ ~peerClosed /\ arrived < Len(Stream(response))
  /\ arrived' = arrived + 1
  /\ UNCHANGED <<response, peerClosed, exchange, taken, result, interrupted>>

(* It closes at the end, or in the middle of its answer. *)
PeerCloses ==
  /\ Receiving /\ ~peerClosed
  /\ peerClosed' = TRUE
  /\ interrupted' = (arrived < Len(Stream(response)))
  /\ UNCHANGED <<response, arrived, exchange, taken, result>>

-----------------------------------------------------------------------------
(* rawRequest                                                              *)

Ends(ok, body) ==
  /\ exchange' = [exchange EXCEPT !.phase = "done"]
  /\ result' = [ok |-> ok, body |-> body]

(* No Wi-Fi, a request that may not be sent, no connection, or a send()    *)
(* that fails: the camera is not waited for.                               *)
SendRequest ==
  /\ exchange.phase = "none"
  /\ \/ /\ \E method \in {"GET", "HEAD"}, limit \in Limits :
             exchange' = [phase |-> "headers", method |-> method, limit |-> limit]
        /\ UNCHANGED <<result, interrupted>>
     \/ Ends(FALSE, <<>>) /\ interrupted' = TRUE
  /\ UNCHANGED <<response, arrived, peerClosed, taken>>

(* What the headers alone decide against. *)
HeadersRefused(r, method, limit) ==
  \/ r.malformed
  \/ Cardinality(r.lengths) > 1
  \/ r.coding = "other"
  \/ r.coding = "chunked" /\ r.lengths # {}
  \/ ~(method = "HEAD" \/ r.bare) /\ r.coding = "none" /\ \E n \in r.lengths : n > limit

(* Slip: what there is when the camera closes is taken for the body. *)
BodyStateLenient(wire, closed) ==
  LET r == response limit == exchange.limit
  IN IF exchange.method = "HEAD" \/ r.bare THEN Complete(<<>>) ELSE
     CASE Framing(r) = "length" ->
            IF Len(wire) >= TheLength(r) THEN Complete(SubSeq(wire, 1, TheLength(r)))
            ELSE IF closed THEN Complete(wire) ELSE Incomplete
       [] Framing(r) = "chunked" -> DecodeChunked(wire, limit)
       [] OTHER -> IF Len(wire) > limit THEN Invalid
                   ELSE IF closed THEN Complete(wire) ELSE Incomplete

(* The body as far as it is received: complete, known to be wrong, or to   *)
(* be read on. *)
BodyState(wire, closed) ==
  LET r == response limit == exchange.limit
  IN IF exchange.method = "HEAD" \/ r.bare THEN Complete(<<>>) ELSE
     CASE Framing(r) = "length" ->
            IF Len(wire) >= TheLength(r) THEN Complete(SubSeq(wire, 1, TheLength(r)))
            ELSE IF closed THEN Invalid ELSE Incomplete
       [] Framing(r) = "chunked" ->
            LET decoded == DecodeChunked(wire, limit)
            IN IF decoded.state = "incomplete" /\ (closed \/ Len(wire) > limit + Slack)
               THEN Invalid ELSE decoded
       [] OTHER -> IF Len(wire) > limit THEN Invalid
                   ELSE IF closed THEN Complete(wire) ELSE Incomplete

(* What is done with the body once more of it is there. *)
Proceed(wire, closed) ==
  LET body == BodyState(wire, closed)
  IN IF body.state = "incomplete"
     THEN exchange' = [exchange EXCEPT !.phase = "body"] /\ UNCHANGED result
     ELSE Ends(body.state = "complete", body.body)

Available == arrived - taken
Receives == taken' = taken + IF Available < BufferLength THEN Available ELSE BufferLength
AfterHead(n) == SubSeq(Stream(response), response.head + 2, n)

(* A piece of the headers, perhaps with a part of the body. *)
ReceiveHeaders ==
  /\ exchange.phase = "headers" /\ Available > 0
  /\ Receives
  /\ IF taken' <= response.head
     THEN IF taken' > MaxHead THEN Ends(FALSE, <<>>) ELSE UNCHANGED <<exchange, result>>
     ELSE IF response.head > MaxHead \/ HeadersRefused(response, exchange.method, exchange.limit)
          THEN Ends(FALSE, <<>>)
          ELSE Proceed(AfterHead(taken'), FALSE)
  /\ UNCHANGED <<response, arrived, peerClosed, interrupted>>

ReceiveBody ==
  /\ exchange.phase = "body" /\ Available > 0
  /\ Receives
  /\ Proceed(AfterHead(taken'), FALSE)
  /\ UNCHANGED <<response, arrived, peerClosed, interrupted>>

(* recv() returns 0. *)
ReceiveEnd ==
  /\ Available = 0 /\ peerClosed
  /\ \/ exchange.phase = "headers" /\ Ends(FALSE, <<>>)
     \/ exchange.phase = "body" /\ Proceed(AfterHead(taken), TRUE)
  /\ UNCHANGED <<response, arrived, peerClosed, taken, interrupted>>

ReceiveFails ==
  /\ Receiving /\ Available = 0 /\ ~peerClosed
  /\ Ends(FALSE, <<>>)
  /\ interrupted' = TRUE
  /\ UNCHANGED <<response, arrived, peerClosed, taken>>

(* The next request finds a camera of its own. *)
NextRequest ==
  /\ exchange.phase = "done"
  /\ exchange' = NoExchange
  /\ response' \in Responses
  /\ arrived' = 0 /\ taken' = 0 /\ peerClosed' = FALSE
  /\ result' = NoResult /\ interrupted' = FALSE

HttpNext ==
  \/ Arrive \/ PeerCloses
  \/ SendRequest \/ ReceiveHeaders \/ ReceiveBody \/ ReceiveEnd \/ ReceiveFails
  \/ NextRequest

HttpSpec == HttpInit /\ [][HttpNext]_httpVars

-----------------------------------------------------------------------------
(* Properties                                                              *)

(* Whether the camera has answered with this body, by the headers and the  *)
(* limit alone.                                                            *)
Acceptable(r, method, limit) ==
  /\ ~r.malformed /\ r.head <= MaxHead
  /\ \/ (method = "HEAD" \/ r.bare) /\ ~HeadersRefused(r, method, limit)
     \/ r.wellFramed /\ Len(r.meant) <= limit

(* However the answer was cut into pieces and whenever the camera closed,  *)
(* timed out or failed: a body that is passed on is the one the camera     *)
(* meant - never a part of one whose end its headers tell - and an answer  *)
(* is refused only if it was interrupted, is not acceptable or has more    *)
(* around its chunks than is read of them.                                 *)
BodyIsWhole ==
  LET r == response
      meant == IF exchange.method = "HEAD" \/ r.bare THEN <<>> ELSE r.meant
      endUntold == Framing(r) = "close" /\ interrupted
  IN exchange.phase = "done" =>
       IF result.ok
       THEN \/ Acceptable(r, exchange.method, exchange.limit) /\ result.body = meant
            \/ endUntold /\ IsPrefix(result.body, meant)
       ELSE \/ interrupted \/ ~Acceptable(r, exchange.method, exchange.limit)
            \/ r.coding = "chunked" /\ Len(r.wire) > Len(r.meant) + Slack
=============================================================================
