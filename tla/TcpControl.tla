----------------------------- MODULE TcpControl -----------------------------
(***************************************************************************)
(* The ASCII control port: one client at a time, lines collected from its  *)
(* bytes, and an idle timer.  Clients that connect meanwhile wait in the   *)
(* kernel, where their first bytes wait too.                               *)
(*                                                                         *)
(* The port is read by one pass of the main loop, which other components   *)
(* may hold for up to MaxBlock.  A byte is <<c, n>>, the n-th of a client; *)
(* which of them are line feeds is the client's choice.  Bytes that a line *)
(* drops wherever they are, carriage returns and the white space around    *)
(* it, are left out.  What a line makes the engines do is in CommandEngine *)
(* and SequenceEngine.                                                     *)
(***************************************************************************)
EXTENDS Integers, Sequences, SequencesExt

CONSTANTS Clients,
          MaxBytes,       \* bound: bytes a client may send
          RxLimit,        \* bytes kept of a line, 512
          IdleTimeout,    \* CLIENT_IDLE_TIMEOUT_MS, in ticks
          MaxBlock,       \* the longest the main loop is away
          NoClient

ASSUME TcpAssumption ==
  /\ NoClient \notin Clients
  /\ {MaxBytes, RxLimit, IdleTimeout, MaxBlock} \subseteq Nat

VARIABLES pending,        \* clients accept() has yet to return
          client,         \* client_
          connected,      \* clients that have not closed their end
          sent, read,     \* how many bytes of each client were sent, and read
          feeds,          \* those of them that are line feeds
          rx,             \* rx_
          reading,        \* the pass is in the loop over available bytes
          idle,           \* age of lastClientActivityMs_
          away,           \* time since the last pass
          answered        \* history: the line this byte ended, and to whom

clients == <<pending, connected, sent, read, feeds>>
tcpVars == <<clients, client, rx, reading, idle, away, answered>>

Nothing == [line |-> <<>>, to |-> NoClient]

TcpInit ==
  /\ pending = <<>> /\ client = NoClient /\ connected = {}
  /\ sent = [c \in Clients |-> 0] /\ read = [c \in Clients |-> 0]
  /\ feeds = [c \in Clients |-> {}]
  /\ rx = <<>> /\ reading = FALSE
  /\ idle = 0 /\ away = 0
  /\ answered = Nothing

-----------------------------------------------------------------------------
(* The clients and the time                                                *)

ClientConnects(c) ==
  /\ c \notin connected /\ c # client /\ ~Contains(pending, c)
  /\ sent[c] = 0
  /\ connected' = connected \cup {c} /\ pending' = Append(pending, c)
  /\ UNCHANGED <<sent, read, feeds, client, rx, reading, idle, away, answered>>

Send(c) ==
  /\ c \in connected /\ sent[c] < MaxBytes
  /\ sent' = [sent EXCEPT ![c] = @ + 1]
  /\ feeds' \in {feeds, [feeds EXCEPT ![c] = @ \cup {sent'[c]}]}
  /\ UNCHANGED <<pending, connected, read, client, rx, reading, idle, away, answered>>

(* A client may go in the middle of a line. *)
Disconnect(c) ==
  /\ c \in connected
  /\ connected' = connected \ {c}
  /\ UNCHANGED <<pending, sent, read, feeds, client, rx, reading, idle, away, answered>>

Tick ==
  /\ ~reading /\ away < MaxBlock
  /\ away' = away + 1
  /\ idle' = IF client = NoClient \/ idle > IdleTimeout THEN idle ELSE idle + 1
  /\ UNCHANGED <<clients, client, rx, reading, answered>>

-----------------------------------------------------------------------------
(* A pass of loop()                                                        *)

Unread(c) == read[c] < sent[c]

(* Whether a closed client with unread bytes still counts as connected is  *)
(* the network stack's to say.                                             *)
Connected(c) == c \in connected
MayBeConnected(c) == c # NoClient /\ (c \in connected \/ Unread(c))

(* Slip: what is left of a line stays. *)
AcceptClientKeepsLine ==
  /\ pending # <<>>
  /\ client' = Head(pending) /\ pending' = Tail(pending)
  /\ rx' = rx /\ idle' = 0
  /\ reading' = TRUE

AcceptClient ==
  /\ pending # <<>>
  /\ client' = Head(pending) /\ pending' = Tail(pending)
  /\ rx' = <<>> /\ idle' = 0
  /\ reading' = TRUE

AcceptPass ==
  /\ ~reading /\ ~Connected(client)
  /\ \/ AcceptClient
     \/ pending = <<>> /\ UNCHANGED <<pending, client, rx, idle, reading>>
  /\ away' = 0 /\ answered' = Nothing
  /\ UNCHANGED <<connected, sent, read, feeds>>

(* Slip: any pass counts as activity. *)
ServePassRefreshed ==
  /\ ~reading /\ MayBeConnected(client)
  /\ reading' = TRUE /\ idle' = 0
  /\ away' = 0 /\ answered' = Nothing
  /\ UNCHANGED <<clients, client, rx>>

(* The timer is looked at before the bytes are. *)
ServePass ==
  /\ ~reading /\ MayBeConnected(client)
  /\ IF idle > IdleTimeout
     THEN /\ client' = NoClient /\ rx' = <<>> /\ idle' = 0
          /\ connected' = connected \ {client}
          /\ UNCHANGED reading
     ELSE /\ reading' = TRUE
          /\ UNCHANGED <<client, rx, idle, connected>>
  /\ away' = 0 /\ answered' = Nothing
  /\ UNCHANGED <<pending, sent, read, feeds>>

(* A line feed ends a line, which is processed and answered at once unless *)
(* it is blank; of a line that is too long the first bytes are kept.       *)
ReadByte ==
  /\ reading /\ Unread(client)
  /\ read' = [read EXCEPT ![client] = @ + 1]
  /\ idle' = 0
  /\ LET byte == <<client, read'[client]>>
     IN  IF byte[2] \in feeds[client]
         THEN /\ answered' = IF rx = <<>> THEN Nothing ELSE [line |-> rx, to |-> client]
              /\ rx' = <<>>
         ELSE /\ rx' = IF Len(rx) < RxLimit THEN Append(rx, byte) ELSE rx
              /\ answered' = Nothing
  /\ UNCHANGED <<pending, connected, sent, feeds, client, reading, away>>

PassEnds ==
  /\ reading /\ ~Unread(client)
  /\ reading' = FALSE
  /\ answered' = Nothing
  /\ UNCHANGED <<clients, client, rx, idle, away>>

LoopPass == AcceptPass \/ ServePass \/ ReadByte \/ PassEnds

TcpNext == LoopPass \/ Tick \/ \E c \in Clients : ClientConnects(c) \/ Send(c) \/ Disconnect(c)

(* Time passes whatever the loop does. *)
TcpSpec == TcpInit /\ [][TcpNext]_tcpVars /\ WF_tcpVars(LoopPass) /\ SF_tcpVars(Tick)

-----------------------------------------------------------------------------
(* Properties                                                              *)

(* What the bytes of c from one after a to n leave in the buffer. *)
Kept(c, a, n) == [i \in 1..(IF n - a < RxLimit THEN n - a ELSE RxLimit) |-> <<c, a + i>>]

(* A line starts after a and does not end up to n, given the line feeds. *)
SameLine(ends, a, n) == a \in ends \cup {0} /\ a <= n /\ ends \cap a+1..n = {}

(* A line that is answered is all one client sent between two line feeds,  *)
(* cut off at RxLimit bytes, and is answered to that client: what a client *)
(* left unfinished when it went, or was closed as idle, never becomes part *)
(* of the next one's command, nor does what was cut off of its own.        *)
LinesAreWhole ==
  answered # Nothing =>
    \E c \in Clients : \E b \in feeds[c], a \in feeds[c] \cup {0} :
      /\ a < b /\ SameLine(feeds[c], a, b - 1)
      /\ answered = [line |-> Kept(c, a, b - 1), to |-> c]

(* A client that waits gets its turn as soon as the one before it leaves   *)
(* or has been quiet long enough.                                          *)
WaitingIsServed == \A c \in Clients : Contains(pending, c) ~> ~Contains(pending, c)
=============================================================================
