----------------------------- MODULE MCServers -----------------------------
(* The two TCP servers of the bridge share no state; a behaviour is about  *)
(* one of them, the subject.                                               *)
(*                                                                         *)
(* The proxy has two sessions and four connections: two more than there    *)
(* are sessions, so one waits in the listener and one behind it.  The      *)
(* control port has two clients, so that one waits while the other is      *)
(* served, with three bytes each, of which a line keeps one: it may be     *)
(* blank, cut off, left unfinished or come in several passes.              *)
EXTENDS NativeProxy, TcpControl

VARIABLE subject

MCInit == subject \in {"proxy", "control"} /\ Init /\ TcpInit

MCNext ==
  /\ \/ subject = "proxy" /\ Next /\ UNCHANGED tcpVars
     \/ subject = "control" /\ TcpNext /\ UNCHANGED vars
  /\ UNCHANGED subject

MCVars == <<vars, tcpVars, subject>>
Listener == Accept \/ \E c \in Connections : ListenerStep(c)

(* The fairness of Spec and of TcpSpec, each for its own behaviours. *)
MCSpec ==
  /\ MCInit /\ [][MCNext]_MCVars
  /\ WF_MCVars(subject = "proxy" /\ Listener /\ UNCHANGED <<tcpVars, subject>>)
  /\ WF_MCVars(subject = "control" /\ LoopPass /\ UNCHANGED <<vars, subject>>)
  /\ SF_MCVars(subject = "control" /\ Tick /\ UNCHANGED <<vars, subject>>)
=============================================================================
