---------------------------- MODULE TraceChannel ----------------------------
(***************************************************************************)
(* What the trace connection promises, without threads, locks or sockets:  *)
(* one FIFO of messages towards one client, and a connection that opens at *)
(* most once and never comes back.  NetworkServer implements it.           *)
(***************************************************************************)
EXTENDS Naturals, Sequences

CONSTANTS
  Msg,              \* the trace messages a caller may hand over
  Hello,            \* the greeting, sent once, before any trace message
  TransientErrors   \* TRUE: a send may fail although the connection is up

VARIABLES
  pending,          \* accepted from the callers, not handed to the network yet
  phase,            \* "waiting" for a client, "open", "over"
  wire,             \* all the network accepted, in order
  read              \* how many items of wire the client has read

vars == <<pending, phase, wire, read>>

Lossy == phase = "over" \/ TransientErrors

Init ==
  /\ pending = <<>>
  /\ phase = "waiting"
  /\ wire = <<>>
  /\ read = 0

Accept(m) ==
  /\ pending' = Append(pending, m)
  /\ UNCHANGED <<phase, wire, read>>

Open ==
  /\ phase = "waiting"
  /\ phase' = "open"
  /\ UNCHANGED <<pending, wire, read>>

Greet ==
  /\ phase = "open"
  /\ wire = <<>>
  /\ wire' = <<Hello>>
  /\ UNCHANGED <<pending, phase, read>>

(* The oldest message goes first; the greeting precedes it unless it was   *)
(* lost to a transient error.                                              *)
Transmit ==
  /\ phase = "open"
  /\ wire # <<>> \/ TransientErrors
  /\ pending # <<>>
  /\ wire' = Append(wire, Head(pending))
  /\ pending' = Tail(pending)
  /\ UNCHANGED <<phase, read>>

Lose ==
  /\ Lossy
  /\ pending # <<>>
  /\ pending' = Tail(pending)
  /\ UNCHANGED <<phase, wire, read>>

ReadNext ==
  /\ read < Len(wire)
  /\ read' = read + 1
  /\ UNCHANGED <<pending, phase, wire>>

Close ==
  /\ phase = "open"
  /\ phase' = "over"
  /\ UNCHANGED <<pending, wire, read>>

Next ==
  \/ \E m \in Msg : Accept(m)
  \/ Open \/ Greet \/ Transmit \/ Lose \/ ReadNext \/ Close

Spec == Init /\ [][Next]_vars

=============================================================================
