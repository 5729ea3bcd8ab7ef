------------------------- MODULE NetworkServerProofs -------------------------
(***************************************************************************)
(* What NetworkServer's runs check on a few threads and messages, proved   *)
(* for any number of callers, calls and any window: the queue is never     *)
(* raced on and loses nothing, the client sees an ordered prefix, stop()   *)
(* is final, and the server implements TraceChannel.                       *)
(*                                                                         *)
(* None of these is inductive.  IInv adds who owns the lock in which line  *)
(* (LockInv), how far the control thread, the connection and the worker    *)
(* may be apart (PhaseInv) and what is on the wire (WireInv).              *)
(***************************************************************************)
EXTENDS NetworkServer, TLAPS

-----------------------------------------------------------------------------
(* The inductive invariant behind the safety properties, in three parts.   *)
(* TypeOK is the fourth.                                                   *)

(* Who holds the lock, and what a pusher or the sender may rely on.        *)
LockInv ==
  /\ WorkerInside <=> m_queue_lock = Worker
  /\ \A p \in Callers : /\ CallerInside(p) <=> m_queue_lock = p
                        /\ ppc[p] # "idle" => calls[p] >= 1
  /\ wpc \in {"send", "pop"} => m_queue # <<>>

(* How far control, connection and worker may be apart.                    *)
PhaseInv ==
  /\ cpc \in {"start", "accept", "activate", "spawn", "exited"} => wpc = "none"
  /\ cpc \in {"start", "accept"} => conn = "none"
  /\ cpc \in {"forget", "join"} => conn # "up"
  /\ cpc = "spawn" => m_worker_active
  /\ cpc = "running" /\ ~m_worker_active => wpc = "none"
  /\ cpc = "stopped" => wpc \in {"none", "done"}
  /\ wpc # "none" => conn # "none"
  /\ m_worker_active => conn # "none"
  /\ cpc \in {"activate", "spawn", "closing", "closeClient"} => conn # "none"
  /\ conn = "up" => m_client_socket = "open"
  /\ conn = "up" /\ wpc \notin {"none", "outer", "hello", "done"} => wsock = "open"

(* The message the worker sends next is at this place of Stream.           *)
Sent == popped + IF wpc = "pop" THEN 2 ELSE 1

(* What is on the wire is sent in order, without a hole up to the first    *)
(* transient error, and starts with the greeting.                          *)
BeforeGreeting ==
  \/ wpc \in {"none", "hello", "helloSend"}
  \/ wpc = "outer" /\ m_worker_active

WireInv ==
  /\ BeforeGreeting => wire = <<>> /\ popped = 0
  /\ \A i \in 1 .. Len(wire) : \E a \in 1 .. Sent : wire[i] = Stream[a]
  /\ gap => TransientErrors
  /\ wpc \in {"inner", "lock", "drain", "send", "pop", "unlock"}
       /\ conn = "up" /\ ~gap => Len(wire) = Sent

IInv == /\ TypeOK
        /\ LockInv
        /\ NothingLostInQueue
        /\ PhaseInv
        /\ WireInv
        /\ PrefixDelivery
        /\ OrderedDelivery

-----------------------------------------------------------------------------
USE NetworkServerAssumption

(* The places of Stream: the greeting, then the pushed messages.           *)
LEMMA StreamPlaces ==
  ASSUME NEW s \in Seq(Msg)
  PROVE  LET t == <<Hello>> \o s
         IN  /\ Len(t) = Len(s) + 1
             /\ t[1] = Hello
             /\ \A i \in 1 .. Len(s) : t[i + 1] = s[i]
  OBVIOUS

(* Pushing one more message keeps the places there were.                   *)
LEMMA StreamGrows ==
  ASSUME NEW s \in Seq(Msg), NEW m \in Msg
  PROVE  LET t == <<Hello>> \o s
             u == <<Hello>> \o Append(s, m)
         IN  /\ Len(u) = Len(t) + 1
             /\ \A i \in 1 .. Len(t) : u[i] = t[i]
  OBVIOUS

LEMMA Initially == Init => IInv
<1> SUFFICES ASSUME Init PROVE IInv
  OBVIOUS
<1>1. TypeOK
  <2>1. <<>> \in Seq(Msg) /\ <<>> \in Seq(Msg \cup {Hello}) /\ Len(<<>>) = 0
    OBVIOUS
  <2>2. /\ ppc \in [Callers -> {"idle", "lock", "push", "unlock"}]
        /\ calls \in [Callers -> 0 .. MaxCalls]
    BY DEF Init
  <2>3. /\ m_queue \in Seq(Msg)
        /\ pushed \in Seq(Msg)
        /\ wire \in Seq(Msg \cup {Hello})
        /\ read \in 0 .. Len(wire)
        /\ popped \in Nat
    BY <2>1 DEF Init
  <2>4. /\ m_worker_active \in BOOLEAN
        /\ m_queue_lock \in Callers \cup {Worker, NoOne}
        /\ gap \in BOOLEAN
    BY DEF Init
  <2> QED
    BY <2>2, <2>3, <2>4 DEF Init, TypeOK, Socket
<1>2. LockInv
  BY DEF Init, LockInv, WorkerInside, CallerInside
<1>3. NothingLostInQueue
  BY DEF Init, NothingLostInQueue
<1>4. PhaseInv
  BY DEF Init, PhaseInv
<1>5. wire = <<>> /\ Len(wire) = 0 /\ pushed = <<>> /\ popped = 0 /\ gap = FALSE /\ wpc = "none"
  BY DEF Init
<1>6. WireInv
  BY <1>5 DEF WireInv, BeforeGreeting, Sent
<1>7. PrefixDelivery /\ OrderedDelivery
  <2>1. Len(Stream) = 1
    BY <1>5 DEF Stream
  <2> QED
    BY <1>5, <2>1 DEF PrefixDelivery, OrderedDelivery
<1> QED
  BY <1>1, <1>2, <1>3, <1>4, <1>6, <1>7 DEF IInv

-----------------------------------------------------------------------------
LEMMA TypeStep ==
  ASSUME TypeOK, LockInv, [Next]_vars
  PROVE  TypeOK'
<1> USE DEF TypeOK, Socket, vars, control, shared, network, worker, queue, caller,
            Control, WorkerGoes, CallerGoes
<1>1. CASE InitConnectionFails
  BY <1>1 DEF InitConnectionFails
<1>2. CASE Listen
  BY <1>2 DEF Listen
<1>3. CASE AcceptClient
  BY <1>3 DEF AcceptClient
<1>4. CASE AcceptFails
  BY <1>4 DEF AcceptFails
<1>5. CASE Activate
  BY <1>5 DEF Activate
<1>6. CASE Spawn
  BY <1>6 DEF Spawn
<1>7. CASE StopWithoutWorker
  BY <1>7 DEF StopWithoutWorker
<1>8. CASE StopWorker
  <2>1. m_worker_active' \in BOOLEAN
    BY <1>8 DEF StopWorker
  <2> QED
    BY <1>8, <2>1 DEF StopWorker
<1>9. CASE StopStep
  BY <1>9 DEF StopStep, CloseListen, CloseClient, ForgetClient, Join
<1>10. CASE OuterTest \/ HelloSocket \/ InnerTest \/ DrainNext \/ DrainEmpty
            \/ WorkerUnlock \/ WorkerLock
  BY <1>10 DEF OuterTest, HelloSocket, InnerTest, DrainNext, DrainEmpty,
               WorkerUnlock, WorkerLock
<1>11. ASSUME NEW m \in Msg \cup {Hello}, Send(m)
       PROVE  /\ UNCHANGED <<conn, read, wsock>>
              /\ wire' \in Seq(Msg \cup {Hello})
              /\ Len(wire') >= Len(wire)
              /\ gap' \in BOOLEAN
  <2>1. CASE /\ UNCHANGED <<conn, read, wsock, gap>>
             /\ wire' = Append(wire, m)
    BY <2>1
  <2>2. CASE /\ UNCHANGED <<conn, read, wsock, wire>>
             /\ gap' = (gap \/ conn = "up")
    BY <2>2
  <2> QED
    BY <1>11, <2>1, <2>2 DEF Send
<1>12. CASE HelloSend
  BY <1>12, <1>11 DEF HelloSend
<1>13. CASE SendFront
  BY <1>13, <1>11 DEF SendFront, LockInv
<1>14. CASE Pop
  BY <1>14 DEF Pop, LockInv
<1>15. ASSUME NEW p \in Callers, Enqueue(p)
       PROVE  TypeOK'
  <2>1. calls' \in [Callers -> 0 .. MaxCalls]
    BY <1>15 DEF Enqueue
  <2> QED
    BY <1>15, <2>1 DEF Enqueue
<1>16. ASSUME NEW p \in Callers, CallerLock(p) \/ CallerUnlock(p)
       PROVE  TypeOK'
  BY <1>16 DEF CallerLock, CallerUnlock
<1>17. ASSUME NEW p \in Callers, Push(p)
       PROVE  TypeOK'
  <2>1. <<p, calls[p]>> \in Msg
    BY <1>17 DEF Push, LockInv, Msg
  <2> QED
    BY <1>17, <2>1 DEF Push
<1>18. CASE ClientRead \/ ClientQuits
  BY <1>18 DEF ClientRead, ClientQuits
<1>19. CASE UNCHANGED vars
  BY <1>19
<1> QED
  BY <1>1, <1>2, <1>3, <1>4, <1>5, <1>6, <1>7, <1>8, <1>9, <1>10, <1>12, <1>13,
     <1>14, <1>15, <1>16, <1>17, <1>18, <1>19 DEF Next, WorkerStep, Finished

-----------------------------------------------------------------------------
(* Only the queue, its lock and the two program counters matter here.      *)
LEMMA LockStep ==
  ASSUME TypeOK, LockInv, PhaseInv, [Next]_vars
  PROVE  LockInv'
<1> USE DEF TypeOK, LockInv, WorkerInside, CallerInside, vars, control, shared,
            network, worker, queue, caller, Control, WorkerGoes, CallerGoes
<1>1. CASE UNCHANGED <<wpc, m_queue_lock, m_queue, ppc, calls>>
  BY <1>1
<1>2. CASE Spawn
  BY <1>2 DEF Spawn, PhaseInv
<1>3. CASE OuterTest \/ HelloSocket \/ InnerTest
  BY <1>3 DEF OuterTest, HelloSocket, InnerTest
<1>4. CASE HelloSend
  BY <1>4 DEF HelloSend
<1>5. CASE WorkerLock
  BY <1>5 DEF WorkerLock
<1>6. CASE DrainNext \/ DrainEmpty
  BY <1>6 DEF DrainNext, DrainEmpty
<1>7. CASE SendFront
  BY <1>7 DEF SendFront
<1>8. CASE Pop
  BY <1>8 DEF Pop
<1>9. CASE WorkerUnlock
  BY <1>9 DEF WorkerUnlock
<1>10. ASSUME NEW p \in Callers, Enqueue(p)
       PROVE  LockInv'
  BY <1>10 DEF Enqueue
<1>11. ASSUME NEW p \in Callers, CallerLock(p)
       PROVE  LockInv'
  BY <1>11 DEF CallerLock
<1>12. ASSUME NEW p \in Callers, Push(p)
       PROVE  LockInv'
  <2>1. m_queue_lock = p /\ ~WorkerInside
    BY <1>12 DEF Push
  <2> QED
    BY <1>12, <2>1 DEF Push
<1>13. ASSUME NEW p \in Callers, CallerUnlock(p)
       PROVE  LockInv'
  BY <1>13 DEF CallerUnlock
<1> QED
  BY <1>1, <1>2, <1>3, <1>4, <1>5, <1>6, <1>7, <1>8, <1>9, <1>10, <1>11, <1>12, <1>13
     DEF Next, StopStep, WorkerStep, Finished, InitConnectionFails, Listen,
         AcceptClient, AcceptFails, Activate, StopWithoutWorker, StopWorker,
         CloseListen, CloseClient, ForgetClient, Join, ClientRead, ClientQuits

-----------------------------------------------------------------------------
(* Only Pop and Push touch the queue or its history.                       *)
LEMMA QueueStep ==
  ASSUME TypeOK, LockInv, NothingLostInQueue, [Next]_vars
  PROVE  NothingLostInQueue'
<1> USE DEF TypeOK, vars, control, shared, network, worker, queue, caller,
            Control, WorkerGoes, CallerGoes
<1>1. CASE UNCHANGED <<m_queue, pushed, popped>>
  BY <1>1 DEF NothingLostInQueue
<1>2. CASE Pop
  <2>1. m_queue # <<>> /\ m_queue' = Tail(m_queue)
    BY <1>2 DEF Pop, LockInv
  <2>2. popped' = popped + 1 /\ pushed' = pushed /\ popped \in Nat
    BY <1>2 DEF Pop
  <2>3. /\ Len(m_queue) \in Nat
        /\ Len(m_queue') = Len(m_queue) - 1
        /\ \A i \in 1 .. Len(m_queue') : m_queue'[i] = m_queue[i + 1]
    BY <2>1
  <2>4. Len(pushed') = popped' + Len(m_queue')
    <3>1. Len(pushed) = popped + Len(m_queue)
      BY DEF NothingLostInQueue
    <3>2. Len(pushed') = Len(pushed)
      BY <2>2
    <3> HIDE DEF TypeOK
    <3> QED
      BY <2>2, <2>3, <3>1, <3>2
  <2>5. ASSUME NEW i \in 1 .. Len(m_queue')
        PROVE  m_queue'[i] = pushed'[popped' + i]
    <3>1. i + 1 \in 1 .. Len(m_queue) /\ popped' + i = popped + (i + 1)
      BY <2>2, <2>3
    <3> QED
      BY <2>2, <2>3, <3>1 DEF NothingLostInQueue
  <2> QED
    BY <2>4, <2>5 DEF NothingLostInQueue
<1>3. ASSUME NEW p \in Callers, Push(p)
      PROVE  NothingLostInQueue'
  <2> DEFINE m == <<p, calls[p]>>
  <2>1. /\ m \in Msg
        /\ m_queue' = Append(m_queue, m)
        /\ pushed' = Append(pushed, m)
        /\ popped' = popped
    BY <1>3 DEF Push, LockInv, Msg
  <2> HIDE DEF m
  <2>2. /\ Len(m_queue') = Len(m_queue) + 1
        /\ Len(pushed') = Len(pushed) + 1
        /\ \A i \in 1 .. Len(m_queue') :
             m_queue'[i] = IF i <= Len(m_queue) THEN m_queue[i] ELSE m
        /\ \A i \in 1 .. Len(pushed') :
             pushed'[i] = IF i <= Len(pushed) THEN pushed[i] ELSE m
    BY <2>1
  <2>3. Len(pushed') = popped' + Len(m_queue')
    BY <2>1, <2>2 DEF NothingLostInQueue
  <2>4. ASSUME NEW i \in 1 .. Len(m_queue')
        PROVE  m_queue'[i] = pushed'[popped' + i]
    <3>1. popped + i \in 1 .. Len(pushed')
      BY <2>1, <2>2, <2>3
    <3>2. CASE i <= Len(m_queue)
      BY <2>1, <2>2, <3>1, <3>2 DEF NothingLostInQueue
    <3>3. CASE i = Len(m_queue) + 1
      BY <2>1, <2>2, <3>1, <3>3 DEF NothingLostInQueue
    <3> QED
      BY <2>2, <3>2, <3>3
  <2> QED
    BY <2>3, <2>4 DEF NothingLostInQueue
<1> QED
  BY <1>1, <1>2, <1>3
     DEF Next, StopStep, WorkerStep, Finished, InitConnectionFails, Listen,
         AcceptClient, AcceptFails, Activate, Spawn, StopWithoutWorker,
         StopWorker, CloseListen, CloseClient, ForgetClient, Join, ClientRead,
         ClientQuits, OuterTest, HelloSocket, HelloSend, InnerTest, DrainNext,
         DrainEmpty, SendFront, WorkerUnlock, WorkerLock, Enqueue, CallerLock,
         CallerUnlock

-----------------------------------------------------------------------------
LEMMA PhaseStep ==
  ASSUME TypeOK, PhaseInv, [Next]_vars
  PROVE  PhaseInv'
<1> USE DEF TypeOK, PhaseInv, vars, control, shared, network, worker, queue,
            caller, Control, WorkerGoes, CallerGoes
<1>1. CASE UNCHANGED <<cpc, m_worker_active, m_client_socket, conn, wpc, wsock>>
  BY <1>1
<1>2. CASE InitConnectionFails \/ Listen
  BY <1>2 DEF InitConnectionFails, Listen
<1>3. CASE AcceptClient
  BY <1>3 DEF AcceptClient
<1>4. CASE AcceptFails
  BY <1>4 DEF AcceptFails
<1>5. CASE Activate
  BY <1>5 DEF Activate
<1>6. CASE Spawn
  BY <1>6 DEF Spawn
<1>7. CASE StopWithoutWorker
  BY <1>7 DEF StopWithoutWorker
<1>8. CASE StopWorker
  BY <1>8 DEF StopWorker
<1>9. CASE CloseListen
  BY <1>9 DEF CloseListen
<1>10. CASE CloseClient
  BY <1>10 DEF CloseClient
<1>11. CASE ForgetClient
  BY <1>11 DEF ForgetClient
<1>12. CASE Join
  BY <1>12 DEF Join
<1>13. CASE OuterTest
  BY <1>13 DEF OuterTest
<1>14. CASE HelloSocket
  BY <1>14 DEF HelloSocket
<1>15. CASE HelloSend
  BY <1>15 DEF HelloSend, Send
<1>16. CASE InnerTest
  BY <1>16 DEF InnerTest
<1>17. CASE WorkerLock
  BY <1>17 DEF WorkerLock
<1>18. CASE DrainNext
  BY <1>18 DEF DrainNext
<1>19. CASE DrainEmpty
  BY <1>19 DEF DrainEmpty
<1>20. CASE SendFront
  BY <1>20 DEF SendFront, Send
<1>21. CASE Pop
  BY <1>21 DEF Pop
<1>22. CASE WorkerUnlock
  BY <1>22 DEF WorkerUnlock
<1>23. CASE ClientQuits
  BY <1>23 DEF ClientQuits
<1> QED
  BY <1>1, <1>2, <1>3, <1>4, <1>5, <1>6, <1>7, <1>8, <1>9, <1>10, <1>11, <1>12,
     <1>13, <1>14, <1>15, <1>16, <1>17, <1>18, <1>19, <1>20, <1>21, <1>22, <1>23
     DEF Next, StopStep, WorkerStep, Finished, Enqueue, CallerLock, Push,
         CallerUnlock, ClientRead

-----------------------------------------------------------------------------
(* The three ways a step can concern the wire: a message is sent, a        *)
(* message is pushed, or neither.                                          *)

(* The front of the queue is the place of Stream that Sent leads to.       *)
LEMMA FrontPlace ==
  ASSUME TypeOK, NothingLostInQueue, m_queue # <<>>
  PROVE  /\ popped + 2 \in 1 .. Len(Stream)
         /\ Stream[popped + 2] = Head(m_queue)
         /\ Head(m_queue) \in Msg \cup {Hello}
<1>1. /\ Len(Stream) = Len(pushed) + 1
      /\ \A i \in 1 .. Len(pushed) : Stream[i + 1] = pushed[i]
  BY StreamPlaces DEF Stream, TypeOK
<1>2. Len(m_queue) \in Nat \ {0} /\ Head(m_queue) = m_queue[1] /\ m_queue[1] \in Msg
  BY DEF TypeOK
<1>3. Len(pushed) = popped + Len(m_queue) /\ m_queue[1] = pushed[popped + 1]
  BY <1>2 DEF NothingLostInQueue
<1>4. popped \in Nat /\ Len(pushed) \in Nat
  BY DEF TypeOK
<1>5. popped + 1 \in 1 .. Len(pushed)
  BY <1>2, <1>3, <1>4
<1>6. Stream[popped + 1 + 1] = pushed[popped + 1]
  BY <1>1, <1>5
<1>7. popped + 1 + 1 = popped + 2
  BY <1>4
<1>8. Stream[popped + 2] = m_queue[1]
  BY <1>3, <1>6, <1>7
<1> QED
  BY <1>1, <1>2, <1>3, <1>4, <1>8

(* Sending the place after Sent, on the connection PhaseInv describes.     *)
LEMMA SendStep ==
  ASSUME NEW m \in Msg \cup {Hello}, NEW k \in 1 .. Len(Stream),
         TypeOK, PrefixDelivery, OrderedDelivery, Send(m), UNCHANGED <<pushed, popped>>,
         Stream[k] = m,
         \A i \in 1 .. Len(wire) : \E a \in 1 .. k - 1 : wire[i] = Stream[a],
         conn = "up" /\ ~gap => Len(wire) = k - 1,
         conn = "up" => wsock = "open",
         gap => TransientErrors
  PROVE  /\ PrefixDelivery'
         /\ OrderedDelivery'
         /\ gap' => TransientErrors
         /\ \A i \in 1 .. Len(wire') : \E a \in 1 .. k : wire'[i] = Stream'[a]
         /\ conn' = "up" /\ ~gap' => Len(wire') = k
<1>1. Stream' = Stream /\ Len(Stream) \in Nat
  BY StreamPlaces DEF Stream, TypeOK
<1>2. CASE UNCHANGED wire /\ gap' = (gap \/ conn = "up") /\ conn' = conn /\ SendFails
  <2>1. gap' => TransientErrors
    BY <1>2 DEF SendFails
  <2>2. (conn' = "up" => gap') /\ (gap => gap')
    BY <1>2
  <2>3. wire' = wire /\ k \in Nat
    BY <1>1, <1>2
  <2>4. PrefixDelivery'
    BY <1>1, <2>2, <2>3 DEF PrefixDelivery
  <2>5. ASSUME NEW i \in 1 .. Len(wire'), NEW j \in 1 .. Len(wire'), i < j
        PROVE  \E a, b \in 1 .. Len(Stream') :
                  a < b /\ wire'[i] = Stream'[a] /\ wire'[j] = Stream'[b]
    <3>1. PICK a, b \in 1 .. Len(Stream) :
             a < b /\ wire[i] = Stream[a] /\ wire[j] = Stream[b]
      BY <2>3, <2>5 DEF OrderedDelivery
    <3> QED
      BY <1>1, <2>3, <3>1
  <2>6. OrderedDelivery'
    BY <2>5 DEF OrderedDelivery
  <2>7. ASSUME NEW i \in 1 .. Len(wire')
        PROVE  \E a \in 1 .. k : wire'[i] = Stream'[a]
    <3>1. PICK a \in 1 .. k - 1 : wire[i] = Stream[a]
      BY <2>3
    <3>2. a \in 1 .. k
      BY <1>1
    <3> QED
      BY <1>1, <2>3, <3>1, <3>2
  <2> QED
    BY <2>1, <2>2, <2>4, <2>6, <2>7
<1>3. CASE wire' = Append(wire, m) /\ UNCHANGED <<gap, conn>> /\ conn = "up"
  <2>1. /\ Len(wire) \in Nat
        /\ Len(wire') = Len(wire) + 1
        /\ \A i \in 1 .. Len(wire) : wire'[i] = wire[i]
        /\ wire'[Len(wire) + 1] = m
    BY <1>3 DEF TypeOK
  <2>2. ASSUME ~gap'
        PROVE  /\ Len(wire') = k
               /\ \A i \in 1 .. Len(wire') : wire'[i] = Stream'[i]
    BY <1>1, <1>3, <2>1, <2>2 DEF PrefixDelivery
  <2>3. PrefixDelivery'
    BY <1>1, <2>2 DEF PrefixDelivery
  <2>4. \A i \in 1 .. Len(wire') : \E a \in 1 .. k : wire'[i] = Stream'[a]
    BY <1>1, <2>1
  <2>5. ASSUME NEW i \in 1 .. Len(wire'), NEW j \in 1 .. Len(wire'), i < j
        PROVE  \E a, b \in 1 .. Len(Stream') :
                  a < b /\ wire'[i] = Stream'[a] /\ wire'[j] = Stream'[b]
    <3>1. i \in 1 .. Len(wire) /\ wire'[i] = wire[i]
      BY <2>1, <2>5
    <3>2. CASE j \in 1 .. Len(wire)
      <4>1. PICK a, b \in 1 .. Len(Stream) :
               a < b /\ wire[i] = Stream[a] /\ wire[j] = Stream[b]
        BY <2>5, <3>1, <3>2 DEF OrderedDelivery
      <4>2. wire'[j] = wire[j]
        BY <2>1, <3>2
      <4> QED
        BY <1>1, <3>1, <4>1, <4>2
    <3>3. CASE j = Len(wire) + 1
      <4>1. PICK a \in 1 .. k - 1 : wire[i] = Stream[a]
        BY <3>1
      <4>2. wire'[j] = Stream[k] /\ a < k /\ a \in 1 .. Len(Stream)
        BY <1>1, <2>1, <3>3
      <4> QED
        BY <1>1, <3>1, <4>1, <4>2
    <3> QED
      BY <2>1, <3>2, <3>3
  <2>6. OrderedDelivery'
    BY <2>5 DEF OrderedDelivery
  <2> QED
    BY <1>3, <2>2, <2>3, <2>4, <2>6
<1> QED
  BY <1>2, <1>3 DEF Send

(* A pushed message comes after all there is, so nothing changes for the   *)
(* places already on the wire.                                             *)
LEMMA PushKeepsWire ==
  ASSUME NEW p \in Callers, TypeOK, LockInv, NothingLostInQueue, WireInv,
         PrefixDelivery, OrderedDelivery, Push(p)
  PROVE  WireInv' /\ PrefixDelivery' /\ OrderedDelivery'
<1>1. /\ UNCHANGED <<wire, popped, gap, wpc, m_worker_active, conn>>
      /\ pushed' = Append(pushed, <<p, calls[p]>>)
  BY DEF Push, CallerGoes, control, shared, worker, network
<1>2. pushed \in Seq(Msg) /\ <<p, calls[p]>> \in Msg
  BY DEF Push, CallerGoes, TypeOK, LockInv, Msg
<1>3. /\ Len(Stream) = Len(pushed) + 1
      /\ Len(Stream') = Len(Stream) + 1
      /\ \A i \in 1 .. Len(Stream) : Stream'[i] = Stream[i]
  BY <1>1, <1>2, StreamPlaces, StreamGrows DEF Stream
<1>4. Len(Stream) \in Nat
  BY <1>2, <1>3
<1>5. Sent' = Sent /\ BeforeGreeting' = BeforeGreeting
  BY <1>1 DEF Sent, BeforeGreeting
<1>6. Sent \in 1 .. Len(Stream)
  <2>1. popped \in Nat /\ Len(m_queue) \in Nat /\ Len(pushed) = popped + Len(m_queue)
    BY DEF TypeOK, NothingLostInQueue
  <2>2. wpc = "pop" => Len(m_queue) > 0
    BY DEF TypeOK, LockInv
  <2> QED
    BY <1>3, <2>1, <2>2 DEF Sent
<1>7. PrefixDelivery'
  BY <1>1, <1>3, <1>4 DEF PrefixDelivery
<1>8. OrderedDelivery'
  <2>1. ASSUME NEW i \in 1 .. Len(wire'), NEW j \in 1 .. Len(wire'), i < j
        PROVE  \E a, b \in 1 .. Len(Stream') :
                  a < b /\ wire'[i] = Stream'[a] /\ wire'[j] = Stream'[b]
    <3>1. PICK a, b \in 1 .. Len(Stream) :
             a < b /\ wire[i] = Stream[a] /\ wire[j] = Stream[b]
      BY <1>1, <2>1 DEF OrderedDelivery
    <3>2. /\ a \in 1 .. Len(Stream') /\ Stream'[a] = Stream[a]
          /\ b \in 1 .. Len(Stream') /\ Stream'[b] = Stream[b]
      BY <1>3, <1>4
    <3> QED
      BY <1>1, <3>1, <3>2
  <2> QED
    BY <2>1 DEF OrderedDelivery
<1>9. ASSUME NEW i \in 1 .. Len(wire)
      PROVE  \E a \in 1 .. Sent : wire[i] = Stream'[a]
  <2>1. PICK a \in 1 .. Sent : wire[i] = Stream[a]
    BY DEF WireInv
  <2> QED
    BY <1>3, <1>4, <1>6, <2>1
<1>10. WireInv'
  BY <1>1, <1>5, <1>9 DEF WireInv
<1> QED
  BY <1>7, <1>8, <1>10

(* All other steps.                                                        *)
LEMMA WireStep ==
  ASSUME IInv, [Next]_vars
  PROVE  WireInv' /\ PrefixDelivery' /\ OrderedDelivery'
<1> USE DEF vars, control, shared, network, worker, queue, caller, Control,
            WorkerGoes, CallerGoes
<1>1. /\ TypeOK /\ LockInv /\ NothingLostInQueue /\ PhaseInv
      /\ WireInv /\ PrefixDelivery /\ OrderedDelivery
  BY DEF IInv
<1>2. ASSUME UNCHANGED <<wire, pushed, gap>>
      PROVE  PrefixDelivery' /\ OrderedDelivery' /\ Stream' = Stream
  <2>1. Stream' = Stream /\ wire' = wire /\ gap' = gap
    BY <1>2 DEF Stream
  <2>2. PrefixDelivery'
    BY <1>1, <2>1 DEF PrefixDelivery
  <2>3. OrderedDelivery'
    BY <1>1, <2>1 DEF OrderedDelivery
  <2> QED
    BY <2>1, <2>2, <2>3
<1>3. ASSUME UNCHANGED <<wire, pushed, gap>>,
             Sent' = Sent,
             BeforeGreeting' => BeforeGreeting /\ popped' = popped,
             conn' = "up" =>
               \/ conn = "up"
               \/ wpc' = "none",
             wpc' \in {"inner", "lock", "drain", "send", "pop", "unlock"} =>
               wpc \in {"inner", "lock", "drain", "send", "pop", "unlock"}
      PROVE  WireInv' /\ PrefixDelivery' /\ OrderedDelivery'
  <2>1. /\ Stream' = Stream /\ wire' = wire /\ gap' = gap
        /\ PrefixDelivery' /\ OrderedDelivery'
    BY <1>2, <1>3
  <2>2. WireInv'
    BY <1>1, <1>3, <2>1 DEF WireInv
  <2> QED
    BY <2>1, <2>2
<1>4. CASE \/ InitConnectionFails \/ Listen \/ AcceptFails \/ StopWithoutWorker
           \/ CloseListen \/ CloseClient \/ ForgetClient \/ Join
           \/ ClientRead \/ ClientQuits \/ UNCHANGED vars
           \/ \E p \in Callers : Enqueue(p) \/ CallerLock(p) \/ CallerUnlock(p)
  BY <1>3, <1>4 DEF InitConnectionFails, Listen, AcceptFails, StopWithoutWorker,
                    CloseListen, CloseClient, ForgetClient, Join, ClientRead,
                    ClientQuits, Enqueue, CallerLock, CallerUnlock,
                    BeforeGreeting, Sent
<1>5. CASE AcceptClient
  BY <1>1, <1>3, <1>5 DEF AcceptClient, PhaseInv, BeforeGreeting, Sent
<1>6. CASE Activate \/ Spawn \/ StopWorker
  BY <1>1, <1>3, <1>6 DEF Activate, Spawn, StopWorker, PhaseInv, BeforeGreeting, Sent
<1>7. CASE OuterTest \/ HelloSocket \/ InnerTest \/ WorkerLock \/ DrainNext
           \/ DrainEmpty \/ WorkerUnlock
  BY <1>1, <1>3, <1>7 DEF OuterTest, HelloSocket, InnerTest, WorkerLock,
                          DrainNext, DrainEmpty, WorkerUnlock, BeforeGreeting, Sent
<1>8. CASE Pop
  BY <1>1, <1>3, <1>8 DEF Pop, BeforeGreeting, Sent, TypeOK
<1>9. ASSUME NEW p \in Callers, Push(p)
      PROVE  WireInv' /\ PrefixDelivery' /\ OrderedDelivery'
  BY <1>1, <1>9, PushKeepsWire
<1>10. CASE HelloSend
  <2>1. /\ wpc = "helloSend" /\ wpc' = "inner" /\ Send(Hello)
        /\ UNCHANGED <<pushed, popped>>
    BY <1>10 DEF HelloSend
  <2>2. wire = <<>> /\ Len(wire) = 0 /\ popped = 0
    BY <1>1, <2>1 DEF WireInv, BeforeGreeting
  <2>3. 1 \in 1 .. Len(Stream) /\ Stream[1] = Hello
    BY <1>1, StreamPlaces DEF Stream, TypeOK
  <2>4. (gap => TransientErrors) /\ (conn = "up" => wsock = "open")
    BY <1>1, <2>1 DEF WireInv, PhaseInv
  <2>5. /\ \A i \in 1 .. Len(wire) : \E a \in 1 .. 1 - 1 : wire[i] = Stream[a]
        /\ conn = "up" /\ ~gap => Len(wire) = 1 - 1
    BY <2>2
  <2>6. /\ PrefixDelivery' /\ OrderedDelivery' /\ (gap' => TransientErrors)
        /\ \A i \in 1 .. Len(wire') : \E a \in 1 .. 1 : wire'[i] = Stream'[a]
        /\ conn' = "up" /\ ~gap' => Len(wire') = 1
    BY <1>1, <2>1, <2>3, <2>4, <2>5, SendStep
  <2>7. Sent' = 1 /\ ~BeforeGreeting'
    BY <2>1, <2>2 DEF Sent, BeforeGreeting
  <2> QED
    BY <2>6, <2>7 DEF WireInv
<1>11. CASE SendFront
  <2>1. /\ wpc = "send" /\ wpc' = "pop" /\ Send(Head(m_queue))
        /\ UNCHANGED <<pushed, popped>>
    BY <1>11 DEF SendFront
  <2>2. popped \in Nat /\ m_queue # <<>>
    BY <1>1, <2>1 DEF TypeOK, LockInv
  <2>3. /\ popped + 2 \in 1 .. Len(Stream)
        /\ Stream[popped + 2] = Head(m_queue)
        /\ Head(m_queue) \in Msg \cup {Hello}
    BY <1>1, <2>2, FrontPlace
  <2>4. (gap => TransientErrors) /\ (conn = "up" => wsock = "open")
    BY <1>1, <2>1 DEF WireInv, PhaseInv
  <2>5. Sent = popped + 1 /\ (popped + 2) - 1 = popped + 1
    BY <2>1, <2>2 DEF Sent
  <2>6. /\ \A i \in 1 .. Len(wire) : \E a \in 1 .. (popped + 2) - 1 : wire[i] = Stream[a]
        /\ conn = "up" /\ ~gap => Len(wire) = (popped + 2) - 1
    BY <1>1, <2>1, <2>5 DEF WireInv
  <2>7. /\ PrefixDelivery' /\ OrderedDelivery' /\ (gap' => TransientErrors)
        /\ \A i \in 1 .. Len(wire') : \E a \in 1 .. popped + 2 : wire'[i] = Stream'[a]
        /\ conn' = "up" /\ ~gap' => Len(wire') = popped + 2
    BY <1>1, <2>1, <2>3, <2>4, <2>6, SendStep
  <2>8. Sent' = popped + 2 /\ ~BeforeGreeting'
    BY <2>1, <2>2 DEF Sent, BeforeGreeting
  <2> QED
    BY <2>7, <2>8 DEF WireInv
<1> QED
  BY <1>4, <1>5, <1>6, <1>7, <1>8, <1>9, <1>10, <1>11
     DEF Next, StopStep, WorkerStep, Finished

-----------------------------------------------------------------------------
(* The whole invariant: Init => IInv and IInv /\ [Next]_vars => IInv'.     *)
THEOREM Invariance == Spec => []IInv
<1>1. ASSUME IInv, [Next]_vars PROVE IInv'
  <2>1. TypeOK /\ LockInv /\ NothingLostInQueue /\ PhaseInv
    BY <1>1 DEF IInv
  <2> QED
    BY <1>1, <2>1, TypeStep, LockStep, QueueStep, PhaseStep, WireStep DEF IInv
<1> QED
  BY <1>1, Initially, PTL DEF Spec

(* Every variable keeps its type, for any number of callers and calls.     *)
THEOREM TypeCorrect == Spec => []TypeOK
  BY Invariance, PTL DEF IInv

(* No two threads are ever inside an operation on m_queue.                 *)
THEOREM QueueIsExclusive == Spec => []NoQueueRace
<1>1. IInv => NoQueueRace
  BY DEF IInv, LockInv, NoQueueRace, TypeOK
<1> QED
  BY <1>1, Invariance, PTL

(* The queue is what was pushed without what was popped.                   *)
THEOREM QueueLosesNothing == Spec => []NothingLostInQueue
  BY Invariance, PTL DEF IInv

(* Without failed sends the client's bytes are a prefix of the stream.     *)
THEOREM PrefixOfStream == Spec => []PrefixDelivery
  BY Invariance, PTL DEF IInv

(* Whatever fails, the client sees the messages in order.                  *)
THEOREM InOrder == Spec => []OrderedDelivery
  BY Invariance, PTL DEF IInv

(* After stop() the worker is gone: it never sends or pops again.          *)
THEOREM StopEndsTheWorker == Spec => StopIsFinal
<1>1. IInv /\ [Next]_vars => [cpc = "stopped" => UNCHANGED <<wpc, wsock, popped, wire>>]_vars
  <2> SUFFICES ASSUME IInv, Next, cpc = "stopped"
               PROVE  UNCHANGED <<wpc, wsock, popped, wire>>
    OBVIOUS
  <2>1. wpc \in {"none", "done"}
    BY DEF IInv, PhaseInv
  <2> USE DEF vars, control, shared, network, worker, queue, caller, Control,
              WorkerGoes, CallerGoes
  <2>2. ~WorkerStep /\ ~WorkerLock /\ ~StopStep
    BY <2>1 DEF WorkerStep, WorkerLock, OuterTest, HelloSocket, HelloSend,
                InnerTest, DrainNext, DrainEmpty, SendFront, Pop, WorkerUnlock,
                StopStep, CloseListen, CloseClient, ForgetClient, Join
  <2>3. /\ ~InitConnectionFails /\ ~Listen /\ ~AcceptClient /\ ~AcceptFails
        /\ ~Activate /\ ~Spawn /\ ~StopWithoutWorker /\ ~StopWorker
    BY DEF InitConnectionFails, Listen, AcceptClient, AcceptFails, Activate,
           Spawn, StopWithoutWorker, StopWorker
  <2> QED
    BY <2>2, <2>3 DEF Next, Enqueue, CallerLock, Push, CallerUnlock, ClientRead,
                      ClientQuits, Finished
<1> QED
  BY <1>1, Invariance, PTL DEF Spec, StopIsFinal

-----------------------------------------------------------------------------
(* The refinement.  A send is where a message leaves pending: it is        *)
(* transmitted or lost; Pop, which takes it from m_queue, is a stutter.    *)
THEOREM Refinement == Spec => ImplementsChannel
<1> DEFINE pending == IF wpc = "pop" THEN Tail(m_queue) ELSE m_queue
           phase   == CASE conn = "none" -> "waiting" [] conn = "up" -> "open"
                        [] OTHER -> "over"
<1>1. Init => Channel!Init
  BY DEF Init, Channel!Init
<1>2. ASSUME IInv, [Next]_vars PROVE [Channel!Next]_(Channel!vars)
  <2> USE DEF vars, control, shared, network, worker, queue, caller, Control,
              WorkerGoes, CallerGoes, Channel!vars
  <2>1. /\ TypeOK /\ LockInv /\ PhaseInv /\ WireInv
    BY <1>2 DEF IInv
  <2>2. ASSUME UNCHANGED <<pending, phase, wire, read>>
        PROVE  UNCHANGED Channel!vars
    BY <2>2
  <2>3. CASE \/ InitConnectionFails \/ Listen \/ AcceptFails \/ Activate \/ Spawn
             \/ StopWithoutWorker \/ StopWorker \/ CloseListen \/ ForgetClient
             \/ Join \/ OuterTest \/ HelloSocket \/ InnerTest \/ WorkerLock
             \/ DrainNext \/ DrainEmpty \/ Pop \/ WorkerUnlock \/ UNCHANGED vars
             \/ \E p \in Callers : Enqueue(p) \/ CallerLock(p) \/ CallerUnlock(p)
    BY <2>1, <2>2, <2>3
       DEF InitConnectionFails, Listen, AcceptFails, Activate, Spawn, PhaseInv,
           StopWithoutWorker, StopWorker, CloseListen, ForgetClient, Join,
           OuterTest, HelloSocket, InnerTest, WorkerLock, DrainNext, DrainEmpty,
           Pop, WorkerUnlock, Enqueue, CallerLock, CallerUnlock
  <2>4. CASE AcceptClient
    BY <2>1, <2>4 DEF AcceptClient, PhaseInv, Channel!Next, Channel!Open
  <2>5. CASE CloseClient \/ ClientQuits
    <3>1. conn # "none" /\ conn' \in {"reset", "closed"}
      BY <2>1, <2>5 DEF CloseClient, ClientQuits, PhaseInv, TypeOK
    <3>2. UNCHANGED <<pending, wire, read>> /\ phase' = "over"
      BY <2>5, <3>1 DEF CloseClient, ClientQuits
    <3> QED
      BY <2>2, <3>1, <3>2 DEF Channel!Next, Channel!Close, TypeOK
  <2>6. CASE ClientRead
    BY <2>6 DEF ClientRead, Channel!Next, Channel!ReadNext
  <2>7. ASSUME Send(Hello), HelloSend
        PROVE  Channel!Greet \/ UNCHANGED Channel!vars
    <3>1. wpc = "helloSend" /\ wpc' = "inner" /\ UNCHANGED <<m_queue, conn, read>>
      BY <2>7 DEF HelloSend, Send
    <3>2. wire = <<>>
      BY <2>1, <3>1 DEF WireInv, BeforeGreeting
    <3>3. UNCHANGED <<pending, phase>>
      BY <3>1
    <3>4. CASE conn = "up" /\ wire' = Append(wire, Hello)
      BY <3>1, <3>2, <3>3, <3>4 DEF Channel!Greet
    <3>5. CASE UNCHANGED wire
      BY <2>2, <3>1, <3>3, <3>5
    <3> QED
      BY <2>7, <3>4, <3>5 DEF Send
  <2>8. CASE SendFront
    <3>1. /\ wpc = "send" /\ wpc' = "pop"
          /\ UNCHANGED <<m_queue, conn, read>>
          /\ Send(Head(m_queue)) /\ m_queue # <<>>
      BY <2>1, <2>8 DEF SendFront, Send, LockInv
    <3>2. pending = m_queue /\ pending' = Tail(m_queue) /\ UNCHANGED phase
      BY <3>1
    <3>3. CASE conn = "up" /\ wire' = Append(wire, Head(m_queue))
      <4>1. wire # <<>> \/ TransientErrors
        BY <2>1, <3>1, <3>3 DEF WireInv, Sent, TypeOK
      <4> QED
        BY <3>1, <3>2, <3>3, <4>1 DEF Channel!Next, Channel!Transmit
    <3>4. CASE UNCHANGED wire /\ SendFails
      <4>1. conn # "none" /\ (conn = "up" => wsock = "open")
        BY <2>1, <3>1 DEF PhaseInv
      <4>2. phase = "over" \/ TransientErrors
        BY <2>1, <3>4, <4>1 DEF SendFails, TypeOK
      <4> QED
        BY <3>1, <3>2, <3>4, <4>2 DEF Channel!Next, Channel!Lose, Channel!Lossy
    <3> QED
      BY <3>1, <3>3, <3>4 DEF Send
  <2>9. ASSUME NEW p \in Callers, Push(p)
        PROVE  Channel!Next
    <3>1. <<p, calls[p]>> \in Msg
      BY <2>1, <2>9 DEF Push, TypeOK, LockInv, Msg
    <3>2. wpc # "pop" /\ wpc' = wpc
      BY <2>1, <2>9 DEF Push, LockInv, CallerInside, WorkerInside
    <3>3. Channel!Accept(<<p, calls[p]>>)
      BY <2>9, <3>2 DEF Push, Channel!Accept
    <3> QED
      BY <3>1, <3>3 DEF Channel!Next
  <2> QED
    BY <1>2, <2>3, <2>4, <2>5, <2>6, <2>7, <2>8, <2>9
       DEF Next, StopStep, WorkerStep, Finished, HelloSend, Channel!Next
<1> QED
  BY <1>1, <1>2, Invariance, PTL DEF Spec, ImplementsChannel, Channel!Spec

=============================================================================
