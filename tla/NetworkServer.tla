---------------------------- MODULE NetworkServer ----------------------------
(***************************************************************************)
(* NetworkServer.cpp: the trace messages of the instrumented threads go    *)
(* through a locked queue to one worker thread, which sends them to one    *)
(* TCP client.  Four kinds of actors interleave here:                      *)
(*   - the control thread, which runs start() from Agent_OnLoad and stop() *)
(*     from Agent_OnUnload (cpc);                                          *)
(*   - the worker thread, worker_body() (wpc);                             *)
(*   - the callers of enqueue_for_sending() (ppc);                         *)
(*   - the client and the operating system's TCP connection (conn, read).  *)
(* m_worker_active and m_client_socket are shared without a lock: every    *)
(* read and every write of them is a step of its own.                      *)
(***************************************************************************)
EXTENDS Naturals, Sequences

CONSTANTS
  Callers,          \* threads that call enqueue_for_sending
  Worker,           \* the worker thread, as owner of the queue lock
  NoOne,            \* the queue lock is free
  MaxCalls,         \* bound: calls of enqueue_for_sending by each caller
  WindowSize,       \* messages the connection holds before send() blocks
  TransientErrors   \* TRUE: send() may fail while the connection is up

ASSUME NetworkServerAssumption ==
  /\ Worker \notin Callers
  /\ NoOne \notin Callers \cup {Worker}
  /\ MaxCalls \in Nat
  /\ WindowSize \in Nat \ {0}
  /\ TransientErrors \in BOOLEAN

Msg   == Callers \X (1 .. MaxCalls)  \* <<p, n>>: the text of the n-th call of p
Hello == <<Worker, 0>>              \* the greeting of worker_body

VARIABLES
  cpc, m_worker_active, m_listen_socket, m_client_socket,
  conn, read,
  wpc, wsock,
  m_queue_lock, m_queue,
  ppc, calls,
  pushed, popped, wire, gap  \* history: see TypeOK

shared  == <<m_worker_active, m_client_socket>>
control == <<cpc, m_listen_socket, shared>>
network == <<conn, read, wire, gap>>
worker  == <<wpc, wsock>>
queue   == <<m_queue_lock, m_queue, pushed, popped>>
caller  == <<ppc, calls>>
vars    == <<control, network, worker, queue, caller>>

Socket == {"zero", "open", "invalid"}

TypeOK ==
  /\ cpc \in {"start", "accept", "activate", "spawn", "running", "closing",
              "closeClient", "forget", "join", "stopped", "exited"}
  /\ m_worker_active \in BOOLEAN
  /\ m_listen_socket \in Socket
  /\ m_client_socket \in Socket
  /\ conn \in {"none", "up", "reset", "closed"}
  /\ wpc \in {"none", "outer", "hello", "helloSend", "inner", "lock", "drain",
              "send", "pop", "unlock", "done"}
  /\ wsock \in Socket                       \* the worker's argument of send()
  /\ m_queue_lock \in Callers \cup {Worker, NoOne}
  /\ m_queue \in Seq(Msg)
  /\ ppc \in [Callers -> {"idle", "lock", "push", "unlock"}]
  /\ calls \in [Callers -> 0 .. MaxCalls]
  /\ pushed \in Seq(Msg)                    \* all messages ever pushed
  /\ popped \in Nat                         \* how many the worker popped
  /\ wire \in Seq(Msg \cup {Hello})         \* all the kernel accepted
  /\ read \in 0 .. Len(wire)                \* how much the client has read
  /\ gap \in BOOLEAN                        \* a send failed on a live connection

Init ==
  /\ cpc = "start"
  /\ m_worker_active = FALSE
  /\ m_listen_socket = "zero"
  /\ m_client_socket = "zero"
  /\ conn = "none"
  /\ wpc = "none"
  /\ wsock = "zero"
  /\ m_queue_lock = NoOne
  /\ m_queue = <<>>
  /\ ppc = [p \in Callers |-> "idle"]
  /\ calls = [p \in Callers |-> 0]
  /\ pushed = <<>>
  /\ popped = 0
  /\ wire = <<>>
  /\ read = 0
  /\ gap = FALSE

-----------------------------------------------------------------------------
(* A step of each actor moves its program counter and, but for what the    *)
(* action says, leaves the others' state alone.                            *)
Control(from, to) == cpc = from /\ cpc' = to /\ UNCHANGED <<worker, queue, caller>>

WorkerGoes(from, to) == wpc = from /\ wpc' = to /\ UNCHANGED <<control, caller>>

CallerGoes(p, from, to) ==
  /\ ppc[p] = from
  /\ ppc' = [ppc EXCEPT ![p] = to]
  /\ UNCHANGED <<control, worker, network>>

-----------------------------------------------------------------------------
(* start(): init_client_connection(), then the worker thread.              *)

(* WSAStartup, socket or bind fails: fatal_error() ends the process.       *)
InitConnectionFails ==
  Control("start", "exited") /\ UNCHANGED <<shared, m_listen_socket, network>>

Listen ==
  /\ Control("start", "accept")
  /\ m_listen_socket' = "open"
  /\ UNCHANGED <<shared, network>>

(* accept() blocks the loading JVM until a client connects ...             *)
AcceptClient ==
  /\ Control("accept", "activate")
  /\ m_client_socket' = "open"
  /\ conn' = "up"
  /\ UNCHANGED <<m_worker_active, m_listen_socket, read, wire, gap>>

(* ... or fails: start() returns and there never is a worker.              *)
AcceptFails ==
  /\ Control("accept", "running")
  /\ m_client_socket' = "invalid"
  /\ UNCHANGED <<m_worker_active, m_listen_socket, network>>

Activate ==
  /\ Control("activate", "spawn")
  /\ m_worker_active' = TRUE
  /\ UNCHANGED <<m_listen_socket, m_client_socket, network>>

Spawn ==
  /\ cpc = "spawn" /\ cpc' = "running"
  /\ wpc' = "outer"
  /\ UNCHANGED <<shared, m_listen_socket, wsock, network, queue, caller>>

-----------------------------------------------------------------------------
(* stop(): nothing to do without a worker; otherwise clear the flag, close *)
(* both sockets and join.                                                  *)

StopWithoutWorker ==
  /\ Control("running", "stopped")
  /\ ~m_worker_active
  /\ UNCHANGED <<shared, m_listen_socket, network>>

(* Mutant: the flag stays set.                                             *)
StopWorkerNot ==
  /\ Control("running", "closing")
  /\ m_worker_active
  /\ UNCHANGED <<m_listen_socket, shared, network>>

StopWorker ==
  /\ Control("running", "closing")
  /\ m_worker_active
  /\ m_worker_active' = FALSE
  /\ UNCHANGED <<m_listen_socket, m_client_socket, network>>

CloseListen ==
  /\ Control("closing", "closeClient")
  /\ m_listen_socket' = "invalid"
  /\ UNCHANGED <<shared, network>>

(* Mutant: the handle is forgotten without shutdown and closesocket.       *)
CloseClientNot ==
  Control("closeClient", "forget") /\ UNCHANGED <<shared, m_listen_socket, network>>

(* shutdown and closesocket: a send() in progress fails from here on.      *)
CloseClient ==
  /\ Control("closeClient", "forget")
  /\ conn' = IF m_client_socket # "invalid" THEN "closed" ELSE conn
  /\ UNCHANGED <<shared, m_listen_socket, read, wire, gap>>

ForgetClient ==
  /\ Control("forget", "join")
  /\ m_client_socket' = "invalid"
  /\ UNCHANGED <<m_worker_active, m_listen_socket, network>>

(* Mutant: stop() does not wait for the worker.                            *)
JoinNot == Control("join", "stopped") /\ UNCHANGED <<shared, m_listen_socket, network>>

Join ==
  /\ Control("join", "stopped")
  /\ wpc = "done"
  /\ UNCHANGED <<shared, m_listen_socket, network>>

-----------------------------------------------------------------------------
(* worker_body().                                                          *)

OuterTest ==
  /\ WorkerGoes("outer", IF m_worker_active THEN "hello" ELSE "done")
  /\ UNCHANGED <<wsock, network, queue>>

(* Each send() reads m_client_socket first.                                *)
HelloSocket ==
  /\ WorkerGoes("hello", "helloSend")
  /\ wsock' = m_client_socket
  /\ UNCHANGED <<network, queue>>

(* send(), as far as its caller can tell: it returns once the kernel took  *)
(* the message or it failed, and blocks while the window of a live         *)
(* connection is full.  The caller ignores the result.                     *)
SendFails == wsock # "open" \/ conn # "up" \/ TransientErrors

SendBlocks == wsock = "open" /\ conn = "up" /\ Len(wire) - read >= WindowSize

Send(m) ==
  /\ UNCHANGED <<conn, read, wsock>>
  /\ \/ /\ wsock = "open" /\ conn = "up" /\ ~SendBlocks
        /\ wire' = Append(wire, m)
        /\ UNCHANGED gap
     \/ /\ SendFails
        /\ gap' = (gap \/ conn = "up")
        /\ UNCHANGED wire

HelloSend == WorkerGoes("helloSend", "inner") /\ Send(Hello) /\ UNCHANGED queue

InnerTest ==
  /\ WorkerGoes("inner", IF m_worker_active THEN "lock" ELSE "outer")
  /\ UNCHANGED <<wsock, network, queue>>

WorkerLock ==
  /\ WorkerGoes("lock", "drain")
  /\ m_queue_lock = NoOne
  /\ m_queue_lock' = Worker
  /\ UNCHANGED <<wsock, network, m_queue, pushed, popped>>

DrainNext ==
  /\ WorkerGoes("drain", "send")
  /\ m_queue # <<>>
  /\ wsock' = m_client_socket
  /\ UNCHANGED <<network, queue>>

DrainEmpty ==
  /\ WorkerGoes("drain", "unlock")
  /\ m_queue = <<>>
  /\ UNCHANGED <<wsock, network, queue>>

(* Mutant: the youngest message is sent, then the oldest popped.           *)
SendBack ==
  WorkerGoes("send", "pop") /\ Send(m_queue[Len(m_queue)]) /\ UNCHANGED queue

(* The lock is held across the blocking send().                            *)
SendFront == WorkerGoes("send", "pop") /\ Send(Head(m_queue)) /\ UNCHANGED queue

(* Mutants: the queue is emptied at once; a message may stay for another   *)
(* round.                                                                  *)
PopAll ==
  /\ WorkerGoes("pop", "drain")
  /\ m_queue' = <<>>
  /\ popped' = popped + 1
  /\ UNCHANGED <<wsock, network, m_queue_lock, pushed>>

PopOrRetry ==
  /\ WorkerGoes("pop", "drain")
  /\ \/ m_queue' = Tail(m_queue) /\ popped' = popped + 1
     \/ UNCHANGED <<m_queue, popped>>
  /\ UNCHANGED <<wsock, network, m_queue_lock, pushed>>

(* The message leaves the queue whether or not it was sent.                *)
Pop ==
  /\ WorkerGoes("pop", "drain")
  /\ m_queue' = Tail(m_queue)
  /\ popped' = popped + 1
  /\ UNCHANGED <<wsock, network, m_queue_lock, pushed>>

(* Mutant: the queue is drained once, not in a loop.                       *)
WorkerUnlockOnce ==
  /\ WorkerGoes("unlock", "done")
  /\ m_queue_lock' = NoOne
  /\ UNCHANGED <<wsock, network, m_queue, pushed, popped>>

WorkerUnlock ==
  /\ WorkerGoes("unlock", "inner")
  /\ m_queue_lock' = NoOne
  /\ UNCHANGED <<wsock, network, m_queue, pushed, popped>>

-----------------------------------------------------------------------------
(* enqueue_for_sending().                                                  *)

(* No instrumented code runs before Agent_OnLoad, hence start(), returns.  *)
Started == cpc \notin {"start", "accept", "activate", "spawn", "exited"}

Enqueue(p) ==
  /\ Started
  /\ CallerGoes(p, "idle", "lock")
  /\ calls[p] < MaxCalls
  /\ calls' = [calls EXCEPT ![p] = @ + 1]
  /\ UNCHANGED queue

(* Mutant: the queue is pushed to without its lock.                        *)
CallerLockNot(p) == CallerGoes(p, "lock", "push") /\ UNCHANGED <<calls, queue>>

CallerLock(p) ==
  /\ CallerGoes(p, "lock", "push")
  /\ m_queue_lock = NoOne
  /\ m_queue_lock' = p
  /\ UNCHANGED <<calls, m_queue, pushed, popped>>

(* Mutant: the text is taken from the caller after it moved on.            *)
PushStale(p) ==
  /\ CallerGoes(p, "push", "unlock")
  /\ m_queue' = Append(m_queue, <<p, calls[p] + 1>>)
  /\ pushed' = Append(pushed, <<p, calls[p] + 1>>)
  /\ UNCHANGED <<calls, m_queue_lock, popped>>

Push(p) ==
  /\ CallerGoes(p, "push", "unlock")
  /\ m_queue' = Append(m_queue, <<p, calls[p]>>)
  /\ pushed' = Append(pushed, <<p, calls[p]>>)
  /\ UNCHANGED <<calls, m_queue_lock, popped>>

(* Mutant: the lock is not released.                                       *)
CallerUnlockNot(p) == CallerGoes(p, "unlock", "idle") /\ UNCHANGED <<calls, queue>>

CallerUnlock(p) ==
  /\ CallerGoes(p, "unlock", "idle")
  /\ m_queue_lock' = NoOne
  /\ UNCHANGED <<calls, m_queue, pushed, popped>>

-----------------------------------------------------------------------------
(* The client and its connection.  What the kernel accepted stays readable *)
(* after stop() closed the socket; a client that went away reads no more.  *)

ClientRead ==
  /\ conn \in {"up", "closed"}
  /\ read < Len(wire)
  /\ read' = read + 1
  /\ UNCHANGED <<control, worker, queue, caller, conn, wire, gap>>

ClientQuits ==
  /\ conn = "up"
  /\ conn' = "reset"
  /\ UNCHANGED <<control, worker, queue, caller, read, wire, gap>>

-----------------------------------------------------------------------------

StopStep   == CloseListen \/ CloseClient \/ ForgetClient \/ Join
WorkerStep == OuterTest \/ HelloSocket \/ HelloSend \/ InnerTest \/ DrainNext
              \/ DrainEmpty \/ SendFront \/ Pop \/ WorkerUnlock

(* The process has ended, or stop() returned and every caller is through.  *)
Finished ==
  /\ \/ cpc = "exited"
     \/ cpc = "stopped" /\ \A p \in Callers : ppc[p] = "idle" /\ calls[p] = MaxCalls
  /\ UNCHANGED vars

Next ==
  \/ InitConnectionFails \/ Listen \/ AcceptClient \/ AcceptFails
  \/ Activate \/ Spawn
  \/ StopWithoutWorker \/ StopWorker \/ StopStep
  \/ WorkerStep \/ WorkerLock
  \/ \E p \in Callers : Enqueue(p) \/ CallerLock(p) \/ Push(p) \/ CallerUnlock(p)
  \/ ClientRead \/ ClientQuits
  \/ Finished

Spec == Init /\ [][Next]_vars

(* The scheduler runs every thread that can run.  std::mutex of the build  *)
(* the Makefile names (Visual C++ 12) queues its waiters, so a waiter that *)
(* keeps finding the lock free in between gets it: strong fairness.  A     *)
(* send() blocked on a live connection may fail but need not.              *)
(* Nothing is assumed of the client, of accept() or of the call of stop(): *)
(* a property that needs a client who reads says so.                       *)
SendMustReturn == wpc \in {"helloSend", "send"} => ~SendBlocks

Fairness ==
  /\ WF_vars(Activate) /\ WF_vars(Spawn)
  /\ WF_vars(StopStep)
  /\ WF_vars(WorkerStep /\ SendMustReturn)
  /\ SF_vars(WorkerLock)
  /\ \A p \in Callers : /\ SF_vars(CallerLock(p))
                        /\ WF_vars(Push(p) \/ CallerUnlock(p))

FairSpec == Spec /\ Fairness

-----------------------------------------------------------------------------
(* Safety.                                                                 *)

WorkerInside == wpc \in {"drain", "send", "pop", "unlock"}
CallerInside(p) == ppc[p] \in {"push", "unlock"}

(* No two threads are ever inside an operation on m_queue: the reference   *)
(* front() returned stays valid across the send, and no push meets a pop.  *)
NoQueueRace ==
  /\ \A p \in Callers : ~(WorkerInside /\ CallerInside(p))
  /\ \A p, q \in Callers : p # q => ~(CallerInside(p) /\ CallerInside(q))

(* Every pushed message is popped exactly once and in order: the queue is  *)
(* what was pushed without what was popped, whatever stop() and the client *)
(* do meanwhile.                                                           *)
NothingLostInQueue ==
  /\ Len(pushed) = popped + Len(m_queue)
  /\ \A i \in 1 .. Len(m_queue) : m_queue[i] = pushed[popped + i]

(* What should have been sent if nothing failed.                           *)
Stream == <<Hello>> \o pushed

(* While no send failed on a live connection, the client's bytes are a     *)
(* prefix of the greeting followed by all messages in the order they were  *)
(* enqueued: stop(), a blocked send or a lost client only cut the stream,  *)
(* they leave no hole in it.                                               *)
PrefixDelivery ==
  ~gap => /\ Len(wire) <= Len(Stream)
          /\ \A i \in 1 .. Len(wire) : wire[i] = Stream[i]

(* Even with sends that fail in between, the client never sees two         *)
(* messages in the wrong order nor one of them twice.                      *)
OrderedDelivery ==
  \A i, j \in 1 .. Len(wire) :
    i < j => \E a, b \in 1 .. Len(Stream) :
                a < b /\ wire[i] = Stream[a] /\ wire[j] = Stream[b]

(* Once stop() has returned the worker touches neither queue nor socket:   *)
(* the object may be destroyed (JVMAgent::~JVMAgent does).                 *)
StopIsFinal ==
  [][cpc = "stopped" => UNCHANGED <<wpc, wsock, popped, wire>>]_vars

(* Refinement: the server is a FIFO channel that loses messages only when  *)
(* the connection is over or a send failed.                                *)
Channel == INSTANCE TraceChannel WITH
  pending <- IF wpc = "pop" THEN Tail(m_queue) ELSE m_queue,
  phase   <- CASE conn = "none" -> "waiting" [] conn = "up" -> "open" [] OTHER -> "over"

ImplementsChannel == Channel!Spec

-----------------------------------------------------------------------------
(* Liveness.                                                               *)

(* stop() returns whatever the client does: closing the socket releases a  *)
(* worker blocked in send(), and the worker sees the cleared flag.         *)
StopReturns == (cpc = "closing") ~> (cpc = "stopped")

ClientReads == WF_vars(ClientRead)

(* With a client that reads, an enqueued message reaches it unless the     *)
(* connection goes first or a send fails.                                  *)
Delivered == ClientReads =>
  \A p \in Callers, n \in 1 .. MaxCalls :
    (\E i \in 1 .. Len(pushed) : pushed[i] = <<p, n>>)
      ~> (conn # "up" \/ gap \/ \E i \in 1 .. read : wire[i] = <<p, n>>)

=============================================================================
