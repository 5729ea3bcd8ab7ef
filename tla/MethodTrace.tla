----------------------------- MODULE MethodTrace -----------------------------
(***************************************************************************)
(* The agent and its server in one process.  Agent_OnLoad starts the       *)
(* server before any Java code runs; the natives call                      *)
(* enqueue_for_sending() and wait for m_queue_lock with m_lock held, while *)
(* the worker holds m_queue_lock across send(); Agent_OnUnload calls       *)
(* stop(), in the thread that ran VMDeath.  JVMAgent and NetworkServer     *)
(* keep their actions: this module says which of them are one step.        *)
(***************************************************************************)
EXTENDS JVMAgent

CONSTANTS Worker, WindowSize, TransientErrors, MaxMessages  \* see NetworkServer

ASSUME MethodTraceAssumption ==
  /\ Worker \notin Threads \cup {NoOne}
  /\ MaxMessages \in Nat
  /\ WindowSize \in Nat \ {0}
  /\ TransientErrors \in BOOLEAN

VARIABLES
  cpc, m_worker_active, m_listen_socket, m_client_socket, conn, read,
  wpc, wsock, m_queue_lock, m_queue, ppc, messages, pushed, popped, wire, gap

Server == INSTANCE NetworkServer WITH
  Callers <- Threads, MaxCalls <- MaxMessages, calls <- messages

server == <<cpc, m_worker_active, m_listen_socket, m_client_socket, conn, read, wpc,
            wsock, m_queue_lock, m_queue, ppc, messages, pushed, popped, wire, gap>>
process == <<vars, server>>

TraceInit == Init /\ Server!Init

Alive == vm # "aborted"

-----------------------------------------------------------------------------
(* Agent_OnLoad: start() comes last, and fails with the whole process.     *)

StartServer ==
  /\ vm = "onload"
  /\ Server!Listen \/ Server!AcceptClient \/ Server!AcceptFails
     \/ Server!Activate \/ Server!Spawn
  /\ UNCHANGED vars

StartFails == vm = "onload" /\ Server!InitConnectionFails /\ UNCHANGED pc /\ Fatal("onload")

Loads ==
  /\ \/ OnLoad /\ cpc = "running"
     \/ OnLoadFails /\ cpc = "start"
  /\ UNCHANGED server

(* Steps of the agent that do not concern the server.                      *)
AgentStep(A) == A /\ UNCHANGED server

-----------------------------------------------------------------------------
(* A native in enqueue_for_sending().                                      *)

EnqueueCall(t) == pc[t] = "enqueue" /\ Alive /\ Server!Enqueue(t) /\ UNCHANGED vars
EnqueueLock(t) == Alive /\ Server!CallerLock(t) /\ UNCHANGED vars
EnqueuePush(t) == Alive /\ Server!Push(t) /\ UNCHANGED vars

(* Its return is the step Enqueue of JVMAgent.                             *)
EnqueueReturn(t) == Server!CallerUnlock(t) /\ Enqueue(t)

(* Agent_OnUnload in stop() ...                                            *)
Stops(t) ==
  /\ pc[t] = "unload" /\ Alive
  /\ Server!StopWithoutWorker \/ Server!StopWorker \/ Server!StopStep
  /\ UNCHANGED vars

(* ... and after it.                                                       *)
Unloaded(t) == OnUnload(t) /\ cpc = "stopped" /\ UNCHANGED server

WorkerRuns  == Alive /\ Server!WorkerStep /\ UNCHANGED vars
WorkerLocks == Alive /\ Server!WorkerLock /\ UNCHANGED vars
ClientRead  == Server!ClientRead /\ UNCHANGED vars
ClientQuits == Server!ClientQuits /\ UNCHANGED vars

-----------------------------------------------------------------------------
ServerCall(t) ==
  EnqueueCall(t) \/ EnqueuePush(t) \/ EnqueueReturn(t) \/ Stops(t) \/ Unloaded(t)

TraceNext ==
  \/ StartServer \/ StartFails \/ Loads
  \/ AgentStep(PostVMStart) \/ AgentStep(PostVMInit)
  \/ AgentStep(MainStep) \/ AgentStep(VMInitLock) \/ AgentStep(VMInitFails)
  \/ \E t \in Threads :
       \/ AgentStep(Locks(t)) \/ AgentStep(Works(t)) \/ AgentStep(JavaCode(t))
       \/ AgentStep(VMDeathFails(t))
       \/ ServerCall(t) \/ EnqueueLock(t)
  \/ WorkerRuns \/ WorkerLocks
  \/ ClientRead \/ ClientQuits
  \/ AgentStep(Finished)

TraceSpec == TraceInit /\ [][TraceNext]_process

(* The fairness of both modules; nothing is assumed of the client.         *)
TraceFairness ==
  /\ WF_process(AgentStep(MainStep)) /\ SF_process(AgentStep(VMInitLock))
  /\ \A t \in Threads :
       /\ WF_process(AgentStep(Works(t)) \/ ServerCall(t))
       /\ SF_process(AgentStep(Locks(t))) /\ SF_process(EnqueueLock(t))
  /\ WF_process(WorkerRuns /\ Server!SendMustReturn) /\ SF_process(WorkerLocks)

FairTraceSpec == TraceSpec /\ TraceFairness

-----------------------------------------------------------------------------
(* The n-th message of thread t is the n-th of its messages in sent.       *)
Place(m) ==
  CHOOSE i \in 1 .. Len(sent) :
    /\ sent[i].thread = m[1]
    /\ Cardinality({j \in 1 .. i : sent[j].thread = m[1]}) = m[2]

(* The client gets the greeting and then a prefix of the trace, in the one *)
(* order in which the threads entered and left their methods: the two      *)
(* locks, held one inside the other, give a single order.                  *)
WireIsTrace ==
  ~gap => \A i \in 1 .. Len(wire) :
    IF i = 1 THEN wire[i] = Server!Hello
    ELSE /\ i - 1 <= Len(sent)
         /\ wire[i][1] = sent[i - 1].thread
         /\ Place(wire[i]) = i - 1

(* Once Agent_OnUnload stops the server no thread is inside                *)
(* enqueue_for_sending(), and none calls it any more: the queue and its    *)
(* mutex may be destroyed.                                                 *)
NoCallDuringStop ==
  (\E t \in Threads : pc[t] = "unload") \/ vm = "unloaded"
    => \A t \in Threads : ppc[t] = "idle" /\ pc[t] # "enqueue"

ClientReads == WF_process(ClientRead)

(* With a client that reads, an end of the VM gets through VMDeath and     *)
(* stop().  Without: a native waits for the queue with m_lock held, VMDeath*)
(* waits for m_lock, and stop(), which would break the connection, comes   *)
(* only after VMDeath.                                                     *)
EndCompletes == ClientReads => DeathCompletes

(* With a client that reads, a traced call comes back.                     *)
CallsReturn == ClientReads => BridgeReturns

(* With a client that reads, what a native reported arrives, unless the    *)
(* connection or the VM ends first.                                        *)
TraceArrives == ClientReads =>
  \A n \in 1 .. MaxMessages :
    (Len(sent) >= n) ~> (read > n \/ conn # "up" \/ gap \/ vm \in {"dying", "aborted"})

=============================================================================
