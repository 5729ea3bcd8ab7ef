-------------------------- MODULE MethodTraceProofs --------------------------
(***************************************************************************)
(* The agent and the server in one process, for any number of threads,     *)
(* classes and messages: the composition implements both of its parts, so  *)
(* that everything proved of JVMAgent and of NetworkServer holds in it; the*)
(* server is not called once it is stopped; and the client gets the trace  *)
(* in the order in which the natives ran.                                  *)
(*                                                                         *)
(* The last two need what neither part knows: a thread is in the server    *)
(* only at line "enqueue" of its native (InServer), where m_lock keeps the *)
(* others out, so that what was pushed is what was reported, but for the   *)
(* one message that a native has pushed and not yet returned from          *)
(* (PushInv), which the worker cannot have seen (WireInv).                 *)
(***************************************************************************)
EXTENDS MethodTrace, JVMAgentProofs, FiniteSetTheorems

Proved == INSTANCE NetworkServerProofs WITH
  Callers <- Threads, MaxCalls <- MaxMessages, calls <- messages

-----------------------------------------------------------------------------
InServer == \A t \in Threads : ppc[t] # "idle" => pc[t] = "enqueue"

(* How many of the first n messages in s are of thread t.                  *)
CountIn(s, t, n) == Cardinality({j \in 1 .. n : s[j].thread = t})

(* The n-th message pushed is the n-th reported, and is numbered within    *)
(* its thread; a message pushed by a native that has not returned from the *)
(* server is one more.                                                     *)
PushInv ==
  /\ Len(pushed) = Len(sent) + IF \E t \in Threads : ppc[t] = "unlock" THEN 1 ELSE 0
  /\ \A i \in 1 .. Len(sent) :
       pushed[i] = <<sent[i].thread, CountIn(sent, sent[i].thread, i)>>
  /\ \A t \in Threads :
       /\ messages[t] = CountIn(sent, t, Len(sent)) + IF ppc[t] = "idle" THEN 0 ELSE 1
       /\ ppc[t] = "unlock" => pushed[Len(pushed)] = <<t, messages[t]>>

(* Nothing is on the wire before its native has returned.                  *)
WireInv == ~gap => Len(wire) <= Len(sent) + 1

TraceInv == InServer /\ PushInv /\ WireInv

-----------------------------------------------------------------------------
USE JVMAgentAssumption, MethodTraceAssumption
    DEF vars, classLoading, java, agent, table, switches

(* The agent's part of a step of the process is one of its own steps: the  *)
(* return from enqueue_for_sending() is the step Enqueue of JVMAgent.      *)
LEMMA AgentStutters ==
  ASSUME TraceNext
  PROVE  [Next]_vars
<1>1. CASE \/ StartServer \/ WorkerRuns \/ WorkerLocks \/ ClientRead \/ ClientQuits
           \/ \E t \in Threads : EnqueueCall(t) \/ EnqueueLock(t) \/ EnqueuePush(t) \/ Stops(t)
  BY <1>1 DEF StartServer, WorkerRuns, WorkerLocks, ClientRead, ClientQuits, EnqueueCall,
              EnqueueLock, EnqueuePush, Stops
<1>2. CASE StartFails \/ Loads
  BY <1>2 DEF StartFails, Loads, OnLoadFails, Next
<1>3. CASE \E t \in Threads : EnqueueReturn(t) \/ Unloaded(t)
  BY <1>3 DEF EnqueueReturn, Unloaded, Next, CallsServer
<1> QED
  BY <1>1, <1>2, <1>3, Zenon DEF TraceNext, AgentStep, ServerCall, Next

(* The agent's part of every behaviour of the process is a behaviour of    *)
(* JVMAgent: with the server's steps in the place of its one step, nothing *)
(* that JVMAgentProofs proves is lost.                                     *)
THEOREM AgentInside == TraceSpec => Spec
<1>1. TraceInit => Init
  BY DEF TraceInit
<1>2. [TraceNext]_process => [Next]_vars
  BY AgentStutters DEF process
<1> QED
  BY <1>1, <1>2, PTL DEF TraceSpec, Spec

(* Proved is NetworkServerProofs, and in it NetworkServer, put into the    *)
(* process as Server is: their actions are the same.                       *)
LEMMA SameServer ==
  /\ Server!Init <=> Proved!Init
  /\ Server!InitConnectionFails <=> Proved!InitConnectionFails
  /\ Server!Listen <=> Proved!Listen
  /\ Server!AcceptClient <=> Proved!AcceptClient
  /\ Server!AcceptFails <=> Proved!AcceptFails
  /\ Server!Activate <=> Proved!Activate
  /\ Server!Spawn <=> Proved!Spawn
  /\ Server!StopWithoutWorker <=> Proved!StopWithoutWorker
  /\ Server!StopWorker <=> Proved!StopWorker
  /\ Server!StopStep <=> Proved!StopStep
  /\ Server!WorkerStep <=> Proved!WorkerStep
  /\ Server!WorkerLock <=> Proved!WorkerLock
  /\ Server!ClientRead <=> Proved!ClientRead
  /\ Server!ClientQuits <=> Proved!ClientQuits
  /\ \A t : Server!Enqueue(t) <=> Proved!Enqueue(t)
  /\ \A t : Server!CallerLock(t) <=> Proved!CallerLock(t)
  /\ \A t : Server!Push(t) <=> Proved!Push(t)
  /\ \A t : Server!CallerUnlock(t) <=> Proved!CallerUnlock(t)
<1> USE DEF Server!control, Proved!control, Server!shared, Proved!shared, Server!network,
            Proved!network, Server!worker, Proved!worker, Server!queue, Proved!queue,
            Server!caller, Proved!caller, Server!Control, Proved!Control,
            Server!WorkerGoes, Proved!WorkerGoes, Server!CallerGoes, Proved!CallerGoes
<1>1. Server!Init <=> Proved!Init
  BY DEF Server!Init, Proved!Init
<1>2. /\ Server!InitConnectionFails <=> Proved!InitConnectionFails
      /\ Server!Listen <=> Proved!Listen
      /\ Server!AcceptClient <=> Proved!AcceptClient
      /\ Server!AcceptFails <=> Proved!AcceptFails
      /\ Server!Activate <=> Proved!Activate
      /\ Server!Spawn <=> Proved!Spawn
  BY DEF Server!InitConnectionFails, Proved!InitConnectionFails, Server!Listen,
         Proved!Listen, Server!AcceptClient, Proved!AcceptClient, Server!AcceptFails,
         Proved!AcceptFails, Server!Activate, Proved!Activate, Server!Spawn, Proved!Spawn
<1>3. /\ Server!StopWithoutWorker <=> Proved!StopWithoutWorker
      /\ Server!StopWorker <=> Proved!StopWorker
      /\ Server!StopStep <=> Proved!StopStep
  BY DEF Server!StopWithoutWorker, Proved!StopWithoutWorker, Server!StopWorker,
         Proved!StopWorker, Server!StopStep, Proved!StopStep, Server!CloseListen,
         Proved!CloseListen, Server!CloseClient, Proved!CloseClient, Server!ForgetClient,
         Proved!ForgetClient, Server!Join, Proved!Join
<1>4. /\ Server!WorkerStep <=> Proved!WorkerStep
      /\ Server!WorkerLock <=> Proved!WorkerLock
  BY DEF Server!WorkerStep, Proved!WorkerStep, Server!WorkerLock, Proved!WorkerLock,
         Server!OuterTest, Proved!OuterTest, Server!HelloSocket, Proved!HelloSocket,
         Server!HelloSend, Proved!HelloSend, Server!InnerTest, Proved!InnerTest,
         Server!DrainNext, Proved!DrainNext, Server!DrainEmpty, Proved!DrainEmpty,
         Server!SendFront, Proved!SendFront, Server!Pop, Proved!Pop, Server!WorkerUnlock,
         Proved!WorkerUnlock, Server!Send, Proved!Send, Server!SendFails,
         Proved!SendFails, Server!SendBlocks, Proved!SendBlocks, Server!Hello,
         Proved!Hello
<1>5. /\ Server!ClientRead <=> Proved!ClientRead
      /\ Server!ClientQuits <=> Proved!ClientQuits
  BY DEF Server!ClientRead, Proved!ClientRead, Server!ClientQuits, Proved!ClientQuits
<1>6. ASSUME NEW t
      PROVE  /\ Server!Enqueue(t) <=> Proved!Enqueue(t)
             /\ Server!CallerLock(t) <=> Proved!CallerLock(t)
             /\ Server!Push(t) <=> Proved!Push(t)
             /\ Server!CallerUnlock(t) <=> Proved!CallerUnlock(t)
  BY DEF Server!Enqueue, Proved!Enqueue, Server!CallerLock, Proved!CallerLock,
         Server!Push, Proved!Push, Server!CallerUnlock, Proved!CallerUnlock,
         Server!Started, Proved!Started
<1> QED
  BY <1>1, <1>2, <1>3, <1>4, <1>5, <1>6

(* And so every step of the process is a step of the server, or of none of *)
(* its variables.                                                          *)
LEMMA ServerStutters ==
  ASSUME TraceNext
  PROVE  [Server!Next]_(Server!vars) /\ [Proved!Next]_(Proved!vars)
<1>1. UNCHANGED server \/ Server!Next
  BY DEF TraceNext, StartServer, StartFails, Loads, AgentStep, ServerCall, EnqueueCall,
         EnqueueLock, EnqueuePush, EnqueueReturn, Stops, Unloaded, WorkerRuns, WorkerLocks,
         ClientRead, ClientQuits, Server!Next
<1>2. UNCHANGED server \/ Proved!Next
  BY SameServer DEF TraceNext, StartServer, StartFails, Loads, AgentStep, ServerCall,
         EnqueueCall, EnqueueLock, EnqueuePush, EnqueueReturn, Stops, Unloaded, WorkerRuns,
         WorkerLocks, ClientRead, ClientQuits, Proved!Next
<1>3. UNCHANGED server => UNCHANGED Server!vars /\ UNCHANGED Proved!vars
  BY DEF server, Server!vars, Server!control, Server!shared, Server!network, Server!worker,
         Server!queue, Server!caller, Proved!vars, Proved!control, Proved!shared,
         Proved!network, Proved!worker, Proved!queue, Proved!caller
<1> QED
  BY <1>1, <1>2, <1>3

(* The server's part of every behaviour of the process is a behaviour of   *)
(* NetworkServer: the agent calls it as its environment there may.         *)
THEOREM ServerInside == TraceSpec => Server!Spec
<1>1. TraceInit => Server!Init
  BY DEF TraceInit
<1>2. [TraceNext]_process => [Server!Next]_(Server!vars)
  BY ServerStutters DEF process, server, Server!vars, Server!control, Server!shared,
                        Server!network, Server!worker, Server!queue, Server!caller
<1> QED
  BY <1>1, <1>2, PTL DEF TraceSpec, Server!Spec

(* The same of the instance whose theorems are cited.                      *)
LEMMA ServerInsideProved == TraceSpec => Proved!Spec
<1>1. TraceInit => Proved!Init
  BY SameServer DEF TraceInit
<1>2. [TraceNext]_process => [Proved!Next]_(Proved!vars)
  BY ServerStutters DEF process, server, Proved!vars, Proved!control, Proved!shared,
                        Proved!network, Proved!worker, Proved!queue, Proved!caller
<1> QED
  BY <1>1, <1>2, PTL DEF TraceSpec, Proved!Spec

(* The inductive invariant of NetworkServerProofs, in the process.         *)
LEMMA ServerInvariance == Proved!Spec => []Proved!IInv
  BY Proved!Invariance, MethodTraceAssumption, JVMAgentAssumption
     DEF Proved!NetworkServerAssumption

-----------------------------------------------------------------------------
(* The steps of the agent outside the server: they report nothing, and a   *)
(* native that is in the server stays there.                               *)
InServerKept == \A t \in Threads : pc[t] = "enqueue" => pc'[t] = "enqueue"

Moves == \E t \in Threads, from \in PC \ {"enqueue"} : \E to : Goes(t, from, to)

(* A thread that moves from elsewhere leaves those in the server where     *)
(* they are.                                                               *)
LEMMA MoveKeeps ==
  ASSUME PcTyped, Moves \/ UNCHANGED pc
  PROVE  InServerKept
  BY GoesOnly DEF InServerKept, Moves

(* Every step of the agent but Enqueue is such a move and reports nothing. *)
LEMMA AgentMoves ==
  ASSUME NEW t \in Threads,
         \/ OnLoadFails \/ PostVMStart \/ PostVMInit \/ MainStep \/ VMInitLock
         \/ VMInitFails \/ Locks(t) \/ Works(t) \/ JavaCode(t) \/ VMDeathFails(t)
         \/ OnUnload(t) \/ Finished
  PROVE  (Moves \/ UNCHANGED pc) /\ UNCHANGED sent
<1> USE DEF PC
<1>1. CASE OnLoadFails \/ VMInitFails \/ VMDeathFails(t) \/ Finished
  BY <1>1 DEF OnLoadFails, VMInitFails, VMDeathFails, Finished, Fatal
<1>2. CASE PostVMStart \/ PostVMInit \/ MainStep \/ VMInitLock
  BY <1>2 DEF PostVMStart, PostVMInit, MainStep, VMInitLock, VMStart, VMInitFind,
              VMInitRegister, VMInitEngage, VMInitEvents, VMInitUnlock, Enter, Leave, Moves
<1>3. CASE Locks(t) \/ OnUnload(t)
  BY <1>3 DEF Locks, HookLock, NativeLock, ThreadEventLock, VMDeathLock, OnUnload, Enter, Moves
<1>4. CASE JavaCode(t) \/ \E c \in Classes : BeginLoad(t, c)
  BY <1>4 DEF JavaCode, BeginThread, EndThread, PostVMDeath, BeginLoad, LoadUnhooked, Call,
              ReturnTraced, ReturnUntraced, Throw, Moves
<1>5. ASSUME NEW c \in Classes,
             \/ HookSkips(t, c) \/ HookNumbers(t, c) \/ HookAppends(t, c)
             \/ HookRewrites(t, c) \/ HookUnlock(t, c)
      PROVE  (Moves \/ UNCHANGED pc) /\ UNCHANGED sent
  BY <1>5 DEF HookSkips, HookNumbers, HookAppends, HookRewrites, HookUnlock, Leave,
              Fatal, Moves
<1>6. CASE BridgeCall(t) \/ NativeChecks(t) \/ NativeUnlock(t)
  BY <1>6 DEF BridgeCall, NativeChecks, NativeUnlock, Leave, Fatal, Moves
<1>7. CASE \/ ThreadEvent(t) \/ GetThreadInfo(t) \/ ThreadEventUnlock(t)
           \/ VMDeathDisengage(t) \/ VMDeathMark(t) \/ VMDeathUnlock(t)
  BY <1>7 DEF ThreadEvent, GetThreadInfo, ThreadEventUnlock, VMDeathDisengage, VMDeathMark,
              VMDeathUnlock, Leave, Moves
<1> QED
  BY <1>1, <1>2, <1>3, <1>4, <1>5, <1>6, <1>7 DEF Works

(* Agent_OnLoad too: nobody runs before it.                                *)
LEMMA AgentQuiet ==
  ASSUME IInv, NEW t \in Threads,
         \/ OnLoad \/ OnLoadFails \/ PostVMStart \/ PostVMInit \/ MainStep \/ VMInitLock
         \/ VMInitFails \/ Locks(t) \/ Works(t) \/ JavaCode(t) \/ VMDeathFails(t)
         \/ OnUnload(t) \/ Finished
  PROVE  InServerKept /\ UNCHANGED sent
<1>0. PcTyped
  BY TypeParts DEF IInv
<1>1. CASE OnLoad
  BY <1>0, <1>1 DEF OnLoad, InServerKept, IInv, FlagInv
<1> QED
  BY <1>0, <1>1, AgentMoves, MoveKeeps

(* The steps of the process, as far as TraceInv sees them.                 *)
Calm ==
  /\ InServerKept
  /\ UNCHANGED <<sent, ppc, messages, pushed>>
  /\ UNCHANGED <<wire, gap>> \/ Proved!HelloSend \/ Proved!SendFront

(* A step is calm or one of the four of a native in the server.            *)
LEMMA TraceSteps ==
  ASSUME IInv, TraceNext
  PROVE  \/ Calm
         \/ \E t \in Threads : \/ EnqueueCall(t) \/ EnqueueLock(t) \/ EnqueuePush(t)
                               \/ EnqueueReturn(t)
<1>1. CASE \/ Loads \/ AgentStep(PostVMStart) \/ AgentStep(PostVMInit)
           \/ AgentStep(MainStep) \/ AgentStep(VMInitLock) \/ AgentStep(VMInitFails)
           \/ AgentStep(Finished)
           \/ \E t \in Threads : \/ AgentStep(Locks(t)) \/ AgentStep(Works(t))
                                 \/ AgentStep(JavaCode(t)) \/ AgentStep(VMDeathFails(t))
                                 \/ Unloaded(t)
  <2>1. InServerKept /\ UNCHANGED sent
    BY <1>1, AgentQuiet DEF Loads, AgentStep, Unloaded
  <2>2. UNCHANGED server
    BY <1>1 DEF Loads, AgentStep, Unloaded
  <2> QED
    BY <2>1, <2>2 DEF Calm, server
<1> USE DEF Proved!control, Proved!network, Proved!worker, Proved!queue, Proved!caller,
            Proved!shared, Proved!Control, Proved!WorkerGoes
<1>2. CASE StartFails
  <2>1. InServerKept /\ UNCHANGED sent
    BY <1>2 DEF StartFails, Fatal, InServerKept
  <2>2. Proved!InitConnectionFails
    BY <1>2, SameServer DEF StartFails
  <2> QED
    BY <2>1, <2>2 DEF Calm, Proved!InitConnectionFails
<1>3. CASE \/ StartServer \/ WorkerRuns \/ WorkerLocks \/ ClientRead \/ ClientQuits
           \/ \E t \in Threads : Stops(t)
  <2>1. InServerKept /\ UNCHANGED sent
    BY <1>3 DEF StartServer, WorkerRuns, WorkerLocks, ClientRead, ClientQuits, Stops,
                InServerKept
  <2>2. \/ Proved!Listen \/ Proved!AcceptClient \/ Proved!AcceptFails \/ Proved!Activate
        \/ Proved!Spawn \/ Proved!StopWithoutWorker \/ Proved!StopWorker \/ Proved!StopStep
        \/ Proved!WorkerStep \/ Proved!WorkerLock \/ Proved!ClientRead \/ Proved!ClientQuits
    BY <1>3, SameServer DEF StartServer, WorkerRuns, WorkerLocks, ClientRead,
                            ClientQuits, Stops
  <2>3. CASE \/ Proved!Listen \/ Proved!AcceptClient \/ Proved!AcceptFails \/ Proved!Activate
             \/ Proved!Spawn \/ Proved!StopWithoutWorker \/ Proved!StopWorker
             \/ Proved!StopStep
    BY <2>1, <2>3 DEF Calm, Proved!Listen, Proved!AcceptClient, Proved!AcceptFails,
         Proved!Activate, Proved!Spawn, Proved!StopWithoutWorker, Proved!StopWorker,
         Proved!StopStep, Proved!CloseListen, Proved!CloseClient, Proved!ForgetClient,
         Proved!Join
  <2>4. CASE Proved!WorkerStep \/ Proved!WorkerLock
    BY <2>1, <2>4 DEF Calm, Proved!WorkerStep, Proved!WorkerLock, Proved!OuterTest,
         Proved!HelloSocket, Proved!HelloSend, Proved!InnerTest, Proved!DrainNext,
         Proved!DrainEmpty, Proved!SendFront, Proved!Pop, Proved!WorkerUnlock
  <2>5. CASE Proved!ClientRead \/ Proved!ClientQuits
    BY <2>1, <2>5 DEF Calm, Proved!ClientRead, Proved!ClientQuits
  <2> QED
    BY <2>2, <2>3, <2>4, <2>5
<1> QED
  BY <1>1, <1>2, <1>3 DEF TraceNext, ServerCall

-----------------------------------------------------------------------------
(* Counting the messages of a thread.                                      *)

(* The count is of a finite set.                                           *)
LEMMA CountIsNat ==
  ASSUME NEW s, NEW t, NEW n \in Nat
  PROVE  /\ IsFiniteSet({j \in 1 .. n : s[j].thread = t})
         /\ CountIn(s, t, n) \in Nat
<1>1. IsFiniteSet(1 .. n)
  BY FS_Interval
<1>2. IsFiniteSet({j \in 1 .. n : s[j].thread = t})
  BY <1>1, FS_Subset
<1> QED
  BY <1>2, FS_CardinalityType DEF CountIn

LEMMA CountsAreNat == \A s, t, n : n \in Nat => CountIn(s, t, n) \in Nat
  BY CountIsNat

(* One more message counts for its thread only.                            *)
LEMMA CountNext ==
  ASSUME NEW s, NEW t, NEW n \in Nat
  PROVE  CountIn(s, t, n + 1) = CountIn(s, t, n) + IF s[n + 1].thread = t THEN 1 ELSE 0
<1> DEFINE Upto(k) == {j \in 1 .. k : s[j].thread = t}
<1>1. IsFiniteSet(Upto(n)) /\ CountIn(s, t, n) \in Nat
  BY CountIsNat
<1>2. CASE s[n + 1].thread = t
  <2>1. Upto(n + 1) = Upto(n) \cup {n + 1} /\ n + 1 \notin Upto(n)
    BY <1>2
  <2> HIDE DEF Upto
  <2>2. Cardinality(Upto(n + 1)) = Cardinality(Upto(n)) + 1
    BY <1>1, <2>1, FS_AddElement
  <2> QED
    BY <1>2, <2>2 DEF CountIn, Upto
<1>3. CASE s[n + 1].thread # t
  <2>1. Upto(n + 1) = Upto(n)
    BY <1>3
  <2> HIDE DEF Upto
  <2>2. Cardinality(Upto(n + 1)) = Cardinality(Upto(n))
    BY <2>1
  <2> QED
    BY <1>1, <1>3, <2>2 DEF CountIn, Upto
<1> QED
  BY <1>2, <1>3

(* An append leaves the counts of what was there.                          *)
LEMMA CountAppend ==
  ASSUME NEW S, NEW s \in Seq(S), NEW e \in S, NEW t, NEW n \in 0 .. Len(s)
  PROVE  CountIn(Append(s, e), t, n) = CountIn(s, t, n)
<1>1. \A j \in 1 .. n : Append(s, e)[j] = s[j]
  BY AppendProperties
<1>2. {j \in 1 .. n : Append(s, e)[j].thread = t} = {j \in 1 .. n : s[j].thread = t}
  BY <1>1
<1> QED
  BY <1>2 DEF CountIn

(* So the places of a thread's messages differ in their count.             *)
LEMMA CountRises ==
  ASSUME NEW s, NEW t, NEW i \in Nat, NEW k \in Nat, i < k, s[k].thread = t
  PROVE  CountIn(s, t, i) < CountIn(s, t, k)
<1> DEFINE Upto(n) == {j \in 1 .. n : s[j].thread = t}
<1>1. IsFiniteSet(Upto(k)) /\ CountIn(s, t, k) \in Nat
  BY CountIsNat
<1>2. CountIn(s, t, i) \in Nat
  BY CountIsNat
<1>3. Upto(i) \subseteq Upto(k) /\ Upto(i) # Upto(k)
  <2>1. k \in Upto(k) /\ k \notin Upto(i)
    OBVIOUS
  <2> QED
    BY <2>1
<1> HIDE DEF Upto
<1>4. /\ Cardinality(Upto(i)) <= Cardinality(Upto(k))
      /\ Cardinality(Upto(i)) # Cardinality(Upto(k))
  BY <1>1, <1>3, FS_Subset
<1> QED
  BY <1>1, <1>2, <1>4 DEF CountIn, Upto

-----------------------------------------------------------------------------
(* Types of what TraceInv speaks of, and one thread at a time.             *)
Typed ==
  /\ ppc \in [Threads -> {"idle", "lock", "push", "unlock"}]
  /\ messages \in [Threads -> Nat]
  /\ pushed \in Seq(Threads \X Nat)
  /\ SentTyped /\ Len(sent) \in Nat
  /\ Len(wire) \in Nat /\ gap \in BOOLEAN

OneInServer == \A t, u \in Threads : ppc[t] # "idle" /\ ppc[u] # "idle" => t = u

(* The types follow from the invariants of the two parts, and the          *)
(* exclusion from the monitor that a native holds.                         *)
LEMMA Parts ==
  ASSUME IInv, Proved!IInv
  PROVE  Typed /\ (InServer => OneInServer)
<1>1. Typed
  <2>1. SentTyped
    BY TypeParts DEF IInv
  <2>8. Len(sent) \in Nat
    BY <2>1, LenProperties DEF SentTyped
  <2>2. Proved!TypeOK
    BY DEF Proved!IInv
  <2>3. ppc \in [Threads -> {"idle", "lock", "push", "unlock"}]
    BY <2>2 DEF Proved!TypeOK
  <2>4. messages \in [Threads -> Nat]
    BY <2>2 DEF Proved!TypeOK
  <2>5. pushed \in Seq(Threads \X Nat)
    <3>1. pushed \in Seq(Proved!Msg) /\ Proved!Msg \subseteq Threads \X Nat
      BY <2>2 DEF Proved!TypeOK, Proved!Msg
    <3> QED
      BY <3>1
  <2>6. gap \in BOOLEAN
    BY <2>2, Zenon DEF Proved!TypeOK
  <2>7. Len(wire) \in Nat
    <3>1. wire \in Seq(Proved!Msg \cup {Proved!Hello})
      BY <2>2 DEF Proved!TypeOK
    <3> QED
      BY <3>1
  <2> QED
    BY <2>1, <2>3, <2>4, <2>5, <2>6, <2>7, <2>8 DEF Typed
<1>2. ASSUME InServer, NEW t \in Threads, NEW u \in Threads, ppc[t] # "idle", ppc[u] # "idle"
      PROVE  t = u
  <2>1. pc[t] \in LockedPCs /\ pc[u] \in LockedPCs
    BY <1>2 DEF InServer, LockedPCs
  <2> QED
    BY <2>1, Exclusion DEF IInv
<1> QED
  BY <1>1, <1>2 DEF OneInServer

(* What the steps of a native in the server do.                            *)
OthersStay(t) ==
  \A u \in Threads \ {t} : ppc'[u] = ppc[u] /\ messages'[u] = messages[u] /\ pc'[u] = pc[u]

(* Each moves its own thread and writes what it says.                      *)
LEMMA NativeSteps ==
  ASSUME IInv, Typed, NEW t \in Threads
  PROVE  /\ EnqueueCall(t) =>
              /\ pc[t] = "enqueue" /\ ppc[t] = "idle" /\ ppc'[t] = "lock"
              /\ messages'[t] = messages[t] + 1 /\ OthersStay(t)
              /\ UNCHANGED <<pc, sent, pushed, wire, gap>>
         /\ EnqueueLock(t) =>
              /\ ppc[t] = "lock" /\ ppc'[t] = "push"
              /\ messages'[t] = messages[t] /\ OthersStay(t)
              /\ UNCHANGED <<pc, sent, pushed, wire, gap>>
         /\ EnqueuePush(t) =>
              /\ ppc[t] = "push" /\ ppc'[t] = "unlock"
              /\ messages'[t] = messages[t] /\ OthersStay(t)
              /\ pushed' = Append(pushed, <<t, messages[t]>>)
              /\ UNCHANGED <<pc, sent, wire, gap>>
         /\ EnqueueReturn(t) =>
              /\ ppc[t] = "unlock" /\ ppc'[t] = "idle"
              /\ messages'[t] = messages[t] /\ OthersStay(t)
              /\ \E e : sent' = Append(sent, e) /\ e.thread = t
              /\ UNCHANGED <<pushed, wire, gap>>
<1> USE DEF Proved!control, Proved!network, Proved!worker, Proved!queue, Proved!caller,
            Proved!shared, Proved!CallerGoes, OthersStay, Typed
<1>1. ASSUME EnqueueCall(t)
      PROVE  /\ pc[t] = "enqueue" /\ ppc[t] = "idle" /\ ppc'[t] = "lock"
             /\ messages'[t] = messages[t] + 1 /\ OthersStay(t)
             /\ UNCHANGED <<pc, sent, pushed, wire, gap>>
  <2>1. Proved!Enqueue(t) /\ pc[t] = "enqueue" /\ UNCHANGED <<pc, sent>>
    BY <1>1, SameServer DEF EnqueueCall
  <2> QED
    BY <2>1 DEF Proved!Enqueue
<1>2. ASSUME EnqueueLock(t)
      PROVE  /\ ppc[t] = "lock" /\ ppc'[t] = "push"
             /\ messages'[t] = messages[t] /\ OthersStay(t)
             /\ UNCHANGED <<pc, sent, pushed, wire, gap>>
  <2>1. Proved!CallerLock(t) /\ UNCHANGED <<pc, sent>>
    BY <1>2, SameServer DEF EnqueueLock
  <2> QED
    BY <2>1 DEF Proved!CallerLock
<1>3. ASSUME EnqueuePush(t)
      PROVE  /\ ppc[t] = "push" /\ ppc'[t] = "unlock"
             /\ messages'[t] = messages[t] /\ OthersStay(t)
             /\ pushed' = Append(pushed, <<t, messages[t]>>)
             /\ UNCHANGED <<pc, sent, wire, gap>>
  <2>1. Proved!Push(t) /\ UNCHANGED <<pc, sent>>
    BY <1>3, SameServer DEF EnqueuePush
  <2> QED
    BY <2>1 DEF Proved!Push
<1>4. ASSUME EnqueueReturn(t)
      PROVE  /\ ppc[t] = "unlock" /\ ppc'[t] = "idle"
             /\ messages'[t] = messages[t] /\ OthersStay(t)
             /\ \E e : sent' = Append(sent, e) /\ e.thread = t
             /\ UNCHANGED <<pushed, wire, gap>>
  <2>1. Proved!CallerUnlock(t) /\ Goes(t, "enqueue", "natExit")
    BY <1>4, SameServer DEF EnqueueReturn, Enqueue
  <2>2. \E e : sent' = Append(sent, e) /\ e.thread = t
    <3> DEFINE e == [thread |-> t, class |-> Name(t), method |-> Top(t)[2],
                     what |-> IF ret[t] = "entry" THEN "enter" ELSE "exit"]
    <3>1. e.thread = t
      OBVIOUS
    <3>2. sent' = Append(sent, e)
      BY <1>4 DEF EnqueueReturn, Enqueue
    <3> QED
      BY <3>1, <3>2
  <2>3. \A u \in Threads \ {t} : pc'[u] = pc[u]
    BY <2>1, GoesOnly, TypeParts DEF IInv
  <2> QED
    BY <2>1, <2>2, <2>3 DEF Proved!CallerUnlock
<1> QED
  BY <1>1, <1>2, <1>3, <1>4

(* A thread is in the server at line "enqueue" only.                       *)
LEMMA InServerStep ==
  ASSUME IInv, Proved!IInv, InServer, TraceNext
  PROVE  InServer'
<1>1. Typed
  BY Parts
<1>2. CASE Calm
  BY <1>2 DEF Calm, InServerKept, InServer
<1>3. ASSUME NEW t \in Threads,
             EnqueueCall(t) \/ EnqueueLock(t) \/ EnqueuePush(t) \/ EnqueueReturn(t)
      PROVE  InServer'
  <2>1. OthersStay(t) /\ (ppc'[t] # "idle" => pc'[t] = "enqueue")
    BY <1>1, <1>3, NativeSteps DEF InServer
  <2> QED
    BY <2>1 DEF InServer, OthersStay
<1> QED
  BY <1>2, <1>3, TraceSteps

-----------------------------------------------------------------------------
(* What is pushed is what is reported.                                     *)
LEMMA PushInvStep ==
  ASSUME IInv, Proved!IInv, InServer, PushInv, TraceNext
  PROVE  PushInv'
<1>1. Typed /\ OneInServer
  BY Parts
<1>2. CASE Calm
  BY <1>2 DEF Calm, PushInv
<1> DEFINE Count(t) == CountIn(sent, t, Len(sent))
<1>3. Len(sent) \in Nat /\ Len(pushed) \in Nat /\ \A t : Count(t) \in Nat
  BY <1>1, CountsAreNat DEF Typed
<1>4. ASSUME NEW t \in Threads, EnqueueCall(t) \/ EnqueueLock(t)
      PROVE  PushInv'
  <2>1. /\ ppc[t] # "unlock" /\ ppc'[t] \notin {"idle", "unlock"}
        /\ messages'[t] = messages[t] + IF ppc[t] = "idle" THEN 1 ELSE 0
        /\ OthersStay(t) /\ UNCHANGED <<sent, pushed>>
    BY <1>1, <1>4, NativeSteps DEF Typed
  <2>2. messages'[t] = Count(t) + 1
    BY <1>3, <2>1 DEF PushInv
  <2> QED
    BY <2>1, <2>2 DEF PushInv, OthersStay
<1>5. ASSUME NEW t \in Threads, EnqueuePush(t)
      PROVE  PushInv'
  <2>1. /\ ppc[t] = "push" /\ ppc'[t] = "unlock" /\ messages'[t] = messages[t]
        /\ OthersStay(t) /\ pushed' = Append(pushed, <<t, messages[t]>>) /\ sent' = sent
    BY <1>1, <1>5, NativeSteps
  <2>2. \A u \in Threads \ {t} : ppc[u] = "idle"
    BY <1>1, <2>1 DEF OneInServer
  <2>3. Len(pushed) = Len(sent)
    BY <1>3, <2>1, <2>2 DEF PushInv
  <2>4. /\ Len(pushed') = Len(sent') + 1 /\ pushed'[Len(pushed')] = <<t, messages[t]>>
        /\ \A i \in 1 .. Len(sent) : pushed'[i] = pushed[i]
    BY <1>1, <1>3, <2>1, <2>3 DEF Typed
  <2>5. messages'[t] = Count(t) + 1
    BY <2>1 DEF PushInv
  <2>6. \A u \in Threads \ {t} : /\ messages'[u] = Count(u) /\ ppc'[u] = "idle"
    BY <1>3, <2>1, <2>2 DEF PushInv, OthersStay
  <2>7. \A i \in 1 .. Len(sent) :
          pushed'[i] = <<sent[i].thread, CountIn(sent, sent[i].thread, i)>>
    BY <2>4 DEF PushInv
  <2>8. \A u \in Threads :
          /\ messages'[u] = Count(u) + IF ppc'[u] = "idle" THEN 0 ELSE 1
          /\ ppc'[u] = "unlock" => u = t
    BY <1>3, <2>1, <2>5, <2>6
  <2> QED
    BY <2>1, <2>4, <2>7, <2>8 DEF PushInv
<1>6. ASSUME NEW t \in Threads, EnqueueReturn(t)
      PROVE  PushInv'
  <2>1. /\ ppc[t] = "unlock" /\ ppc'[t] = "idle" /\ messages'[t] = messages[t]
        /\ OthersStay(t) /\ pushed' = pushed
    BY <1>1, <1>6, NativeSteps
  <2>2. PICK e : sent' = Append(sent, e) /\ e.thread = t
    BY <1>1, <1>6, NativeSteps
  <2> DEFINE M == [thread : Threads, what : {"enter", "exit"}, class : Classes, method : Nat]
             S == M \cup {e}
  <2>3. sent \in Seq(S) /\ e \in S
    <3>1. sent \in Seq(M)
      BY <1>1 DEF Typed, SentTyped
    <3> HIDE DEF M
    <3> QED
      BY <3>1
  <2> HIDE DEF S
  <2>4. /\ Len(sent') = Len(sent) + 1 /\ sent'[Len(sent) + 1] = e
        /\ \A i \in 1 .. Len(sent) : sent'[i] = sent[i]
    BY <2>2, <2>3, AppendProperties
  <2>5. \A u, n : n \in 0 .. Len(sent) => CountIn(sent', u, n) = CountIn(sent, u, n)
    BY <2>2, <2>3, CountAppend
  <2>6. \A u : CountIn(sent', u, Len(sent) + 1) = Count(u) + IF t = u THEN 1 ELSE 0
    <3> SUFFICES ASSUME NEW u
                 PROVE  CountIn(sent', u, Len(sent) + 1) = Count(u) + IF t = u THEN 1 ELSE 0
      OBVIOUS
    <3>1. CountIn(sent', u, Len(sent) + 1)
            = CountIn(sent', u, Len(sent)) + IF e.thread = u THEN 1 ELSE 0
      BY <1>3, <2>4, CountNext
    <3>2. CountIn(sent', u, Len(sent)) = Count(u)
      BY <1>3, <2>5
    <3> QED
      BY <2>2, <3>1, <3>2
  <2>7. /\ \A u \in Threads \ {t} : ppc[u] = "idle" /\ ppc'[u] = "idle"
        /\ \A u \in Threads \ {t} : messages'[u] = messages[u]
    BY <1>1, <2>1 DEF OneInServer, OthersStay
  <2>8. Len(pushed) = Len(sent) + 1
    BY <2>1 DEF PushInv
  <2>9. pushed[Len(sent) + 1] = <<t, Count(t) + 1>>
    BY <2>1, <2>8 DEF PushInv
  <2>10. \A i \in 1 .. Len(sent') :
           pushed'[i] = <<sent'[i].thread, CountIn(sent', sent'[i].thread, i)>>
    <3>1. ASSUME NEW i \in 1 .. Len(sent)
          PROVE  pushed'[i] = <<sent'[i].thread, CountIn(sent', sent'[i].thread, i)>>
      <4>1. pushed[i] = <<sent[i].thread, CountIn(sent, sent[i].thread, i)>>
        BY DEF PushInv
      <4>2. CountIn(sent', sent[i].thread, i) = CountIn(sent, sent[i].thread, i)
        BY <1>3, <2>5
      <4> QED
        BY <2>1, <2>4, <4>1, <4>2
    <3>2. pushed'[Len(sent) + 1] = <<t, CountIn(sent', t, Len(sent) + 1)>>
      BY <2>1, <2>6, <2>9
    <3> QED
      BY <1>3, <2>2, <2>4, <3>1, <3>2
  <2>11. \A u \in Threads : messages'[u] = CountIn(sent', u, Len(sent'))
    <3>1. messages[t] = Count(t) + 1 /\ \A u \in Threads \ {t} : messages[u] = Count(u) + 0
      BY <2>1, <2>7 DEF PushInv
    <3> QED
      BY <1>3, <2>1, <2>4, <2>6, <2>7, <3>1
  <2>12. \A u \in Threads : ppc'[u] = "idle"
    BY <2>1, <2>7
  <2>13. \A u : CountIn(sent', u, Len(sent')) \in Nat
    BY <1>3, <2>4, CountsAreNat
  <2> HIDE DEF Count
  <2> QED
    BY <1>3, <2>1, <2>4, <2>8, <2>10, <2>11, <2>12, <2>13 DEF PushInv
<1> QED
  BY <1>2, <1>4, <1>5, <1>6, TraceSteps

-----------------------------------------------------------------------------
(* What is on the wire is reported.                                        *)
LEMMA WireInvStep ==
  ASSUME IInv, Proved!IInv, Proved!IInv', InServer, PushInv, WireInv, TraceNext
  PROVE  WireInv'
<1>1. Typed /\ wire \in Seq(Proved!Msg \cup {Proved!Hello}) /\ Len(wire') \in Nat
  <2>1. wire \in Seq(Proved!Msg \cup {Proved!Hello})
    BY DEF Proved!IInv, Proved!TypeOK
  <2>2. wire' \in Seq(Proved!Msg \cup {Proved!Hello})
    BY DEF Proved!IInv, Proved!TypeOK, Proved!Msg, Proved!Hello
  <2> QED
    BY <2>1, <2>2, Parts, LenProperties
<1>2. Len(sent) \in Nat
  BY <1>1 DEF Typed
<1>3. CASE UNCHANGED <<sent, wire, gap>>
  BY <1>3 DEF WireInv
<1>4. CASE Calm /\ Proved!HelloSend
  <2>1. wire = <<>> /\ wpc = "helloSend"
    BY <1>4 DEF Proved!HelloSend, Proved!WorkerGoes, Proved!IInv, Proved!WireInv,
                Proved!BeforeGreeting
  <2>2. wire' = wire \/ wire' = Append(wire, Proved!Hello)
    BY <1>4 DEF Proved!HelloSend, Proved!Send
  <2>3. Len(wire') <= 1
    <3> DEFINE M == Proved!Msg \cup {Proved!Hello}
    <3>1. wire \in Seq(M) /\ Proved!Hello \in M /\ Len(wire) = 0
      BY <1>1, <2>1
    <3> HIDE DEF M
    <3>2. Len(Append(wire, Proved!Hello)) = Len(wire) + 1
      BY <3>1, AppendProperties
    <3>3. CASE wire' = wire
      BY <3>1, <3>3
    <3>4. CASE wire' = Append(wire, Proved!Hello)
      BY <3>1, <3>2, <3>4
    <3> QED
      BY <2>2, <3>3, <3>4
  <2> QED
    BY <1>1, <1>2, <1>4, <2>3 DEF WireInv, Calm
<1>5. CASE Calm /\ Proved!SendFront
  <2>1. wpc = "send" /\ (UNCHANGED wire \/ UNCHANGED gap) /\ (gap => gap')
    <3>1. wpc = "send" /\ Proved!Send(Head(m_queue))
      BY <1>5 DEF Proved!SendFront, Proved!WorkerGoes
    <3>2. gap' = gap \/ (gap' = (gap \/ conn = "up") /\ wire' = wire)
      BY <3>1, Zenon DEF Proved!Send
    <3>3. CASE gap' = gap
      BY <3>1, <3>3, Zenon
    <3>4. CASE gap' = (gap \/ conn = "up") /\ wire' = wire
      BY <3>1, <3>4, Zenon
    <3> QED
      BY <3>2, <3>3, <3>4, Zenon
  <2>2. \A t \in Threads : ppc[t] # "unlock"
    BY <1>1, <2>1 DEF Proved!IInv, Proved!LockInv, Proved!WorkerInside, Proved!CallerInside
  <2>3. Len(pushed) = Len(sent) /\ UNCHANGED <<sent, pushed>>
    BY <1>2, <1>5, <2>2 DEF PushInv, Calm
  <2>4. ~gap' => Len(wire') <= Len(Proved!Stream')
    BY DEF Proved!IInv, Proved!PrefixDelivery
  <2>5. Len(Proved!Stream') = Len(pushed) + 1
    BY <1>1, <2>3 DEF Typed, Proved!Stream
  <2> QED
    BY <1>2, <2>3, <2>4, <2>5 DEF WireInv
<1>6. ASSUME NEW t \in Threads,
             EnqueueCall(t) \/ EnqueueLock(t) \/ EnqueuePush(t) \/ EnqueueReturn(t)
      PROVE  WireInv'
  <2>1. UNCHANGED <<wire, gap>> /\ (sent' = sent \/ \E e : sent' = Append(sent, e))
    BY <1>1, <1>6, NativeSteps
  <2>2. Len(sent') >= Len(sent) /\ Len(sent') \in Nat
    BY <1>1, <1>2, <2>1 DEF Typed, SentTyped
  <2> QED
    BY <1>1, <1>2, <2>1, <2>2 DEF WireInv, Typed
<1> QED
  BY <1>3, <1>4, <1>5, <1>6, TraceSteps DEF Calm

-----------------------------------------------------------------------------
(* TraceInv holds of the process, beside the invariants of its parts.      *)
THEOREM Together == TraceSpec => [](IInv /\ Proved!IInv /\ TraceInv)
<1>1. TraceSpec => [](IInv /\ Proved!IInv)
  BY AgentInside, ServerInsideProved, Invariance, ServerInvariance, PTL
<1>2. TraceInit => TraceInv
  <2> SUFFICES ASSUME TraceInit PROVE TraceInv
    OBVIOUS
  <2>1. /\ sent = <<>> /\ pushed = <<>> /\ wire = <<>>
        /\ \A t \in Threads : ppc[t] = "idle" /\ messages[t] = 0
    BY SameServer DEF TraceInit, Init, Proved!Init
  <2>2. \A t : CountIn(sent, t, 0) = 0
    <3>1. \A t : {j \in 1 .. 0 : sent[j].thread = t} = {}
      OBVIOUS
    <3> QED
      BY <3>1, FS_EmptySet DEF CountIn
  <2> QED
    BY <2>1, <2>2 DEF TraceInv, InServer, PushInv, WireInv
<1>3. IInv /\ Proved!IInv /\ Proved!IInv' /\ TraceInv /\ [TraceNext]_process => TraceInv'
  <2>1. CASE UNCHANGED process
    <3>1. UNCHANGED <<sent, ppc, pc, messages, pushed, wire, gap>>
      BY <2>1 DEF process, server
    <3> QED
      BY <3>1 DEF TraceInv, InServer, PushInv, WireInv
  <2>2. CASE TraceNext
    BY <2>2, InServerStep, PushInvStep, WireInvStep DEF TraceInv
  <2> QED
    BY <2>1, <2>2
<1> QED
  BY <1>1, <1>2, <1>3, PTL DEF TraceSpec

(* Once Agent_OnUnload stops the server, no thread is inside               *)
(* enqueue_for_sending() and none will call it.                            *)
THEOREM StopIsAlone == TraceSpec => []NoCallDuringStop
<1>1. IInv /\ Proved!IInv /\ TraceInv => NoCallDuringStop
  <2> SUFFICES ASSUME IInv, InServer, Typed, NEW t \in Threads,
                      (\E u \in Threads : pc[u] = "unload") \/ vm = "unloaded"
               PROVE  ppc[t] = "idle" /\ pc[t] # "enqueue"
    BY Parts DEF TraceInv, NoCallDuringStop
  <2>1. m_vm_is_dead /\ (pc[t] = "enqueue" => ~m_vm_is_dead)
    BY DEF IInv, FlagInv
  <2> QED
    BY <2>1 DEF InServer
<1> QED
  BY <1>1, Together, PTL

(* The place of a message in the trace is found from its thread and its    *)
(* number.                                                                 *)
LEMMA PlaceOfMessage ==
  ASSUME Len(sent) \in Nat, NEW k \in 1 .. Len(sent), NEW t, sent[k].thread = t
  PROVE  Place(<<t, CountIn(sent, t, k)>>) = k
<1> DEFINE At(i) == sent[i].thread = t /\ CountIn(sent, t, i) = CountIn(sent, t, k)
<1>1. Place(<<t, CountIn(sent, t, k)>>) = CHOOSE i \in 1 .. Len(sent) : At(i)
  BY DEF Place, CountIn
<1>2. \A i \in 1 .. Len(sent) : At(i) <=> i = k
  <2>1. ASSUME NEW i \in 1 .. Len(sent), At(i), i # k
        PROVE  FALSE
    <3>1. CountIn(sent, t, i) \in Nat /\ CountIn(sent, t, k) \in Nat
      BY CountsAreNat
    <3>2. CASE i < k
      BY <2>1, <3>1, <3>2, CountRises
    <3>3. CASE k < i
      BY <2>1, <3>1, <3>3, CountRises
    <3> QED
      BY <2>1, <3>2, <3>3
  <2> QED
    BY <2>1
<1> HIDE DEF At
<1> QED
  BY <1>1, <1>2

(* What the client receives is the greeting and then a prefix of the trace *)
(* that the natives reported, in the one order in which they reported it.  *)
THEOREM WireShowsTrace == TraceSpec => []WireIsTrace
<1>1. ASSUME IInv, Proved!IInv, TraceInv
      PROVE  WireIsTrace
  <2> SUFFICES ASSUME ~gap, NEW i \in 1 .. Len(wire)
               PROVE  IF i = 1 THEN wire[i] = Server!Hello
                      ELSE /\ i - 1 <= Len(sent)
                           /\ wire[i][1] = sent[i - 1].thread
                           /\ Place(wire[i]) = i - 1
    BY DEF WireIsTrace
  <2>1. Typed /\ Len(sent) \in Nat
    BY Parts, <1>1 DEF Typed
  <2>2. wire[i] = Proved!Stream[i] /\ Len(wire) <= Len(Proved!Stream)
    <3>1. Proved!PrefixDelivery
      BY <1>1 DEF Proved!IInv
    <3> QED
      BY <3>1 DEF Proved!PrefixDelivery
  <2>3. CASE i = 1
    <3>1. Proved!Stream[1] = Server!Hello
      BY <2>1 DEF Proved!Stream, Proved!Hello, Server!Hello, Typed
    <3> QED
      BY <2>2, <2>3, <3>1
  <2>4. CASE i # 1
    <3>1. i - 1 \in 1 .. Len(sent) /\ i - 1 \in 1 .. Len(pushed)
      <4>1. Len(Proved!Stream) = Len(pushed) + 1 /\ Len(pushed) \in Nat
        BY <2>1 DEF Proved!Stream, Typed
      <4>2. Len(wire) <= Len(sent) + 1
        BY <1>1 DEF TraceInv, WireInv
      <4>3. Len(wire) \in Nat /\ Len(sent) \in Nat
        BY <2>1 DEF Typed
      <4>4. Len(wire) <= Len(pushed) + 1
        BY <2>2, <4>1
      <4>5. i \in Nat /\ 1 < i /\ i <= Len(wire)
        BY <2>4, <4>3
      <4> QED
        BY <4>1, <4>2, <4>3, <4>4, <4>5
    <3>2. Proved!Stream[i] = pushed[i - 1]
      <4> DEFINE M == (Threads \X Nat) \cup {Proved!Hello}
      <4>1. <<Proved!Hello>> \in Seq(M) /\ pushed \in Seq(M)
        BY <2>1 DEF Typed
      <4> HIDE DEF M
      <4>2. i \in 1 .. 1 + Len(pushed) /\ ~(i <= 1) /\ Len(<<Proved!Hello>>) = 1
        BY <2>1, <2>4, <3>1
      <4> QED
        BY <4>1, <4>2, ConcatProperties DEF Proved!Stream
    <3>3. pushed[i - 1] = <<sent[i - 1].thread, CountIn(sent, sent[i - 1].thread, i - 1)>>
      BY <1>1, <3>1 DEF TraceInv, PushInv
    <3>4. Place(pushed[i - 1]) = i - 1
      BY <2>1, <3>1, <3>3, PlaceOfMessage
    <3> QED
      BY <2>2, <2>4, <3>1, <3>2, <3>3, <3>4
  <2> QED
    BY <2>3, <2>4
<1> QED
  BY <1>1, Together, PTL

==============================================================================
