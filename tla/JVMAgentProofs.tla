--------------------------- MODULE JVMAgentProofs ---------------------------
(***************************************************************************)
(* What JVMAgent's runs check on two threads and a few classes, proved for *)
(* any number of threads, classes, methods and calls: the natives find     *)
(* every number in range and report the method that is really entered or   *)
(* left, the class table is used by one thread at a time, no native is     *)
(* called before it is registered, and nothing is asked of a dead VM.      *)
(*                                                                         *)
(* None of these is inductive.  IInv adds how often a thread has entered   *)
(* the monitor in which line (LockInv), who loads what (LoadInv), what the *)
(* table and the images agree on in the middle of a hook (TableInv), that  *)
(* a traced call is of a loaded class (FrameInv), and what the flags say   *)
(* about the threads' counters (FlagInv).                                  *)
(***************************************************************************)
EXTENDS JVMAgent, SequenceTheorems, TLAPS

-----------------------------------------------------------------------------
HookInside == {"hookIn", "hookAppend", "hookRewrite", "hookExit"}
HookPCs    == HookInside \cup {"hookLock"}
NativePCs  == {"natLock", "natIn", "enqueue", "natExit"}
EventPCs   == {"evLock", "evIn", "evInfo", "evExit"}
InitPCs    == {"initLock", "initFind", "initRegister", "initEngage", "initEvents", "initExit"}

(* Where a thread is between lock() and unlock().                          *)
LockedPCs ==
  HookInside \cup {"natIn", "enqueue", "natExit", "evIn", "evInfo", "evExit",
                  "initFind", "initRegister", "initEngage", "initEvents", "initExit",
                  "deathDisengage", "deathMark", "deathExit"}

(* VMInit loads the bridge with the monitor held already.                  *)
LoadsForInit(t) == pc[t] \in HookPCs /\ ret[t] = "initFind"

Entered(t) ==
  (IF pc[t] \in LockedPCs THEN 1 ELSE 0) + (IF LoadsForInit(t) THEN 1 ELSE 0)

(* Where a thread goes on after its hook, its native or its event.         *)
RetFits(t) ==
  /\ pc[t] \in HookPCs => ret[t] \in {"java", "entry", "exit", "initFind"}
  /\ pc[t] \in NativePCs => ret[t] \in {"entry", "exit"}
  /\ pc[t] \in EventPCs => ret[t] \in {"java", "ended"}

(* Each thread has entered the monitor as often as its line says.          *)
LockInv ==
  /\ m_lock.owner = NoOne <=> m_lock.count = 0
  /\ \A t \in Threads : Entered(t) = IF m_lock.owner = t THEN m_lock.count ELSE 0
  /\ \A t \in Threads : RetFits(t)

(* A class is loaded by one thread, which loads no other meanwhile.        *)
LoadInv ==
  /\ \A c \in Classes : loading[c] # NoOne =>
       /\ pc[loading[c]] \in HookPCs
       /\ c \notin loaded
  /\ \A c, d \in Classes : loading[c] = loading[d] /\ loading[c] # NoOne => c = d

(* The thread that loads a class is in one of the lines of the hook.       *)
InHook(c, lines) == loading[c] # NoOne /\ pc[loading[c]] \in lines

(* The hook is done with the image of the class.                           *)
Rewritten(c) == c \in loaded \/ InHook(c, {"hookExit"})

(* Only a class of the include list is traced, and only once the hook has  *)
(* written it; in the middle of a hook the entry to come, and then the     *)
(* entry that came, are those of the class.                                *)
ClassInv(c) ==
  /\ image[c].traced \subseteq Methods(c)
  /\ image[c].traced # {} => Rewritten(c)
  /\ image[c].traced # {} \/ InHook(c, {"hookAppend", "hookRewrite"}) => c \in Included
  /\ InHook(c, {"hookAppend"}) => image[c].cnum = Len(m_classes)
  /\ InHook(c, {"hookRewrite"}) => /\ image[c].cnum + 1 = Len(m_classes)
                                   /\ m_classes[image[c].cnum + 1].m_name = c

TableInv == (\A c \in Classes : ClassInv(c)) /\ NumbersLeadBack

(* A thread between a call of the bridge and its return.                   *)
InBridge(t) ==
  \/ pc[t] \in {"entry", "exit"} \cup NativePCs
  \/ pc[t] \in HookPCs /\ ret[t] \in {"entry", "exit"}

(* Frames are of loaded classes; only traced methods call the bridge.      *)
FrameInv ==
  \A t \in Threads :
    /\ \A i \in 1 .. Len(stack[t]) : stack[t][i][1] \in loaded
    /\ InBridge(t) => stack[t] # <<>> /\ Traced(Top(t))

(* What was done before a flag has its value, or before a thread got to    *)
(* where it is.                                                            *)
FlagInv ==
  /\ vm = "onload" => ~threadEvents /\ \A t \in Threads : pc[t] = "none"
  /\ engaged # 0 \/ pc[Main] = "initEngage" => natives
  /\ \A t \in Threads : /\ pc[t] \in NativePCs => natives
                        /\ pc[t] \in {"deathExit", "unload"} => m_vm_is_dead
                        /\ pc[t] \in {"enqueue", "evInfo"} => ~m_vm_is_dead
  /\ vm \in {"dead", "unloaded"} => m_vm_is_dead
  /\ vm = "start" => pc[Main] = "vmStart" \/ m_vm_is_started
  /\ pc[Main] \in InitPCs \/ LoadsForInit(Main) \/ threadEvents => m_vm_is_started

IInv ==
  TypeOK /\ LockInv /\ LoadInv /\ TableInv /\ FrameInv /\ FlagInv /\ RangeChecksNeverFire

-----------------------------------------------------------------------------
USE JVMAgentAssumption DEF vars, classLoading, java, agent, table, switches

(* TypeOK in parts that the steps can be checked for one by one.           *)
FlagsTyped ==
  /\ vm \in {"onload", "primordial", "start", "live", "dying", "dead", "unloaded", "aborted"}
  /\ m_vm_is_started \in BOOLEAN /\ m_vm_is_dead \in BOOLEAN
  /\ engaged \in {0, 1} /\ natives \in BOOLEAN /\ threadEvents \in BOOLEAN
  /\ fatal \in {"none", "onload", "classFile", "jni", "range"}
LoadTyped  == /\ loading \in [Classes -> Threads \cup {NoOne}]
              /\ loaded \in SUBSET Classes
PcTyped    == pc \in [Threads -> PC]
RetTyped   == ret \in [Threads -> {"java", "ended", "entry", "exit", "initFind"}]
StackTyped == stack \in [Threads -> Seq(Classes \X Nat)]
CallsTyped == calls \in [Threads -> Nat] /\ \A t \in Threads : calls[t] <= MaxCalls[t]
ThrewTyped == overflowed \in BOOLEAN /\ threw \in SUBSET Threads
LockTyped  == m_lock \in [owner : Threads \cup {NoOne}, count : Nat]
TableTyped == m_classes \in Seq([m_name : Classes, m_mcount : Nat])
ImageTyped == image \in [Classes -> Image]
SentTyped  == sent \in Seq([thread : Threads, what : {"enter", "exit"},
                           class : Classes, method : Nat])

LEMMA TypeParts ==
  TypeOK <=> /\ FlagsTyped /\ LoadTyped /\ PcTyped /\ RetTyped /\ StackTyped /\ CallsTyped
             /\ ThrewTyped /\ LockTyped /\ TableTyped /\ ImageTyped /\ SentTyped
  BY Zenon DEF TypeOK, FlagsTyped, LoadTyped, PcTyped, RetTyped, StackTyped, CallsTyped,
         ThrewTyped, LockTyped, TableTyped, ImageTyped, SentTyped

LEMMA Initially == Init => IInv
<1> SUFFICES ASSUME Init PROVE IInv
  OBVIOUS
<1>1. TypeOK
  <2>1. FlagsTyped /\ ThrewTyped
    BY DEF Init, FlagsTyped, ThrewTyped
  <2>4. LoadTyped /\ RetTyped /\ LockTyped
    BY DEF Init, LoadTyped, RetTyped, LockTyped
  <2>5. PcTyped
    BY DEF Init, PcTyped, PC
  <2>6. CallsTyped
    BY DEF Init, CallsTyped
  <2>2. StackTyped /\ TableTyped /\ SentTyped
    BY DEF Init, StackTyped, TableTyped, SentTyped
  <2>3. ImageTyped
    BY DEF Init, ImageTyped, Image, NotInstrumented
  <2> QED
    BY <2>1, <2>2, <2>3, <2>4, <2>5, <2>6, TypeParts
<1>2. LockInv
  BY DEF Init, LockInv, RetFits, Entered, LoadsForInit, LockedPCs, HookInside, HookPCs,
         NativePCs, EventPCs
<1>3. LoadInv
  BY DEF Init, LoadInv
<1>4. TableInv
  BY DEF Init, TableInv, ClassInv, InHook, NumbersLeadBack, NotInstrumented
<1>5. FrameInv
  BY DEF Init, FrameInv, InBridge, NativePCs, HookPCs, HookInside
<1>6. FlagInv
  BY DEF Init, FlagInv, NativePCs, InitPCs, LoadsForInit, HookPCs, HookInside
<1> QED
  BY <1>1, <1>2, <1>3, <1>4, <1>5, <1>6 DEF IInv, Init, RangeChecksNeverFire

-----------------------------------------------------------------------------
(* Which actions write what.  Most steps only move a program counter and   *)
(* set a flag.                                                             *)
Calls(t)  == \E c \in Classes : \E m \in Methods(c) : Call(t, c, m)
Unwinds(t) == ReturnUntraced(t) \/ Throw(t) \/ BridgeCall(t) \/ NativeUnlock(t)

LEMMA Writers ==
  ASSUME [Next]_vars
  PROVE  /\ UNCHANGED java \/ \E t \in Threads : Calls(t) \/ Unwinds(t)
         /\ \/ UNCHANGED m_lock
            \/ \E t \in Threads, from \in PC : \E to :
                 Enter(t, from, to) \/ (from \in LockedPCs /\ Leave(t, from, to))
         /\ \/ UNCHANGED classLoading
            \/ \E t \in Threads, c \in Classes :
                 BeginLoad(t, c) \/ LoadUnhooked(t, c) \/ HookUnlock(t, c)
         /\ \/ UNCHANGED table
            \/ \E t \in Threads, c \in Classes :
                 HookNumbers(t, c) \/ HookAppends(t, c) \/ HookRewrites(t, c)
         /\ UNCHANGED sent \/ \E t \in Threads : Enqueue(t)
         /\ \/ UNCHANGED ret
            \/ \E t \in Threads : \/ BeginThread(t) \/ EndThread(t) \/ BridgeCall(t)
                                  \/ \E c \in Classes : BeginLoad(t, c)
<1> DEFINE
      Locked == \E t \in Threads, from \in PC : \E to :
                  Enter(t, from, to) \/ (from \in LockedPCs /\ Leave(t, from, to))
      Others == UNCHANGED <<java, classLoading, table, sent>>
<1>1. CASE \/ OnLoad \/ OnLoadFails \/ PostVMStart \/ VMStart \/ PostVMInit \/ VMInitFails
           \/ VMInitFind \/ VMInitRegister \/ VMInitEngage \/ VMInitEvents
           \/ UNCHANGED vars
  <2>1. UNCHANGED <<java, m_lock, classLoading, table, sent, ret>>
    BY <1>1 DEF OnLoad, OnLoadFails, PostVMStart, VMStart, PostVMInit, VMInitFails,
                VMInitFind, VMInitRegister, VMInitEngage, VMInitEvents, Fatal
  <2> QED
    BY <2>1
<1>2. ASSUME NEW t \in Threads,
             \/ ThreadEvent(t) \/ GetThreadInfo(t) \/ PostVMDeath(t) \/ VMDeathFails(t)
             \/ VMDeathDisengage(t) \/ VMDeathMark(t) \/ OnUnload(t) \/ ReturnTraced(t)
             \/ NativeChecks(t) \/ \E c \in Classes : HookSkips(t, c)
      PROVE  UNCHANGED <<java, m_lock, classLoading, table, sent, ret>>
  BY <1>2 DEF ThreadEvent, GetThreadInfo, PostVMDeath, VMDeathFails, VMDeathDisengage,
              VMDeathMark, OnUnload, ReturnTraced, NativeChecks, HookSkips, Fatal
<1>3. ASSUME NEW t \in Threads, BeginThread(t) \/ EndThread(t)
      PROVE  UNCHANGED <<java, m_lock, classLoading, table, sent>>
  BY <1>3 DEF BeginThread, EndThread
<1>4. ASSUME VMInitLock \/ VMInitUnlock
      PROVE  Locked /\ Others /\ UNCHANGED ret
  BY <1>4 DEF VMInitLock, VMInitUnlock, LockedPCs, PC
<1>5. ASSUME NEW t \in Threads,
             \/ HookLock(t) \/ NativeLock(t) \/ ThreadEventLock(t) \/ VMDeathLock(t)
             \/ ThreadEventUnlock(t) \/ VMDeathUnlock(t)
      PROVE  Locked /\ Others /\ UNCHANGED ret
  BY <1>5 DEF HookLock, NativeLock, ThreadEventLock, VMDeathLock, ThreadEventUnlock,
              VMDeathUnlock, LockedPCs, PC
<1>6. ASSUME NEW t \in Threads, NEW c \in Classes, BeginLoad(t, c)
      PROVE  UNCHANGED <<java, m_lock, table, sent>>
  BY <1>6 DEF BeginLoad
<1>7. ASSUME NEW t \in Threads, NEW c \in Classes, LoadUnhooked(t, c)
      PROVE  UNCHANGED <<java, m_lock, table, sent, ret>>
  BY <1>7 DEF LoadUnhooked
<1>8. ASSUME NEW t \in Threads, NEW c \in Classes,
             HookNumbers(t, c) \/ HookAppends(t, c) \/ HookRewrites(t, c)
      PROVE  UNCHANGED <<java, m_lock, classLoading, sent, ret>>
  BY <1>8 DEF HookNumbers, HookAppends, HookRewrites, Fatal
<1>9. ASSUME NEW t \in Threads, NEW c \in Classes, HookUnlock(t, c)
      PROVE  Locked /\ UNCHANGED <<java, table, sent, ret>>
  BY <1>9 DEF HookUnlock, LockedPCs, HookInside, PC
<1>10. ASSUME NEW t \in Threads, Calls(t) \/ ReturnUntraced(t) \/ Throw(t)
       PROVE  UNCHANGED <<m_lock, classLoading, table, sent, ret>>
  BY <1>10 DEF Calls, Call, ReturnUntraced, Throw
<1>11. ASSUME NEW t \in Threads, BridgeCall(t)
       PROVE  UNCHANGED <<m_lock, classLoading, table, sent>>
  BY <1>11 DEF BridgeCall
<1>12. ASSUME NEW t \in Threads, NativeUnlock(t)
       PROVE  Locked /\ UNCHANGED <<classLoading, table, sent, ret>>
  BY <1>12 DEF NativeUnlock, LockedPCs, PC
<1>13. ASSUME NEW t \in Threads, Enqueue(t)
       PROVE  UNCHANGED <<java, m_lock, classLoading, table, ret>>
  BY <1>13 DEF Enqueue
<1> HIDE DEF Locked
<1> QED
  BY <1>1, <1>2, <1>3, <1>4, <1>5, <1>6, <1>7, <1>8, <1>9, <1>10, <1>11, <1>12, <1>13
     DEF Next, MainStep, Locks, Works, CallsServer, JavaCode, Finished, Unwinds, Calls, Locked

-----------------------------------------------------------------------------
(* Types.                                                                  *)

LEMMA FlagsStep ==
  ASSUME FlagsTyped, [Next]_vars
  PROVE  FlagsTyped'
<1> USE DEF FlagsTyped
<1>1. CASE OnLoad \/ OnLoadFails \/ PostVMStart \/ VMStart \/ PostVMInit
  BY <1>1 DEF OnLoad, OnLoadFails, PostVMStart, VMStart, PostVMInit, Fatal
<1>2. CASE VMInitFails \/ VMInitLock \/ MainStep
  <2>1. CASE VMInitFails \/ VMInitLock \/ VMInitFind \/ VMInitUnlock
    BY <2>1 DEF VMInitFails, VMInitFind, VMInitUnlock, VMInitLock, Fatal
  <2>2. CASE VMInitRegister \/ VMInitEngage \/ VMInitEvents
    BY <2>2 DEF VMInitRegister, VMInitEngage, VMInitEvents
  <2> QED
    BY <1>1, <1>2, <2>1, <2>2 DEF MainStep
<1>3. ASSUME NEW t \in Threads, CallsServer(t) \/ VMDeathFails(t) \/ Locks(t)
      PROVE  FlagsTyped'
  BY <1>3 DEF CallsServer, VMDeathFails, Locks, Enqueue, OnUnload, HookLock, NativeLock,
              ThreadEventLock, VMDeathLock, Fatal
<1>4. ASSUME NEW t \in Threads, Works(t)
      PROVE  FlagsTyped'
  <2>1. ASSUME NEW c \in Classes,
               \/ BeginLoad(t, c) \/ HookSkips(t, c) \/ HookNumbers(t, c)
               \/ HookAppends(t, c) \/ HookRewrites(t, c) \/ HookUnlock(t, c)
        PROVE  FlagsTyped'
    BY <2>1 DEF BeginLoad, HookSkips, HookNumbers, HookAppends, HookRewrites, HookUnlock, Fatal
  <2>2. CASE BridgeCall(t) \/ NativeChecks(t) \/ NativeUnlock(t)
    BY <2>2 DEF BridgeCall, NativeChecks, NativeUnlock, Fatal
  <2>3. CASE ThreadEvent(t) \/ GetThreadInfo(t) \/ ThreadEventUnlock(t)
    BY <2>3 DEF ThreadEvent, GetThreadInfo, ThreadEventUnlock
  <2>4. CASE VMDeathDisengage(t) \/ VMDeathMark(t) \/ VMDeathUnlock(t)
    BY <2>4 DEF VMDeathDisengage, VMDeathMark, VMDeathUnlock
  <2> QED
    BY <1>4, <2>1, <2>2, <2>3, <2>4 DEF Works
<1>5. ASSUME NEW t \in Threads, JavaCode(t)
      PROVE  FlagsTyped'
  <2>1. ASSUME NEW c \in Classes, BeginLoad(t, c) \/ LoadUnhooked(t, c)
        PROVE  FlagsTyped'
    BY <2>1 DEF BeginLoad, LoadUnhooked
  <2>2. ASSUME NEW c \in Classes, NEW m \in Methods(c), Call(t, c, m)
        PROVE  FlagsTyped'
    BY <2>2 DEF Call
  <2>3. CASE BeginThread(t) \/ EndThread(t) \/ PostVMDeath(t)
    BY <2>3 DEF BeginThread, EndThread, PostVMDeath
  <2>4. CASE ReturnTraced(t) \/ ReturnUntraced(t) \/ Throw(t)
    BY <2>4 DEF ReturnTraced, ReturnUntraced, Throw
  <2> QED
    BY <1>5, <2>1, <2>2, <2>3, <2>4 DEF JavaCode
<1>6. CASE UNCHANGED vars
  BY <1>6
<1> QED
  BY <1>1, <1>2, <1>3, <1>4, <1>5, <1>6 DEF Next, Finished

(* A thread goes on in a line there is.                                    *)
LEMMA PcStep ==
  ASSUME PcTyped, RetTyped, [Next]_vars
  PROVE  PcTyped'
<1>1. ASSUME NEW t \in Threads, NEW from, NEW to \in PC, Goes(t, from, to)
      PROVE  PcTyped'
  BY <1>1 DEF Goes, PcTyped
<1>2. \A t \in Threads : pc[t] \in PC /\ ret[t] \in PC
  BY DEF PcTyped, RetTyped, PC
<1>3. CASE \/ OnLoad \/ OnLoadFails \/ PostVMStart \/ PostVMInit \/ MainStep
           \/ VMInitLock \/ VMInitFails
  <2>1. /\ {"java", "vmStart", "initRegister", "initEngage", "initEvents"} \subseteq PC
        /\ {"initExit", "initFind", "initLock"} \subseteq PC
    BY DEF PC
  <2>2. CASE OnLoad \/ OnLoadFails \/ VMInitFails
    BY <2>1, <2>2 DEF OnLoad, OnLoadFails, VMInitFails, PcTyped
  <2>3. CASE PostVMStart \/ PostVMInit \/ VMInitLock \/ MainStep
    BY <1>1, <2>1, <2>3
       DEF PostVMStart, PostVMInit, VMInitLock, MainStep, VMStart, VMInitFind, Enter, Leave,
           VMInitRegister, VMInitEngage, VMInitEvents, VMInitUnlock
  <2> QED
    BY <1>3, <2>2, <2>3
<1>4. ASSUME NEW t \in Threads, CallsServer(t) \/ VMDeathFails(t) \/ Locks(t)
      PROVE  PcTyped'
  <2>1. {"natExit", "ended", "hookIn", "natIn", "evIn", "deathDisengage"} \subseteq PC
    BY DEF PC
  <2> QED
    BY <1>1, <1>4, <2>1 DEF CallsServer, VMDeathFails, Locks, Enqueue, OnUnload, HookLock,
                            NativeLock, ThreadEventLock, VMDeathLock, Enter, PcTyped
<1>5. ASSUME NEW t \in Threads, Works(t)
      PROVE  PcTyped'
  <2> USE <1>2
  <2>1. ASSUME NEW c \in Classes,
               \/ BeginLoad(t, c) \/ HookSkips(t, c) \/ HookNumbers(t, c)
               \/ HookAppends(t, c) \/ HookRewrites(t, c) \/ HookUnlock(t, c)
        PROVE  PcTyped'
    <3>1. {"hookLock", "hookAppend", "hookRewrite", "hookExit"} \subseteq PC
      BY DEF PC
    <3> QED
      BY <1>1, <2>1, <3>1 DEF BeginLoad, HookSkips, HookNumbers, HookAppends, HookRewrites,
                              HookUnlock, Leave, PcTyped
  <2>2. CASE BridgeCall(t) \/ NativeChecks(t) \/ NativeUnlock(t)
    <3>1. {"java", "natLock", "enqueue", "natExit"} \subseteq PC
      BY DEF PC
    <3> QED
      BY <1>1, <2>2, <3>1 DEF BridgeCall, NativeChecks, NativeUnlock, Leave, PcTyped
  <2>3. CASE ThreadEvent(t) \/ GetThreadInfo(t) \/ ThreadEventUnlock(t)
    <3>1. {"evInfo", "evExit"} \subseteq PC
      BY DEF PC
    <3> QED
      BY <1>1, <2>3, <3>1 DEF ThreadEvent, GetThreadInfo, ThreadEventUnlock, Leave
  <2>4. CASE VMDeathDisengage(t) \/ VMDeathMark(t) \/ VMDeathUnlock(t)
    <3>1. {"deathMark", "deathExit", "unload"} \subseteq PC
      BY DEF PC
    <3> QED
      BY <1>1, <2>4, <3>1 DEF VMDeathDisengage, VMDeathMark, VMDeathUnlock, Leave
  <2> QED
    BY <1>5, <2>1, <2>2, <2>3, <2>4 DEF Works
<1>6. ASSUME NEW t \in Threads, JavaCode(t)
      PROVE  PcTyped'
  <2>1. {"hookLock", "java", "entry", "exit", "evLock", "ended", "deathLock"} \subseteq PC
    BY DEF PC
  <2>2. ASSUME NEW c \in Classes, BeginLoad(t, c) \/ LoadUnhooked(t, c) \/ Calls(t)
        PROVE  PcTyped'
    BY <1>1, <2>1, <2>2 DEF BeginLoad, LoadUnhooked, Calls, Call
  <2>3. CASE BeginThread(t) \/ EndThread(t) \/ PostVMDeath(t)
    BY <1>1, <2>1, <2>3 DEF BeginThread, EndThread, PostVMDeath
  <2>4. CASE ReturnTraced(t) \/ ReturnUntraced(t) \/ Throw(t)
    BY <1>1, <2>1, <2>4 DEF ReturnTraced, ReturnUntraced, Throw
  <2> QED
    BY <1>6, <2>2, <2>3, <2>4 DEF JavaCode, Calls
<1>7. CASE UNCHANGED vars
  BY <1>7 DEF PcTyped
<1> QED
  BY <1>3, <1>4, <1>5, <1>6, <1>7 DEF Next, Finished

LEMMA RetStep ==
  ASSUME PcTyped, RetTyped, [Next]_vars
  PROVE  RetTyped'
<1>1. ASSUME NEW t \in Threads, BeginThread(t) \/ EndThread(t) \/ BridgeCall(t)
      PROVE  RetTyped'
  BY <1>1 DEF BeginThread, EndThread, BridgeCall, RetTyped
<1>2. ASSUME NEW t \in Threads, NEW c \in Classes, BeginLoad(t, c)
      PROVE  RetTyped'
  BY <1>2 DEF BeginLoad, RetTyped
<1> QED
  BY <1>1, <1>2, Writers DEF RetTyped

(* A frame that is popped leaves frames.                                   *)
LEMMA PopTyped ==
  ASSUME StackTyped, NEW t \in Threads, stack[t] # <<>>
  PROVE  /\ Front(stack[t]) \in Seq(Classes \X Nat)
         /\ Len(Front(stack[t])) = Len(stack[t]) - 1
         /\ \A i \in 1 .. Len(Front(stack[t])) : Front(stack[t])[i] = stack[t][i]
         /\ Top(t) \in Classes \X Nat
         /\ Top(t) = stack[t][Len(stack[t])]
         /\ Len(stack[t]) \in Nat \ {0}
<1>1. stack[t] \in Seq(Classes \X Nat) /\ Len(stack[t]) \in Nat \ {0}
  BY DEF StackTyped
<1> QED
  BY <1>1 DEF Front, Top, Last

LEMMA StackStep ==
  ASSUME StackTyped, FrameInv, RetTyped, LockInv, [Next]_vars
  PROVE  StackTyped'
<1>1. ASSUME NEW t \in Threads, Calls(t)
      PROVE  StackTyped'
  <2>0. PICK c \in Classes : \E m \in Methods(c) : Call(t, c, m)
    BY <1>1 DEF Calls
  <2>1. PICK m \in Methods(c) : Call(t, c, m)
    BY <2>0
  <2>2. <<c, m>> \in Classes \X Nat
    BY DEF Methods
  <2>3. Append(stack[t], <<c, m>>) \in Seq(Classes \X Nat)
    BY <2>2 DEF StackTyped
  <2> QED
    BY <2>1, <2>3 DEF Call, StackTyped
<1>2. ASSUME NEW t \in Threads, stack[t] # <<>>, Pop(t)
      PROVE  StackTyped'
  BY <1>2, PopTyped DEF Pop, StackTyped
<1>3. ASSUME NEW t \in Threads, stack' = [stack EXCEPT ![t] = <<>>]
      PROVE  StackTyped'
  BY <1>3 DEF StackTyped
<1>4. ASSUME NEW t \in Threads, ReturnUntraced(t) \/ Throw(t)
      PROVE  StackTyped'
  BY <1>2, <1>4 DEF ReturnUntraced, Throw
<1>5. ASSUME NEW t \in Threads, BridgeCall(t)
      PROVE  StackTyped'
  <2>1. stack[t] # <<>>
    BY <1>5 DEF BridgeCall, FrameInv, InBridge
  <2> QED
    BY <1>2, <1>3, <1>5, <2>1 DEF BridgeCall, After, StackTyped
<1>6. ASSUME NEW t \in Threads, NativeUnlock(t)
      PROVE  StackTyped'
  <2>1. stack[t] # <<>>
    BY <1>6 DEF NativeUnlock, Leave, Goes, FrameInv, InBridge, NativePCs
  <2> QED
    BY <1>2, <1>6, <2>1 DEF NativeUnlock, After, StackTyped
<1>7. CASE UNCHANGED java
  BY <1>7 DEF StackTyped
<1> QED
  BY <1>1, <1>4, <1>5, <1>6, <1>7, Writers DEF Unwinds

LEMMA CallsStep ==
  ASSUME CallsTyped, ThrewTyped, [Next]_vars
  PROVE  CallsTyped' /\ ThrewTyped'
<1>1. ASSUME NEW t \in Threads, Calls(t)
      PROVE  CallsTyped' /\ ThrewTyped'
  <2>0. PICK c \in Classes : \E m \in Methods(c) : Call(t, c, m)
    BY <1>1 DEF Calls
  <2>1. PICK m \in Methods(c) : Call(t, c, m)
    BY <2>0
  <2>2. calls[t] \in Nat /\ MaxCalls[t] \in Nat /\ calls[t] < MaxCalls[t]
    BY <2>1 DEF Call, CallsTyped
  <2> QED
    BY <2>1, <2>2 DEF Call, CallsTyped, ThrewTyped
<1>2. ASSUME NEW t \in Threads, Unwinds(t)
      PROVE  calls' = calls /\ overflowed' \in BOOLEAN /\ threw' \in SUBSET Threads
  BY <1>2 DEF Unwinds, ReturnUntraced, Throw, BridgeCall, NativeUnlock, After, ThrewTyped
<1> QED
  BY <1>1, <1>2, Writers DEF CallsTyped, ThrewTyped

(* Only a thread that has entered the monitor leaves it.                   *)
LEMMA LockTypeStep ==
  ASSUME LockTyped, LockInv, [Next]_vars
  PROVE  LockTyped'
<1>1. ASSUME NEW t \in Threads, NEW from \in PC, NEW to, Enter(t, from, to)
      PROVE  LockTyped'
  BY <1>1 DEF Enter, LockTyped
<1>2. ASSUME NEW t \in Threads, NEW from \in PC, NEW to, from \in LockedPCs, Leave(t, from, to)
      PROVE  LockTyped'
  <2>1. Entered(t) # 0
    BY <1>2 DEF Leave, Goes, Entered
  <2>2. m_lock.owner = t /\ m_lock.count \in Nat /\ m_lock.count # 0
    BY <2>1 DEF LockInv, LockTyped
  <2> QED
    BY <1>2, <2>2 DEF Leave, LockTyped
<1> QED
  BY <1>1, <1>2, Writers DEF LockTyped

LEMMA TableStep ==
  ASSUME TableTyped, ImageTyped, TableInv, [Next]_vars
  PROVE  TableTyped' /\ ImageTyped'
<1> DEFINE Entry == [m_name : Classes, m_mcount : Nat]
<1>1. /\ \A c \in Classes, k \in Nat : [m_name |-> c, m_mcount |-> k] \in Entry
      /\ \A r \in Entry, k \in Nat : [r EXCEPT !.m_mcount = k] \in Entry
  OBVIOUS
<1>2. /\ TableTyped <=> m_classes \in Seq(Entry)
      /\ TableTyped' <=> m_classes' \in Seq(Entry)
  BY DEF TableTyped
<1> HIDE DEF Entry
<1>3. /\ m_classes \in Seq(Entry) /\ Len(m_classes) \in Nat
      /\ \A i \in 1 .. Len(m_classes) : m_classes[i] \in Entry
  BY <1>2, ElementOfSeq, LenProperties
<1>4. ASSUME NEW t \in Threads, NEW c \in Classes, HookNumbers(t, c)
      PROVE  TableTyped' /\ ImageTyped'
  <2>1. image[c] \in Image
    BY DEF ImageTyped
  <2>2. [image[c] EXCEPT !.cnum = Len(m_classes)] \in Image
    BY <1>3, <2>1 DEF Image
  <2> QED
    BY <1>4, <2>2 DEF HookNumbers, TableTyped, ImageTyped
<1>5. ASSUME NEW t \in Threads, NEW c \in Classes, HookAppends(t, c)
      PROVE  TableTyped' /\ ImageTyped'
  <2>1. image[c].cnum = Len(m_classes)
    BY <1>5 DEF HookAppends, Goes, TableInv, ClassInv, InHook
  <2>2. m_classes' = [i \in 1 .. Len(m_classes) + 1 |->
           IF i = Len(m_classes) + 1 THEN [m_name |-> c, m_mcount |-> 0] ELSE m_classes[i]]
    BY <1>5, <2>1 DEF HookAppends
  <2>3. \A i \in 1 .. Len(m_classes) + 1 : m_classes'[i] \in Entry
    BY <1>1, <1>3, <2>2
  <2>4. m_classes' \in [1 .. Len(m_classes) + 1 -> Entry]
    BY <2>2, <2>3
  <2>5. m_classes' \in Seq(Entry)
    BY <1>3, <2>4
  <2> QED
    BY <1>2, <1>5, <2>5 DEF HookAppends, ImageTyped
<1>6. ASSUME NEW t \in Threads, NEW c \in Classes, HookRewrites(t, c)
      PROVE  TableTyped' /\ ImageTyped'
  <2> DEFINE n == image[c].cnum + 1
             traced == {m \in WithCode(c) : m_vm_is_started \/ <<c, m>> \notin SystemSkips}
  <2>1. MethodCount[c] \in Nat /\ traced \in SUBSET Nat /\ image[c] \in Image
    BY DEF Methods, WithCode, ImageTyped
  <2>2. image[c].cnum \in Nat /\ n = Len(m_classes)
    BY <1>6, <2>1 DEF HookRewrites, TableInv, ClassInv, InHook, Goes, Image
  <2>3. n \in 1 .. Len(m_classes)
    BY <1>3, <2>2
  <2>4. \/ UNCHANGED table
        \/ /\ m_classes' = [m_classes EXCEPT ![n].m_mcount = MethodCount[c]]
           /\ image' = [image EXCEPT ![c].traced = traced]
    BY <1>6 DEF HookRewrites, Fatal
  <2> HIDE DEF traced, n
  <2>5. [image[c] EXCEPT !.traced = traced] \in Image
    BY <2>1 DEF Image
  <2>6. [m_classes[n] EXCEPT !.m_mcount = MethodCount[c]] \in Entry
    BY <1>1, <1>3, <2>1, <2>3
  <2>7. [m_classes EXCEPT ![n] = [m_classes[n] EXCEPT !.m_mcount = MethodCount[c]]] \in Seq(Entry)
    BY <1>3, <2>3, <2>6, ExceptSeq
  <2> QED
    BY <1>2, <2>4, <2>5, <2>7 DEF TableTyped, ImageTyped
<1>7. CASE UNCHANGED table
  BY <1>7 DEF TableTyped, ImageTyped
<1> QED
  BY <1>4, <1>5, <1>6, <1>7, Writers

(* In a native the numbers of the running method are found in the table,   *)
(* and under its name.                                                     *)
LEMMA NameIsTop ==
  ASSUME StackTyped, ImageTyped, TableInv, FrameInv,
         NEW t \in Threads, pc[t] \in NativePCs
  PROVE  /\ Top(t) \in Classes \X Nat
         /\ Name(t) = Top(t)[1]
         /\ InRange(t)
<1>1. stack[t] # <<>> /\ Traced(Top(t))
  BY DEF FrameInv, InBridge
<1>2. Top(t) \in Classes \X Nat
  BY <1>1, PopTyped
<1> DEFINE c == Top(t)[1]
<1>3. c \in Classes /\ Top(t)[2] \in image[c].traced
  BY <1>1, <1>2 DEF Traced
<1> HIDE DEF c
<1>4. /\ image[c].cnum < Len(m_classes)
      /\ m_classes[image[c].cnum + 1] = [m_name |-> c, m_mcount |-> MethodCount[c]]
  BY <1>3 DEF TableInv, NumbersLeadBack
<1>5. Top(t)[2] \in 0 .. MethodCount[c] - 1 /\ MethodCount[c] \in Nat
  BY <1>3 DEF TableInv, ClassInv, Methods
<1> QED
  BY <1>2, <1>4, <1>5 DEF c, Name, InRange

LEMMA SentStep ==
  ASSUME StackTyped, ImageTyped, TableInv, FrameInv, SentTyped, [Next]_vars
  PROVE  SentTyped'
<1>1. ASSUME NEW t \in Threads, Enqueue(t)
      PROVE  SentTyped'
  <2>1. Top(t) \in Classes \X Nat /\ Name(t) = Top(t)[1]
    BY <1>1, NameIsTop DEF Enqueue, Goes, NativePCs
  <2>2. Top(t)[1] \in Classes /\ Top(t)[2] \in Nat
    BY <2>1
  <2> QED
    BY <1>1, <2>1, <2>2 DEF Enqueue, SentTyped
<1> QED
  BY <1>1, Writers DEF SentTyped

(* Only the checks of the natives give the reason "range", and they find   *)
(* the numbers in range.                                                   *)
LEMMA RangeStep ==
  ASSUME StackTyped, ImageTyped, TableInv, FrameInv, RangeChecksNeverFire, [Next]_vars
  PROVE  RangeChecksNeverFire'
<1> USE DEF RangeChecksNeverFire
<1>1. CASE OnLoad \/ OnLoadFails \/ PostVMStart \/ VMStart \/ PostVMInit
  BY <1>1 DEF OnLoad, OnLoadFails, PostVMStart, VMStart, PostVMInit, Fatal
<1>2. CASE VMInitFails \/ VMInitLock \/ MainStep
  <2>1. CASE VMInitFails \/ VMInitLock \/ VMInitFind \/ VMInitUnlock
    BY <2>1 DEF VMInitFails, VMInitFind, VMInitUnlock, VMInitLock, Fatal
  <2>2. CASE VMInitRegister \/ VMInitEngage \/ VMInitEvents
    BY <2>2 DEF VMInitRegister, VMInitEngage, VMInitEvents
  <2> QED
    BY <1>1, <1>2, <2>1, <2>2 DEF MainStep
<1>3. ASSUME NEW t \in Threads, CallsServer(t) \/ VMDeathFails(t) \/ Locks(t)
      PROVE  RangeChecksNeverFire'
  BY <1>3 DEF CallsServer, VMDeathFails, Locks, Enqueue, OnUnload, HookLock, NativeLock,
              ThreadEventLock, VMDeathLock, Fatal
<1>4. ASSUME NEW t \in Threads, Works(t)
      PROVE  RangeChecksNeverFire'
  <2>1. ASSUME NEW c \in Classes,
               \/ BeginLoad(t, c) \/ HookSkips(t, c) \/ HookNumbers(t, c)
               \/ HookAppends(t, c) \/ HookRewrites(t, c) \/ HookUnlock(t, c)
        PROVE  RangeChecksNeverFire'
    BY <2>1 DEF BeginLoad, HookSkips, HookNumbers, HookAppends, HookRewrites, HookUnlock, Fatal
  <2>2. CASE NativeChecks(t)
    <3>1. InRange(t)
      BY <2>2, NameIsTop DEF NativeChecks, NativePCs
    <3> QED
      BY <2>2, <3>1 DEF NativeChecks
  <2>3. CASE \/ BridgeCall(t) \/ NativeUnlock(t)
             \/ ThreadEvent(t) \/ GetThreadInfo(t) \/ ThreadEventUnlock(t)
    BY <2>3 DEF BridgeCall, NativeUnlock, ThreadEvent, GetThreadInfo, ThreadEventUnlock
  <2>4. CASE VMDeathDisengage(t) \/ VMDeathMark(t) \/ VMDeathUnlock(t)
    BY <2>4 DEF VMDeathDisengage, VMDeathMark, VMDeathUnlock
  <2> QED
    BY <1>4, <2>1, <2>2, <2>3, <2>4 DEF Works
<1>5. ASSUME NEW t \in Threads, JavaCode(t)
      PROVE  RangeChecksNeverFire'
  BY <1>5 DEF JavaCode, BeginLoad, LoadUnhooked, Call, BeginThread, EndThread, PostVMDeath,
              ReturnTraced, ReturnUntraced, Throw
<1>6. CASE UNCHANGED vars
  BY <1>6
<1> QED
  BY <1>1, <1>2, <1>3, <1>4, <1>5, <1>6 DEF Next, Finished

LEMMA TypeStep ==
  ASSUME IInv, [Next]_vars
  PROVE  TypeOK' /\ RangeChecksNeverFire'
<1>1. /\ FlagsTyped /\ LoadTyped /\ PcTyped /\ RetTyped /\ StackTyped /\ CallsTyped
      /\ ThrewTyped /\ LockTyped /\ TableTyped /\ ImageTyped /\ SentTyped
      /\ LockInv /\ LoadInv /\ TableInv /\ FrameInv /\ FlagInv /\ RangeChecksNeverFire
  BY TypeParts DEF IInv
<1>2. ASSUME NEW t \in Threads, NEW c \in Classes,
             BeginLoad(t, c) \/ LoadUnhooked(t, c) \/ HookUnlock(t, c)
      PROVE  LoadTyped'
  BY <1>1, <1>2 DEF BeginLoad, LoadUnhooked, HookUnlock, LoadTyped
<1>3. LoadTyped'
  BY <1>1, <1>2, Writers DEF LoadTyped
<1>4. /\ FlagsTyped' /\ PcTyped' /\ RetTyped' /\ StackTyped' /\ CallsTyped' /\ ThrewTyped'
      /\ LockTyped' /\ TableTyped' /\ ImageTyped' /\ SentTyped' /\ RangeChecksNeverFire'
  BY <1>1, FlagsStep, PcStep, RetStep, StackStep, CallsStep, LockTypeStep, TableStep,
     SentStep, RangeStep
<1> QED
  BY <1>3, <1>4, Zenon
     DEF TypeOK, FlagsTyped, LoadTyped, PcTyped, RetTyped, StackTyped, CallsTyped,
         ThrewTyped, LockTyped, TableTyped, ImageTyped, SentTyped

-----------------------------------------------------------------------------
(* The monitor.                                                            *)

LEMMA EnteredBounds ==
  ASSUME NEW t \in Threads
  PROVE  Entered(t) \in 0 .. 2 /\ (pc[t] \in LockedPCs => Entered(t) # 0)
  BY DEF Entered

(* Two threads are not between lock() and unlock() at once.                *)
LEMMA Exclusion ==
  ASSUME LockInv, NEW t \in Threads, NEW u \in Threads,
         pc[t] \in LockedPCs, pc[u] \in LockedPCs
  PROVE  t = u
  BY EnteredBounds DEF LockInv

LEMMA LockMove ==
  ASSUME LockInv, LockTyped, NEW t \in Threads,
         \A u \in Threads \ {t} : pc'[u] = pc[u] /\ ret'[u] = ret[u],
         RetFits(t)',
         \/ m_lock' = m_lock /\ Entered(t)' = Entered(t)
         \/ /\ m_lock.owner \in {NoOne, t}
            /\ m_lock' = [owner |-> t, count |-> m_lock.count + 1]
            /\ Entered(t)' = Entered(t) + 1
         \/ /\ m_lock' = IF m_lock.count = 1 THEN [owner |-> NoOne, count |-> 0]
                                            ELSE [m_lock EXCEPT !.count = @ - 1]
            /\ Entered(t)' = Entered(t) - 1
  PROVE  LockInv'
<1>1. ASSUME NEW u \in Threads \ {t}
      PROVE  Entered(u)' = Entered(u) /\ RetFits(u)'
  BY <1>1 DEF Entered, LoadsForInit, RetFits, LockInv
<1>2. Entered(t) \in Nat /\ Entered(t)' \in Nat
  BY DEF Entered
<1>3. m_lock \in [owner : Threads \cup {NoOne}, count : Nat]
  BY DEF LockTyped
<1>4. CASE m_lock' = m_lock /\ Entered(t)' = Entered(t)
  BY <1>1, <1>4 DEF LockInv
<1>5. CASE /\ m_lock.owner \in {NoOne, t}
           /\ m_lock' = [owner |-> t, count |-> m_lock.count + 1]
           /\ Entered(t)' = Entered(t) + 1
  BY <1>1, <1>2, <1>3, <1>5 DEF LockInv
<1>6. CASE /\ m_lock' = IF m_lock.count = 1 THEN [owner |-> NoOne, count |-> 0]
                                            ELSE [m_lock EXCEPT !.count = @ - 1]
           /\ Entered(t)' = Entered(t) - 1
  <2>1. m_lock.owner = t /\ m_lock.count = Entered(t) /\ m_lock.count # 0
    BY <1>2, <1>3, <1>6 DEF LockInv
  <2>2. m_lock' = IF m_lock.count = 1 THEN [owner |-> NoOne, count |-> 0]
                                      ELSE [owner |-> t, count |-> m_lock.count - 1]
    BY <1>3, <1>6, <2>1
  <2> QED
    BY <1>1, <1>2, <1>3, <1>6, <2>1, <2>2 DEF LockInv
<1> QED
  BY <1>4, <1>5, <1>6

(* What a thread does to its own program counter, and to no other.         *)
LEMMA GoesOnly ==
  ASSUME PcTyped, NEW t \in Threads, NEW from, NEW to, Goes(t, from, to)
  PROVE  /\ pc[t] = from /\ pc'[t] = to
         /\ \A u \in Threads \ {t} : pc'[u] = pc[u]
  BY DEF Goes, PcTyped

LEMMA RetOnly ==
  ASSUME RetTyped, NEW t \in Threads, NEW r, ret' = [ret EXCEPT ![t] = r]
  PROVE  ret'[t] = r /\ \A u \in Threads \ {t} : ret'[u] = ret[u]
  BY DEF RetTyped

(* A step of one thread that neither enters nor leaves.                    *)
Alike(from, to) ==
  /\ from \in LockedPCs <=> to \in LockedPCs
  /\ from \in HookPCs <=> to \in HookPCs
  /\ to \in NativePCs => from \in NativePCs
  /\ to \in EventPCs => from \in EventPCs

LEMMA QuietMove ==
  ASSUME PcTyped, RetTyped, LockTyped, LockInv, NEW t \in Threads, NEW from, NEW to,
         Goes(t, from, to), Alike(from, to), UNCHANGED <<ret, m_lock>>
  PROVE  LockInv'
<1>1. /\ pc[t] = from /\ pc'[t] = to /\ ret'[t] = ret[t] /\ RetFits(t)
      /\ \A u \in Threads \ {t} : pc'[u] = pc[u] /\ ret'[u] = ret[u]
  BY GoesOnly DEF LockInv
<1>2. RetFits(t)' /\ Entered(t)' = Entered(t)
  BY <1>1 DEF Alike, RetFits, Entered, LoadsForInit
<1> QED
  BY <1>1, <1>2, LockMove

LEMMA EnterMove ==
  ASSUME PcTyped, RetTyped, LockTyped, LockInv, NEW t \in Threads, NEW from, NEW to,
         Enter(t, from, to), from \notin LockedPCs, to \in LockedPCs,
         from \in HookPCs <=> to \in HookPCs,
         to \in NativePCs => from \in NativePCs, to \in EventPCs => from \in EventPCs,
         UNCHANGED ret
  PROVE  LockInv'
<1>1. /\ pc[t] = from /\ pc'[t] = to /\ ret'[t] = ret[t] /\ RetFits(t)
      /\ \A u \in Threads \ {t} : pc'[u] = pc[u] /\ ret'[u] = ret[u]
  BY GoesOnly DEF LockInv, Enter
<1>2. RetFits(t)' /\ Entered(t)' = Entered(t) + 1
  BY <1>1 DEF RetFits, Entered, LoadsForInit
<1> QED
  BY <1>1, <1>2, LockMove DEF Enter

LEMMA LeaveMove ==
  ASSUME PcTyped, RetTyped, LockTyped, LockInv, NEW t \in Threads, NEW from, NEW to,
         Leave(t, from, to), from \in LockedPCs,
         to \notin HookPCs \cup NativePCs \cup EventPCs,
         to \in LockedPCs => from \in HookPCs /\ ret[t] = "initFind",
         from \in HookPCs /\ ret[t] = "initFind" => to \in LockedPCs,
         UNCHANGED ret
  PROVE  LockInv'
<1>1. /\ pc[t] = from /\ pc'[t] = to /\ ret'[t] = ret[t]
      /\ \A u \in Threads \ {t} : pc'[u] = pc[u] /\ ret'[u] = ret[u]
  BY GoesOnly DEF Leave
<1>2. RetFits(t)' /\ Entered(t)' = Entered(t) - 1
  BY <1>1 DEF RetFits, Entered, LoadsForInit
<1> QED
  BY <1>1, <1>2, LockMove DEF Leave

LEMMA LockStep ==
  ASSUME IInv, [Next]_vars
  PROVE  LockInv'
<1> USE DEF LockedPCs, HookPCs, HookInside, NativePCs, EventPCs
<1>1. PcTyped /\ RetTyped /\ LockTyped /\ LockInv /\ FlagInv
  BY TypeParts DEF IInv
<1>2. ASSUME NEW t \in Threads, NEW from, NEW to,
             Goes(t, from, to), Alike(from, to), UNCHANGED <<ret, m_lock>>
      PROVE  LockInv'
  BY <1>1, <1>2, QuietMove
<1>3. ASSUME UNCHANGED <<pc, ret, m_lock>>
      PROVE  LockInv'
  BY <1>1, <1>3 DEF LockInv, Entered, LoadsForInit, RetFits
<1>4. CASE OnLoad
  <2>1. \A t \in Threads : pc[t] = "none"
    BY <1>1, <1>4 DEF OnLoad, FlagInv
  <2>2. /\ pc'[Main] = "java" /\ ret'[Main] = ret[Main] /\ m_lock' = m_lock
        /\ \A u \in Threads \ {Main} : pc'[u] = pc[u] /\ ret'[u] = ret[u]
    BY <1>1, <1>4 DEF OnLoad, PcTyped
  <2>3. RetFits(Main)' /\ Entered(Main)' = Entered(Main)
    BY <2>1, <2>2 DEF RetFits, Entered, LoadsForInit
  <2> QED
    BY <1>1, <2>2, <2>3, LockMove
<1>5. CASE PostVMStart \/ VMStart \/ PostVMInit
  BY <1>2, <1>5 DEF PostVMStart, VMStart, PostVMInit, Alike
<1>6. CASE VMInitFind \/ VMInitRegister \/ VMInitEngage \/ VMInitEvents
  BY <1>2, <1>6 DEF VMInitFind, VMInitRegister, VMInitEngage, VMInitEvents, Alike
<1>7. CASE VMInitLock
  BY <1>1, <1>7, EnterMove DEF VMInitLock
<1>8. CASE VMInitUnlock
  BY <1>1, <1>8, LeaveMove DEF VMInitUnlock
<1>9. ASSUME NEW t \in Threads, Locks(t)
      PROVE  LockInv'
  BY <1>1, <1>9, EnterMove DEF Locks, HookLock, NativeLock, ThreadEventLock, VMDeathLock
<1>10. ASSUME NEW t \in Threads, VMDeathUnlock(t) \/ NativeUnlock(t)
      PROVE  LockInv'
  BY <1>1, <1>10, LeaveMove DEF VMDeathUnlock, NativeUnlock
<1>11. ASSUME NEW t \in Threads, ThreadEventUnlock(t)
      PROVE  LockInv'
  <2>1. ret[t] \in {"java", "ended"}
    BY <1>1, <1>11 DEF ThreadEventUnlock, Leave, Goes, LockInv, RetFits
  <2> QED
    BY <1>1, <1>11, <2>1, LeaveMove DEF ThreadEventUnlock
<1>12. ASSUME NEW t \in Threads, NEW c \in Classes, HookUnlock(t, c)
      PROVE  LockInv'
  <2>1. ret[t] \in {"java", "entry", "exit", "initFind"}
    BY <1>1, <1>12 DEF HookUnlock, Leave, Goes, LockInv, RetFits
  <2> QED
    BY <1>1, <1>12, <2>1, LeaveMove DEF HookUnlock
<1>13. ASSUME NEW t \in Threads, NEW c \in Classes, BeginLoad(t, c)
      PROVE  LockInv'
  <2>1. /\ pc'[t] = "hookLock" /\ ret'[t] = pc[t]
        /\ \A u \in Threads \ {t} : pc'[u] = pc[u] /\ ret'[u] = ret[u]
    BY <1>1, <1>13, GoesOnly, RetOnly DEF BeginLoad
  <2>2. pc[t] \in {"java", "entry", "exit", "initFind"} /\ m_lock' = m_lock
    BY <1>13 DEF BeginLoad
  <2>3. RetFits(t)' /\ Entered(t)' = Entered(t)
    BY <2>1, <2>2 DEF RetFits, Entered, LoadsForInit
  <2> QED
    BY <1>1, <2>1, <2>2, <2>3, LockMove
<1>14. ASSUME NEW t \in Threads, NEW c \in Classes,
              \/ LoadUnhooked(t, c) \/ HookSkips(t, c) \/ HookNumbers(t, c)
              \/ HookAppends(t, c)
       PROVE  LockInv'
  BY <1>2, <1>14 DEF LoadUnhooked, HookSkips, HookNumbers, HookAppends, Alike
<1>15. ASSUME NEW t \in Threads, NEW c \in Classes, HookRewrites(t, c)
       PROVE  LockInv'
  <2>1. UNCHANGED <<ret, m_lock>> /\ (UNCHANGED pc \/ Goes(t, "hookRewrite", "hookExit"))
    BY <1>15 DEF HookRewrites, Fatal
  <2> QED
    BY <1>2, <1>3, <2>1 DEF Alike
<1>16. ASSUME NEW t \in Threads, BeginThread(t) \/ EndThread(t)
       PROVE  LockInv'
  <2>1. PICK from \in {"none", "java"} : \E to \in {"evLock", "java", "ended"},
                                            r \in {"java", "ended"} :
          Goes(t, from, to) /\ ret' = [ret EXCEPT ![t] = r]
    BY <1>16 DEF BeginThread, EndThread
  <2>2. /\ pc[t] = from /\ pc'[t] \in {"evLock", "java", "ended"}
        /\ ret'[t] \in {"java", "ended"}
        /\ \A u \in Threads \ {t} : pc'[u] = pc[u] /\ ret'[u] = ret[u]
    BY <1>1, <2>1, GoesOnly, RetOnly
  <2>3. RetFits(t)' /\ Entered(t)' = Entered(t)
    BY <2>2 DEF RetFits, Entered, LoadsForInit
  <2>4. m_lock' = m_lock
    BY <1>16 DEF BeginThread, EndThread
  <2> QED
    BY <1>1, <2>2, <2>3, <2>4, LockMove
<1>17. ASSUME NEW t \in Threads, BridgeCall(t)
       PROVE  LockInv'
  <2>1. /\ m_lock' = m_lock /\ pc[t] \in {"entry", "exit"}
        /\ \/ Goes(t, pc[t], "java") /\ UNCHANGED ret
           \/ Goes(t, pc[t], "natLock") /\ ret' = [ret EXCEPT ![t] = pc[t]]
    BY <1>17 DEF BridgeCall
  <2>2. CASE Goes(t, pc[t], "java") /\ UNCHANGED ret
    BY <1>2, <2>1, <2>2 DEF Alike
  <2>3. CASE Goes(t, pc[t], "natLock") /\ ret' = [ret EXCEPT ![t] = pc[t]]
    <3>1. /\ pc'[t] = "natLock" /\ ret'[t] = pc[t]
          /\ \A u \in Threads \ {t} : pc'[u] = pc[u] /\ ret'[u] = ret[u]
      BY <1>1, <2>3, GoesOnly, RetOnly
    <3>2. RetFits(t)' /\ Entered(t)' = Entered(t)
      BY <2>1, <3>1 DEF RetFits, Entered, LoadsForInit
    <3> QED
      BY <1>1, <2>1, <3>1, <3>2, LockMove
  <2> QED
    BY <2>1, <2>2, <2>3
<1>18. ASSUME NEW t \in Threads, NativeChecks(t) \/ Enqueue(t)
       PROVE  LockInv'
  <2>1. /\ UNCHANGED <<ret, m_lock>>
        /\ \/ UNCHANGED pc \/ Goes(t, "natIn", "enqueue")
           \/ Goes(t, "natIn", "natExit") \/ Goes(t, "enqueue", "natExit")
    BY <1>18 DEF NativeChecks, Enqueue, Fatal
  <2> QED
    BY <1>2, <1>3, <2>1 DEF Alike
<1>19. ASSUME NEW t \in Threads,
              ThreadEvent(t) \/ GetThreadInfo(t) \/ VMDeathDisengage(t) \/ VMDeathMark(t)
       PROVE  LockInv'
  BY <1>2, <1>19 DEF ThreadEvent, GetThreadInfo, VMDeathDisengage, VMDeathMark, Alike
<1>20. ASSUME NEW t \in Threads, PostVMDeath(t) \/ OnUnload(t)
       PROVE  LockInv'
  BY <1>2, <1>20 DEF PostVMDeath, OnUnload, Alike
<1>21. ASSUME NEW t \in Threads,
              Calls(t) \/ ReturnTraced(t) \/ ReturnUntraced(t) \/ Throw(t)
       PROVE  LockInv'
  <2>1. /\ UNCHANGED <<ret, m_lock>>
        /\ \E to \in {"java", "entry", "exit"} : Goes(t, "java", to)
    BY <1>21 DEF Calls, Call, ReturnTraced, ReturnUntraced, Throw
  <2> QED
    BY <1>2, <2>1 DEF Alike
<1>22. CASE OnLoadFails \/ VMInitFails \/ (\E t \in Threads : VMDeathFails(t)) \/ UNCHANGED vars
  BY <1>3, <1>22 DEF OnLoadFails, VMInitFails, VMDeathFails, Fatal
<1> HIDE DEF LockedPCs, HookPCs, HookInside, NativePCs, EventPCs
<1> QED
  BY <1>4, <1>5, <1>6, <1>7, <1>8, <1>9, <1>10, <1>11, <1>12, <1>13, <1>14, <1>15, <1>16,
     <1>17, <1>18, <1>19, <1>20, <1>21, <1>22
     DEF Next, MainStep, Works, CallsServer, JavaCode, Finished, Calls

-----------------------------------------------------------------------------
(* Class loading and the class table.                                      *)

(* A step of a thread that is in no hook, before it or after it.           *)
Elsewhere(t) ==
  /\ pc[t] \notin HookPCs /\ pc'[t] \notin HookPCs
  /\ \A u \in Threads \ {t} : pc'[u] = pc[u]
  /\ UNCHANGED <<classLoading, table>>

HookStep(t, c) ==
  \/ BeginLoad(t, c) \/ LoadUnhooked(t, c) \/ HookLock(t) \/ HookSkips(t, c)
  \/ HookNumbers(t, c) \/ HookAppends(t, c) \/ HookRewrites(t, c) \/ HookUnlock(t, c)

LEMMA HookSteps ==
  ASSUME IInv, [Next]_vars
  PROVE  \/ UNCHANGED <<pc, classLoading, table>>
         \/ \E t \in Threads : Elsewhere(t) \/ \E c \in Classes : HookStep(t, c)
<1> USE DEF HookPCs, HookInside
<1>1. PcTyped /\ RetTyped /\ LockInv /\ FlagInv
  BY TypeParts DEF IInv
<1>2. ASSUME NEW t \in Threads, NEW from, NEW to, from \notin HookPCs, to \notin HookPCs,
             Goes(t, from, to), UNCHANGED <<classLoading, table>>
      PROVE  Elsewhere(t)
  BY <1>1, <1>2, GoesOnly DEF Elsewhere
<1>3. CASE OnLoad
  <2>1. pc[Main] = "none" /\ pc' = [pc EXCEPT ![Main] = "java"] /\ UNCHANGED <<classLoading, table>>
    BY <1>1, <1>3 DEF OnLoad, FlagInv
  <2>2. Elsewhere(Main)
    BY <1>1, <2>1 DEF Elsewhere, PcTyped
  <2> QED
    BY <2>2
<1>4. CASE PostVMStart \/ VMStart \/ PostVMInit \/ VMInitLock
  <2>1. Elsewhere(Main)
    BY <1>2, <1>4 DEF PostVMStart, VMStart, PostVMInit, VMInitLock, Enter
  <2> QED
    BY <2>1
<1>5. CASE MainStep
  <2>1. Elsewhere(Main)
    BY <1>2, <1>4, <1>5 DEF MainStep, VMStart, VMInitFind, VMInitRegister, VMInitEngage,
                            VMInitEvents, VMInitUnlock, Leave
  <2> QED
    BY <2>1
<1>6. ASSUME NEW t \in Threads, NativeLock(t) \/ ThreadEventLock(t) \/ VMDeathLock(t)
      PROVE  Elsewhere(t)
  BY <1>2, <1>6 DEF NativeLock, ThreadEventLock, VMDeathLock, Enter
<1>7. ASSUME NEW t \in Threads, NativeUnlock(t) \/ VMDeathUnlock(t)
      PROVE  Elsewhere(t)
  BY <1>2, <1>7 DEF NativeUnlock, VMDeathUnlock, Leave
<1>8. ASSUME NEW t \in Threads, ThreadEventUnlock(t)
      PROVE  Elsewhere(t)
  <2>1. pc[t] = "evExit" /\ ret[t] \in {"java", "ended"}
    BY <1>1, <1>8 DEF ThreadEventUnlock, Leave, Goes, LockInv, RetFits, EventPCs
  <2> QED
    BY <1>2, <1>8, <2>1 DEF ThreadEventUnlock, Leave
<1>9. ASSUME NEW t \in Threads, ThreadEvent(t) \/ GetThreadInfo(t) \/ Enqueue(t) \/ OnUnload(t)
      PROVE  Elsewhere(t)
  BY <1>2, <1>9 DEF ThreadEvent, GetThreadInfo, Enqueue, OnUnload
<1>10. ASSUME NEW t \in Threads, VMDeathDisengage(t) \/ VMDeathMark(t) \/ PostVMDeath(t)
       PROVE  Elsewhere(t)
  BY <1>2, <1>10 DEF VMDeathDisengage, VMDeathMark, PostVMDeath
<1>11. ASSUME NEW t \in Threads, BeginThread(t) \/ EndThread(t)
       PROVE  Elsewhere(t)
  <2>1. /\ UNCHANGED <<classLoading, table>>
        /\ \E from \in {"none", "java"}, to \in {"evLock", "java", "ended"} : Goes(t, from, to)
    BY <1>11 DEF BeginThread, EndThread
  <2> QED
    BY <1>2, <2>1
<1>12. ASSUME NEW t \in Threads, BridgeCall(t)
       PROVE  Elsewhere(t)
  <2>1. /\ UNCHANGED <<classLoading, table>>
        /\ \E from \in {"entry", "exit"}, to \in {"java", "natLock"} : Goes(t, from, to)
    BY <1>12 DEF BridgeCall
  <2> QED
    BY <1>2, <2>1
<1>13. ASSUME NEW t \in Threads, NativeChecks(t)
       PROVE  Elsewhere(t) \/ UNCHANGED <<pc, classLoading, table>>
  <2>1. /\ UNCHANGED <<classLoading, table>>
        /\ UNCHANGED pc \/ \E to \in {"enqueue", "natExit"} : Goes(t, "natIn", to)
    BY <1>13 DEF NativeChecks, Fatal
  <2> QED
    BY <1>2, <2>1
<1>14. ASSUME NEW t \in Threads,
              Calls(t) \/ ReturnTraced(t) \/ ReturnUntraced(t) \/ Throw(t)
       PROVE  Elsewhere(t)
  <2>1. /\ UNCHANGED <<classLoading, table>>
        /\ \E to \in {"java", "entry", "exit"} : Goes(t, "java", to)
    BY <1>14 DEF Calls, Call, ReturnTraced, ReturnUntraced, Throw
  <2> QED
    BY <1>2, <2>1
<1>15. CASE OnLoadFails \/ VMInitFails \/ (\E t \in Threads : VMDeathFails(t)) \/ UNCHANGED vars
  <2>1. UNCHANGED <<pc, classLoading, table>>
    BY <1>15 DEF OnLoadFails, VMInitFails, VMDeathFails, Fatal
  <2> QED
    BY <2>1
<1>16. ASSUME NEW t \in Threads, HookLock(t)
       PROVE  \E c \in Classes : HookStep(t, c)
  BY <1>16 DEF HookStep
<1>17. ASSUME NEW t \in Threads, NEW c \in Classes,
              \/ BeginLoad(t, c) \/ HookSkips(t, c) \/ HookNumbers(t, c) \/ HookAppends(t, c)
              \/ HookRewrites(t, c) \/ HookUnlock(t, c) \/ LoadUnhooked(t, c)
       PROVE  HookStep(t, c)
  BY <1>17 DEF HookStep
<1> HIDE DEF HookPCs, HookInside
<1> QED
  BY <1>3, <1>4, <1>5, <1>6, <1>7, <1>8, <1>9, <1>10, <1>11, <1>12, <1>13, <1>14, <1>15,
     <1>16, <1>17
     DEF Next, Locks, Works, CallsServer, JavaCode, Finished, Calls

LEMMA LoadStep ==
  ASSUME IInv, [Next]_vars
  PROVE  LoadInv'
<1>1. PcTyped /\ LoadTyped /\ LoadInv
  BY TypeParts DEF IInv
<1> USE DEF HookPCs, HookInside
<1>2. CASE UNCHANGED <<pc, classLoading, table>>
  BY <1>1, <1>2 DEF LoadInv
<1>3. ASSUME NEW t \in Threads, Elsewhere(t)
      PROVE  LoadInv'
  BY <1>1, <1>3 DEF LoadInv, LoadTyped, Elsewhere
<1>4. ASSUME NEW t \in Threads, NEW from \in HookPCs, NEW to \in HookPCs,
             Goes(t, from, to), UNCHANGED classLoading
      PROVE  LoadInv'
  BY <1>1, <1>4, GoesOnly DEF LoadInv, LoadTyped
<1>5. ASSUME NEW t \in Threads, NEW c \in Classes,
             \/ HookLock(t) \/ HookSkips(t, c) \/ HookNumbers(t, c) \/ HookAppends(t, c)
      PROVE  LoadInv'
  BY <1>4, <1>5 DEF HookLock, Enter, HookSkips, HookNumbers, HookAppends
<1>6. ASSUME NEW t \in Threads, NEW c \in Classes, HookRewrites(t, c)
      PROVE  LoadInv'
  <2>1. UNCHANGED classLoading /\ (UNCHANGED pc \/ Goes(t, "hookRewrite", "hookExit"))
    BY <1>6 DEF HookRewrites, Fatal
  <2> QED
    BY <1>1, <1>4, <2>1 DEF LoadInv
<1>7. ASSUME NEW t \in Threads, NEW c \in Classes, BeginLoad(t, c)
      PROVE  LoadInv'
  <2>1. /\ pc[t] \notin HookPCs /\ pc'[t] = "hookLock" /\ c \notin loaded /\ loading[c] = NoOne
        /\ loading' = [loading EXCEPT ![c] = t] /\ loaded' = loaded
        /\ \A u \in Threads \ {t} : pc'[u] = pc[u]
    BY <1>1, <1>7, GoesOnly DEF BeginLoad
  <2> QED
    BY <1>1, <2>1 DEF LoadInv, LoadTyped
<1>8. ASSUME NEW t \in Threads, NEW c \in Classes, LoadUnhooked(t, c)
      PROVE  LoadInv'
  <2>1. /\ loading[c] = NoOne /\ loading' = loading /\ loaded' = loaded \cup {c}
        /\ pc[t] = "java" /\ pc'[t] = "java" /\ \A u \in Threads \ {t} : pc'[u] = pc[u]
    BY <1>1, <1>8, GoesOnly DEF LoadUnhooked
  <2> QED
    BY <1>1, <2>1 DEF LoadInv, LoadTyped
<1>9. ASSUME NEW t \in Threads, NEW c \in Classes, HookUnlock(t, c)
      PROVE  LoadInv'
  <2>1. /\ loading[c] = t /\ loading' = [loading EXCEPT ![c] = NoOne]
        /\ loaded' = loaded \cup {c}
        /\ \A u \in Threads \ {t} : pc'[u] = pc[u]
    BY <1>1, <1>9, GoesOnly DEF HookUnlock, Leave
  <2> QED
    BY <1>1, <2>1 DEF LoadInv, LoadTyped
<1> QED
  BY <1>2, <1>3, <1>5, <1>6, <1>7, <1>8, <1>9, HookSteps DEF HookStep

(* A step that leaves the other classes alone.                             *)
LEMMA OthersKept ==
  ASSUME TableInv, NEW c \in Classes,
         \A d \in Classes \ {c} : loading'[d] = loading[d] /\ image'[d] = image[d],
         \A d \in Classes \ {c} : loading[d] # NoOne => pc'[loading[d]] = pc[loading[d]],
         loaded \subseteq loaded', loaded' \subseteq loaded \cup {c}
  PROVE  \A d \in Classes \ {c} :
           /\ image'[d].traced \subseteq Methods(d)
           /\ image'[d].traced # {} => Rewritten(d)'
           /\ image'[d].traced # {} \/ InHook(d, {"hookAppend", "hookRewrite"})' => d \in Included
           /\ \A l : InHook(d, l)' <=> InHook(d, l)
  BY DEF TableInv, ClassInv, Rewritten, InHook

(* The hook of a class is the only one that is between lock and unlock.    *)
LEMMA OneHook ==
  ASSUME LoadTyped, LockInv, LoadInv, NEW t \in Threads, NEW c \in Classes,
         loading[c] = t, pc[t] \in HookInside
  PROVE  \A d \in Classes \ {c} : /\ loading[d] # t
                                  /\ ~InHook(d, {"hookAppend", "hookRewrite"})
<1>1. \A d \in Classes \ {c} : loading[d] # t
  BY DEF LoadInv
<1>2. ASSUME NEW d \in Classes \ {c}, InHook(d, {"hookAppend", "hookRewrite"})
      PROVE  FALSE
  <2>1. loading[d] \in Threads /\ pc[loading[d]] \in LockedPCs /\ pc[t] \in LockedPCs
    BY <1>2 DEF InHook, LoadTyped, LockedPCs, HookInside
  <2> QED
    BY <1>1, <2>1, Exclusion
<1> QED
  BY <1>1, <1>2

LEMMA TableInvStep ==
  ASSUME IInv, [Next]_vars
  PROVE  TableInv'
<1>1. /\ PcTyped /\ RetTyped /\ LoadTyped /\ TableTyped /\ ImageTyped
      /\ LockInv /\ LoadInv /\ TableInv
  BY TypeParts DEF IInv
<1>2. CASE UNCHANGED <<pc, classLoading, table>>
  BY <1>1, <1>2 DEF TableInv, ClassInv, InHook, Rewritten, NumbersLeadBack
<1>3. ASSUME UNCHANGED <<classLoading, table>>,
             \A c \in Classes : loading[c] # NoOne =>
               \/ pc'[loading[c]] = pc[loading[c]]
               \/ /\ pc[loading[c]] \notin {"hookAppend", "hookRewrite", "hookExit"}
                  /\ pc'[loading[c]] \notin {"hookAppend", "hookRewrite"}
      PROVE  TableInv'
  BY <1>1, <1>3 DEF TableInv, ClassInv, InHook, Rewritten, NumbersLeadBack
<1>4. ASSUME NEW t \in Threads, Elsewhere(t)
      PROVE  TableInv'
  <2>1. \A c \in Classes : loading[c] # NoOne => loading[c] # t /\ loading[c] \in Threads
    BY <1>1, <1>4 DEF Elsewhere, LoadInv, LoadTyped
  <2> QED
    BY <1>3, <1>4, <2>1 DEF Elsewhere
<1>5. ASSUME NEW t \in Threads, NEW c \in Classes, HookLock(t) \/ HookSkips(t, c)
      PROVE  TableInv'
  <2>1. /\ UNCHANGED <<classLoading, table>>
        /\ Goes(t, "hookLock", "hookIn") \/ Goes(t, "hookIn", "hookExit")
    BY <1>5 DEF HookLock, Enter, HookSkips
  <2>2. \A d \in Classes : loading[d] # NoOne => loading[d] \in Threads
    BY <1>1 DEF LoadTyped
  <2>3. /\ pc[t] \in {"hookLock", "hookIn"} /\ pc'[t] \in {"hookIn", "hookExit"}
        /\ \A u \in Threads \ {t} : pc'[u] = pc[u]
    BY <1>1, <2>1, GoesOnly
  <2> QED
    BY <1>3, <2>1, <2>2, <2>3
<1>6. ASSUME NEW t \in Threads, NEW c \in Classes, LoadUnhooked(t, c)
      PROVE  TableInv'
  <2>1. /\ loading' = loading /\ loaded' = loaded \cup {c} /\ UNCHANGED table
        /\ pc'[t] = pc[t] /\ \A u \in Threads \ {t} : pc'[u] = pc[u]
    BY <1>1, <1>6, GoesOnly DEF LoadUnhooked
  <2>2. \A d \in Classes : loading[d] # NoOne => pc'[loading[d]] = pc[loading[d]]
    BY <1>1, <2>1 DEF LoadTyped
  <2> QED
    BY <1>1, <2>1, <2>2 DEF TableInv, ClassInv, InHook, Rewritten, NumbersLeadBack
<1>7. ASSUME NEW t \in Threads, NEW c \in Classes, BeginLoad(t, c)
      PROVE  TableInv'
  <2>1. /\ pc[t] \notin HookPCs /\ pc'[t] = "hookLock" /\ c \notin loaded /\ loading[c] = NoOne
        /\ loading' = [loading EXCEPT ![c] = t] /\ loaded' = loaded /\ UNCHANGED table
        /\ \A u \in Threads \ {t} : pc'[u] = pc[u]
    BY <1>1, <1>7, GoesOnly DEF BeginLoad, HookPCs, HookInside
  <2>2. \A d \in Classes : loading[d] # NoOne => loading[d] # t /\ loading[d] \in Threads
    BY <1>1, <2>1 DEF LoadInv, LoadTyped
  <2>3. image[c].traced = {}
    BY <1>1, <2>1 DEF TableInv, ClassInv, Rewritten, InHook
  <2>4. ClassInv(c)'
    BY <1>1, <2>1, <2>3 DEF ClassInv, InHook, LoadTyped
  <2>5. \A d \in Classes \ {c} : ClassInv(d)'
    BY <1>1, <2>1, <2>2, OthersKept DEF ClassInv, TableInv, LoadTyped
  <2> QED
    BY <1>1, <2>1, <2>4, <2>5 DEF TableInv, NumbersLeadBack
<1>8. ASSUME NEW t \in Threads, NEW c \in Classes, HookNumbers(t, c)
      PROVE  TableInv'
  <2>1. /\ loading[c] = t /\ pc[t] = "hookIn" /\ pc'[t] = "hookAppend" /\ c \in Included
        /\ image' = [image EXCEPT ![c].cnum = Len(m_classes)] /\ m_classes' = m_classes
        /\ UNCHANGED classLoading /\ \A u \in Threads \ {t} : pc'[u] = pc[u]
    BY <1>1, <1>8, GoesOnly DEF HookNumbers
  <2>2. \A d \in Classes \ {c} : loading[d] # t /\ ~InHook(d, {"hookAppend", "hookRewrite"})
    BY <1>1, <2>1, OneHook DEF HookInside
  <2>3. image[c].traced = {}
    BY <1>1, <2>1 DEF TableInv, ClassInv, Rewritten, InHook, LoadInv
  <2>4. /\ image'[c].traced = {} /\ image'[c].cnum = Len(m_classes)
        /\ \A d \in Classes \ {c} : image'[d] = image[d]
    BY <1>1, <2>1, <2>3 DEF ImageTyped, Image
  <2>5. ClassInv(c)'
    BY <2>1, <2>4 DEF ClassInv, InHook
  <2>6. \A d \in Classes \ {c} : loading[d] # NoOne => pc'[loading[d]] = pc[loading[d]]
    BY <1>1, <2>1, <2>2 DEF LoadTyped
  <2>7. \A d \in Classes \ {c} : ClassInv(d)'
    BY <1>1, <2>1, <2>4, <2>6, OthersKept DEF ClassInv, TableInv
  <2> QED
    BY <1>1, <2>1, <2>4, <2>5, <2>7 DEF TableInv, NumbersLeadBack
<1>9. ASSUME NEW t \in Threads, NEW c \in Classes, HookAppends(t, c)
      PROVE  TableInv'
  <2>1. /\ loading[c] = t /\ pc[t] = "hookAppend" /\ pc'[t] = "hookRewrite"
        /\ image' = image /\ UNCHANGED classLoading /\ \A u \in Threads \ {t} : pc'[u] = pc[u]
    BY <1>1, <1>9, GoesOnly DEF HookAppends
  <2>2. /\ \A d \in Classes \ {c} : loading[d] # t /\ ~InHook(d, {"hookAppend", "hookRewrite"})
        /\ image[c].cnum = Len(m_classes) /\ image[c].traced = {} /\ c \in Included
        /\ Len(m_classes) \in Nat
    BY <1>1, <2>1, OneHook DEF HookInside, TableInv, ClassInv, Rewritten, InHook, LoadInv, TableTyped
  <2>3. m_classes' = [i \in 1 .. Len(m_classes) + 1 |->
           IF i = Len(m_classes) + 1 THEN [m_name |-> c, m_mcount |-> 0] ELSE m_classes[i]]
    BY <1>9, <2>2 DEF HookAppends
  <2>4. /\ Len(m_classes') = Len(m_classes) + 1
        /\ m_classes'[Len(m_classes) + 1].m_name = c
        /\ \A i \in 1 .. Len(m_classes) : m_classes'[i] = m_classes[i]
    BY <2>2, <2>3
  <2>5. ClassInv(c)'
    BY <2>1, <2>2, <2>4 DEF ClassInv, InHook
  <2>6. \A d \in Classes \ {c} : loading[d] # NoOne => pc'[loading[d]] = pc[loading[d]]
    BY <1>1, <2>1, <2>2 DEF LoadTyped
  <2>7. \A d \in Classes \ {c} : ClassInv(d)'
    <3>1. \A d \in Classes \ {c} :
            ~InHook(d, {"hookAppend", "hookRewrite"})' => ~InHook(d, {"hookAppend"})' /\ ~InHook(d, {"hookRewrite"})'
      BY DEF InHook
    <3> QED
      BY <1>1, <2>1, <2>2, <2>6, <3>1, OthersKept DEF ClassInv
  <2>8. NumbersLeadBack'
    <3>1. ASSUME NEW d \in Classes, image'[d].traced # {}
          PROVE  /\ image'[d].cnum < Len(m_classes')
                 /\ m_classes'[image'[d].cnum + 1] = [m_name |-> d, m_mcount |-> MethodCount[d]]
      <4>1. image[d].cnum \in Nat /\ image' = image
        BY <1>1, <2>1 DEF ImageTyped, Image
      <4>2. /\ image[d].cnum < Len(m_classes)
            /\ m_classes[image[d].cnum + 1] = [m_name |-> d, m_mcount |-> MethodCount[d]]
        BY <1>1, <3>1, <4>1 DEF TableInv, NumbersLeadBack
      <4>3. image[d].cnum + 1 \in 1 .. Len(m_classes)
        BY <2>2, <4>1, <4>2
      <4> QED
        BY <2>2, <2>4, <4>1, <4>2, <4>3
    <3> QED
      BY <3>1 DEF NumbersLeadBack
  <2> QED
    BY <2>5, <2>7, <2>8 DEF TableInv
<1>10. ASSUME NEW t \in Threads, NEW c \in Classes, HookUnlock(t, c)
       PROVE  TableInv'
  <2>1. /\ loading[c] = t /\ loading' = [loading EXCEPT ![c] = NoOne]
        /\ loaded' = loaded \cup {c} /\ pc[t] = "hookExit" /\ UNCHANGED table
        /\ \A u \in Threads \ {t} : pc'[u] = pc[u]
    BY <1>1, <1>10, GoesOnly DEF HookUnlock, Leave
  <2>2. \A d \in Classes \ {c} : loading[d] # t
    BY <1>1, <2>1, OneHook DEF HookInside
  <2>3. ClassInv(c)'
    BY <1>1, <2>1 DEF TableInv, ClassInv, InHook, Rewritten, LoadTyped
  <2>4. \A d \in Classes \ {c} : loading[d] # NoOne => pc'[loading[d]] = pc[loading[d]]
    BY <1>1, <2>1, <2>2 DEF LoadTyped
  <2>5. \A d \in Classes \ {c} : ClassInv(d)'
    BY <1>1, <2>1, <2>4, OthersKept DEF ClassInv, TableInv, LoadTyped
  <2> QED
    BY <1>1, <2>1, <2>3, <2>5 DEF TableInv, NumbersLeadBack
<1>11. ASSUME NEW t \in Threads, NEW c \in Classes, HookRewrites(t, c)
       PROVE  TableInv'
  <2> DEFINE n == image[c].cnum + 1
             traced == {m \in WithCode(c) : m_vm_is_started \/ <<c, m>> \notin SystemSkips}
  <2>1. loading[c] = t /\ pc[t] = "hookRewrite" /\ UNCHANGED classLoading
    BY <1>11 DEF HookRewrites, Fatal
  <2>2. /\ \/ UNCHANGED pc
           \/ pc'[t] = "hookExit" /\ \A u \in Threads \ {t} : pc'[u] = pc[u]
        /\ \/ UNCHANGED table
           \/ /\ pc'[t] = "hookExit"
              /\ m_classes' = [m_classes EXCEPT ![n].m_mcount = MethodCount[c]]
              /\ image' = [image EXCEPT ![c].traced = traced]
    <3>1. \/ UNCHANGED pc /\ UNCHANGED table
          \/ /\ Goes(t, "hookRewrite", "hookExit")
             /\ \/ UNCHANGED table
                \/ /\ m_classes' = [m_classes EXCEPT ![n].m_mcount = MethodCount[c]]
                   /\ image' = [image EXCEPT ![c].traced = traced]
      BY <1>11 DEF HookRewrites, Fatal
    <3> HIDE DEF n, traced
    <3> QED
      BY <1>1, <3>1, GoesOnly
  <2>3. /\ \A d \in Classes \ {c} : loading[d] # t /\ ~InHook(d, {"hookAppend", "hookRewrite"})
        /\ image[c].traced = {} /\ c \in Included
        /\ n = Len(m_classes) /\ m_classes[n].m_name = c
    BY <1>1, <2>1, OneHook DEF HookInside, TableInv, ClassInv, Rewritten, InHook, LoadInv
  <2>4. \A d \in Classes \ {c} : loading[d] # NoOne => pc'[loading[d]] = pc[loading[d]]
    BY <1>1, <2>1, <2>2, <2>3 DEF LoadTyped
  <2>5. CASE UNCHANGED table
    <3>1. ClassInv(c)'
      BY <1>1, <2>1, <2>2, <2>3, <2>5 DEF TableInv, ClassInv, InHook, Rewritten
    <3>2. \A d \in Classes \ {c} : ClassInv(d)'
      BY <1>1, <2>1, <2>4, <2>5, OthersKept DEF ClassInv, TableInv
    <3> QED
      BY <1>1, <2>5, <3>1, <3>2 DEF TableInv, NumbersLeadBack
  <2>6. CASE /\ pc'[t] = "hookExit"
             /\ m_classes' = [m_classes EXCEPT ![n].m_mcount = MethodCount[c]]
             /\ image' = [image EXCEPT ![c].traced = traced]
    <3>1. /\ n \in 1 .. Len(m_classes) /\ traced \subseteq Methods(c)
          /\ n = image[c].cnum + 1 /\ image[c].cnum \in Nat /\ Len(m_classes) \in Nat
      BY <1>1, <2>3 DEF ImageTyped, Image, TableTyped, WithCode
    <3> HIDE DEF n, traced
    <3>2. /\ Len(m_classes') = Len(m_classes) /\ m_classes[n] \in [m_name : Classes, m_mcount : Nat]
          /\ m_classes'[n] = [m_classes[n] EXCEPT !.m_mcount = MethodCount[c]]
          /\ \A i \in 1 .. Len(m_classes) : i # n => m_classes'[i] = m_classes[i]
      <4> DEFINE Entry == [m_name : Classes, m_mcount : Nat]
      <4>1. /\ m_classes \in Seq(Entry) /\ MethodCount[c] \in Nat
            /\ \A r \in Entry, k \in Nat : [r EXCEPT !.m_mcount = k] \in Entry
        BY <1>1 DEF TableTyped
      <4> HIDE DEF Entry
      <4>2. m_classes[n] \in Entry
        BY <3>1, <4>1, ElementOfSeq
      <4> DEFINE new == [m_classes[n] EXCEPT !.m_mcount = MethodCount[c]]
      <4>3. new \in Entry /\ m_classes' = [m_classes EXCEPT ![n] = new]
        BY <2>6, <4>1, <4>2
      <4> HIDE DEF new
      <4>4. /\ Len(m_classes') = Len(m_classes)
            /\ \A i \in 1 .. Len(m_classes) : m_classes'[i] = IF i = n THEN new ELSE m_classes[i]
        BY <3>1, <4>1, <4>3, ExceptSeq
      <4> QED
        BY <3>1, <4>2, <4>4 DEF Entry, new
    <3>3. m_classes'[n] = [m_name |-> c, m_mcount |-> MethodCount[c]]
      BY <2>3, <3>2
    <3>4. /\ image'[c].traced = traced /\ image'[c].cnum = image[c].cnum
          /\ \A d \in Classes \ {c} : image'[d] = image[d]
      BY <1>1, <2>6 DEF ImageTyped, Image
    <3>5. ClassInv(c)'
      BY <2>1, <2>3, <2>6, <3>1, <3>4 DEF ClassInv, InHook, Rewritten
    <3>6. \A d \in Classes \ {c} : ClassInv(d)'
      <4>1. \A d \in Classes \ {c} :
              ~InHook(d, {"hookAppend", "hookRewrite"})'
                => ~InHook(d, {"hookAppend"})' /\ ~InHook(d, {"hookRewrite"})'
        BY DEF InHook
      <4> QED
        BY <1>1, <2>1, <2>3, <2>4, <3>4, <4>1, OthersKept DEF ClassInv
    <3>7. ASSUME NEW d \in Classes, image'[d].traced # {}
          PROVE  /\ image'[d].cnum < Len(m_classes')
                 /\ m_classes'[image'[d].cnum + 1] = [m_name |-> d, m_mcount |-> MethodCount[d]]
      <4>1. CASE d = c
        BY <3>1, <3>2, <3>3, <3>4, <4>1
      <4>2. CASE d # c
        <5>1. /\ image[d].cnum \in Nat /\ image[d].cnum < Len(m_classes)
              /\ m_classes[image[d].cnum + 1] = [m_name |-> d, m_mcount |-> MethodCount[d]]
          BY <1>1, <3>4, <3>7, <4>2 DEF TableInv, NumbersLeadBack, ImageTyped, Image
        <5>2. image[d].cnum + 1 # n
          BY <2>3, <4>2, <5>1
        <5>3. image[d].cnum + 1 \in 1 .. Len(m_classes)
          BY <3>1, <5>1
        <5> QED
          BY <3>2, <3>4, <4>2, <5>1, <5>2, <5>3
      <4> QED
        BY <4>1, <4>2
    <3> QED
      BY <3>5, <3>6, <3>7 DEF TableInv, NumbersLeadBack
  <2> QED
    BY <2>2, <2>5, <2>6
<1> QED
  BY <1>2, <1>4, <1>5, <1>6, <1>7, <1>8, <1>9, <1>10, <1>11, HookSteps DEF HookStep

-----------------------------------------------------------------------------
(* Frames.                                                                 *)

(* The image of a loaded class does not change.                            *)
LEMMA LoadedKept ==
  ASSUME IInv, [Next]_vars
  PROVE  loaded \subseteq loaded' /\ \A c \in loaded : image'[c] = image[c]
<1>1. LoadTyped /\ ImageTyped /\ LoadInv
  BY TypeParts DEF IInv
<1>2. loaded \subseteq loaded'
  BY Writers DEF BeginLoad, LoadUnhooked, HookUnlock
<1>3. ASSUME NEW t \in Threads, NEW c \in Classes,
             HookNumbers(t, c) \/ HookAppends(t, c) \/ HookRewrites(t, c)
      PROVE  \A d \in loaded : image'[d] = image[d]
  <2>1. loading[c] = t
    BY <1>3 DEF HookNumbers, HookAppends, HookRewrites
  <2>2. c \notin loaded
    BY <1>1, <2>1 DEF LoadInv
  <2>3. \A d \in Classes \ {c} : image'[d] = image[d]
    BY <1>1, <1>3 DEF HookNumbers, HookAppends, HookRewrites, Fatal, ImageTyped
  <2> QED
    BY <1>1, <2>2, <2>3 DEF LoadTyped
<1> QED
  BY <1>2, <1>3, Writers

Calling(t) == InBridge(t) => stack[t] # <<>> /\ Traced(Top(t))

LEMMA FrameMove ==
  ASSUME IInv, [Next]_vars, NEW t \in Threads,
         \A u \in Threads \ {t} : pc'[u] = pc[u] /\ ret'[u] = ret[u] /\ stack'[u] = stack[u],
         \/ stack'[t] = stack[t] /\ (InBridge(t)' => stack[t] # <<>> /\ Traced(Top(t)))
         \/ /\ ~InBridge(t)'
            /\ stack'[t] = <<>> \/ (stack[t] # <<>> /\ stack'[t] = Front(stack[t]))
         \/ \E c \in loaded, m \in Nat : /\ stack'[t] = Append(stack[t], <<c, m>>)
                                         /\ InBridge(t)' => Traced(<<c, m>>)
  PROVE  FrameInv'
<1>1. StackTyped /\ StackTyped' /\ LoadTyped /\ FrameInv
  BY TypeParts, StackStep DEF IInv
<1>2. /\ loaded \subseteq loaded'
      /\ \A f : f[1] \in loaded => (Traced(f)' <=> Traced(f))
  BY LoadedKept DEF Traced
<1>3. ASSUME NEW u \in Threads, stack[u] # <<>>
      PROVE  Top(u)[1] \in loaded
  <2>1. Top(u) = stack[u][Len(stack[u])] /\ Len(stack[u]) \in 1 .. Len(stack[u])
    BY <1>1, <1>3, PopTyped
  <2> QED
    BY <1>1, <2>1 DEF FrameInv
<1>4. ASSUME NEW u \in Threads, stack'[u] = stack[u],
             InBridge(u)' => stack[u] # <<>> /\ Traced(Top(u))
      PROVE  /\ \A i \in 1 .. Len(stack'[u]) : stack'[u][i][1] \in loaded'
             /\ InBridge(u)' => stack'[u] # <<>> /\ Traced(Top(u))'
  <2>1. Top(u)' = Top(u)
    BY <1>4 DEF Top
  <2> QED
    BY <1>1, <1>2, <1>3, <1>4, <2>1 DEF FrameInv, Traced
<1>5. ASSUME NEW u \in Threads \ {t}
      PROVE  /\ \A i \in 1 .. Len(stack'[u]) : stack'[u][i][1] \in loaded'
             /\ InBridge(u)' => stack'[u] # <<>> /\ Traced(Top(u))'
  <2>1. InBridge(u)' => InBridge(u)
    BY <1>5 DEF InBridge
  <2> QED
    BY <1>1, <1>4, <1>5, <2>1 DEF FrameInv
<1> DEFINE Good == /\ \A i \in 1 .. Len(stack'[t]) : stack'[t][i][1] \in loaded'
                   /\ InBridge(t)' => stack'[t] # <<>> /\ Traced(Top(t))'
<1>6. Good
  <2>1. CASE stack'[t] = stack[t] /\ (InBridge(t)' => stack[t] # <<>> /\ Traced(Top(t)))
    BY <1>4, <2>1
  <2>2. CASE ~InBridge(t)' /\ stack'[t] = <<>>
    BY <2>2
  <2>3. CASE ~InBridge(t)' /\ stack[t] # <<>> /\ stack'[t] = Front(stack[t])
    <3>1. /\ Len(stack'[t]) = Len(stack[t]) - 1 /\ Len(stack[t]) \in Nat
          /\ \A i \in 1 .. Len(stack'[t]) : stack'[t][i] = stack[t][i]
      BY <1>1, <2>3, PopTyped
    <3>2. \A i \in 1 .. Len(stack[t]) : stack[t][i][1] \in loaded
      BY <1>1 DEF FrameInv
    <3>3. \A i \in 1 .. Len(stack'[t]) : i \in 1 .. Len(stack[t])
      BY <3>1
    <3> QED
      BY <1>2, <2>3, <3>1, <3>2, <3>3
  <2>4. ASSUME NEW c \in loaded, NEW m \in Nat, stack'[t] = Append(stack[t], <<c, m>>),
               InBridge(t)' => Traced(<<c, m>>)
        PROVE  Good
    <3> DEFINE frames == Classes \X Nat
               called == <<c, m>>
    <3>1. /\ stack[t] \in Seq(frames) /\ called \in frames
          /\ stack'[t] = Append(stack[t], called)
      BY <1>1, <2>4 DEF StackTyped, LoadTyped
    <3>6. called[1] = c
      OBVIOUS
    <3> HIDE DEF frames, called
    <3>2. /\ stack'[t] # <<>> /\ Len(stack'[t]) = Len(stack[t]) + 1 /\ Len(stack[t]) \in Nat
          /\ \A i \in 1 .. Len(stack[t]) : stack'[t][i] = stack[t][i]
          /\ stack'[t][Len(stack[t]) + 1] = called
      <4> DEFINE old == stack[t]
                 new == Append(old, called)
      <4>1. old \in Seq(frames)
        BY <3>1
      <4> HIDE DEF old
      <4>2. /\ new # <<>> /\ Len(new) = Len(old) + 1 /\ Len(old) \in Nat
            /\ \A i \in 1 .. Len(old) : new[i] = old[i]
            /\ new[Len(old) + 1] = called
        BY <3>1, <4>1, AppendProperties, LenProperties
      <4>3. stack'[t] = new
        BY <3>1 DEF old
      <4> HIDE DEF new
      <4> QED
        BY <4>2, <4>3 DEF old
    <3>3. Top(t)' = called
      BY <3>2 DEF Top, Last
    <3>4. ASSUME NEW i \in 1 .. Len(stack'[t])
          PROVE  stack'[t][i][1] \in loaded
      <4>1. CASE i = Len(stack[t]) + 1
        BY <3>2, <3>6, <4>1
      <4>2. CASE i # Len(stack[t]) + 1
        <5>1. i \in 1 .. Len(stack[t])
          BY <3>2, <4>2
        <5> QED
          BY <1>1, <3>2, <5>1 DEF FrameInv
      <4> QED
        BY <4>1, <4>2
    <3>5. InBridge(t)' => Traced(Top(t))'
      BY <1>2, <2>4, <3>3, <3>6 DEF Traced, called
    <3> QED
      BY <1>2, <3>2, <3>4, <3>5
  <2> HIDE DEF Good
  <2> QED
    BY <2>1, <2>2, <2>3, <2>4
<1> QED
  BY <1>5, <1>6 DEF FrameInv

LEMMA FrameStep ==
  ASSUME IInv, [Next]_vars
  PROVE  FrameInv'
<1> USE DEF HookPCs, HookInside, NativePCs
<1>1. /\ PcTyped /\ RetTyped /\ StackTyped /\ LoadTyped /\ LockInv /\ FrameInv /\ FlagInv
  BY TypeParts DEF IInv
<1>2. ASSUME UNCHANGED <<pc, ret, stack>>
      PROVE  FrameInv'
  <2>1. \A t \in Threads : InBridge(t)' <=> InBridge(t)
    BY <1>2 DEF InBridge
  <2> QED
    BY <1>1, <1>2, <2>1, FrameMove DEF FrameInv
(* The thread comes to the bridge from the bridge, or not at all.          *)
<1>3. ASSUME NEW t \in Threads, NEW from, NEW to, Goes(t, from, to), UNCHANGED <<ret, stack>>,
             from \in HookPCs <=> to \in HookPCs,
             \/ to \notin {"entry", "exit"} \cup NativePCs
             \/ from \in {"entry", "exit"} \cup NativePCs
             \/ from \in HookPCs /\ ret[t] \in {"entry", "exit"}
      PROVE  FrameInv'
  <2>1. pc[t] = from /\ pc'[t] = to /\ \A u \in Threads \ {t} : pc'[u] = pc[u]
    BY <1>1, <1>3, GoesOnly
  <2>2. InBridge(t)' => InBridge(t)
    BY <1>3, <2>1 DEF InBridge
  <2> QED
    BY <1>1, <1>3, <2>1, <2>2, FrameMove DEF FrameInv
<1>4. CASE OnLoad
  <2>1. pc[Main] = "none" /\ pc' = [pc EXCEPT ![Main] = "java"] /\ UNCHANGED <<ret, stack>>
    BY <1>1, <1>4 DEF OnLoad, FlagInv
  <2>2. ~InBridge(Main)' /\ \A u \in Threads \ {Main} : pc'[u] = pc[u]
    BY <1>1, <2>1 DEF InBridge, PcTyped
  <2> QED
    BY <2>1, <2>2, FrameMove
<1>5. CASE PostVMStart \/ VMStart \/ PostVMInit \/ VMInitLock
  BY <1>3, <1>5 DEF PostVMStart, VMStart, PostVMInit, VMInitLock, Enter
<1>6. CASE VMInitFind \/ VMInitRegister \/ VMInitEngage \/ VMInitEvents \/ VMInitUnlock
  BY <1>3, <1>6 DEF VMInitFind, VMInitRegister, VMInitEngage, VMInitEvents, VMInitUnlock, Leave
<1>7. ASSUME NEW t \in Threads, Locks(t)
      PROVE  FrameInv'
  BY <1>3, <1>7 DEF Locks, HookLock, NativeLock, ThreadEventLock, VMDeathLock, Enter
<1>8. ASSUME NEW t \in Threads, VMDeathUnlock(t) \/ PostVMDeath(t) \/ OnUnload(t)
      PROVE  FrameInv'
  BY <1>3, <1>8 DEF VMDeathUnlock, Leave, PostVMDeath, OnUnload
<1>9. ASSUME NEW t \in Threads, ThreadEventUnlock(t)
      PROVE  FrameInv'
  <2>1. ret[t] \in {"java", "ended"}
    BY <1>1, <1>9 DEF ThreadEventUnlock, Leave, Goes, LockInv, RetFits, EventPCs
  <2> QED
    BY <1>3, <1>9, <2>1 DEF ThreadEventUnlock, Leave
<1>10. ASSUME NEW t \in Threads,
              ThreadEvent(t) \/ GetThreadInfo(t) \/ VMDeathDisengage(t) \/ VMDeathMark(t)
       PROVE  FrameInv'
  BY <1>3, <1>10 DEF ThreadEvent, GetThreadInfo, VMDeathDisengage, VMDeathMark
<1>11. ASSUME NEW t \in Threads, NEW c \in Classes,
              LoadUnhooked(t, c) \/ HookSkips(t, c) \/ HookNumbers(t, c) \/ HookAppends(t, c)
       PROVE  FrameInv'
  BY <1>3, <1>11 DEF LoadUnhooked, HookSkips, HookNumbers, HookAppends
<1>12. ASSUME NEW t \in Threads, NEW c \in Classes, HookRewrites(t, c)
       PROVE  FrameInv'
  <2>1. UNCHANGED <<ret, stack>> /\ (UNCHANGED pc \/ Goes(t, "hookRewrite", "hookExit"))
    BY <1>12 DEF HookRewrites, Fatal
  <2> QED
    BY <1>2, <1>3, <2>1
<1>13. ASSUME NEW t \in Threads, NativeChecks(t) \/ Enqueue(t)
       PROVE  FrameInv'
  <2>1. /\ UNCHANGED <<ret, stack>>
        /\ \/ UNCHANGED pc \/ Goes(t, "natIn", "enqueue")
           \/ Goes(t, "natIn", "natExit") \/ Goes(t, "enqueue", "natExit")
    BY <1>13 DEF NativeChecks, Enqueue, Fatal
  <2> QED
    BY <1>2, <1>3, <2>1
<1>14. ASSUME NEW t \in Threads, NEW c \in Classes, HookUnlock(t, c)
       PROVE  FrameInv'
  <2>1. /\ pc[t] = "hookExit" /\ pc'[t] = ret[t] /\ ret[t] \in {"java", "entry", "exit", "initFind"}
        /\ UNCHANGED <<ret, stack>> /\ \A u \in Threads \ {t} : pc'[u] = pc[u]
    BY <1>1, <1>14, GoesOnly DEF HookUnlock, Leave, LockInv, RetFits
  <2>2. InBridge(t)' => InBridge(t)
    BY <2>1 DEF InBridge
  <2> QED
    BY <1>1, <2>1, <2>2, FrameMove DEF FrameInv
<1>15. ASSUME NEW t \in Threads, NEW c \in Classes, BeginLoad(t, c)
       PROVE  FrameInv'
  <2>1. /\ pc[t] \in {"java", "entry", "exit", "initFind"} /\ pc'[t] = "hookLock" /\ ret'[t] = pc[t]
        /\ UNCHANGED stack /\ \A u \in Threads \ {t} : pc'[u] = pc[u] /\ ret'[u] = ret[u]
    BY <1>1, <1>15, GoesOnly, RetOnly DEF BeginLoad
  <2>2. InBridge(t)' => InBridge(t)
    BY <2>1 DEF InBridge
  <2> QED
    BY <1>1, <2>1, <2>2, FrameMove DEF FrameInv
<1>16. ASSUME NEW t \in Threads, BeginThread(t) \/ EndThread(t)
       PROVE  FrameInv'
  <2>1. PICK from \in {"none", "java"} : \E to \in {"evLock", "java", "ended"},
                                            r \in {"java", "ended"} :
          Goes(t, from, to) /\ ret' = [ret EXCEPT ![t] = r]
    BY <1>16 DEF BeginThread, EndThread
  <2>2. /\ pc'[t] \in {"evLock", "java", "ended"}
        /\ \A u \in Threads \ {t} : pc'[u] = pc[u] /\ ret'[u] = ret[u]
    BY <1>1, <2>1, GoesOnly, RetOnly
  <2>3. ~InBridge(t)' /\ UNCHANGED stack
    BY <1>16, <2>2 DEF InBridge, BeginThread, EndThread
  <2> QED
    BY <2>2, <2>3, FrameMove
(* The thread leaves the bridge, and its method with it.                   *)
<1>17. ASSUME NEW t \in Threads, NEW from, Goes(t, from, "java"), UNCHANGED ret,
              \/ UNCHANGED stack
              \/ stack' = [stack EXCEPT ![t] = <<>>]
              \/ stack[t] # <<>> /\ Pop(t)
       PROVE  FrameInv'
  <2>1. pc'[t] = "java" /\ \A u \in Threads \ {t} : pc'[u] = pc[u]
    BY <1>1, <1>17, GoesOnly
  <2>2. ~InBridge(t)'
    BY <2>1 DEF InBridge
  <2>3. /\ \A u \in Threads \ {t} : stack'[u] = stack[u]
        /\ \/ stack'[t] \in {stack[t], <<>>}
           \/ stack[t] # <<>> /\ stack'[t] = Front(stack[t])
    BY <1>1, <1>17 DEF Pop, StackTyped
  <2> QED
    BY <1>17, <2>1, <2>2, <2>3, FrameMove
<1>18. ASSUME NEW t \in Threads, BridgeCall(t)
       PROVE  FrameInv'
  <2>1. /\ pc[t] \in {"entry", "exit"} /\ stack[t] # <<>>
        /\ \/ /\ Goes(t, pc[t], "java") /\ UNCHANGED ret
              /\ \/ UNCHANGED stack \/ Pop(t) \/ stack' = [stack EXCEPT ![t] = <<>>]
           \/ /\ Goes(t, pc[t], "natLock") /\ UNCHANGED stack
              /\ ret' = [ret EXCEPT ![t] = pc[t]]
    BY <1>1, <1>18 DEF BridgeCall, After, FrameInv, InBridge
  <2>2. CASE Goes(t, pc[t], "natLock") /\ UNCHANGED stack /\ ret' = [ret EXCEPT ![t] = pc[t]]
    <3>1. /\ InBridge(t)
          /\ \A u \in Threads \ {t} : pc'[u] = pc[u] /\ ret'[u] = ret[u] /\ stack'[u] = stack[u]
      BY <1>1, <2>1, <2>2, GoesOnly, RetOnly DEF InBridge
    <3> QED
      BY <1>1, <2>2, <3>1, FrameMove DEF FrameInv
  <2> QED
    BY <1>17, <2>1, <2>2
<1>19. ASSUME NEW t \in Threads, NativeUnlock(t)
       PROVE  FrameInv'
  <2>1. stack[t] # <<>>
    BY <1>1, <1>19 DEF NativeUnlock, Leave, Goes, FrameInv, InBridge
  <2> QED
    BY <1>17, <1>19, <2>1 DEF NativeUnlock, Leave, After
<1>20. ASSUME NEW t \in Threads, ReturnUntraced(t) \/ Throw(t)
       PROVE  FrameInv'
  BY <1>17, <1>20 DEF ReturnUntraced, Throw
<1>21. ASSUME NEW t \in Threads, ReturnTraced(t)
       PROVE  FrameInv'
  BY <1>1, <1>21, GoesOnly, FrameMove DEF ReturnTraced
<1>22. ASSUME NEW t \in Threads, Calls(t)
       PROVE  FrameInv'
  <2>1. PICK c \in Classes : \E m \in Methods(c) : Call(t, c, m)
    BY <1>22 DEF Calls
  <2>2. PICK m \in Methods(c) : Call(t, c, m)
    BY <2>1
  <2>3. /\ c \in loaded /\ m \in Nat /\ UNCHANGED ret
        /\ stack' = [stack EXCEPT ![t] = Append(@, <<c, m>>)]
        /\ Goes(t, "java", IF Traced(<<c, m>>) THEN "entry" ELSE "java")
    BY <2>2 DEF Call, Methods
  <2>4. /\ pc'[t] = IF Traced(<<c, m>>) THEN "entry" ELSE "java"
        /\ \A u \in Threads \ {t} : pc'[u] = pc[u]
    BY <1>1, <2>3, GoesOnly
  <2>5. InBridge(t)' => Traced(<<c, m>>)
    BY <2>4 DEF InBridge
  <2>6. /\ stack'[t] = Append(stack[t], <<c, m>>)
        /\ \A u \in Threads \ {t} : stack'[u] = stack[u]
    BY <1>1, <2>3 DEF StackTyped
  <2> QED
    BY <2>3, <2>4, <2>5, <2>6, FrameMove
<1>23. CASE OnLoadFails \/ VMInitFails \/ (\E t \in Threads : VMDeathFails(t)) \/ UNCHANGED vars
  BY <1>2, <1>23 DEF OnLoadFails, VMInitFails, VMDeathFails, Fatal
<1> HIDE DEF HookPCs, HookInside, NativePCs
<1> QED
  BY <1>4, <1>5, <1>6, <1>7, <1>8, <1>9, <1>10, <1>11, <1>12, <1>13, <1>14, <1>15, <1>16,
     <1>18, <1>19, <1>20, <1>21, <1>22, <1>23
     DEF Next, MainStep, Works, CallsServer, JavaCode, Finished, Calls

-----------------------------------------------------------------------------
(* Flags.                                                                  *)

(* VMInit runs in Main, from its lock to its unlock.                       *)
InInit(t) == pc[t] \in InitPCs \/ LoadsForInit(t)

LEMMA FlagMove ==
  ASSUME FlagInv, NEW t \in Threads,
         \A u \in Threads \ {t} : pc'[u] = pc[u] /\ ret'[u] = ret[u],
         vm' # "onload", vm' \in {"dead", "unloaded"} => m_vm_is_dead,
         vm' = "start" => vm = "start" \/ pc'[Main] = "vmStart",
         t = Main /\ pc[t] = "vmStart" => m_vm_is_started',
         m_vm_is_dead' = m_vm_is_dead, m_vm_is_started => m_vm_is_started',
         natives => natives', engaged' # 0 => engaged # 0 \/ natives,
         threadEvents' => threadEvents \/ m_vm_is_started,
         pc'[t] = "initEngage" => natives',
         pc'[t] \in NativePCs => natives,
         pc'[t] \in {"deathExit", "unload"} => m_vm_is_dead,
         pc'[t] \in {"enqueue", "evInfo"} => ~m_vm_is_dead,
         t = Main /\ InInit(t)' => InInit(t) \/ m_vm_is_started
  PROVE  FlagInv'
<1>1. \A u \in Threads \ {t} : InInit(u)' <=> InInit(u)
  BY DEF InInit, LoadsForInit
<1>2. (InInit(Main) => m_vm_is_started) /\ (threadEvents => m_vm_is_started)
  BY DEF FlagInv, InInit
<1>3. (InInit(Main)' => m_vm_is_started') /\ (threadEvents' => m_vm_is_started')
  BY <1>1, <1>2
<1>4. engaged' # 0 \/ pc'[Main] = "initEngage" => natives'
  BY DEF FlagInv
<1>5. \A u \in Threads : /\ pc'[u] \in NativePCs => natives'
                         /\ pc'[u] \in {"deathExit", "unload"} => m_vm_is_dead'
                         /\ pc'[u] \in {"enqueue", "evInfo"} => ~m_vm_is_dead'
  BY DEF FlagInv
<1>6. vm' = "start" => pc'[Main] = "vmStart" \/ m_vm_is_started'
  BY DEF FlagInv
<1> QED
  BY <1>3, <1>4, <1>5, <1>6 DEF FlagInv, InInit

LEMMA FlagQuiet ==
  ASSUME PcTyped, FlagInv, NEW t \in Threads, NEW from, NEW to, Goes(t, from, to),
         UNCHANGED <<vm, agent, switches, ret>>,
         from \notin {"none", "vmStart"}, to # "initEngage",
         to \in NativePCs => from \in NativePCs,
         to \in {"deathExit", "unload"} => m_vm_is_dead,
         to \in {"enqueue", "evInfo"} => ~m_vm_is_dead,
         to \in InitPCs => from \in InitPCs \/ (from \in HookPCs /\ ret[t] = "initFind"),
         to \in HookPCs => from \in HookPCs
  PROVE  FlagInv'
<1>1. /\ pc[t] = from /\ pc'[t] = to
      /\ \A u \in Threads \ {t} : pc'[u] = pc[u] /\ ret'[u] = ret[u]
  BY GoesOnly
<1>2. vm # "onload"
  BY <1>1 DEF FlagInv
<1>3. InInit(t)' => InInit(t)
  BY <1>1 DEF InInit, LoadsForInit
<1>4. to \in NativePCs => natives
  BY <1>1 DEF FlagInv
<1>5. vm \in {"dead", "unloaded"} => m_vm_is_dead
  BY DEF FlagInv
<1> QED
  BY <1>1, <1>2, <1>3, <1>4, <1>5, FlagMove

LEMMA FlagInvStep ==
  ASSUME IInv, [Next]_vars
  PROVE  FlagInv'
<1> USE DEF HookPCs, HookInside, NativePCs, InitPCs
<1>1. PcTyped /\ RetTyped /\ FlagsTyped /\ LockInv /\ FlagInv
  BY TypeParts DEF IInv
(* What a thread may do without a flag changing.                           *)
<1>2. ASSUME NEW t \in Threads, NEW from, NEW to, Goes(t, from, to),
             UNCHANGED <<vm, agent, switches, ret>>,
             from \notin {"none", "vmStart"}, to # "initEngage",
             to \in NativePCs => from \in NativePCs,
             to \in {"deathExit", "unload"} => m_vm_is_dead,
             to \in {"enqueue", "evInfo"} => ~m_vm_is_dead,
             to \in InitPCs => from \in InitPCs \/ (from \in HookPCs /\ ret[t] = "initFind"),
             to \in HookPCs => from \in HookPCs
      PROVE  FlagInv'
  <2> HIDE DEF HookPCs, HookInside, NativePCs, InitPCs
  <2> QED
    BY <1>1, <1>2, FlagQuiet
<1>3. ASSUME UNCHANGED <<pc, ret, agent, switches>>,
             vm' = vm \/ vm' = "aborted"
      PROVE  FlagInv'
  BY <1>1, <1>3 DEF FlagInv, LoadsForInit
<1>4. ASSUME NEW why, Fatal(why), UNCHANGED pc
      PROVE  FlagInv'
  BY <1>1, <1>4 DEF Fatal, FlagInv, LoadsForInit
<1>5. /\ InInit(Main) \/ threadEvents => m_vm_is_started
      /\ vm \in {"dead", "unloaded"} => m_vm_is_dead
  BY <1>1 DEF FlagInv, InInit
<1>6. CASE OnLoad
  <2>1. /\ \A t \in Threads : pc[t] = "none"
        /\ pc' = [pc EXCEPT ![Main] = "java"] /\ vm' = "primordial"
        /\ UNCHANGED <<ret, agent, switches>>
    BY <1>1, <1>6 DEF OnLoad, FlagInv
  <2>2. pc'[Main] = "java" /\ \A u \in Threads \ {Main} : pc'[u] = pc[u]
    BY <1>1, <2>1 DEF PcTyped
  <2>3. ~InInit(Main)'
    BY <2>2 DEF InInit, LoadsForInit
  <2> QED
    BY <1>1, <2>1, <2>2, <2>3, FlagMove
<1>7. CASE OnLoadFails \/ VMInitFails \/ (\E t \in Threads : VMDeathFails(t))
  BY <1>4, <1>7 DEF OnLoadFails, VMInitFails, VMDeathFails
<1>8. CASE PostVMStart
  <2>1. /\ pc'[Main] = "vmStart" /\ pc[Main] = "java" /\ vm' = "start"
        /\ UNCHANGED <<ret, agent, switches>> /\ \A u \in Threads \ {Main} : pc'[u] = pc[u]
    BY <1>1, <1>8, GoesOnly DEF PostVMStart
  <2>2. ~InInit(Main)'
    BY <2>1 DEF InInit, LoadsForInit
  <2> QED
    BY <1>1, <2>1, <2>2, FlagMove
<1>9. CASE VMStart
  <2>1. /\ pc'[Main] = "java" /\ pc[Main] = "vmStart" /\ vm' = vm /\ m_vm_is_started'
        /\ UNCHANGED <<ret, m_vm_is_dead, fatal, switches>>
        /\ \A u \in Threads \ {Main} : pc'[u] = pc[u]
    BY <1>1, <1>9, GoesOnly DEF VMStart
  <2>2. ~InInit(Main)'
    BY <2>1 DEF InInit, LoadsForInit
  <2>3. vm # "onload"
    BY <1>1, <2>1 DEF FlagInv
  <2> QED
    BY <1>1, <1>5, <2>1, <2>2, <2>3, FlagMove
<1>10. CASE PostVMInit
  <2>1. /\ pc'[Main] = "initLock" /\ pc[Main] = "java" /\ vm = "start" /\ vm' = "live"
        /\ UNCHANGED <<ret, agent, switches>> /\ \A u \in Threads \ {Main} : pc'[u] = pc[u]
    BY <1>1, <1>10, GoesOnly DEF PostVMInit
  <2>2. m_vm_is_started
    BY <1>1, <2>1 DEF FlagInv
  <2> QED
    BY <1>1, <2>1, <2>2, FlagMove
<1>11. CASE VMInitLock \/ VMInitFind \/ VMInitUnlock
  BY <1>2, <1>11 DEF VMInitLock, Enter, VMInitFind, VMInitUnlock, Leave
<1>12. CASE VMInitRegister \/ VMInitEngage \/ VMInitEvents
  <2>1. /\ pc[Main] \in {"initRegister", "initEngage", "initEvents"} /\ pc'[Main] \in InitPCs
        /\ vm' = vm /\ UNCHANGED <<ret, agent>> /\ (natives => natives')
        /\ pc'[Main] = "initEngage" => natives'
        /\ engaged' # engaged => pc[Main] = "initEngage"
        /\ \A u \in Threads \ {Main} : pc'[u] = pc[u]
    <3>1. \/ Goes(Main, "initRegister", "initEngage") /\ natives' /\ engaged' = engaged
          \/ Goes(Main, "initEngage", "initEvents") /\ natives' = natives
          \/ Goes(Main, "initEvents", "initExit") /\ natives' = natives /\ engaged' = engaged
      BY <1>12 DEF VMInitRegister, VMInitEngage, VMInitEvents
    <3>2. vm' = vm /\ UNCHANGED <<ret, agent>>
      BY <1>12 DEF VMInitRegister, VMInitEngage, VMInitEvents
    <3> QED
      BY <1>1, <3>1, <3>2, GoesOnly
  <2>2. /\ InInit(Main) /\ m_vm_is_started
        /\ vm # "onload" /\ (engaged' # 0 => engaged # 0 \/ natives)
    BY <1>1, <1>5, <2>1 DEF FlagInv, InInit
  <2> QED
    BY <1>1, <1>5, <2>1, <2>2, FlagMove
<1>13. ASSUME NEW t \in Threads, Locks(t)
       PROVE  FlagInv'
  BY <1>2, <1>13 DEF Locks, HookLock, NativeLock, ThreadEventLock, VMDeathLock, Enter
<1>14. ASSUME NEW t \in Threads, PostVMDeath(t)
       PROVE  FlagInv'
  <2>1. /\ pc'[t] = "deathLock" /\ pc[t] = "java" /\ vm' = "dying"
        /\ UNCHANGED <<ret, agent, switches>> /\ \A u \in Threads \ {t} : pc'[u] = pc[u]
    BY <1>1, <1>14, GoesOnly DEF PostVMDeath
  <2>2. ~InInit(t)'
    BY <2>1 DEF InInit, LoadsForInit
  <2> QED
    BY <1>1, <2>1, <2>2, FlagMove
<1>15. ASSUME NEW t \in Threads, VMDeathDisengage(t)
       PROVE  FlagInv'
  <2>1. /\ pc'[t] = "deathMark" /\ pc[t] = "deathDisengage" /\ vm' = vm /\ engaged' = 0
        /\ UNCHANGED <<ret, agent, natives, threadEvents>>
        /\ \A u \in Threads \ {t} : pc'[u] = pc[u]
    BY <1>1, <1>15, GoesOnly DEF VMDeathDisengage
  <2>2. ~InInit(t)' /\ vm # "onload"
    BY <1>1, <2>1 DEF InInit, LoadsForInit, FlagInv
  <2> QED
    BY <1>1, <1>5, <2>1, <2>2, FlagMove
(* Nobody is between the check of m_vm_is_dead and what depends on it.     *)
<1>16. ASSUME NEW t \in Threads, VMDeathMark(t)
       PROVE  FlagInv'
  <2>1. /\ pc'[t] = "deathExit" /\ pc[t] = "deathMark" /\ vm' = vm /\ m_vm_is_dead'
        /\ UNCHANGED <<ret, m_vm_is_started, switches>>
        /\ \A u \in Threads \ {t} : pc'[u] = pc[u]
    BY <1>1, <1>16, GoesOnly DEF VMDeathMark
  <2>2. \A u \in Threads \ {t} : pc[u] \notin {"enqueue", "evInfo"}
    BY <1>1, <2>1, Exclusion DEF LockedPCs
  <2>3. /\ \A u \in Threads : pc'[u] \notin {"enqueue", "evInfo"}
        /\ vm # "onload"
    BY <1>1, <2>1, <2>2 DEF FlagInv
  <2>4. t = Main => pc'[Main] # "initEngage" /\ pc'[Main] \notin InitPCs /\ ~LoadsForInit(Main)'
    BY <2>1 DEF LoadsForInit
  <2>5. t # Main => (LoadsForInit(Main)' <=> LoadsForInit(Main)) /\ pc'[Main] = pc[Main]
    BY <2>1 DEF LoadsForInit
  <2>6. vm' = "start" => pc'[Main] = "vmStart" \/ m_vm_is_started'
    BY <1>1, <2>1 DEF FlagInv
  <2>7. \A u \in Threads : pc'[u] \in NativePCs => natives'
    BY <1>1, <2>1 DEF FlagInv
  <2>8. pc'[Main] \in InitPCs \/ LoadsForInit(Main)' \/ threadEvents' => m_vm_is_started'
    BY <1>1, <2>1, <2>4, <2>5 DEF FlagInv
  <2>9. engaged' # 0 \/ pc'[Main] = "initEngage" => natives'
    BY <1>1, <2>1, <2>4, <2>5 DEF FlagInv
  <2> QED
    BY <2>1, <2>3, <2>6, <2>7, <2>8, <2>9 DEF FlagInv
<1>17. ASSUME NEW t \in Threads, VMDeathUnlock(t) \/ OnUnload(t)
       PROVE  FlagInv'
  <2>1. /\ pc'[t] \in {"unload", "ended"} /\ pc[t] \in {"deathExit", "unload"}
        /\ vm' \in {"dead", "unloaded"}
        /\ UNCHANGED <<ret, agent, switches>> /\ \A u \in Threads \ {t} : pc'[u] = pc[u]
    BY <1>1, <1>17, GoesOnly DEF VMDeathUnlock, Leave, OnUnload
  <2>2. ~InInit(t)' /\ m_vm_is_dead
    BY <1>1, <2>1 DEF InInit, LoadsForInit, FlagInv
  <2> QED
    BY <1>1, <2>1, <2>2, FlagMove
<1>18. ASSUME NEW t \in Threads, BeginThread(t) \/ EndThread(t)
       PROVE  FlagInv'
  <2>1. PICK from \in {"none", "java"} : \E to \in {"evLock", "java", "ended"},
                                            r \in {"java", "ended"} :
          /\ Goes(t, from, to) /\ ret' = [ret EXCEPT ![t] = r]
          /\ vm # "onload" \/ threadEvents \/ from = "java"
    BY <1>18 DEF BeginThread, EndThread, Initialised
  <2>2. /\ pc[t] = from /\ pc'[t] \in {"evLock", "java", "ended"}
        /\ \A u \in Threads \ {t} : pc'[u] = pc[u] /\ ret'[u] = ret[u]
    BY <1>1, <2>1, GoesOnly, RetOnly
  <2>3. ~InInit(t)' /\ UNCHANGED <<vm, agent, switches>>
    BY <1>18, <2>2 DEF InInit, LoadsForInit, BeginThread, EndThread
  <2>4. vm # "onload"
    BY <1>1, <2>1, <2>2 DEF FlagInv
  <2> QED
    BY <1>1, <1>5, <2>2, <2>3, <2>4, FlagMove
<1>19. ASSUME NEW t \in Threads,
              ThreadEvent(t) \/ GetThreadInfo(t) \/ NativeUnlock(t)
       PROVE  FlagInv'
  <2>1. /\ \/ ~m_vm_is_dead /\ Goes(t, "evIn", "evInfo")
           \/ Goes(t, "evIn", "evExit")
           \/ Goes(t, "evInfo", "evExit") \/ Goes(t, "natExit", "java")
        /\ UNCHANGED <<vm, agent, switches, ret>>
    BY <1>19 DEF ThreadEvent, GetThreadInfo, NativeUnlock, Leave
  <2> QED
    BY <1>2, <2>1
<1>20. ASSUME NEW t \in Threads, ThreadEventUnlock(t)
       PROVE  FlagInv'
  <2>1. ret[t] \in {"java", "ended"}
    BY <1>1, <1>20 DEF ThreadEventUnlock, Leave, Goes, LockInv, RetFits, EventPCs
  <2> QED
    BY <1>2, <1>20, <2>1 DEF ThreadEventUnlock, Leave
<1>21. ASSUME NEW t \in Threads, NEW c \in Classes,
              LoadUnhooked(t, c) \/ HookSkips(t, c) \/ HookNumbers(t, c) \/ HookAppends(t, c)
       PROVE  FlagInv'
  BY <1>2, <1>21 DEF LoadUnhooked, HookSkips, HookNumbers, HookAppends
<1>22. ASSUME NEW t \in Threads, NEW c \in Classes, HookRewrites(t, c)
       PROVE  FlagInv'
  <2>1. \/ UNCHANGED pc /\ Fatal("classFile")
        \/ Goes(t, "hookRewrite", "hookExit") /\ UNCHANGED <<vm, agent, switches, ret>>
    BY <1>22 DEF HookRewrites
  <2> QED
    BY <1>2, <1>4, <2>1
<1>23. ASSUME NEW t \in Threads, NEW c \in Classes, HookUnlock(t, c)
       PROVE  FlagInv'
  <2>1. ret[t] \in {"java", "entry", "exit", "initFind"}
    BY <1>1, <1>23 DEF HookUnlock, Leave, Goes, LockInv, RetFits
  <2> QED
    BY <1>2, <1>23, <2>1 DEF HookUnlock, Leave
<1>24. ASSUME NEW t \in Threads, NEW c \in Classes, BeginLoad(t, c)
       PROVE  FlagInv'
  <2>1. /\ pc[t] \in {"java", "entry", "exit", "initFind"} /\ pc'[t] = "hookLock"
        /\ ret'[t] = pc[t] /\ UNCHANGED <<vm, agent, switches>>
        /\ \A u \in Threads \ {t} : pc'[u] = pc[u] /\ ret'[u] = ret[u]
    BY <1>1, <1>24, GoesOnly, RetOnly DEF BeginLoad
  <2>2. (InInit(t)' => InInit(t)) /\ vm # "onload"
    BY <1>1, <2>1 DEF InInit, LoadsForInit, FlagInv
  <2> QED
    BY <1>1, <1>5, <2>1, <2>2, FlagMove
<1>25. ASSUME NEW t \in Threads, BridgeCall(t)
       PROVE  FlagInv'
  <2>1. /\ pc[t] \in {"entry", "exit"} /\ UNCHANGED <<vm, agent, switches>>
        /\ \/ Goes(t, pc[t], "java") /\ UNCHANGED ret
           \/ Goes(t, pc[t], "natLock") /\ ret' = [ret EXCEPT ![t] = pc[t]] /\ engaged # 0
    BY <1>25 DEF BridgeCall
  <2>2. CASE Goes(t, pc[t], "java") /\ UNCHANGED ret
    BY <1>2, <2>1, <2>2
  <2>3. CASE Goes(t, pc[t], "natLock") /\ ret' = [ret EXCEPT ![t] = pc[t]] /\ engaged # 0
    <3>1. /\ pc'[t] = "natLock"
          /\ \A u \in Threads \ {t} : pc'[u] = pc[u] /\ ret'[u] = ret[u]
      BY <1>1, <2>3, GoesOnly, RetOnly
    <3>2. ~InInit(t)' /\ vm # "onload" /\ natives
      BY <1>1, <2>1, <2>3, <3>1 DEF InInit, LoadsForInit, FlagInv
    <3> QED
      BY <1>1, <1>5, <2>1, <3>1, <3>2, FlagMove
  <2> QED
    BY <2>1, <2>2, <2>3
<1>26. ASSUME NEW t \in Threads, NativeChecks(t) \/ Enqueue(t)
       PROVE  FlagInv'
  <2>1. \/ UNCHANGED pc /\ Fatal("range")
        \/ /\ \/ ~m_vm_is_dead /\ Goes(t, "natIn", "enqueue")
              \/ Goes(t, "natIn", "natExit")
              \/ Goes(t, "enqueue", "natExit")
           /\ UNCHANGED <<vm, agent, switches, ret>>
    BY <1>26 DEF NativeChecks, Enqueue
  <2> QED
    BY <1>2, <1>4, <2>1
<1>27. ASSUME NEW t \in Threads,
              Calls(t) \/ ReturnTraced(t) \/ ReturnUntraced(t) \/ Throw(t)
       PROVE  FlagInv'
  <2>1. /\ UNCHANGED <<vm, agent, switches, ret>>
        /\ \E to \in {"java", "entry", "exit"} : Goes(t, "java", to)
    BY <1>27 DEF Calls, Call, ReturnTraced, ReturnUntraced, Throw
  <2> QED
    BY <1>2, <2>1
<1>28. CASE UNCHANGED vars
  BY <1>3, <1>28
<1> HIDE DEF HookPCs, HookInside, NativePCs, InitPCs
<1> QED
  BY <1>6, <1>7, <1>8, <1>9, <1>10, <1>11, <1>12, <1>13, <1>14, <1>15, <1>16, <1>17, <1>18,
     <1>19, <1>20, <1>21, <1>22, <1>23, <1>24, <1>25, <1>26, <1>27, <1>28
     DEF Next, MainStep, Works, CallsServer, JavaCode, Finished, Calls

-----------------------------------------------------------------------------
(* The inductive invariant holds, whatever the threads and the classes.    *)
THEOREM Invariance == Spec => []IInv
<1>1. Init => IInv
  BY Initially
<1>2. IInv /\ [Next]_vars => IInv'
  BY TypeStep, LockStep, LoadStep, TableInvStep, FrameStep, FlagInvStep DEF IInv
<1> QED
  BY <1>1, <1>2, PTL DEF Spec

(* Every variable of the agent keeps its type: a class number or a method  *)
(* number is a number, a message names a class.                            *)
THEOREM TypeCorrect == Spec => []TypeOK
<1>1. IInv => TypeOK
  BY DEF IInv
<1> QED
  BY <1>1, Invariance, PTL

(* The number java_crw_demo() put into the code of a class leads back to   *)
(* the class and to the count of its methods, while hooks of any number of *)
(* threads extend the table.                                               *)
THEOREM NumbersLeadBackAlways == Spec => []NumbersLeadBack
<1>1. IInv => NumbersLeadBack
  BY DEF IInv, TableInv
<1> QED
  BY <1>1, Invariance, PTL

(* The fatal "class number out of range" and "method number out of range"  *)
(* of the natives are never reached.                                       *)
THEOREM NoFatalRange == Spec => []RangeChecksNeverFire
<1>1. IInv => RangeChecksNeverFire
  BY DEF IInv
<1> QED
  BY <1>1, Invariance, PTL

(* No two threads use the class table at once: the monitor is held from    *)
(* the first use to the last, in the hook and in the natives.              *)
THEOREM TableIsExclusive == Spec => []NoTableRace
<1>1. IInv => NoTableRace
  <2> SUFFICES ASSUME IInv, NEW t \in Threads, NEW u \in Threads, UsesTable(t), UsesTable(u)
               PROVE  t = u
    BY DEF NoTableRace
  <2>1. pc[t] \in LockedPCs /\ pc[u] \in LockedPCs
    BY DEF UsesTable, LockedPCs, HookInside
  <2> QED
    BY <2>1, Exclusion DEF IInv
<1> QED
  BY <1>1, Invariance, PTL

(* The bridge calls no native before VMInit has registered it.             *)
THEOREM NativesRegistered == Spec => []NativesBound
<1>1. IInv => NativesBound
  BY DEF IInv, FlagInv, NativesBound, NativePCs
<1> QED
  BY <1>1, Invariance, PTL

(* GetThreadInfo() is called in no dead VM: an event that found            *)
(* m_vm_is_dead unset holds the monitor, which VMDeath waits for.          *)
THEOREM InfoBeforeDeath == Spec => []InfoInTime
<1>1. IInv => InfoInTime
  BY DEF IInv, FlagInv, InfoInTime, Posts
<1> QED
  BY <1>1, Invariance, PTL

(* Every message names the class and the method that the thread that sent  *)
(* it is really running.                                                   *)
THEOREM TraceIsFaithful == Spec => TraceFaithful
<1>1. IInv /\ [Next]_vars
        => [\A t \in Threads : pc[t] = "enqueue" /\ sent' # sent =>
             LET m == Last(sent') IN m.thread = t => <<m.class, m.method>> = Top(t)]_vars
  <2> SUFFICES ASSUME IInv, [Next]_vars, NEW t \in Threads, pc[t] = "enqueue", sent' # sent,
                      Last(sent').thread = t
               PROVE  <<Last(sent').class, Last(sent').method>> = Top(t)
    OBVIOUS
  <2>1. StackTyped /\ ImageTyped /\ SentTyped /\ TableInv /\ FrameInv
    BY TypeParts DEF IInv
  <2>2. PICK u \in Threads : Enqueue(u)
    BY Writers
  <2> DEFINE msg == [thread |-> u, class |-> Name(u), method |-> Top(u)[2],
                     what |-> IF ret[u] = "entry" THEN "enter" ELSE "exit"]
  <2>3. sent' = Append(sent, msg)
    BY <2>2 DEF Enqueue
  <2>4. msg.thread = u /\ msg.class = Name(u) /\ msg.method = Top(u)[2]
    OBVIOUS
  <2> HIDE DEF msg
  <2>5. Last(sent') = msg
    BY <2>1, <2>3 DEF SentTyped, Last
  <2>6. Top(t) \in Classes \X Nat /\ Name(t) = Top(t)[1]
    BY <2>1, NameIsTop DEF NativePCs
  <2> QED
    BY <2>4, <2>5, <2>6
<1> QED
  BY <1>1, Invariance, PTL DEF Spec, TraceFaithful

(* Once VMInit has requested the thread events, a class that is rewritten  *)
(* is traced in all its methods with code: m_vm_is_started was set long    *)
(* before.                                                                 *)
THEOREM LiveClassesAreTraced == Spec => LiveClassesTraced
<1>1. IInv /\ [Next]_vars
        => [\A c \in Classes : Initialised /\ image'[c].traced # image[c].traced
                                 => image'[c].traced = WithCode(c)]_vars
  <2> SUFFICES ASSUME IInv, [Next]_vars, NEW c \in Classes, Initialised,
                      image'[c].traced # image[c].traced
               PROVE  image'[c].traced = WithCode(c)
    OBVIOUS
  <2>1. ImageTyped /\ m_vm_is_started
    BY TypeParts DEF IInv, FlagInv, Initialised
  <2>2. ASSUME NEW t \in Threads, NEW d \in Classes, HookNumbers(t, d) \/ HookAppends(t, d)
        PROVE  image'[c].traced = image[c].traced
    <3>1. image' = [image EXCEPT ![d].cnum = Len(m_classes)] \/ image' = image
      BY <2>2 DEF HookNumbers, HookAppends
    <3>2. image[c] \in Image /\ image[d] \in Image
      BY <2>1 DEF ImageTyped
    <3>3. [image[d] EXCEPT !.cnum = Len(m_classes)].traced = image[d].traced
      BY <3>2 DEF Image
    <3> QED
      BY <2>1, <3>1, <3>3 DEF ImageTyped
  <2>3. ASSUME NEW t \in Threads, NEW d \in Classes, HookRewrites(t, d)
        PROVE  image'[c].traced \in {image[c].traced, WithCode(c)}
    <3>1. UNCHANGED image \/ image' = [image EXCEPT ![d].traced = WithCode(d)]
      BY <2>1, <2>3 DEF HookRewrites, Fatal
    <3>2. [image[d] EXCEPT !.traced = WithCode(d)].traced = WithCode(d)
      BY <2>1 DEF ImageTyped, Image
    <3> QED
      BY <2>1, <3>1, <3>2 DEF ImageTyped
  <2> QED
    BY <2>2, <2>3, Writers
<1> QED
  BY <1>1, Invariance, PTL DEF Spec, LiveClassesTraced

(* With the bridge class off the include list, the master switch does what *)
(* bridge.java says of it: with m_engaged at 0 no call of a traced method  *)
(* ends differently from one of an untraced method.                        *)
THEOREM SwitchSparesJava ==
  ASSUME Bridge \notin Included PROVE Spec => MasterSwitch
<1>1. IInv /\ [Next]_vars => [engaged = 0 => overflowed' = overflowed]_vars
  <2> SUFFICES ASSUME IInv, [Next]_vars
               PROVE  overflowed' = overflowed
    OBVIOUS
  <2>1. image[Bridge].traced = {}
    BY DEF IInv, TableInv, ClassInv
  <2>2. ASSUME NEW t \in Threads, Calls(t) \/ Unwinds(t)
        PROVE  overflowed' = overflowed
    BY <2>1, <2>2 DEF Calls, Call, Unwinds, ReturnUntraced, Throw, BridgeCall, NativeUnlock, After
  <2> QED
    BY <2>2, Writers
<1> QED
  BY <1>1, Invariance, PTL DEF Spec, MasterSwitch

=============================================================================
