------------------------------ MODULE JVMAgent ------------------------------
(***************************************************************************)
(* JVMAgent.cpp and bridge.java: the JVMTI callbacks, the class table and  *)
(* the natives the injected code calls, run by the Java threads of one JVM *)
(* under the raw monitor m_lock.  The JVM itself (phases, class loading,   *)
(* threads) is external: it is modelled as far as it drives the callbacks. *)
(* enqueue_for_sending() and stop() are one step each; MethodTrace puts    *)
(* NetworkServer in their place.                                           *)
(***************************************************************************)
EXTENDS Naturals, Sequences, FiniteSets, SequencesExt

CONSTANTS
  Threads, Main,     \* Java threads; Main creates the VM
  EarlyThreads,      \* threads that run Java code before VMInit
  NoOne,             \* no thread
  Classes, Bridge,   \* class images; Bridge is MTRACE_class
  Kind,              \* "class", "interface" or "unreadable", for each class
  MethodCount,       \* how many methods the class has
  NoCode,            \* <<c, m>> that are native or abstract
  SystemSkips,       \* <<c, m>> that java_crw_demo leaves alone in a system class
  Included,          \* classes c with interested(c, "")
  Reported,          \* <<c, m>> with interested(c, m)
  MaxCalls,          \* bound: method calls, by thread
  MaxDepth           \* bound: frames of each thread

ASSUME JVMAgentAssumption ==
  /\ Main \in Threads
  /\ EarlyThreads \subseteq Threads \ {Main}
  /\ NoOne \notin Threads
  /\ Bridge \in Classes
  /\ Kind \in [Classes -> {"class", "interface", "unreadable"}]
  /\ MethodCount \in [Classes -> Nat]
  /\ Included \subseteq Classes
  /\ MaxCalls \in [Threads -> Nat]
  /\ MaxDepth \in Nat

Methods(c) == 0 .. MethodCount[c] - 1

(* The calls go into the Code attribute of a method.                       *)
WithCode(c) == {m \in Methods(c) : <<c, m>> \notin NoCode}

VARIABLES
  vm,                \* the phase of the JVM
  loading, loaded,   \* who loads a class; which are loaded
  pc, ret,           \* where a thread is, and where it goes on afterwards
  stack, calls,      \* its frames <<class, method>>, and how many calls it made
  m_lock,            \* the raw monitor: its owner and how often it entered
  m_vm_is_started, m_vm_is_dead,
  m_classes,         \* the class table: name and m_mcount
  image,             \* the methods a class image traces, and the number in them
  engaged, natives, threadEvents,
  sent,              \* what enqueue_for_sending() was given
  fatal, overflowed, threw  \* history

classLoading == <<loading, loaded>>
java     == <<stack, calls, overflowed, threw>>
agent    == <<m_vm_is_started, m_vm_is_dead, fatal>>
table    == <<m_classes, image>>
switches == <<engaged, natives, threadEvents>>
vars == <<vm, classLoading, pc, ret, java, m_lock, agent, table, switches, sent>>

PC == {"none", "java", "ended", "vmStart",
       "hookLock", "hookIn", "hookAppend", "hookRewrite", "hookExit",
       "entry", "exit", "natLock", "natIn", "enqueue", "natExit",
       "evLock", "evIn", "evInfo", "evExit",
       "initLock", "initFind", "initRegister", "initEngage", "initEvents", "initExit",
       "deathLock", "deathDisengage", "deathMark", "deathExit", "unload"}

Image == [traced : SUBSET Nat, cnum : Nat]
NotInstrumented == [traced |-> {}, cnum |-> 0]

TypeOK ==
  /\ vm \in {"onload", "primordial", "start", "live", "dying", "dead", "unloaded", "aborted"}
  /\ loading \in [Classes -> Threads \cup {NoOne}]
  /\ loaded \in SUBSET Classes
  /\ pc \in [Threads -> PC]
  /\ ret \in [Threads -> {"java", "ended", "entry", "exit", "initFind"}]
  /\ stack \in [Threads -> Seq(Classes \X Nat)]
  /\ calls \in [Threads -> Nat] /\ \A t \in Threads : calls[t] <= MaxCalls[t]
  /\ m_lock \in [owner : Threads \cup {NoOne}, count : Nat]
  /\ m_vm_is_started \in BOOLEAN /\ m_vm_is_dead \in BOOLEAN
  /\ m_classes \in Seq([m_name : Classes, m_mcount : Nat])
  /\ image \in [Classes -> Image]
  /\ engaged \in {0, 1} /\ natives \in BOOLEAN /\ threadEvents \in BOOLEAN
  /\ sent \in Seq([thread : Threads, what : {"enter", "exit"},
                   class : Classes, method : Nat])
  /\ fatal \in {"none", "onload", "classFile", "jni", "range"}
  /\ overflowed \in BOOLEAN
  /\ threw \in SUBSET Threads

Init ==
  /\ vm = "onload"
  /\ loading = [c \in Classes |-> NoOne]
  /\ loaded = {}
  /\ pc = [t \in Threads |-> "none"]
  /\ ret = [t \in Threads |-> "java"]
  /\ stack = [t \in Threads |-> <<>>]
  /\ calls = [t \in Threads |-> 0]
  /\ m_lock = [owner |-> NoOne, count |-> 0]
  /\ m_vm_is_started = FALSE /\ m_vm_is_dead = FALSE
  /\ m_classes = <<>>
  /\ image = [c \in Classes |-> NotInstrumented]
  /\ engaged = 0 /\ natives = FALSE /\ threadEvents = FALSE
  /\ sent = <<>>
  /\ fatal = "none" /\ overflowed = FALSE /\ threw = {}

-----------------------------------------------------------------------------
Goes(t, from, to) ==
  /\ vm # "aborted"
  /\ pc[t] = from
  /\ pc' = [pc EXCEPT ![t] = to]

(* Mutant: a lock that is not re-entrant.                                  *)
EnterOnce(t, from, to) ==
  /\ Goes(t, from, to)
  /\ m_lock.owner = NoOne
  /\ m_lock' = [owner |-> t, count |-> 1]

(* lock() and unlock(): a thread may enter a raw monitor again.            *)
Enter(t, from, to) ==
  /\ Goes(t, from, to)
  /\ m_lock.owner \in {NoOne, t}
  /\ m_lock' = [owner |-> t, count |-> m_lock.count + 1]

Leave(t, from, to) ==
  /\ Goes(t, from, to)
  /\ m_lock' = IF m_lock.count = 1 THEN [owner |-> NoOne, count |-> 0]
                                   ELSE [m_lock EXCEPT !.count = @ - 1]

(* fatal_error(), or check_jvmti_error() with an error: the process exits. *)
Fatal(why) ==
  /\ vm # "aborted" /\ vm' = "aborted"
  /\ fatal' = why
  /\ UNCHANGED <<classLoading, ret, java, m_lock, m_vm_is_started, m_vm_is_dead,
                 table, switches, sent>>

-----------------------------------------------------------------------------
(* Agent_OnLoad runs alone; then the JVM comes up on Main.                 *)

OnLoad ==
  /\ vm = "onload"
  /\ vm' = "primordial"
  /\ pc' = [pc EXCEPT ![Main] = "java"]
  /\ UNCHANGED <<classLoading, ret, java, m_lock, agent, table, switches, sent>>

OnLoadFails == vm = "onload" /\ UNCHANGED pc /\ Fatal("onload")

PostVMStart ==
  /\ Goes(Main, "java", "vmStart")
  /\ vm = "primordial" /\ stack[Main] = <<>>
  /\ vm' = "start"
  /\ UNCHANGED <<classLoading, ret, java, m_lock, agent, table, switches, sent>>

(* Mutant: the flag is never set.                                          *)
VMStartNot ==
  /\ Goes(Main, "vmStart", "java")
  /\ UNCHANGED <<vm, classLoading, ret, java, m_lock, agent, table, switches, sent>>

(* The callback writes m_vm_is_started without the lock.                   *)
VMStart ==
  /\ Goes(Main, "vmStart", "java")
  /\ m_vm_is_started' = TRUE
  /\ UNCHANGED <<vm, classLoading, ret, java, m_lock, m_vm_is_dead, fatal, table,
                 switches, sent>>

PostVMInit ==
  /\ Goes(Main, "java", "initLock")
  /\ vm = "start" /\ stack[Main] = <<>>
  /\ vm' = "live"
  /\ UNCHANGED <<classLoading, ret, java, m_lock, agent, table, switches, sent>>

VMInitLock ==
  /\ Enter(Main, "initLock", "initFind")
  /\ UNCHANGED <<vm, classLoading, ret, java, agent, table, switches, sent>>

(* Mutant: the calls are engaged before RegisterNatives.                   *)
VMInitFindEngage ==
  /\ Goes(Main, "initFind", "initRegister")
  /\ Bridge \in loaded
  /\ engaged' = 1
  /\ UNCHANGED <<vm, classLoading, ret, java, m_lock, agent, table, natives,
                 threadEvents, sent>>

(* FindClass() returns once the class is loaded; see BeginLoad.            *)
VMInitFind ==
  /\ Goes(Main, "initFind", "initRegister")
  /\ Bridge \in loaded
  /\ UNCHANGED <<vm, classLoading, ret, java, m_lock, agent, table, switches, sent>>

VMInitFails ==
  /\ \/ pc[Main] \in {"initRegister", "initEngage", "initEvents"}
     \/ pc[Main] = "initFind" /\ loading[Bridge] = NoOne
  /\ UNCHANGED pc /\ Fatal("jni")

VMInitRegister ==
  /\ Goes(Main, "initRegister", "initEngage")
  /\ natives' = TRUE
  /\ UNCHANGED <<vm, classLoading, ret, java, m_lock, agent, table, engaged,
                 threadEvents, sent>>

VMInitEngage ==
  /\ Goes(Main, "initEngage", "initEvents")
  /\ engaged' = 1
  /\ UNCHANGED <<vm, classLoading, ret, java, m_lock, agent, table, natives,
                 threadEvents, sent>>

VMInitEvents ==
  /\ Goes(Main, "initEvents", "initExit")
  /\ threadEvents' = TRUE
  /\ UNCHANGED <<vm, classLoading, ret, java, m_lock, agent, table, engaged,
                 natives, sent>>

VMInitUnlock ==
  /\ Leave(Main, "initExit", "java")
  /\ UNCHANGED <<vm, classLoading, ret, java, agent, table, switches, sent>>

-----------------------------------------------------------------------------
(* A thread that ends the VM (DestroyJavaVM or System.exit) runs VMDeath   *)
(* and Agent_OnUnload while the others run on.                             *)

Initialised == threadEvents /\ pc[Main] # "initExit"

PostVMDeath(t) ==
  /\ Goes(t, "java", "deathLock")
  /\ vm = "live" /\ Initialised
  /\ vm' = "dying"
  /\ UNCHANGED <<classLoading, ret, java, m_lock, agent, table, switches, sent>>

VMDeathLock(t) ==
  /\ Enter(t, "deathLock", "deathDisengage")
  /\ UNCHANGED <<vm, classLoading, ret, java, agent, table, switches, sent>>

VMDeathDisengage(t) ==
  /\ Goes(t, "deathDisengage", "deathMark")
  /\ engaged' = 0
  /\ UNCHANGED <<vm, classLoading, ret, java, m_lock, agent, table, natives,
                 threadEvents, sent>>

VMDeathFails(t) ==
  pc[t] = "deathDisengage" /\ UNCHANGED pc /\ Fatal("jni")

VMDeathMark(t) ==
  /\ Goes(t, "deathMark", "deathExit")
  /\ m_vm_is_dead' = TRUE
  /\ UNCHANGED <<vm, classLoading, ret, java, m_lock, m_vm_is_started, fatal,
                 table, switches, sent>>

(* The JVM enters its dead phase when the callback returns.                *)
VMDeathUnlock(t) ==
  /\ Leave(t, "deathExit", "unload")
  /\ vm' = "dead"
  /\ UNCHANGED <<classLoading, ret, java, agent, table, switches, sent>>

OnUnload(t) ==
  /\ Goes(t, "unload", "ended")
  /\ vm' = "unloaded"
  /\ UNCHANGED <<classLoading, ret, java, m_lock, agent, table, switches, sent>>

-----------------------------------------------------------------------------
(* Threads begin and end, with the events once they are requested.  The    *)
(* JVM posts no event in its dead phase.                                   *)

Posts == vm \notin {"dead", "unloaded"}

BeginThread(t) ==
  /\ IF t \in EarlyThreads THEN vm # "onload" ELSE Initialised
  /\ Goes(t, "none", IF threadEvents /\ Posts THEN "evLock" ELSE "java")
  /\ ret' = [ret EXCEPT ![t] = "java"]
  /\ UNCHANGED <<vm, classLoading, java, m_lock, agent, table, switches, sent>>

EndThread(t) ==
  /\ t # Main /\ stack[t] = <<>>
  /\ Goes(t, "java", IF threadEvents /\ Posts THEN "evLock" ELSE "ended")
  /\ ret' = [ret EXCEPT ![t] = "ended"]
  /\ UNCHANGED <<vm, classLoading, java, m_lock, agent, table, switches, sent>>

(* ThreadStart and ThreadEnd.                                              *)
ThreadEventLock(t) ==
  /\ Enter(t, "evLock", "evIn")
  /\ UNCHANGED <<vm, classLoading, ret, java, agent, table, switches, sent>>

(* Mutant: the events come after VMDeath too.                              *)
ThreadEventAlways(t) ==
  /\ Goes(t, "evIn", "evInfo")
  /\ UNCHANGED <<vm, classLoading, ret, java, m_lock, agent, table, switches, sent>>

ThreadEvent(t) ==
  /\ Goes(t, "evIn", IF m_vm_is_dead THEN "evExit" ELSE "evInfo")
  /\ UNCHANGED <<vm, classLoading, ret, java, m_lock, agent, table, switches, sent>>

GetThreadInfo(t) ==
  /\ Goes(t, "evInfo", "evExit")
  /\ UNCHANGED <<vm, classLoading, ret, java, m_lock, agent, table, switches, sent>>

ThreadEventUnlock(t) ==
  /\ Leave(t, "evExit", ret[t])
  /\ UNCHANGED <<vm, classLoading, ret, java, agent, table, switches, sent>>

-----------------------------------------------------------------------------
(* Loading a class, by the first thread that needs it; the others wait.    *)
(* The class becomes usable when ClassFileLoadHook has returned.           *)

BeginLoad(t, c) ==
  /\ c \notin loaded /\ loading[c] = NoOne
  /\ \/ pc[t] = "java" /\ calls[t] < MaxCalls[t] /\ c # Bridge
     \/ pc[t] \in {"entry", "exit", "initFind"} /\ c = Bridge
  /\ Posts /\ Goes(t, pc[t], "hookLock")
  /\ ret' = [ret EXCEPT ![t] = pc[t]]
  /\ loading' = [loading EXCEPT ![c] = t]
  /\ UNCHANGED <<vm, loaded, java, m_lock, agent, table, switches, sent>>

LoadUnhooked(t, c) ==
  /\ c \notin loaded /\ loading[c] = NoOne /\ ~Posts
  /\ Goes(t, "java", "java")
  /\ loaded' = loaded \cup {c}
  /\ UNCHANGED <<vm, loading, ret, java, m_lock, agent, table, switches, sent>>

(* Mutant: the hook does not lock.                                         *)
HookLockNot(t) ==
  /\ Goes(t, "hookLock", "hookIn")
  /\ m_lock' = [m_lock EXCEPT !.count = @ + 1]
  /\ UNCHANGED <<vm, classLoading, ret, java, agent, table, switches, sent>>

HookLock(t) ==
  /\ Enter(t, "hookLock", "hookIn")
  /\ UNCHANGED <<vm, classLoading, ret, java, agent, table, switches, sent>>

HookSkips(t, c) ==
  /\ Goes(t, "hookIn", "hookExit")
  /\ loading[c] = t
  /\ m_vm_is_dead \/ c \notin Included
  /\ UNCHANGED <<vm, classLoading, ret, java, m_lock, agent, table, switches, sent>>

(* Mutants: the number of the last entry, instead of the one to come.      *)
HookNumbersBefore(t, c) ==
  /\ Goes(t, "hookIn", "hookAppend")
  /\ loading[c] = t /\ ~m_vm_is_dead /\ c \in Included
  /\ image' = [image EXCEPT ![c].cnum = Len(m_classes) - 1]
  /\ UNCHANGED <<vm, classLoading, ret, java, m_lock, agent, m_classes, switches, sent>>

HookNumbersLast(t, c) ==
  /\ Goes(t, "hookIn", "hookAppend")
  /\ loading[c] = t /\ ~m_vm_is_dead /\ c \in Included
  /\ image' = [image EXCEPT ![c].cnum = IF m_classes = <<>> THEN 0 ELSE Len(m_classes) - 1]
  /\ UNCHANGED <<vm, classLoading, ret, java, m_lock, agent, m_classes, switches, sent>>

(* The class gets the size of the table as its number ...                  *)
HookNumbers(t, c) ==
  /\ Goes(t, "hookIn", "hookAppend")
  /\ loading[c] = t /\ ~m_vm_is_dead /\ c \in Included
  /\ image' = [image EXCEPT ![c].cnum = Len(m_classes)]
  /\ UNCHANGED <<vm, classLoading, ret, java, m_lock, agent, m_classes, switches, sent>>

(* ... and the table is resized to hold its entry.                         *)
HookAppends(t, c) ==
  /\ Goes(t, "hookAppend", "hookRewrite")
  /\ loading[c] = t
  /\ m_classes' = [i \in 1 .. image[c].cnum + 1 |->
       IF i = image[c].cnum + 1 THEN [m_name |-> c, m_mcount |-> 0] ELSE m_classes[i]]
  /\ UNCHANGED <<vm, classLoading, ret, java, m_lock, agent, image, switches, sent>>

(* Mutant: mnum_callbacks() is not called.                                 *)
HookRewritesAnonymous(t, c) ==
  /\ Goes(t, "hookRewrite", "hookExit")
  /\ loading[c] = t /\ Kind[c] = "class"
  /\ image' = [image EXCEPT ![c].traced =
       {m \in WithCode(c) : m_vm_is_started \/ <<c, m>> \notin SystemSkips}]
  /\ UNCHANGED <<vm, classLoading, ret, java, m_lock, agent, m_classes, switches, sent>>

(* java_crw_demo(): mnum_callbacks() fills the entry of the class, and the *)
(* image traces its methods with code; a class seen before VMStart is a    *)
(* system class.                                                           *)
(* An interface is left alone before the callback.  An assertion that      *)
(* fails on the class file ends the process.                               *)
HookRewrites(t, c) ==
  /\ pc[t] = "hookRewrite" /\ loading[c] = t
  /\ IF Kind[c] = "unreadable"
     THEN UNCHANGED pc /\ Fatal("classFile")
     ELSE /\ Goes(t, "hookRewrite", "hookExit")
          /\ IF Kind[c] = "class"
             THEN /\ m_classes' =
                       [m_classes EXCEPT ![image[c].cnum + 1].m_mcount = MethodCount[c]]
                  /\ image' = [image EXCEPT ![c].traced =
                       {m \in WithCode(c) : m_vm_is_started \/ <<c, m>> \notin SystemSkips}]
             ELSE UNCHANGED table
          /\ UNCHANGED <<vm, classLoading, ret, java, m_lock, agent, switches, sent>>

HookUnlock(t, c) ==
  /\ Leave(t, "hookExit", ret[t])
  /\ loading[c] = t
  /\ loading' = [loading EXCEPT ![c] = NoOne]
  /\ loaded' = loaded \cup {c}
  /\ UNCHANGED <<vm, ret, java, agent, table, switches, sent>>

-----------------------------------------------------------------------------
(* Java code: calls, returns and exceptions.  A traced method calls the    *)
(* bridge first and before each return, not when it ends by an exception.  *)

Top(t) == Last(stack[t])
Traced(f) == f[2] \in image[f[1]].traced
Pop(t) == stack' = [stack EXCEPT ![t] = Front(@)]

Call(t, c, m) ==
  /\ calls[t] < MaxCalls[t] /\ Len(stack[t]) < MaxDepth
  /\ c \in loaded \ {Bridge} /\ Kind[c] = "class"
  /\ Goes(t, "java", IF Traced(<<c, m>>) THEN "entry" ELSE "java")
  /\ stack' = [stack EXCEPT ![t] = Append(@, <<c, m>>)]
  /\ calls' = [calls EXCEPT ![t] = @ + 1]
  /\ UNCHANGED <<vm, classLoading, ret, m_lock, agent, table, switches, sent,
                 overflowed, threw>>

(* Mutant: one return opcode has no injection before it.                   *)
ReturnUnnoticed(t) ==
  /\ stack[t] # <<>> /\ Traced(Top(t))
  /\ \/ Goes(t, "java", "exit") /\ UNCHANGED stack
     \/ Goes(t, "java", "java") /\ Pop(t)
  /\ UNCHANGED <<vm, classLoading, ret, calls, overflowed, threw, m_lock, agent,
                 table, switches, sent>>

ReturnTraced(t) ==
  /\ stack[t] # <<>> /\ Traced(Top(t))
  /\ Goes(t, "java", "exit")
  /\ UNCHANGED <<vm, classLoading, ret, java, m_lock, agent, table, switches, sent>>

ReturnUntraced(t) ==
  /\ stack[t] # <<>> /\ ~Traced(Top(t))
  /\ Goes(t, "java", "java")
  /\ Pop(t)
  /\ UNCHANGED <<vm, classLoading, ret, calls, overflowed, threw, m_lock, agent,
                 table, switches, sent>>

Throw(t) ==
  /\ stack[t] # <<>>
  /\ Goes(t, "java", "java")
  /\ Pop(t)
  /\ threw' = threw \cup {t}
  /\ UNCHANGED <<vm, classLoading, ret, calls, overflowed, m_lock, agent, table,
                 switches, sent>>

-----------------------------------------------------------------------------
(* bridge.method_entry() and method_exit(), at pc "entry" and "exit".      *)

(* The end of the call: method_exit() is followed by the return.           *)
After(t, call) ==
  IF call = "exit" THEN Pop(t) /\ UNCHANGED <<calls, overflowed, threw>>
                   ELSE UNCHANGED java

(* When the bridge is instrumented too, its own method_entry() calls       *)
(* method_entry() before it reads the switch: the stack overflows and the  *)
(* thread unwinds.                                                         *)
BridgeCall(t) ==
  /\ pc[t] \in {"entry", "exit"} /\ Bridge \in loaded
  /\ \/ /\ image[Bridge].traced # {}
        /\ Goes(t, pc[t], "java")
        /\ stack' = [stack EXCEPT ![t] = <<>>]
        /\ overflowed' = TRUE
        /\ threw' = threw \cup {t}
        /\ UNCHANGED <<calls, ret>>
     \/ /\ image[Bridge].traced = {} /\ engaged = 0
        /\ Goes(t, pc[t], "java")
        /\ After(t, pc[t])
        /\ UNCHANGED ret
     \/ /\ image[Bridge].traced = {} /\ engaged # 0
        /\ Goes(t, pc[t], "natLock")
        /\ ret' = [ret EXCEPT ![t] = pc[t]]
        /\ UNCHANGED java
  /\ UNCHANGED <<vm, classLoading, m_lock, agent, table, switches, sent>>

-----------------------------------------------------------------------------
(* process_method_entry() and process_method_exit().                       *)

(* Mutant: the natives do not lock.                                        *)
NativeLockNot(t) ==
  /\ Goes(t, "natLock", "natIn")
  /\ m_lock' = [m_lock EXCEPT !.count = @ + 1]
  /\ UNCHANGED <<vm, classLoading, ret, java, agent, table, switches, sent>>

NativeLock(t) ==
  /\ Enter(t, "natLock", "natIn")
  /\ UNCHANGED <<vm, classLoading, ret, java, agent, table, switches, sent>>

(* The numbers come from the injected code of the running method.          *)
InRange(t) ==
  LET n == image[Top(t)[1]].cnum
  IN  n < Len(m_classes) /\ Top(t)[2] < m_classes[n + 1].m_mcount

Name(t) == m_classes[image[Top(t)[1]].cnum + 1].m_name

(* Mutant: the natives ignore m_vm_is_dead.                                *)
NativeChecksNumbers(t) ==
  /\ pc[t] = "natIn"
  /\ IF ~InRange(t)
     THEN UNCHANGED pc /\ Fatal("range")
     ELSE /\ Goes(t, "natIn", IF <<Name(t), Top(t)[2]>> \in Reported
                             THEN "enqueue" ELSE "natExit")
          /\ UNCHANGED <<vm, classLoading, ret, java, m_lock, agent, table,
                         switches, sent>>

NativeChecks(t) ==
  /\ pc[t] = "natIn"
  /\ IF ~m_vm_is_dead /\ ~InRange(t)
     THEN UNCHANGED pc /\ Fatal("range")
     ELSE /\ Goes(t, "natIn", IF ~m_vm_is_dead /\ <<Name(t), Top(t)[2]>> \in Reported
                             THEN "enqueue" ELSE "natExit")
          /\ UNCHANGED <<vm, classLoading, ret, java, m_lock, agent, table,
                         switches, sent>>

Enqueue(t) ==
  /\ Goes(t, "enqueue", "natExit")
  /\ sent' = Append(sent, [thread |-> t, class |-> Name(t), method |-> Top(t)[2],
                           what |-> IF ret[t] = "entry" THEN "enter" ELSE "exit"])
  /\ UNCHANGED <<vm, classLoading, ret, java, m_lock, agent, table, switches>>

(* Mutant: the lock is kept.                                               *)
NativeUnlockNot(t) ==
  /\ Goes(t, "natExit", "java")
  /\ After(t, ret[t])
  /\ UNCHANGED <<vm, classLoading, ret, m_lock, agent, table, switches, sent>>

NativeUnlock(t) ==
  /\ Leave(t, "natExit", "java")
  /\ After(t, ret[t])
  /\ UNCHANGED <<vm, classLoading, ret, agent, table, switches, sent>>

-----------------------------------------------------------------------------
MainStep ==
  \/ VMStart \/ VMInitFind \/ VMInitRegister \/ VMInitEngage \/ VMInitEvents
  \/ VMInitUnlock

Locks(t) ==
  HookLock(t) \/ NativeLock(t) \/ ThreadEventLock(t) \/ VMDeathLock(t)

(* What a thread does without a choice of the Java program.                *)
Works(t) ==
  \/ \E c \in Classes : \/ pc[t] # "java" /\ BeginLoad(t, c)
                        \/ HookSkips(t, c) \/ HookNumbers(t, c)
                        \/ HookAppends(t, c) \/ HookRewrites(t, c)
                        \/ HookUnlock(t, c)
  \/ BridgeCall(t) \/ NativeChecks(t) \/ NativeUnlock(t)
  \/ ThreadEvent(t) \/ GetThreadInfo(t) \/ ThreadEventUnlock(t)
  \/ VMDeathDisengage(t) \/ VMDeathMark(t) \/ VMDeathUnlock(t)

(* The calls of the server: enqueue_for_sending() and stop().              *)
CallsServer(t) == Enqueue(t) \/ OnUnload(t)

JavaCode(t) ==
  \/ BeginThread(t) \/ EndThread(t) \/ PostVMDeath(t)
  \/ \E c \in Classes : \/ pc[t] = "java" /\ BeginLoad(t, c)
                        \/ LoadUnhooked(t, c)
                        \/ \E m \in Methods(c) : Call(t, c, m)
  \/ ReturnTraced(t) \/ ReturnUntraced(t) \/ Throw(t)

Finished == vm \in {"aborted", "unloaded"} /\ UNCHANGED vars

Next ==
  \/ OnLoad \/ OnLoadFails \/ PostVMStart \/ PostVMInit
  \/ MainStep \/ VMInitLock \/ VMInitFails
  \/ \E t \in Threads : \/ Locks(t) \/ Works(t) \/ CallsServer(t) \/ JavaCode(t)
                        \/ VMDeathFails(t)
  \/ Finished

Spec == Init /\ [][Next]_vars

(* Every thread that can run runs, and a raw monitor starves no waiter.    *)
(* Nothing is assumed of the Java program.                                 *)
Fairness ==
  /\ WF_vars(MainStep) /\ SF_vars(VMInitLock)
  /\ \A t \in Threads : WF_vars(Works(t) \/ CallsServer(t)) /\ SF_vars(Locks(t))

FairSpec == Spec /\ Fairness

-----------------------------------------------------------------------------
(* The class number in an image leads back to the class, and its table     *)
(* entry knows every method the image traces ("the class number is         *)
(* unique", java_crw_demo.c): hooks of several threads share the table,    *)
(* and the natives of others read it between the steps of a hook.          *)
NumbersLeadBack ==
  \A c \in Classes : image[c].traced # {} =>
    /\ image[c].cnum < Len(m_classes)
    /\ m_classes[image[c].cnum + 1] = [m_name |-> c, m_mcount |-> MethodCount[c]]

(* So the fatal "number out of range" checks of the natives never fire.    *)
RangeChecksNeverFire == fatal # "range"

(* The class table is never used by two threads at once: a hook may move   *)
(* the vector that a native holds a pointer into.                          *)
UsesTable(t) == pc[t] \in {"hookIn", "hookAppend", "hookRewrite", "natIn", "enqueue"}
NoTableRace == \A t, u \in Threads : UsesTable(t) /\ UsesTable(u) => t = u

(* A message names the method that is really entered or left.              *)
TraceFaithful ==
  [][\A t \in Threads : pc[t] = "enqueue" /\ sent' # sent =>
       LET m == Last(sent') IN m.thread = t => <<m.class, m.method>> = Top(t)]_vars

(* The messages j to k are, for thread t, calls that have all come back:   *)
(* as many exits as entries, and on the way never more.                    *)
Reports(msgs, t, what, j, k) ==
  Cardinality({i \in j .. k : msgs[i].thread = t /\ msgs[i].what = what})

Balanced(msgs, t, j, k) ==
  /\ Reports(msgs, t, "enter", j, k) = Reports(msgs, t, "exit", j, k)
  /\ \A i \in j .. k : Reports(msgs, t, "exit", j, i) <= Reports(msgs, t, "enter", j, i)

(* The trace of a thread that began after VMInit and ended no method by an *)
(* exception is well nested: every exit leaves the method entered last of  *)
(* those that were not left yet, whatever the other threads and the end of *)
(* the VM do meanwhile.                                                    *)
WellNested ==
  \A t \in Threads \ (EarlyThreads \cup threw) : \A k \in 1 .. Len(sent) :
    sent[k].thread = t /\ sent[k].what = "exit" =>
      \E j \in 1 .. k - 1 :
        /\ sent[j] = [sent[k] EXCEPT !.what = "enter"]
        /\ Balanced(sent, t, j + 1, k - 1)

(* GetThreadInfo(), an error in the dead phase, is only called before it.  *)
InfoInTime == ~Posts => \A t \in Threads : pc[t] # "evInfo"

(* No native is called before RegisterNatives bound it.                    *)
NativesBound == \A t \in Threads : pc[t] = "natLock" => natives

(* A class that is loaded once the VM is initialised is not taken for a    *)
(* system class: all its methods that have code are traced.                *)
LiveClassesTraced ==
  [][\A c \in Classes : Initialised /\ image'[c].traced # image[c].traced
                         => image'[c].traced = WithCode(c)]_vars

(* The agent's part of an end of the VM: once begun it is finished, unless *)
(* JNI fails.                                                              *)
DeathCompletes ==
  (vm = "dying") ~> (vm \in {"unloaded", "aborted"})

(* Every traced call comes back from the bridge.                           *)
BridgeReturns ==
  \A t \in Threads :
    pc[t] \in {"entry", "exit"} ~> (pc[t] = "java" \/ vm = "aborted")

(* VMInit gets to its requests for thread events.                          *)
VMInitCompletes == (vm = "live") ~> (threadEvents \/ vm = "aborted")

(* With the master switch off, traced methods run as if untraced.          *)
MasterSwitch == [][engaged = 0 => overflowed' = overflowed]_vars

=============================================================================
