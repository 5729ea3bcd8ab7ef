# A TLA+ verification project for the method call trace agent

`src/method_call_trace` is a JVMTI agent.  While a Java program loads its
classes, the agent rewrites them so that every method calls the class `bridge`
when it is entered and before it returns; the bridge's native methods report the
call to a server inside the agent, which sends a line of text per event to one
TCP client.  This directory holds a model of the parts of the agent that can go
wrong in ways a test would hardly show, the TLC runs that check it on small
instances, and proofs, checked by TLAPS, of what holds for every instance.

## 1. The system

| component | state | operations | correct when |
|---|---|---|---|
| network server (`NetworkServer.cpp`, `.h`) | `m_queue` under `m_queue_lock`; `m_worker_active`, `m_client_socket`, `m_listen_socket` without a lock; one worker thread | `start`, `stop`, `enqueue_for_sending`, `worker_body`, the connection | messages reach the client in order, once, without holes while nothing fails; `stop()` returns and is final; no caller waits for ever on a client that reads |
| JVM agent (`JVMAgent.cpp`, `.h`, `main.cpp`) | class table `m_classes`, flags `m_vm_is_started`, `m_vm_is_dead`, all under the raw monitor `m_lock` but for one write | `Agent_OnLoad`/`OnUnload`, the callbacks VMStart, VMInit, VMDeath, ThreadStart, ThreadEnd, ClassFileLoadHook, the two natives | the numbers in rewritten code lead back to the right class and method; the table is not used by two threads at once; nothing happens after VMDeath; the trace of a thread is well nested; VMInit and VMDeath complete |
| bridge (`bridge.java`) | `engaged`, the "master switch" | `method_entry`, `method_exit` | no native runs before it is bound; calls do nothing with the switch off |
| class file rewriter, code of a method (`java_crw_demo.c` 766-1690, 1929-1959) | per method: `map` of code positions, `widening`, `injections`, input and output position | inject, adjust, write; the exception, line and variable tables | the new code does what the old one did, plus the calls; branches fit their 16 bits; switches are aligned; tables cover what they covered; the adjust pass ends |
| class file rewriter, stack map frames (1690-1926) | the same map; `last_pc`, `last_new_pc`, `delta_adj` | `write_stackmap_table`, `write_cldc_stackmap_table`, `copy_verification_types` | every frame is found at its instruction's new position, in an encoding that holds the distance; an uninitialized object still names its `new` |
| class file rewriter, constant pool and class walk (519-873, 2003-2202, 2246-2340) | the new pool as it is written, and `cpool`, the table that mirrors it | `cpool_setup`, `add_new_cpool_entry`, `injection_template`, `method_write_bytecodes`, `method_write_all`, `java_crw_demo` | the new pool can be read; an injected call names the bridge's method, its class and its method; an ordinary class does not abort the JVM |
| include list and options (`agent_util.c` 70-189, `parse_options`) | the option string, `m_include` | `get_token`, `covered_by_list_item`, `interested`, `parse_options` | the options are honoured or refused; what the item names is traced |
| samples and build | none | none | not part of the agent |

How they interact.  The JVM calls the agent from any of its threads.
`ClassFileLoadHook` runs in the thread that needs a class: it numbers the class
with the size of the class table, appends an entry, and calls `java_crw_demo`,
which calls back `mnum_callbacks` to fill that entry.  The rewritten code carries
the two numbers as constants.  Running it goes through the bridge, which tests
`engaged`, into a native, which takes `m_lock`, turns the numbers into names and
gives a message to `enqueue_for_sending`, which takes `m_queue_lock`.  The worker
takes the same lock and sends with the lock held.  `VMDeath` clears `engaged` and
sets `m_vm_is_dead`; `Agent_OnUnload` calls `stop()`, while Java threads may still
be anywhere in this path.

What is hard here: two locks, one taken inside the other, and four fields that are
shared without one; a callback inside a callback (FindClass in VMInit loads the bridge,
which posts ClassFileLoadHook); the end of the VM racing with everything; a peer that may
stop reading; a fixpoint computation over code positions that change while they are
being computed, and tables of such positions, relative and absolute, that must follow;
counters of one, two and four bytes at their limits; and one include item that two places
interpret with different knowledge.  `PROJECT.json` lists these hazards at their
lines, each with the properties that would catch it, or with the reason why none does.

## 2. The modules

    TraceChannel <--implements-- NetworkServer
                                     |
                                     | INSTANCE
    JVMAgent ------------------> MethodTrace          MCJVMAgent, MCMethodTrace
        | Kind, NoCode, SystemSkips  (EXTENDS JVMAgent)
        | Included, Reported
    CrwInject ---> StackMaps     CrwClassFile         MCCrwInject, MCCrwClassFile
    TraceFilter                                       MCTraceFilter

An arrow without a name is EXTENDS, and a module MCx EXTENDS the module that it gives
instances (MCCrwInject those of StackMaps).  The theorems about a module M, checked by TLAPS, are in the module
MProofs: NetworkServer, JVMAgent, MethodTrace, CrwInject, StackMaps, CrwClassFile and TraceFilter have one, and NestingProofs is a second one about JVMAgent.
MethodTraceProofs uses JVMAgentProofs and NetworkServerProofs, StackMapsProofs uses CrwInjectProofs.  JVMAgent takes what the rewriter and the filter decide as
constants: CrwClassFile models which classes and methods are rewritten, TraceFilter which
are included and reported.  Every module declares its parameters as CONSTANTS with a
named assumption, has one action per operation (or per step of an operation that others
may come between), and names actions, fields and locks as the code does.  Definitions called
mutants, next to the definition they change, are plausible mistakes in that
definition; they are not part of any specification, and show that the property
they are paired with would notice.

**NetworkServer** models every access to a field that is shared without a lock as a
step.  `cpc`, `wpc` and `ppc` are the program counters of the control thread
(`start`, `stop`), the worker and the callers.  `OuterTest` and `InnerTest` are the
two loops' reads of `m_worker_active`; `HelloSocket` and `DrainNext` read
`m_client_socket` into the argument of `send` (`wsock`), `HelloSend` and
`SendFront` are the calls.  `send` blocks while `WindowSize` messages are unread,
and returns without sending when the socket is closed, the connection is gone, or
(`TransientErrors`) for no visible reason; the code ignores which.  `stop()` is
`StopWorker`, `CloseListen`, `CloseClient`, `ForgetClient`, `Join`.  The history
variables `pushed`, `popped`, `wire`, `gap` record what was handed over and sent.

**TraceChannel** is what the server promises: a FIFO with one client and a
connection that opens once, where a message is lost only when the connection is
over or a send failed.  In the mapping, a message that was sent and not popped yet
has left the channel's queue.

**JVMAgent** runs the callbacks and natives in Java threads.  `pc[t]` is where a thread
is in the agent, `ret[t]` where it goes on when a class load or a callback that
interrupted it is done, `stack[t]` its Java frames.  `m_lock` is a re-entrant raw
monitor with owner and count.  A hook is five steps (`HookLock`, `HookNumbers`,
`HookAppends`, `HookRewrites`, `HookUnlock`) so that unlocked access would be seen;
`image[c]` is what rewriting left in the class: its number and which of its
methods with code call the bridge.  A thread that needs a class loads it (`BeginLoad`), others
wait.  The phases of the JVM are modelled as far as they drive the callbacks;
`EarlyThreads` are threads that run Java code before VMInit.
`enqueue_for_sending` is one step that appends to `sent`.

**MethodTrace** puts the two together and adds no state: it says which steps of
JVMAgent and NetworkServer happen as one.  The control thread of the server is
Agent_OnLoad (`StartServer`, then `Loads`) and later the thread that runs Agent_OnUnload (`Stops`, then
`Unloaded`); its callers are the Java threads.  A native at `"enqueue"`, with `m_lock` held, makes the steps
`EnqueueCall`, `EnqueueLock`, `EnqueuePush`, `EnqueueReturn`, and the last is JVMAgent's
`Enqueue`.  Fairness is that of both modules, joined where two actions became one.

**CrwInject** rewrites one method.  Positions are indexed by instruction, not by
byte: the code only ever looks up positions where an instruction starts, or the
end.  An instruction is an opcode class (`plain`, `return`, `goto` for goto and
jsr, `if`, `goto_w`, the two switches), a length and its targets.  `EntryInjection`
and `InjectForOpcode` are the first pass, `AdjustInstruction` the second, which
widens or re-pads and starts over (`pos' = 1`), `WriteInstruction` the third; the
actions `...Done` end a loop.  Short deltas are written modulo their width
(`AsShort`), so a branch that should have been widened lands elsewhere.  The record
`written[k]` keeps where instruction k went and where its branches land.
`NewExceptionRange` (a try block with its handler), `NewStart` and `NewVarRange` are the three tables.

**StackMaps** goes on where CrwInject ends, with the frames of the method.  A frame
has a type, an offset as the class file has it, and the types it lists; `at`, the
instruction it is meant for, is known to the model only.  There is one action for each branch
of the loop: `SameFrame` and `SameLocals1Frame` choose between the short and the long form,
`OffsetFrame` stands for the five types that keep theirs, `ReservedFrame` is fatal, `CldcFrame` is
the older attribute with absolute positions.  Distances are compared as unsigned
numbers, and an offset is written twice when the code is longer than `MaxU2`
(`Uoffset`), as in the code.  The assertions are modelled as what they test: `DeltasAsserted` for those
on distances and positions (1868, 1869, 1872, 1873), and in `FramesDone` the one that the attribute did not shrink
(1881, 1924), for which `grown` counts the bytes that each frame takes more than before.

**CrwClassFile** walks over a class file: the pool entry by entry (`CopyEntry`), the new
entries one by one (`AddEntry`), the methods (`CopyMethod`, `InjectMethod`), the callback
(`MethodsDone`).  `out` is the sequence of entries written, `cpool` the set of index and entry that
went to the mirror.  `fillin_cpool_entry` has the assertion of line 528, which compares the index with the
count of the pool; an entry that passes it and lies behind the end of the mirror is
recorded like the others, and leaves the model in the stage `"undefined"`.  A pushed number is what the bytes of the instruction are, and
`Value` reads it back as the JVM does, with its sign, or from the pool by the one-byte index of
ldc or the two of ldc_w; so does `Entry` with an index.  A class
file is a record of what the walk looks at: version, name, interface or not, the
tags of the pool, and for each method name, descriptor, length of the code (0 without),
`max_stack`, and whether it has a return.

**TraceFilter** reads an option string, then loads one class and calls one of its methods.  Strings
are sequences of characters, two of which stand for the words `include` and `help`.  `get_token`,
`covered_by_list_item` and `interested` are operators; the loop of
`parse_options` is `FirstOption`, `NextOption` and an action for each kind of option; `LoadClass` and
`CallMethod` are the two places that ask `interested`.

## 3. The runs

| run | instance | shows |
|---|---|---|
| `server` | 2 callers, 2 calls each, window 1, failing sends, a client that may stop reading or go | `NoQueueRace`: queue operations never overlap; `NothingLostInQueue`: the queue is what was pushed without what was popped; `PrefixDelivery`: while no send failed on a live connection the client's bytes are a prefix of the stream; `OrderedDelivery`: never reordered or repeated even then; `StopReturns` against a client that never reads; `StopIsFinal`: no worker step after it; `ImplementsChannel`; `Delivered`: a pushed message is read by a client that reads, or the connection ends or a send fails |
| `agent_safety` | main and one thread, two classes (one with three methods, of which one is native), nested calls, exceptions, the end of the VM at any time | `RangeChecksNeverFire`, `NumbersLeadBack`, `NoTableRace`, `TraceFaithful` (each message names the method that is entered or left), `WellNested`, `InfoInTime` (no GetThreadInfo in the dead phase), `LiveClassesTraced` (all methods with code of a class loaded after VMInit) |
| `agent_init` | an early thread | violates `VMInitCompletes` (finding 1) |
| `agent_switch` | the bridge is included | violates `MasterSwitch` (finding 2) |
| `trace_safety` | agent and server, two threads, a call each, 2 messages per thread; one of them may run Java code before VMInit | `WireIsTrace`: the client has the greeting and a prefix of the reports in the one order of the natives; `NoCallDuringStop`: no thread is in `enqueue_for_sending` when or after Agent_OnUnload stops the server; `NativesBound`: no native is called before RegisterNatives |
| `trace_live` | agent and server, one thread with a call | with a client that reads: `EndCompletes`, `CallsReturn`, `TraceArrives` |
| `crw_code` | every method of 2 instructions of all kinds, of 3 and of 4 from smaller sets, with compiler's frames; those of 2 and some of 3 with a try block too; and methods with frames of every type | `MapIsLayout`, `TargetsKept`, `SwitchesAligned`, `TryBlocksKept` (blocks and handlers), `VariableRangesKept`; `FramesKept`: each frame is where its instruction went; `BlocksFramed`: a verifier that adds up the new distances finds a frame wherever the new code needs one, at handlers too; `RewriteEnds`, without a failed assertion |
| `crw_frames` | methods of 3 instructions | violates `NoBlocksAdded` (finding 3) |
| `crw_class` | pools of up to 3 entries of any kind and of every size up to the limit of an index; up to 3 methods of five kinds, and 18 methods; 8 class numbers; an empty pool | `PoolAgrees`: counts, mirror and new indexes agree with the pool as it is read; `CallsIdentify`: every injected call, read back, calls the bridge with the numbers under which the method was registered; `OrdinaryClassAccepted`: of the modelled fatal errors only those for a newer class file, an empty pool, an unknown tag or a pool or stack at its limit are reached, and only such a pool is written behind the end of the mirror |
| `crw_mirror` | the same class files | violates `MirrorHoldsPool` (finding 5) |
| `filter` | all option strings of up to 4 symbols of 9, and 340 include items each followed by 9 kinds of rest | `OptionsHonoured`: strings that fit the buffers are honoured, with the item of the only include if there is one, or refused; `NamedIsTraced`: what the item names is instrumented and reported; `ParseEnds` |
| `filter_star` | the same items | violates `AnyClassAllowed` (finding 4) |

*Bounds.*  Two callers and a worker are all the roles that meet at the queue; two
calls each make the order of one caller's messages and of two callers' visible;
a window of one makes `send` block as soon as it can.  The proofs of section 4
remove these bounds for safety.  In JVMAgent two threads and the bridge besides two
classes give every pair of hook, native, event and end of VM; two nested calls
are needed for an exit to be matched with the wrong entry.  The composition has one class
and a call per thread: an entry and an exit of each thread compete for the two
locks, while the worker is blocked, the client goes away or the VM ends; for the liveness
run one such thread beside main is enough to hold `m_lock` while the queue is locked.

In CrwInject a short delta of at most 12 bytes plays the part of 32767: with 4 instructions and
injections of 5, 6 and 7 bytes the methods include branches that just fit and just
do not, branches that stop fitting because another one was widened, switches
behind widened branches whose padding grows or shrinks again, and a return at
position 0, which carries both injections.  A distance of 10 plays the part of 63 and a code of 60 bytes
that of 65535, so that frames lose their short form and some methods pass the limit.
In CrwClassFile an index has 5 bits, constants reach to 1, bytes to 3 and shorts to 15 instead of 5, 127 and
32767, and 16 entries may be added instead of 64: the class numbers 0 to 33 take every form, ldc and ldc_w
too, the 18 methods pass the greatest short, pools of 15 to 18 entries meet the wrapped size,
the table of size 0 and the table of a few elements.  In TraceFilter options of 3 and items of 4
characters fill their buffers.  `MaxCalls`, `MaxMessages`, `MaxDepth`, `WindowSize`, `MaxDelta`, `MaxSame`,
`MaxU2` and the widths of CrwClassFile are the only bounds.

*Deadlock* is checked in `server` and `agent_safety`, where `Finished` is the state in
which the process is over.  The runs of MethodTrace do not check it: a client that never reads stops the
agent for good, which `trace_live` excludes by its assumption.  `agent_init`
and `agent_switch` may end in finding 1 or in the overflow.  The runs of the rewriter and of the
filter stop when the method, the class or the call is done; that they do not stop before is
`RewriteEnds` and `ParseEnds`.

*Fairness.*  Threads that can run do run (weak fairness of each actor's steps).
A `send()` blocked on a full live connection may fail but need not (`SendMustReturn`): only the client or
`stop()` is sure to end it.
For `m_queue_lock` strong fairness: the worker's loop releases and retakes the lock
endlessly, and a caller gets it only if waiters are not starved.  The Makefile builds with
Visual C++ 12, whose `std::mutex` queues its waiters; on an implementation that
lets the running thread barge in, `CallsReturn` would not hold.  The same is assumed
of raw monitors.  Nothing is assumed of the client by the specifications: where a property needs
one that reads it says so itself (`ClientReads => ...`), and `StopReturns` does not.  Nothing is assumed of
`accept()`, of who calls `stop()` or of the Java program.  The rewriter and the option parser
are loops of one thread, which goes on.

`EndCompletes` needs its client.  Without one the worker blocks in `send()` with `m_queue_lock` held, a native
waits for that with `m_lock` held, VMDeath waits for `m_lock`, and `stop()`, which closes the socket
and would release all of them, is only called after VMDeath: `StopReturns` holds of the server
alone and does not help the composition.

## 4. What is proved

Every component has a module of theorems, each with one inductive invariant.
The theorems hold for every value of the constants that the named assumptions allow; TLC evaluates
the assumptions in every run.  No invariant of section 3 is inductive alone, and what each
proof adds to it is the part worth reading.

**NetworkServerProofs**, for any set of callers, any `MaxCalls`, `WindowSize` and
`TransientErrors`, from `NetworkServerAssumption`:

- `TypeCorrect`, `QueueIsExclusive`, `QueueLosesNothing`, `PrefixOfStream`, `InOrder`:
  the invariants `TypeOK`, `NoQueueRace`, `NothingLostInQueue`, `PrefixDelivery` and
  `OrderedDelivery`;
- `StopEndsTheWorker`: the action property `StopIsFinal`;
- `Refinement`: the server implements `TraceChannel`.

`NoQueueRace` needs `LockInv`: whoever is inside
an operation is the owner.  `NothingLostInQueue` needs the lock too, for the message that
`SendFront` sends must still be the first when `Pop` removes it.  The properties of the wire
need `WireInv`, which says how far into the stream the last message sent can be, given the
worker's program counter, and that the greeting went out first; and `PhaseInv` ties
the worker's and the control thread's counters to the flag and the sockets, so that
`Join` can only be passed by a finished worker.  Each conjunct has a lemma of its own
with one step per action that can disturb it.  `OrderedDelivery` is proved through
strictly increasing places in the stream, not through a fold, since induction
over data is outside what the prover offers.

**JVMAgentProofs**, for any threads, early threads, classes, include lists and bounds, from
`JVMAgentAssumption`:

- `TypeCorrect`, `NumbersLeadBackAlways`, `NoFatalRange`, `TableIsExclusive`, `NativesRegistered`,
  `InfoBeforeDeath`: the invariants `TypeOK`, `NumbersLeadBack`, `RangeChecksNeverFire`, `NoTableRace`,
  `NativesBound` and `InfoInTime`;
- `TraceIsFaithful`, `LiveClassesAreTraced`: the action properties `TraceFaithful` and `LiveClassesTraced`;
- `SwitchSparesJava`: `MasterSwitch`, which the code violates (finding 2), holds of every include list
  that does not cover the bridge.

The monitor is re-entrant, so `LockInv` counts: the owner is at a line behind as many
entries as the count says, its own and that of a VMInit which the class load interrupted, and
everybody else is behind none.  `LoadInv` says that a class has one
loader, which loads nothing else; with both, `TableInv` can say
for the hook at each line what the number in the image and the end of the table are, and that an image is
not traced before its entry is complete.  `FrameInv` says that the frames of a thread are of loaded
classes and that only a traced method is inside the bridge, so that the numbers a native gets are
those of `TableInv` and the range checks cannot fire.  `FlagInv` is about the order of VMStart, VMInit and
VMDeath and of what they set.

**NestingProofs**, from the same assumption:

- `TraceIsNested`: the invariant `WellNested`.

A frame is *open* when its entry was reported and its exit was not, which is what the position of its thread
says (`Pending`).  `NestInv` gives each open frame of a stack the message of its entry (`Chain`): they are in the
order of the frames, and the thread's messages between two of them, and after the last, are as many exits as entries and nowhere
more (`Balanced`).  An exit then answers the entry of the frame on top, and what it leaves behind is balanced
again.  The lemmas about `Reports` say how the counts of two parts of a trace add up, which takes the place of a
replay.  The switch is what the rest is about: a call that came to the bridge before the switch was turned on
returns without a report, so `AheadInv` says that until then only Main and early threads exist, and Main runs VMInit on
an empty stack; and the other way round a native that passed the test of `engaged` and finds the VM dead drops an exit, after which
the thread's entries stay unanswered.  `SwitchInv` says that nothing is reported from then on: VMDeath clears `engaged`
before `m_vm_is_dead` is set, both inside `m_lock`, so that whoever passes the checks of a native has the switch on.

**MethodTraceProofs**, from `MethodTraceAssumption` and the assumptions of both parts:

- `AgentInside`, `ServerInside`: a behaviour of the process is one of JVMAgent and one of NetworkServer,
  so that all theorems above hold in it;
- `StopIsAlone`, `WireShowsTrace`: the invariants `NoCallDuringStop` and `WireIsTrace`.

The two invariants relate what neither part sees: a thread is inside `enqueue_for_sending` only at
that line of its native (`InServer`), where `m_lock` keeps the others out, so that the stream the server was given is the
sequence of reports, but for one message that a native has handed over without having returned (`PushInv`).

**CrwInjectProofs**, for methods of any length, any limit of a short branch and any class
number, from `MethodsAssumption` (instructions follow one another, branches go to instructions, short
deltas fit), `MaxDeltaAssumption` and `ClassNumberAssumption`:

- `PassesAgree`, `BranchesKept`, `SwitchesStayAligned`, `TryBlocksCover`, `VariablesVisible`: the
  invariants `MapIsLayout`, `TargetsKept`, `SwitchesAligned`, `TryBlocksKept` and `VariableRangesKept`;
- `TypeCorrect`, with the widening of each opcode in the range that its `fatal_error` asks for.

`LayoutInv` is the heart: between an instruction and the next one the map leaves the
bytes of the injection, the instruction and its widening, in every pass and after
every restart.  `SettledInv` says that behind the input position no instruction needs another widening
than it has; the restart after each change is what keeps it, for any change may move a branch's target
or a switch.  When the pass is through, the write pass therefore finds the map it was promised
(`WrittenInv`) and every short delta fits.  That the map rises, and so that an exception range cannot
swallow a call, needs an induction over instructions; it is replaced by the least instruction
for which it would fail.

**StackMapsProofs**, for any frames and any limits of the encodings, from `FramesAssumption` (frames are in order,
at instructions, with the distances the class file format asks for) and `FrameLimitsAssumption`:

- `RewriterInside`: with frames the method is rewritten as CrwInject says;
- `FramesFollowCode`, `BlocksStayFramed`, `FramesTypeCorrect`: the invariants `FramesKept`, `BlocksFramed` and `FramesTypeOK`;
- `OnlyReservedIsFatal`: nothing but a frame of a reserved type stops the JVM.  The write pass meets no widening it
  cannot write, and of the assertions on stack maps those on distances, on positions inside the two codes
  and on the growth of the attribute never fail; `CRW_ASSERT_CI` (section 6) is not among them.

`CursorInv` says that `last_pc` and `last_new_pc` are one and the same instruction, that of the last frame, in
both codes; each distance written then is the one between two mapped positions, and the sums
a verifier makes lead to the instructions (`PositionsAddUp`, by the least frame for which they would not).

**CrwClassFileProofs**, for class files with pools and methods of any number and any widths, from
`ClassFileAssumption`, `FilesAssumption` (the count of a pool that the JVM could read fits an index) and
`NewEntriesFit` (there is room for the at most 11 new entries; the code has 64):

- `PoolCanBeRead`, `CallsLeadToTheBridge`, `OrdinaryClassIsAccepted`, `ClassFileTypeCorrect`: the invariants
  `PoolAgrees`, `CallsIdentify`, `OrdinaryClassAccepted` and `CrwTypeOK`.

`ClassFileTypeCorrect` bounds indexes and counts by what two bytes hold; that the mirror is long enough for
its entries is `MirrorHoldsPool`, which the code violates (finding 5).  `OrdinaryClassIsAccepted` is about the fatal
errors and assertions of this module and about the mirror, for pools not within `MAXIMUM_NEW_CPOOL_ENTRIES` of the limit.

Three counts run side by side: entries written, index in the input, index of the next new
entry.  `PoolInv` keeps them together whatever entries take two slots; since new entries take
one each, the k-th of them has the index `count + k - 1`.  `FilledInv` says that a new
entry refers to entries added before it, and every name occurs once among them, so that
its references stay right while others follow.  Writing behind the table, when its size has wrapped, is excluded
for ordinary classes by `OrdinaryInv`.

**TraceFilterProofs**, for option strings and names of any characters and buffers of any length, from
`FilterAssumption` and `NamesAssumption` (no class name begins with `*`):

- `FilterTypeCorrect`, `OptionsAreHonoured`, `NamedMethodsAreTraced`: the invariants `FilterTypeOK`,
  `OptionsHonoured` and `NamedIsTraced`;
- `LastItemRuns`: of several includes the agent runs with the item it read last (section 6).
- `OptionsGetShorter`: a step of the loop ends it or leaves less of the string, the part of `ParseEnds` that
  needs no fairness.

`ReadInv` says where the loop is: behind a word of the options with an odd number, with only includes
before, or behind its item.  `NextWord` is the lemma about `get_token()` that moves it on by one word; the count of
the words left of a place then says whether an option or an item comes next.

`ScanInv` says that a token and the item hold no separator, so that the item is the only token of its list; then each way to
name a class makes the comparison succeed with an empty method name too, which is what the hook
asks with.

*Only model-checked.*  The liveness properties `StopReturns`, `Delivered`, `EndCompletes`, `CallsReturn`,
`TraceArrives`, `RewriteEnds` and `ParseEnds`: fairness and ENABLED are beyond the prover's
backends.

## 5. Findings

1. `VMInit` can hang the JVM (`agent_init`).  It holds `m_lock` across
   `FindClass(bridge)`.  If a thread ran a rewritten method before VMInit, that thread is
   the one loading the bridge: its ClassFileLoadHook waits for `m_lock`, and `FindClass`
   waits for its load.
2. The bridge is not exempt from rewriting (`agent_switch`).  With no include option,
   or one that covers it, `bridge.method_entry()` starts with a call of itself, ahead of
   its test of `engaged`, "Master switch that activates methods.": the first traced
   call overflows the stack even with the switch off.
3. Rewriting can add a basic block without a frame (`crw_frames`).  An `if` whose target moved out of reach
   becomes the inverse `if` over a `goto_w`; the instruction behind it is a branch
   target now, which "We didn't add any basic blocks so the frame count remains the same" denies.
   It takes a method of nearly 32 KB.
4. `include=*name` traces nothing (`filter_star`).  The hook asks `interested()` with an empty method
   name, which no `*name` covers, so no class is instrumented; the comment promises "any
   class is allowed".
5. The table that "mirrors pool in file image" can be too short (`crw_mirror`).  Its size, the count of the pool
   and 64, is cut to 16 bits: for a valid class whose pool is within 64 entries of the limit it wraps to a few
   elements, and copying the pool writes behind its end.  The assertion in `fillin_cpool_entry` compares with the
   count and holds.

## 6. What is not modelled

- The text of messages, thread names, console output; error codes where only success
  and failure matter.
- Handle reuse by the operating system after `closesocket`, partial sends, and memory
  exhaustion of the unbounded queue.
- Bytes of the class file that are copied as they are: fields, interfaces, attributes other than
  those named; lengths of attributes; positions in the image, and with them whether the output
  buffer, twice the file and 512 bytes, is large enough.  `CRW_ASSERT_CI` tests that, after the write, in builds
  without `NDEBUG`; no theorem or property says that it holds.
- Checks of `java_crw_demo`'s arguments that the agent always passes correctly, and the hooks for
  `Object.<init>` and for new arrays, which the agent does not use.
- Code beyond the 65535 bytes of a method, and method numbers above 32767 (`CallsIdentify` says so).
- What several includes should mean.  A second item replaces the first in `m_include`, while the comment at
  JVMAgent.cpp:96 says "Add this item to the list".  `OptionsHonoured` is about at most one
  include and takes neither side; `LastItemRuns` proves what the code does.
- Class names with `.` for `/`: an item is compared as it is given.
- Instructions that leave by an exception: they report no exit by design, and `WellNested`
  says so.
- The exclude list of `interested()`, which the agent never gives.

## 7. Plan

The modules of the first plan are all written, and every invariant and every action property that a
run checks has its theorem.  What is left of the liveness properties can be proved in part, as
`OptionsGetShorter` is: that a restart of the rewriter's second pass leaves fewer branches to widen, or an
earlier switch as it was, is a property of steps.
