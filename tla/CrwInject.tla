----------------------------- MODULE CrwInject -----------------------------
(***************************************************************************)
(* The rewriting of one method's bytecodes by the class file rewriter      *)
(* (src/method_call_trace/java_crw_demo.c, method_inject_and_write_code). *)
(* Three passes over the input code:                                       *)
(*                                                                         *)
(*   inject   put a call of the bridge at the entry and before each return,*)
(*            and move the map from old to new code positions accordingly; *)
(*   adjust   widen the branches whose 16-bit delta no longer fits and     *)
(*            re-pad the switches, starting over after each change, until  *)
(*            a whole pass changes nothing;                                *)
(*   write    emit the code, with every delta computed through the map.    *)
(*                                                                         *)
(* Code positions that are not the start of an instruction (or the end of  *)
(* the code) are never looked up, so map, widening and injections are      *)
(* functions of the instruction's number instead of its byte offset.  The  *)
(* input position of the code (input_position) is the number pos of the    *)
(* next instruction.                                                       *)
(***************************************************************************)
EXTENDS Integers, Sequences

CONSTANTS
  Methods,            \* the methods to rewrite, as method_write_bytecodes sees them
  MaxDelta,           \* the largest delta of a short branch: 32767 in a class file
  ClassNumber,        \* cnum of the class
  ClassNumberIndex    \* the constant pool entry that holds a large cnum

Ops == {"plain", "return", "goto", "if", "goto_w", "tableswitch", "lookupswitch"}

(***************************************************************************)
(* The operand bytes of a switch start on a 4-byte boundary: Padded is the *)
(* macro NEXT_4BYTE_BOUNDARY for the position of the opcode.               *)
(***************************************************************************)
NEXT_4BYTE_BOUNDARY(p) == ((p + 4) \div 4) * 4

IsSwitch(instr) == instr.op \in {"tableswitch", "lookupswitch"}

\* The bytes of a switch after its padding: the default delta, and low, high
\* and one delta per value, or npairs and a match and a delta per pair.
SwitchBody(instr) ==
  IF instr.op = "tableswitch" THEN 12 + 4 * (Len(instr.to) - 1)
                              ELSE  8 + 8 * (Len(instr.to) - 1)

\* The bytes an instruction takes in the input, where it is at offset p.
InputLength(instr, p) ==
  IF IsSwitch(instr) THEN (NEXT_4BYTE_BOUNDARY(p) - p) + SwitchBody(instr)
                     ELSE instr.len

FitsShort(delta) == delta \in (-MaxDelta - 1) .. MaxDelta

\* A method of a class file that the JVM has accepted: instructions follow one
\* another from offset 0, branches go to instructions, short deltas fit.
WellFormed(m) ==
  LET n == Len(m.code) IN
  /\ m.code \in Seq([op : Ops, len : Nat \ {0}, to : Seq(1 .. n)])
  /\ n > 0
  /\ m.at \in [1 .. n + 1 -> Nat]
  /\ m.at[1] = 0
  /\ m.number \in Nat
  /\ m.object_init_method \in BOOLEAN
  /\ \A k \in 1 .. n :
       /\ m.code[k].op \in {"plain", "return"} => m.code[k].to = <<>>
       /\ m.code[k].op \in {"goto", "if", "goto_w"} => Len(m.code[k].to) = 1
       /\ IsSwitch(m.code[k]) => Len(m.code[k].to) > 0
       /\ m.code[k].op \in {"goto", "if"} =>
            m.code[k].len = 3 /\ FitsShort(m.at[m.code[k].to[1]] - m.at[k])
       /\ m.code[k].op = "goto_w" => m.code[k].len = 5
       /\ m.at[k + 1] = m.at[k] + InputLength(m.code[k], m.at[k])

ASSUME MaxDeltaAssumption == MaxDelta \in Nat
ASSUME ClassNumberAssumption == ClassNumber \in Nat /\ ClassNumberIndex \in Nat \ {0}
ASSUME MethodsAssumption == \A m \in Methods : WellFormed(m)

VARIABLES
  method,       \* the method being rewritten
  phase,        \* "entry", "inject", "adjust", "write", "done"; "fatal" after CRW_FATAL
  pos,          \* the next instruction of the input, Len(code) + 1 at the end
  map,          \* the new position a branch to the instruction shall go to
  widening,     \* the bytes the instruction has grown by
  injections,   \* the bridge calls injected in front of the instruction
  out,          \* the output position, from the start of the new code
  written       \* history: where each instruction was written and its branches land

rewriter == <<method, phase, pos, map, widening, injections, out, written>>

N == Len(method.code)
Instr(k) == method.code[k]
IsReturn(k) == Instr(k).op = "return"
IsShortBranch(k) == Instr(k).op \in {"goto", "if"}

(***************************************************************************)
(* The injected code: push cnum, push mnum, invokestatic.                  *)
(***************************************************************************)
PushShortLength(number) == IF number <= 5 THEN 1 ELSE IF number <= 127 THEN 2 ELSE 3

PushPoolLength(index) == IF index <= 127 THEN 2 ELSE 3

PushClassLength ==
  IF ClassNumber <= 32767 THEN PushShortLength(ClassNumber)
                          ELSE PushPoolLength(ClassNumberIndex)

TemplateLength == PushClassLength + PushShortLength(method.number) + 3

\* Object.<init> gets neither calls nor returns, and the agent names no tracker
\* for object initialisation.
EntryCode == IF method.object_init_method THEN <<>> ELSE <<"call">>

BeforeCode(k) ==
  IF IsReturn(k) /\ ~method.object_init_method THEN <<"return">> ELSE <<>>

InjectedLength(code) == Len(code) * TemplateLength

\* adjust_map: every position from instruction k on moves by offset.
Adjusted(k, offset) ==
  [j \in DOMAIN map |-> IF j >= k THEN map[j] + offset ELSE map[j]]

-----------------------------------------------------------------------------
Init ==
  /\ method \in Methods
  /\ phase = "entry"
  /\ pos = 1
  /\ map = method.at
  /\ widening = [k \in 1 .. N |-> 0]
  /\ injections = [k \in 1 .. N |-> <<>>]
  /\ out = 0
  /\ written = <<>>

\* A mutant: position 0 keeps its place, as in front of a return.
EntryInjectionMapPast ==
  /\ phase = "entry"
  /\ phase' = "inject"
  /\ injections' = [injections EXCEPT ![1] = @ \o EntryCode]
  /\ map' = Adjusted(2, InjectedLength(EntryCode))
  /\ UNCHANGED <<method, pos, widening, out, written>>

\* Branches to the first instruction must not run the entry code again: the
\* map of position 0 moves as well.
EntryInjection ==
  /\ phase = "entry"
  /\ phase' = "inject"
  /\ injections' = [injections EXCEPT ![1] = @ \o EntryCode]
  /\ map' = Adjusted(1, InjectedLength(EntryCode))
  /\ UNCHANGED <<method, pos, widening, out, written>>

\* Branches to a return must run the code injected in front of it: the map
\* moves only past the opcode.
InjectForOpcode ==
  /\ phase = "inject" /\ pos <= N
  /\ injections' = [injections EXCEPT ![pos] = @ \o BeforeCode(pos)]
  /\ map' = Adjusted(pos + 1, InjectedLength(BeforeCode(pos)))
  /\ pos' = pos + 1
  /\ UNCHANGED <<method, phase, widening, out, written>>

InjectionsDone ==
  /\ phase = "inject" /\ pos > N
  /\ phase' = "adjust"
  /\ pos' = 1
  /\ UNCHANGED <<method, map, widening, injections, out, written>>

NewDelta(k, target) == map[target] - map[k]

NewPad(k) == NEXT_4BYTE_BOUNDARY(map[k]) - map[k]
OldPad(k) == NEXT_4BYTE_BOUNDARY(method.at[k]) - method.at[k]

\* Mutants: the old padding is forgotten; only deltas that are too large count.
WideningNeededNewPad(k) ==
  IF IsSwitch(Instr(k)) THEN NewPad(k)
  ELSE IF IsShortBranch(k) /\ widening[k] = 0 /\ ~FitsShort(NewDelta(k, Instr(k).to[1]))
       THEN IF Instr(k).op = "goto" THEN 2 ELSE 5 ELSE widening[k]

WideningNeededForward(k) ==
  IF IsSwitch(Instr(k)) THEN NewPad(k) - OldPad(k)
  ELSE IF IsShortBranch(k) /\ widening[k] = 0 /\ NewDelta(k, Instr(k).to[1]) > MaxDelta
       THEN IF Instr(k).op = "goto" THEN 2 ELSE 5 ELSE widening[k]

\* The widening instruction k should have, given where the map now puts it.
WideningNeeded(k) ==
  IF IsSwitch(Instr(k)) THEN NewPad(k) - OldPad(k)
  ELSE IF /\ IsShortBranch(k) /\ widening[k] = 0
          /\ ~FitsShort(NewDelta(k, Instr(k).to[1]))
       THEN IF Instr(k).op = "goto" THEN 2 ELSE 5
       ELSE widening[k]

\* A mutant: the instruction's own position moves too.
WidenFromHere(k, len) ==
  /\ map' = Adjusted(k, len - widening[k])
  /\ widening' = [widening EXCEPT ![k] = len]

\* widen(): the change moves everything from the input position on, which is
\* past the instruction by then.
Widen(k, len) ==
  /\ map' = Adjusted(k + 1, len - widening[k])
  /\ widening' = [widening EXCEPT ![k] = len]

\* A mutant: every switch starts the pass over, changed or not.
AdjustInstructionAlwaysOver ==
  /\ phase = "adjust" /\ pos <= N
  /\ IF WideningNeeded(pos) # widening[pos] \/ IsSwitch(Instr(pos))
     THEN Widen(pos, WideningNeeded(pos)) /\ pos' = 1
     ELSE pos' = pos + 1 /\ UNCHANGED <<map, widening>>
  /\ UNCHANGED <<method, phase, injections, out, written>>

AdjustInstruction ==
  /\ phase = "adjust" /\ pos <= N
  /\ IF WideningNeeded(pos) # widening[pos]
     THEN Widen(pos, WideningNeeded(pos)) /\ pos' = 1
     ELSE pos' = pos + 1 /\ UNCHANGED <<map, widening>>
  /\ UNCHANGED <<method, phase, injections, out, written>>

AdjustmentsDone ==
  /\ phase = "adjust" /\ pos > N
  /\ phase' = "write"
  /\ pos' = 1
  /\ UNCHANGED <<method, map, widening, injections, out, written>>

-----------------------------------------------------------------------------
\* The 16-bit signed number that is read back where delta was written (writeU2).
AsShort(delta) == ((delta + MaxDelta + 1) % (2 * MaxDelta + 2)) - MaxDelta - 1

\* The widenings write_instruction knows how to write: any other is CRW_FATAL.
Writable(k) ==
  IsShortBranch(k) => widening[k] \in {0, IF Instr(k).op = "goto" THEN 2 ELSE 5}

\* The bytes written for the opcode and its operands.  A short branch stays as
\* it is, a goto becomes a goto_w, an if becomes the inverse if and a goto_w.
WrittenLength(k) ==
  CASE IsSwitch(Instr(k))                      -> NewPad(k) + SwitchBody(Instr(k))
    [] IsShortBranch(k) /\ widening[k] = 0     -> 1 + 2
    [] IsShortBranch(k) /\ widening[k] = 2     -> 1 + 4
    [] IsShortBranch(k) /\ widening[k] = 5     -> 1 + 2 + 1 + 4
    [] OTHER                                   -> Instr(k).len

\* Where the JVM goes from the branch of instruction k, written at offset op,
\* when the original one went to target.
Landing(k, op, target) ==
  CASE IsShortBranch(k) /\ widening[k] = 0 -> op + AsShort(NewDelta(k, target))
    [] IsShortBranch(k) /\ widening[k] = 5 -> (op + 3) + (NewDelta(k, target) - 3)
    [] OTHER                               -> op + NewDelta(k, target)

\* Where the JVM goes when it does not branch: the inverse if of a widened one
\* jumps over itself and the goto_w.
FallThrough(k, op) ==
  IF Instr(k).op = "if" /\ widening[k] = 5 THEN op + 3 + 5 ELSE op + WrittenLength(k)

WrittenInstr(k) ==
  LET op == out + InjectedLength(injections[k]) IN
  [start |-> out, op |-> op, end |-> op + WrittenLength(k),
   lands |-> [t \in DOMAIN Instr(k).to |-> Landing(k, op, Instr(k).to[t])],
   next  |-> FallThrough(k, op)]

WriteInstruction ==
  /\ phase = "write" /\ pos <= N
  /\ IF Writable(pos)
     THEN /\ written' = Append(written, WrittenInstr(pos))
          /\ out' = WrittenInstr(pos).end
          /\ pos' = pos + 1
          /\ UNCHANGED phase
     ELSE phase' = "fatal" /\ UNCHANGED <<pos, out, written>>
  /\ UNCHANGED <<method, map, widening, injections>>

CodeWritten ==
  /\ phase = "write" /\ pos > N
  /\ phase' = "done"
  /\ UNCHANGED <<method, pos, map, widening, injections, out, written>>

Next ==
  \/ EntryInjection
  \/ InjectForOpcode
  \/ InjectionsDone
  \/ AdjustInstruction
  \/ AdjustmentsDone
  \/ WriteInstruction
  \/ CodeWritten

Spec == Init /\ [][Next]_rewriter

-----------------------------------------------------------------------------
(***************************************************************************)
(* The tables that follow the code: each entry is moved through the map.   *)
(* The exception table and the two debugging tables treat position 0       *)
(* differently.                                                            *)
(***************************************************************************)
\* write_line_table and write_var_table: 0 stays 0, "Don't skip entry
\* injection code".
NewStart(k) == IF method.at[k] = 0 THEN 0 ELSE map[k]

\* Mutants: a try block treats 0 as the debugging tables do; a variable's range
\* keeps its length.
NewExceptionRangeFromStart(first, last, handler) ==
  [start |-> NewStart(first), end |-> map[last], handler |-> map[handler]]

NewVarRangeOldLength(first, last) ==
  [start |-> NewStart(first), length |-> method.at[last] - method.at[first]]

\* method_write_exception_table: entry 0 is past the entry code.
NewExceptionRange(first, last, handler) ==
  [start |-> map[first], end |-> map[last], handler |-> map[handler]]

NewVarRange(first, last) ==
  [start |-> NewStart(first), length |-> map[last] - NewStart(first)]

-----------------------------------------------------------------------------
(***************************************************************************)
(* Correctness.                                                            *)
(***************************************************************************)
\* The variables have their types in every state of the rewriting.
TypeOK ==
  /\ WellFormed(method)
  /\ phase \in {"entry", "inject", "adjust", "write", "done", "fatal"}
  /\ pos \in 1 .. N + 1
  /\ map \in [1 .. N + 1 -> Int]
  /\ DOMAIN widening = 1 .. N
  /\ \A k \in 1 .. N :
       widening[k] \in IF IsSwitch(Instr(k)) THEN -3 .. 3
                      ELSE IF IsShortBranch(k) THEN {0, 2, 5} ELSE {0}
  /\ injections \in [1 .. N -> Seq({"call", "return"})]
  /\ out \in Nat
  /\ Len(written) \in 0 .. N

\* The passes agree on the layout: what the map of the first two passes promised
\* is where the third pass, which never looks at the output position, puts every
\* instruction with its injected code.  Only position 0 differs, where the map
\* skips the entry code.
MapIsLayout ==
  phase \in {"write", "done"} =>
    /\ out = IF pos = 1 THEN 0 ELSE map[pos]
    /\ \A k \in 1 .. Len(written) :
         written[k].op - Len(BeforeCode(k)) * TemplateLength = map[k]

\* Where a branch to instruction t must land: on the code injected in front of
\* it, so that a jump to a return is traced, but never on the entry code, so that
\* a loop back to the start of the method is not traced as another call.
LandingPoint(t) == written[t].op - Len(BeforeCode(t)) * TemplateLength

\* Control flow is that of the original method: every branch lands on its own
\* target, whatever was widened in between, in the 16 bits it was given, and an
\* instruction that does not branch goes on to the next one.
TargetsKept ==
  phase = "done" =>
    \A k \in 1 .. N :
      /\ \A t \in DOMAIN Instr(k).to :
           written[k].lands[t] = LandingPoint(Instr(k).to[t])
      /\ written[k].next = written[k].end
      /\ k < N => written[k + 1].start = written[k].end

\* The operands of a switch are on a 4-byte boundary of the new code, after
\* everything in front of it has grown.
SwitchesAligned ==
  \A k \in 1 .. Len(written) :
    IsSwitch(Instr(k)) => (written[k].op + NewPad(k)) % 4 = 0

Covers(start, end, k) == start <= written[k].op /\ written[k].end <= end
Disjoint(start, end, k) == written[k].end <= start \/ end <= written[k].op

\* A try block covers the same instructions as before, with the calls injected
\* before its returns and without the call injected at the entry, so that an
\* exception thrown by the bridge at the entry is not caught by the method.  The
\* handler is entered where branches to its instruction land: a caught exception
\* is no new call, and a handler that only returns is traced as a return.
TryBlocksKept ==
  phase = "done" =>
    \A first, last \in 1 .. N + 1, handler \in 1 .. N : first < last =>
      LET r == NewExceptionRange(first, last, handler) IN
      /\ \A k \in 1 .. N : IF k \in first .. last - 1 THEN Covers(r.start, r.end, k)
                                                      ELSE Disjoint(r.start, r.end, k)
      /\ r.start >= InjectedLength(EntryCode)
      /\ r.handler = LandingPoint(handler)

\* A local variable is visible in the same instructions as before, and its range
\* ends inside the new code; one that is visible from the start, an argument, is
\* visible in the entry code too.
VariableRangesKept ==
  phase = "done" =>
    \A first, last \in 1 .. N + 1 : first < last =>
      LET r == NewVarRange(first, last) IN
      /\ \A k \in 1 .. N :
           IF k \in first .. last - 1 THEN Covers(r.start, r.start + r.length, k)
                                      ELSE Disjoint(r.start, r.start + r.length, k)
      /\ first = 1 => r.start = 0
      /\ r.start + r.length <= out
=============================================================================
