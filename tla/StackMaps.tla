------------------------------ MODULE StackMaps ------------------------------
(***************************************************************************)
(* The stack map attributes of a method (java_crw_demo.c,                  *)
(* write_stackmap_table and write_cldc_stackmap_table).  They are written  *)
(* after the code, when the map of CrwInject is final, and say for some    *)
(* instructions which types the verifier finds there.  A StackMapTable     *)
(* gives each frame's position as the distance from the frame before it,   *)
(* minus one but for the first; a short distance is part of the frame's    *)
(* type, and code that has grown can make it too long for that.  The       *)
(* StackMap of CLDC gives positions as they are.                           *)
(***************************************************************************)
EXTENDS CrwInject, FiniteSets

CONSTANTS
  MaxSame,    \* the longest distance inside a frame type: 63 in a class file
  MaxU2       \* the longest code with offsets of two bytes: 65535

\* The ranges of frame_type.  The distance of the first two is in the type, that
\* of the others a uoffset after it.
ShortTypes  == {"same", "same_locals_1"}
OffsetTypes == {"same_locals_1_extended", "chop", "same_extended", "append", "full"}
FrameTypes  == ShortTypes \cup OffsetTypes \cup {"reserved"}

Attributes == {"StackMapTable", "StackMap"}

\* The tags of verification types: the class, the instruction, and all others.
VerificationTags == {"Object", "Uninitialized", "basic"}

\* Frame i of a StackMapTable whose frames are for the instructions at.
Distance(m, i) ==
  m.at[m.frames[i].at] - IF i = 1 THEN 0 ELSE m.at[m.frames[i - 1].at] + 1

\* The stack maps of a method the JVM has accepted: frames in the order of their
\* instructions, each frame of a StackMap a full one, and uninitialized objects
\* that name the instruction which made them, in code that is short enough for
\* offsets of two bytes.  Field at is not in the class file: it says which
\* instruction is meant.
WellFormedFrames(m) ==
  /\ m.at[Len(m.code) + 1] <= MaxU2
  /\ m.attribute \in Attributes
  /\ m.frames \in Seq([type : FrameTypes, at : 1 .. Len(m.code), offset : Nat,
                      types : Seq([tag : VerificationTags, offset : Nat])])
  /\ \A i \in 1 .. Len(m.frames) :
       LET f == m.frames[i] IN
       /\ i > 1 => m.frames[i - 1].at < f.at
       /\ f.offset = IF m.attribute = "StackMap" THEN m.at[f.at] ELSE Distance(m, i)
       /\ m.attribute = "StackMap" => f.type = "full"
       /\ f.type \in ShortTypes => f.offset <= MaxSame
       /\ \A j \in DOMAIN f.types :
            f.types[j].tag = "Uninitialized" =>
              \E k \in 1 .. Len(m.code) :
                m.code[k].op = "plain" /\ f.types[j].offset = m.at[k]

\* Its exception table: the try blocks, of instructions first to last - 1.
WellFormedTable(m) ==
  m.exceptions \subseteq
    [first : 1 .. Len(m.code), last : 1 .. Len(m.code) + 1, handler : 1 .. Len(m.code)]

ASSUME FrameLimitsAssumption == MaxSame \in Nat /\ MaxU2 \in Nat
ASSUME FramesAssumption == \A m \in Methods : WellFormedFrames(m) /\ WellFormedTable(m)

VARIABLES
  stage,         \* "code" while CrwInject runs, "frames", "end"; "fatal"
  last_pc,       \* the position of the last frame in the input ...
  last_new_pc,   \* ... and in the new code
  delta_adj,     \* 0 for the first frame, then 1
  newframes,     \* the frames written
  grown          \* by how many bytes more was written of the attribute than read

framing == <<stage, last_pc, last_new_pc, delta_adj, newframes, grown>>
stackmaps == <<rewriter, framing>>

InputFrame == method.frames[Len(newframes) + 1]

method_code_map(p) == map[CHOOSE k \in 1 .. N + 1 : method.at[k] = p]

FramesInit ==
  /\ Init
  /\ stage = "code"
  /\ last_pc = 0 /\ last_new_pc = 0 /\ delta_adj = 0
  /\ newframes = <<>>
  /\ grown = 0

-----------------------------------------------------------------------------
\* writeUoffset: four bytes when the new code is too long for two, and then two
\* in any case.
Uoffset(value) == IF out > MaxU2 THEN <<value, value>> ELSE <<value>>

\* By how much each uoffset that is read as two bytes grows.
UoffsetGrowth == IF out > MaxU2 THEN 4 ELSE 0

TypesGrowth(types) ==
  Cardinality({j \in DOMAIN types : types[j].tag = "Uninitialized"}) * UoffsetGrowth

\* By how much a frame grows: a distance that moves out of the type takes two
\* bytes of its own.
FrameGrowth(type) ==
  TypesGrowth(InputFrame.types)
    + IF type \in ShortTypes THEN 0
      ELSE IF InputFrame.type \in ShortTypes THEN 2 + UoffsetGrowth ELSE UoffsetGrowth

\* Mutant: the offset of a new instruction is copied like the index of a class.
copy_verification_types_AsIs(types) == types

\* An uninitialized object is known by the offset of its new instruction.
copy_verification_types(types) ==
  [j \in DOMAIN types |->
     IF types[j].tag = "Uninitialized"
     THEN [types[j] EXCEPT !.offset = method_code_map(@)] ELSE types[j]]

\* Mutant: the distance is counted from the old position of the last frame.
NewDistanceOldPc ==
  method_code_map(last_pc + delta_adj + InputFrame.offset) - last_pc - delta_adj

Delta == delta_adj + InputFrame.offset
NewPc == method_code_map(last_pc + Delta)
NewDistance == NewPc - last_new_pc - delta_adj

AtFrame(type) ==
  /\ stage = "frames" /\ Len(newframes) < Len(method.frames)
  /\ method.attribute = "StackMapTable"
  /\ InputFrame.type = type
  /\ UNCHANGED rewriter

FatalFrame ==
  /\ stage' = "fatal"
  /\ UNCHANGED <<last_pc, last_new_pc, delta_adj, newframes, grown>>

\* What is asserted of a frame: no distance is negative, and both positions stay
\* inside the code, the old and the new one.
DeltasAsserted ==
  /\ Delta >= 0 /\ NewPc - last_new_pc >= 0
  /\ last_pc + Delta <= method.at[N + 1] /\ NewPc <= out

\* The frame goes out unless an assertion fails.
WriteFrame(type, offset) ==
  IF ~DeltasAsserted THEN FatalFrame
  ELSE /\ newframes' = Append(newframes,
            [type |-> type, offset |-> offset,
             types |-> copy_verification_types(InputFrame.types)])
       /\ last_pc' = last_pc + Delta
       /\ last_new_pc' = NewPc
       /\ delta_adj' = 1
       /\ grown' = grown + FrameGrowth(type)
       /\ UNCHANGED stage

\* The number of frames is an offset too.
FramesBegin ==
  /\ stage = "code" /\ phase = "done"
  /\ stage' = "frames"
  /\ grown' = UoffsetGrowth
  /\ UNCHANGED <<rewriter, last_pc, last_new_pc, delta_adj, newframes>>

\* Mutant: the input's distance decides whether the short form will do.
SameFrameOldDistance ==
  AtFrame("same") /\ WriteFrame("same", <<NewDistance>>)

\* A distance is compared as an unsigned number: below zero is too long as well.
SameFrame ==
  /\ AtFrame("same")
  /\ IF NewDistance \in 0 .. MaxSame THEN WriteFrame("same", <<NewDistance>>)
                                     ELSE WriteFrame("same_extended", Uoffset(NewDistance))

SameLocals1Frame ==
  /\ AtFrame("same_locals_1")
  /\ IF NewDistance \in 0 .. MaxSame
     THEN WriteFrame("same_locals_1", <<NewDistance>>)
     ELSE WriteFrame("same_locals_1_extended", Uoffset(NewDistance))

ReservedFrame == AtFrame("reserved") /\ FatalFrame

\* The five types with an offset keep their type.
OffsetFrame ==
  \E type \in OffsetTypes : AtFrame(type) /\ WriteFrame(type, Uoffset(NewDistance))

CldcFrame ==
  /\ stage = "frames" /\ Len(newframes) < Len(method.frames)
  /\ method.attribute = "StackMap"
  /\ newframes' = Append(newframes,
       [type |-> InputFrame.type, offset |-> Uoffset(method_code_map(InputFrame.offset)),
        types |-> copy_verification_types(InputFrame.types)])
  /\ grown' = grown + UoffsetGrowth + TypesGrowth(InputFrame.types)
  /\ UNCHANGED <<rewriter, stage, last_pc, last_new_pc, delta_adj>>

\* The assertion that the attribute did not shrink, which one without frames is
\* spared.
FramesDone ==
  /\ stage = "frames" /\ Len(newframes) = Len(method.frames)
  /\ stage' = IF newframes = <<>> \/ grown >= 0 THEN "end" ELSE "fatal"
  /\ UNCHANGED <<rewriter, last_pc, last_new_pc, delta_adj, newframes, grown>>

FramesNext ==
  \/ Next /\ UNCHANGED framing
  \/ FramesBegin \/ FramesDone
  \/ SameFrame \/ SameLocals1Frame \/ ReservedFrame \/ OffsetFrame
  \/ CldcFrame

FramesSpec == FramesInit /\ [][FramesNext]_stackmaps

\* One thread runs the loops to their ends.
FairFramesSpec == FramesSpec /\ WF_stackmaps(FramesNext)

-----------------------------------------------------------------------------
(***************************************************************************)
(* Correctness.                                                            *)
(***************************************************************************)
\* The variables of both modules have their types, and the map is not touched
\* any more once frames are written.
FramesTypeOK ==
  /\ TypeOK
  /\ stage \in {"code", "frames", "end", "fatal"}
  /\ stage # "code" => phase = "done"
  /\ last_pc \in 0 .. method.at[N + 1]
  /\ stage = "code" => last_new_pc = 0
  /\ stage # "code" => last_new_pc \in 0 .. out
  /\ delta_adj = IF last_pc = 0 /\ last_new_pc = 0 /\ newframes = <<>> THEN 0
                 ELSE IF method.attribute = "StackMap" THEN 0 ELSE 1
  /\ Len(newframes) \in 0 .. Len(method.frames)
  /\ \A i \in 1 .. Len(newframes) : newframes[i].type \in FrameTypes \ {"reserved"}

Plainly(type) ==
  CASE type = "same_extended" -> "same"
    [] type = "same_locals_1_extended" -> "same_locals_1"
    [] OTHER -> type

\* Where the reader of the new class file finds frame i.
ReadAt(i) ==
  LandingPoint(method.frames[i].at)
    - IF i = 1 \/ method.attribute = "StackMap" THEN 0
      ELSE LandingPoint(method.frames[i - 1].at) + 1

\* The verifier finds every frame where branches to its instruction now land,
\* with the same types, in an encoding that can hold the distance; and an
\* uninitialized object still names the new instruction itself, not a call
\* injected in front of it.
FramesKept ==
  stage = "end" /\ out <= MaxU2 =>
    \A i \in 1 .. Len(method.frames) :
      LET old == method.frames[i]
          new == newframes[i]
      IN  /\ Plainly(new.type) = Plainly(old.type)
          /\ new.offset = <<ReadAt(i)>>
          /\ new.type \in ShortTypes /\ method.attribute = "StackMapTable" =>
               new.offset[1] <= MaxSame
          /\ \A j \in DOMAIN old.types :
               IF old.types[j].tag = "Uninitialized"
               THEN \E k \in 1 .. N : /\ method.at[k] = old.types[j].offset
                                      /\ new.types[j].offset = written[k].op
               ELSE new.types[j] = old.types[j]

\* Every method is rewritten to its end: padding a switch, which may shrink it, and
\* widening branches cannot go on undoing each other, the write pass meets no
\* widening it cannot write, no distance between frames is negative, none leads out
\* of the code, and no attribute shrinks.  Only a frame of a reserved type stops the
\* JVM.  (The output buffer is taken to be long enough.)
RewriteEnds ==
  <>(stage = "end" \/ (stage = "fatal" /\ InputFrame.type = "reserved"))

NeverFallsThrough(instr) == instr.op \in {"return", "goto", "goto_w"} \/ IsSwitch(instr)

\* Where a method needs frames: at the targets of branches, at the handlers of its
\* try blocks and after instructions that do not fall through.
FramesAt(m) == {m.frames[i].at : i \in 1 .. Len(m.frames)}
BranchTargets(m) ==
  UNION {{m.code[k].to[t] : t \in DOMAIN m.code[k].to} : k \in 1 .. Len(m.code)}
Unreached(m) ==
  {k + 1 : k \in {j \in 1 .. Len(m.code) - 1 : NeverFallsThrough(m.code[j])}}
Handlers(m) == {e.handler : e \in m.exceptions}
NeedsFrames(m) == BranchTargets(m) \cup Handlers(m) \cup Unreached(m)

\* The same in the new code.  An if that was widened jumps over the goto_w that
\* follows it.
NewBranchTargets ==
  UNION {{written[k].lands[t] : t \in DOMAIN Instr(k).to} : k \in 1 .. N}
NewUnreached ==
  {written[k].end : k \in {j \in 1 .. N - 1 :
     NeverFallsThrough(Instr(j)) \/ (Instr(j).op = "if" /\ widening[j] = 5)}}
NewHandlers ==
  {NewExceptionRange(e.first, e.last, e.handler).handler : e \in method.exceptions}
NewNeedsFrames == NewBranchTargets \cup NewHandlers \cup NewUnreached

\* Where a reader of the new attribute, who adds up its offsets, finds frame i.
NewPosition[i \in 1 .. Len(newframes)] ==
  newframes[i].offset[1]
    + IF i = 1 \/ method.attribute = "StackMap" THEN 0 ELSE NewPosition[i - 1] + 1

NewFramesAt == {NewPosition[i] : i \in 1 .. Len(newframes)}

\* A method that had a frame for each basic block still has: adding up the new
\* distances, the verifier finds a frame wherever the new code needs one, as long
\* as no if was widened.
BlocksFramed ==
  (stage = "end" /\ out <= MaxU2 /\ NeedsFrames(method) \subseteq FramesAt(method)
     /\ \A k \in 1 .. N : Instr(k).op = "if" => widening[k] = 0)
    => NewNeedsFrames \subseteq NewFramesAt

\* The comment of write_stackmap_table, "We didn't add any basic blocks so the
\* frame count remains the same": without that restriction.
NoBlocksAdded ==
  stage = "end" /\ out <= MaxU2 /\ NeedsFrames(method) \subseteq FramesAt(method)
    => NewNeedsFrames \subseteq NewFramesAt
=============================================================================
