-------------------------- MODULE StackMapsProofs --------------------------
(***************************************************************************)
(* Proofs about StackMaps.  The frames are written after the code, so the  *)
(* invariant of CrwInject carries over (RewriterInside), and the map is    *)
(* final.  What is left to show is that the running positions of           *)
(* write_stackmap_table stay those of the last frame in both codes         *)
(* (CursorInv), so that each new distance leads to its own instruction.    *)
(***************************************************************************)
EXTENDS StackMaps, CrwInjectProofs, FiniteSetTheorems

(* The frames take no part in the rewriting of the code: all theorems about  *)
(* CrwInject hold of a method with stack maps.                               *)
THEOREM RewriterInside == FramesSpec => Spec
<1>1. FramesInit => Init
  BY DEF FramesInit
<1>2. [FramesNext]_stackmaps => [Next]_rewriter
  BY DEF FramesNext, stackmaps, FramesBegin, FramesDone, SameFrame, SameLocals1Frame,
         ReservedFrame, OffsetFrame, CldcFrame, AtFrame
<1> QED
  BY <1>1, <1>2, PTL DEF FramesSpec, Spec

-----------------------------------------------------------------------------
(***************************************************************************)
(* The frames of the input.                                                *)
(***************************************************************************)
Types == Seq([tag : VerificationTags, offset : Nat])

MethodFrames ==
  /\ method.attribute \in Attributes
  /\ Len(method.frames) \in Nat
  /\ \A i \in 1 .. Len(method.frames) :
       /\ method.frames[i].type \in FrameTypes
       /\ method.frames[i].at \in 1 .. N
       /\ method.frames[i].offset \in Nat
       /\ method.frames[i].types \in Types
       /\ i > 1 => /\ method.frames[i - 1].at \in 1 .. N
                   /\ method.frames[i - 1].at < method.frames[i].at
       /\ method.attribute = "StackMap" =>
            /\ method.frames[i].type = "full"
            /\ method.frames[i].offset = method.at[method.frames[i].at]
       /\ method.attribute # "StackMap" => method.frames[i].offset = Distance(method, i)
       /\ \A j \in DOMAIN method.frames[i].types :
            method.frames[i].types[j].tag = "Uninitialized" =>
              \E k \in 1 .. N :
                Instr(k).op = "plain" /\ method.frames[i].types[j].offset = method.at[k]

LEMMA FramesFacts ==
  ASSUME method \in Methods
  PROVE  MethodFrames
<1>1. WellFormedFrames(method) /\ MethodInv
  BY FramesAssumption, MethodFacts
<1> DEFINE S == [type : FrameTypes, at : 1 .. N, offset : Nat, types : Types]
<1>2. method.frames \in Seq(S)
  BY <1>1 DEF WellFormedFrames, N, Types
<1> HIDE DEF S
<1>3. /\ Len(method.frames) \in Nat
      /\ \A i \in 1 .. Len(method.frames) : method.frames[i] \in S
  BY <1>2, LenProperties, ElementOfSeq
<1>4. \A i \in 1 .. Len(method.frames) :
        /\ method.frames[i].type \in FrameTypes
        /\ method.frames[i].at \in 1 .. N
        /\ method.frames[i].offset \in Nat
        /\ method.frames[i].types \in Types
  BY <1>3 DEF S
<1>5. ASSUME NEW i \in 1 .. Len(method.frames), i > 1
      PROVE  /\ method.frames[i - 1].at \in 1 .. N
             /\ method.frames[i - 1].at < method.frames[i].at
  <2>1. i - 1 \in 1 .. Len(method.frames)
    BY <1>3, <1>5
  <2> QED
    BY <1>1, <1>4, <1>5, <2>1 DEF WellFormedFrames
<1>6. ASSUME NEW i \in 1 .. Len(method.frames)
      PROVE  /\ method.attribute = "StackMap" =>
                  /\ method.frames[i].type = "full"
                  /\ method.frames[i].offset = method.at[method.frames[i].at]
             /\ method.attribute # "StackMap" =>
                  method.frames[i].offset = Distance(method, i)
  BY <1>1 DEF WellFormedFrames
<1>7. ASSUME NEW i \in 1 .. Len(method.frames), NEW j \in DOMAIN method.frames[i].types,
             method.frames[i].types[j].tag = "Uninitialized"
      PROVE  \E k \in 1 .. N :
               Instr(k).op = "plain" /\ method.frames[i].types[j].offset = method.at[k]
  BY <1>1, <1>7 DEF WellFormedFrames, N, Instr
<1>8. method.attribute \in Attributes
  BY <1>1 DEF WellFormedFrames
<1> QED
  BY <1>3, <1>4, <1>5, <1>6, <1>7, <1>8 DEF MethodFrames

(* The map is looked up by positions, and no two instructions share one. *)
LEMMA CodeMap ==
  ASSUME MethodInv, NEW k \in 1 .. N + 1
  PROVE  method_code_map(method.at[k]) = map[k]
<1>1. N \in Nat /\ method.at \in [1 .. N + 1 -> Nat]
  BY DEF MethodInv
<1>2. ASSUME NEW j \in 1 .. N + 1, method.at[j] = method.at[k]
      PROVE  j = k
  <2>1. method.at[j] \in Nat /\ method.at[k] \in Nat
    BY <1>1
  <2>2. ~ (j < k) /\ ~ (k < j)
    BY <1>2, <2>1, PositionsRise
  <2> QED
    BY <1>1, <2>2
<1>3. (CHOOSE j \in 1 .. N + 1 : method.at[j] = method.at[k]) = k
  BY <1>2
<1> QED
  BY <1>3 DEF method_code_map

-----------------------------------------------------------------------------
(***************************************************************************)
(* The inductive invariant.                                                *)
(***************************************************************************)
\* The distance of frame i in the new code, or its position in a StackMap.
NewOffset(i) ==
  map[method.frames[i].at]
    - IF i = 1 \/ method.attribute = "StackMap" THEN 0 ELSE map[method.frames[i - 1].at] + 1

FrameRecords ==
  [type : FrameTypes, offset : Seq(Int),
   types : Seq([tag : VerificationTags, offset : Int])]

\* A frame as it should be written for frame i of the input.
Fits(new, i) ==
  /\ Plainly(new.type) = Plainly(method.frames[i].type)
  /\ new.type # "reserved"
  /\ new.offset = <<NewOffset(i)>> \/ new.offset = Uoffset(NewOffset(i))
  /\ new.type \in ShortTypes => new.offset = <<NewOffset(i)>> /\ NewOffset(i) <= MaxSame
  /\ new.types = copy_verification_types(method.frames[i].types)

StageInv ==
  /\ stage \in {"code", "frames", "end", "fatal"}
  /\ stage # "code" => phase = "done"
  /\ stage = "code" => newframes = <<>>
  /\ stage = "end" => Len(newframes) = Len(method.frames)
  /\ stage = "fatal" => /\ Len(newframes) < Len(method.frames)
                        /\ InputFrame.type = "reserved"

\* last_pc and last_new_pc are where the last frame written is, in either code.
CursorInv ==
  IF newframes = <<>> \/ method.attribute = "StackMap"
  THEN last_pc = 0 /\ last_new_pc = 0 /\ delta_adj = 0
  ELSE LET k == method.frames[Len(newframes)].at IN
       last_pc = method.at[k] /\ last_new_pc = map[k] /\ delta_adj = 1

OutputInv ==
  /\ newframes \in Seq(FrameRecords)
  /\ Len(newframes) <= Len(method.frames)
  /\ \A i \in 1 .. Len(newframes) : Fits(newframes[i], i)

\* The attribute has not shrunk.
GrownInv == grown \in Nat

FramesInv == StageInv /\ CursorInv /\ OutputInv /\ GrownInv

LEMMA Basics ==
  ASSUME IInv, FramesInv
  PROVE  /\ TypeInv /\ MethodInv /\ MethodFrames /\ N \in Nat
         /\ Len(newframes) \in Nat /\ Len(method.frames) \in Nat
         /\ newframes \in Seq(FrameRecords)
         /\ newframes = <<>> <=> Len(newframes) = 0
<1>1. TypeInv /\ MethodInv /\ MethodFrames /\ N \in Nat
  BY Method, FramesFacts DEF IInv, TypeInv, MethodInv
<1>2. newframes \in Seq(FrameRecords)
  BY DEF FramesInv, OutputInv
<1>3. Len(newframes) \in Nat /\ (newframes = <<>> <=> Len(newframes) = 0)
  BY <1>2, EmptySeq, LenProperties
<1> QED
  BY <1>1, <1>2, <1>3 DEF MethodFrames

(* Whatever an uninitialized object was named by has a place in the map. *)
LEMMA CopiedTypes ==
  ASSUME TypeInv, MethodInv, MethodFrames, NEW i \in 1 .. Len(method.frames)
  PROVE  /\ copy_verification_types(method.frames[i].types)
              \in Seq([tag : VerificationTags, offset : Int])
         /\ \A j \in DOMAIN method.frames[i].types :
              IF method.frames[i].types[j].tag = "Uninitialized"
              THEN \E k \in 1 .. N :
                     /\ Instr(k).op = "plain"
                     /\ method.at[k] = method.frames[i].types[j].offset
                     /\ copy_verification_types(method.frames[i].types)[j].offset = map[k]
              ELSE copy_verification_types(method.frames[i].types)[j]
                     = method.frames[i].types[j]
<1> DEFINE types == method.frames[i].types
           T == [tag : VerificationTags, offset : Nat]
           new == copy_verification_types(types)
           Copied(j) == IF types[j].tag = "Uninitialized"
                        THEN [types[j] EXCEPT !.offset = method_code_map(@)] ELSE types[j]
<1>1. types \in Seq(T)
  BY DEF MethodFrames, Types
<1>2. /\ Len(types) \in Nat /\ DOMAIN types = 1 .. Len(types)
      /\ \A j \in DOMAIN types : types[j] \in T
  <2> HIDE DEF types, T
  <2> QED
    BY <1>1, LenProperties, ElementOfSeq
<1>3. new = [j \in DOMAIN types |-> Copied(j)]
  BY DEF copy_verification_types
<1>4. ASSUME NEW j \in DOMAIN types, types[j].tag = "Uninitialized"
      PROVE  /\ Copied(j) \in [tag : VerificationTags, offset : Int]
             /\ \E k \in 1 .. N : /\ Instr(k).op = "plain" /\ method.at[k] = types[j].offset
                                  /\ Copied(j).offset = map[k]
  <2>1. PICK k \in 1 .. N : Instr(k).op = "plain" /\ types[j].offset = method.at[k]
    BY <1>4 DEF MethodFrames
  <2>2. map[k] \in Int
    BY MapTyped
  <2>3. method_code_map(types[j].offset) = map[k]
    <3>1. k \in 1 .. N + 1
      BY <2>1 DEF MethodInv
    <3> QED
      BY <2>1, <3>1, CodeMap
  <2>4. types[j] \in T
    BY <1>2
  <2>5. Copied(j) = [types[j] EXCEPT !.offset = map[k]]
    BY <1>4, <2>3
  <2> HIDE DEF types, Copied
  <2> QED
    BY <2>1, <2>2, <2>4, <2>5
<1>5. ASSUME NEW j \in DOMAIN types, types[j].tag # "Uninitialized"
      PROVE  Copied(j) \in [tag : VerificationTags, offset : Int] /\ Copied(j) = types[j]
  <2>1. types[j] \in T /\ Copied(j) = types[j]
    BY <1>2, <1>5
  <2> HIDE DEF types, Copied
  <2> QED
    BY <2>1
<1> HIDE DEF types, T, Copied, new
<1>6. new \in Seq([tag : VerificationTags, offset : Int])
  <2> DEFINE S == [tag : VerificationTags, offset : Int]
  <2>1. \A j \in DOMAIN types : Copied(j) \in S
    BY <1>4, <1>5
  <2> HIDE DEF S
  <2>2. new \in [1 .. Len(types) -> S]
    BY <1>2, <1>3, <2>1
  <2>3. new \in Seq(S)
    BY <1>2, <2>2, SeqDef
  <2> QED
    BY <2>3 DEF S
<1>7. ASSUME NEW j \in DOMAIN types
      PROVE  IF types[j].tag = "Uninitialized"
             THEN \E k \in 1 .. N : /\ Instr(k).op = "plain"
                                    /\ method.at[k] = types[j].offset /\ new[j].offset = map[k]
             ELSE new[j] = types[j]
  <2>1. new[j] = Copied(j)
    BY <1>3
  <2> QED
    BY <1>4, <1>5, <2>1
<1> QED
  BY <1>6, <1>7 DEF new, types

LEMMA OffsetTyped ==
  ASSUME TypeInv, MethodInv, MethodFrames, NEW i \in 1 .. Len(method.frames)
  PROVE  /\ NewOffset(i) \in Int /\ <<NewOffset(i)>> \in Seq(Int)
         /\ Uoffset(NewOffset(i)) \in Seq(Int)
<1>1. map[method.frames[i].at] \in Int
  BY MapTyped DEF MethodFrames
<1>2. i > 1 => map[method.frames[i - 1].at] \in Int
  BY MapTyped DEF MethodFrames
<1>3. NewOffset(i) \in Int
  <2>1. i = 1 \/ i > 1
    BY DEF MethodFrames
  <2> QED
    BY <1>1, <1>2, <2>1 DEF NewOffset
<1>4. <<NewOffset(i)>> \in Seq(Int) /\ <<NewOffset(i), NewOffset(i)>> \in Seq(Int)
  BY <1>3
<1> QED
  BY <1>3, <1>4 DEF Uoffset

(* What is known when the frames are being written. *)
LEMMA CodeDone ==
  ASSUME IInv, phase = "done"
  PROVE  /\ TypeInv /\ MethodInv /\ N \in Nat /\ N > 0 /\ pos = N + 1
         /\ Len(written) = N /\ out = map[N + 1]
<1>1. TypeInv /\ MethodInv
  BY Method DEF IInv
<1>2. N \in Nat /\ N > 0 /\ pos = N + 1
  BY <1>1 DEF MethodInv, TypeInv
<1> QED
  BY <1>1, <1>2 DEF IInv, WrittenInv

(* A place in the new code is between its ends. *)
LEMMA InsideCode ==
  ASSUME IInv, phase = "done", NEW k \in 1 .. N
  PROVE  /\ map[k] \in Int /\ 0 <= map[k] /\ map[k] <= out
         /\ method.at[k] \in Nat /\ method.at[N + 1] \in Nat
         /\ method.at[k] <= method.at[N + 1]
<1>1. TypeInv /\ MethodInv /\ N \in Nat /\ out = map[N + 1]
  BY CodeDone
<1>2. k \in 1 .. N + 1 /\ N + 1 \in 1 .. N + 1 /\ k < N + 1
  BY <1>1
<1>3. map[k] \in Int /\ map[N + 1] \in Int
  BY <1>1, <1>2, MapTyped
<1>4. /\ InjectedLength(EntryCode) \in Nat /\ InjectedLength(EntryCode) <= map[k]
      /\ map[k] <= map[N + 1]
  BY <1>2, MapRises
<1>5. method.at[k] \in Nat /\ method.at[N + 1] \in Nat /\ method.at[k] < method.at[N + 1]
  <2>1. method.at \in [1 .. N + 1 -> Nat]
    BY <1>1 DEF MethodInv
  <2> QED
    BY <1>1, <1>2, <2>1, PositionsRise
<1> QED
  BY <1>1, <1>3, <1>4, <1>5

(* The running positions lead to the instruction of the next frame, and the *)
(* assertions on them hold.                                                 *)
LEMMA NextFrame ==
  ASSUME IInv, FramesInv, stage = "frames", Len(newframes) < Len(method.frames),
         method.attribute = "StackMapTable"
  PROVE  /\ last_pc + Delta = method.at[InputFrame.at]
         /\ NewPc = map[InputFrame.at]
         /\ NewDistance = NewOffset(Len(newframes) + 1)
         /\ DeltasAsserted
<1> DEFINE n == Len(newframes) + 1
           k == method.frames[n].at
<1>1. /\ TypeInv /\ MethodInv /\ MethodFrames /\ N \in Nat
      /\ Len(newframes) \in Nat /\ Len(method.frames) \in Nat
      /\ newframes = <<>> <=> Len(newframes) = 0
  BY Basics
<1>2. n \in 1 .. Len(method.frames) /\ InputFrame = method.frames[n]
  BY <1>1 DEF InputFrame
<1>3. k \in 1 .. N /\ method.frames[n].offset = Distance(method, n)
  BY <1>1, <1>2 DEF MethodFrames
<1>4. /\ k \in 1 .. N + 1 /\ method.at[k] \in Nat
      /\ map[k] \in Int
  <2>1. k \in 1 .. N + 1
    BY <1>1, <1>3
  <2> QED
    BY <1>1, <1>3, <2>1, MapTyped, SizeFacts
<1>5. phase = "done"
  BY DEF FramesInv, StageInv
<1>8. /\ map[k] <= out /\ 0 <= map[k]
      /\ method.at[k] <= method.at[N + 1] /\ method.at[N + 1] \in Nat
  BY <1>3, <1>5, InsideCode
<1>9. out \in Int
  BY <1>1 DEF TypeInv
<1>6. CASE newframes = <<>>
  <2>1. n = 1
    BY <1>1, <1>6
  <2>2. last_pc = 0 /\ last_new_pc = 0 /\ delta_adj = 0
    BY <1>6 DEF FramesInv, CursorInv
  <2>3. method.frames[n].offset = method.at[k] - 0
    BY <1>3, <2>1 DEF Distance
  <2>4. NewOffset(n) = map[k] - 0
    BY <2>1 DEF NewOffset
  <2> HIDE DEF n, k
  <2>5. InputFrame.at = k
    BY <1>2 DEF k
  <2>6. last_pc + Delta = method.at[k]
    BY <1>2, <1>4, <2>2, <2>3 DEF Delta
  <2>7. NewPc = map[k]
    BY <1>1, <1>4, <2>6, CodeMap DEF NewPc
  <2>8. Delta = method.at[k]
    BY <1>2, <1>4, <2>2, <2>3 DEF Delta
  <2>10. DeltasAsserted
    BY <1>4, <1>8, <1>9, <2>2, <2>6, <2>7, <2>8 DEF DeltasAsserted
  <2>9. NewDistance = NewOffset(n)
    BY <1>4, <2>2, <2>4, <2>7 DEF NewDistance
  <2> QED
    BY <2>5, <2>6, <2>7, <2>9, <2>10 DEF n
<1>7. CASE newframes # <<>>
  <2> DEFINE j == method.frames[n - 1].at
  <2>1. n > 1 /\ n - 1 = Len(newframes)
    BY <1>1, <1>7
  <2>2. j \in 1 .. N /\ j < k
    BY <1>1, <1>2, <2>1 DEF MethodFrames
  <2>3. j \in 1 .. N + 1 /\ method.at[j] \in Nat /\ map[j] \in Int
    <3>1. j \in 1 .. N + 1
      BY <1>1, <2>2
    <3> QED
      BY <1>1, <2>2, <3>1, MapTyped, SizeFacts
  <2>4. last_pc = method.at[j] /\ last_new_pc = map[j] /\ delta_adj = 1
    BY <1>7, <2>1 DEF FramesInv, CursorInv
  <2>5. method.frames[n].offset = method.at[k] - (method.at[j] + 1)
    BY <1>1, <1>3, <2>1 DEF Distance
  <2>6. NewOffset(n) = map[k] - (map[j] + 1)
    BY <1>1, <2>1 DEF NewOffset
  <2>7. InputFrame.at = k /\ InputFrame.offset = method.frames[n].offset
    BY <1>2
  <2> HIDE DEF n, k, j
  <2>8. last_pc + Delta = method.at[k]
    BY <1>4, <2>3, <2>4, <2>5, <2>7 DEF Delta
  <2>9. NewPc = map[k]
    BY <1>1, <1>4, <2>8, CodeMap DEF NewPc
  <2>10. map[j] <= map[k]
    <3>1. j <= k
      BY <1>1, <1>3, <2>2
    <3> QED
      BY <1>4, <1>5, <2>3, <3>1, MapRises
  <2>11. NewDistance = NewOffset(n)
    BY <1>4, <2>3, <2>4, <2>6, <2>9 DEF NewDistance
  <2>12. Delta = method.at[k] - method.at[j]
    BY <1>4, <2>3, <2>4, <2>5, <2>7 DEF Delta
  <2>13. method.at[j] < method.at[k]
    BY <1>1, <1>4, <2>2, <2>3, PositionsRise
  <2>14. DeltasAsserted
    BY <1>4, <1>8, <1>9, <2>3, <2>4, <2>8, <2>9, <2>10, <2>12, <2>13 DEF DeltasAsserted
  <2> QED
    BY <2>7, <2>8, <2>9, <2>11, <2>14 DEF n
<1> QED
  BY <1>6, <1>7

-----------------------------------------------------------------------------
(***************************************************************************)
(* The invariant is kept.                                                  *)
(***************************************************************************)
LEMMA SameFrames ==
  ASSUME UNCHANGED rewriter
  PROVE  /\ UNCHANGED <<method, phase, map, out, written>> /\ N' = N
         /\ \A i : NewOffset(i)' = NewOffset(i)
         /\ \A offset : Uoffset(offset)' = Uoffset(offset)
         /\ \A i : copy_verification_types(method.frames[i].types)' =
                    copy_verification_types(method.frames[i].types)
<1>1. UNCHANGED <<method, phase, pos, map, widening, injections, out, written>>
  BY DEF rewriter
<1>2. \A i : NewOffset(i)' = NewOffset(i)
  BY <1>1 DEF NewOffset
<1>3. \A offset : Uoffset(offset)' = Uoffset(offset)
  BY <1>1 DEF Uoffset
<1>4. \A i : copy_verification_types(method.frames[i].types)' =
              copy_verification_types(method.frames[i].types)
  BY <1>1 DEF copy_verification_types, method_code_map, N
<1> QED
  BY <1>1, <1>2, <1>3, <1>4 DEF N

LEMMA StillFits ==
  ASSUME UNCHANGED rewriter, NEW i, Fits(newframes'[i], i)
  PROVE  Fits(newframes[i], i)'
<1>1. /\ method' = method /\ NewOffset(i)' = NewOffset(i)
      /\ Uoffset(NewOffset(i))' = Uoffset(NewOffset(i))
      /\ copy_verification_types(method.frames[i].types)' =
           copy_verification_types(method.frames[i].types)
  <2>1. NewOffset(i)' = NewOffset(i) /\ out' = out
    BY SameFrames
  <2> QED
    BY <2>1, SameFrames DEF Uoffset
<1> QED
  BY <1>1 DEF Fits, Plainly

(* A frame that fits is added. *)
LEMMA FrameAdded ==
  ASSUME IInv, FramesInv, stage = "frames", Len(newframes) < Len(method.frames),
         UNCHANGED rewriter, NEW r \in FrameRecords, Fits(r, Len(newframes) + 1),
         newframes' = Append(newframes, r)
  PROVE  OutputInv' /\ Len(newframes') = Len(newframes) + 1 /\ newframes' # <<>>
<1> DEFINE n == Len(newframes)
<1>1. /\ TypeInv /\ MethodInv /\ MethodFrames /\ N \in Nat
      /\ n \in Nat /\ Len(method.frames) \in Nat /\ newframes \in Seq(FrameRecords)
  BY Basics
<1>2. /\ newframes' \in Seq(FrameRecords) /\ Len(newframes') = n + 1
      /\ \A i \in 1 .. n : newframes'[i] = newframes[i]
      /\ newframes'[n + 1] = r
  BY <1>1, AppendProperties
<1>3. \A i \in 1 .. n : Fits(newframes[i], i)
  BY DEF FramesInv, OutputInv
<1>4. \A i \in 1 .. n + 1 : Fits(newframes[i], i)'
  <2>1. \A i \in 1 .. n + 1 : i \in 1 .. n \/ i = n + 1
    BY <1>1
  <2>2. \A i \in 1 .. n + 1 : Fits(newframes'[i], i)
    BY <1>2, <1>3, <2>1
  <2> QED
    BY <2>2, StillFits
<1>5. Len(newframes') <= Len(method'.frames)
  BY <1>1, <1>2, SameFrames
<1>6. newframes' # <<>>
  BY <1>1, <1>2, EmptySeq
<1> HIDE DEF n
<1>7. OutputInv'
  BY <1>2, <1>4, <1>5 DEF OutputInv, FrameRecords
<1> QED
  BY <1>2, <1>6, <1>7 DEF n

(* Nothing that is written is shorter than what was read. *)
LEMMA Growth ==
  ASSUME MethodFrames, Len(newframes) + 1 \in 1 .. Len(method.frames)
  PROVE  /\ UoffsetGrowth \in Nat /\ TypesGrowth(InputFrame.types) \in Nat
         /\ \A type : FrameGrowth(type) \in Nat
<1>1. UoffsetGrowth \in {0, 4}
  BY DEF UoffsetGrowth
<1> DEFINE types == InputFrame.types
           New == {j \in DOMAIN types : types[j].tag = "Uninitialized"}
<1>2. types \in Types
  BY DEF MethodFrames, InputFrame
<1>3. DOMAIN types = 1 .. Len(types) /\ Len(types) \in Nat
  <2> HIDE DEF types
  <2> QED
    BY <1>2, LenProperties DEF Types
<1>4. IsFiniteSet(New)
  <2>1. IsFiniteSet(1 .. Len(types)) /\ New \subseteq 1 .. Len(types)
    <3> HIDE DEF types
    <3> QED
      BY <1>3, FS_Interval
  <2> HIDE DEF New, types
  <2> QED
    BY <2>1, FS_Subset
<1>5. Cardinality(New) \in Nat
  <2> HIDE DEF New
  <2> QED
    BY <1>4, FS_CardinalityType
<1>6. TypesGrowth(types) = Cardinality(New) * UoffsetGrowth
  BY DEF TypesGrowth
<1>7. TypesGrowth(types) \in Nat
  <2> HIDE DEF New, types
  <2>1. UoffsetGrowth = 0 \/ UoffsetGrowth = 4
    BY <1>1
  <2> QED
    BY <1>5, <1>6, <2>1
<1>8. ASSUME NEW type PROVE FrameGrowth(type) \in Nat
  BY <1>1, <1>7 DEF FrameGrowth
<1> QED
  BY <1>1, <1>7, <1>8

LEMMA WriteFrameInv ==
  ASSUME IInv, FramesInv, NEW type \in FrameTypes \ {"reserved"}, NEW offset,
         AtFrame(InputFrame.type), WriteFrame(type, offset),
         Plainly(type) = Plainly(InputFrame.type),
         offset = <<NewDistance>> \/ offset = Uoffset(NewDistance),
         type \in ShortTypes => offset = <<NewDistance>> /\ NewDistance <= MaxSame
  PROVE  FramesInv'
<1> DEFINE n == Len(newframes) + 1
           r == [type |-> type, offset |-> offset,
                 types |-> copy_verification_types(InputFrame.types)]
<1>1. /\ TypeInv /\ MethodInv /\ MethodFrames /\ N \in Nat
      /\ Len(newframes) \in Nat /\ Len(method.frames) \in Nat
  BY Basics
<1>2. /\ stage = "frames" /\ Len(newframes) < Len(method.frames)
      /\ method.attribute = "StackMapTable" /\ UNCHANGED rewriter
  BY DEF AtFrame
<1>3. n \in 1 .. Len(method.frames) /\ InputFrame = method.frames[n]
  BY <1>1, <1>2 DEF InputFrame
<1>4. /\ last_pc + Delta = method.at[InputFrame.at] /\ NewPc = map[InputFrame.at]
      /\ NewDistance = NewOffset(n) /\ DeltasAsserted
  BY <1>2, NextFrame
<1>5. /\ newframes' = Append(newframes, r) /\ last_pc' = last_pc + Delta
      /\ last_new_pc' = NewPc /\ delta_adj' = 1 /\ stage' = stage
      /\ grown' = grown + FrameGrowth(type)
  BY <1>4 DEF WriteFrame
<1>6. r \in FrameRecords
  <2>1. copy_verification_types(InputFrame.types) \in Seq([tag : VerificationTags, offset : Int])
    BY <1>1, <1>3, CopiedTypes
  <2>2. offset \in Seq(Int)
    BY <1>1, <1>3, <1>4, OffsetTyped
  <2> QED
    BY <2>1, <2>2 DEF FrameRecords
<1>7. Fits(r, n)
  BY <1>3, <1>4 DEF Fits
<1> HIDE DEF r
<1>8. OutputInv' /\ Len(newframes') = n /\ newframes' # <<>>
  BY <1>2, <1>5, <1>6, <1>7, FrameAdded
<1>9. method' = method /\ map' = map /\ phase' = phase
  BY <1>2, SameFrames
<1>10. CursorInv'
  BY <1>2, <1>3, <1>4, <1>5, <1>8, <1>9 DEF CursorInv
<1>11. StageInv'
  BY <1>2, <1>5, <1>9 DEF FramesInv, StageInv
<1>12. GrownInv'
  <2>1. FrameGrowth(type) \in Nat
    BY <1>1, <1>3, Growth
  <2> QED
    BY <1>5, <2>1 DEF FramesInv, GrownInv
<1> QED
  BY <1>8, <1>10, <1>11, <1>12 DEF FramesInv

LEMMA FrameStepInv ==
  ASSUME IInv, FramesInv, SameFrame \/ SameLocals1Frame \/ OffsetFrame
  PROVE  FramesInv'
<1>1. CASE SameFrame
  <2>1. AtFrame(InputFrame.type) /\ InputFrame.type = "same"
    BY <1>1 DEF SameFrame, AtFrame
  <2>2. CASE NewDistance \in 0 .. MaxSame
    <3>1. WriteFrame("same", <<NewDistance>>) /\ NewDistance <= MaxSame
      BY <1>1, <2>2, FrameLimitsAssumption DEF SameFrame
    <3>2. "same" \in FrameTypes \ {"reserved"}
      BY DEF FrameTypes, ShortTypes, OffsetTypes
    <3> QED
      BY <2>1, <3>1, <3>2, WriteFrameInv
  <2>3. CASE NewDistance \notin 0 .. MaxSame
    <3>1. WriteFrame("same_extended", Uoffset(NewDistance))
      BY <1>1, <2>3 DEF SameFrame
    <3>2. "same_extended" \in FrameTypes \ {"reserved"} /\ "same_extended" \notin ShortTypes
      BY DEF FrameTypes, ShortTypes, OffsetTypes
    <3>3. Plainly("same_extended") = Plainly(InputFrame.type)
      BY <2>1 DEF Plainly
    <3> QED
      BY <2>1, <3>1, <3>2, <3>3, WriteFrameInv
  <2> QED
    BY <2>2, <2>3
<1>2. CASE SameLocals1Frame
  <2>1. AtFrame(InputFrame.type) /\ InputFrame.type = "same_locals_1"
    BY <1>2 DEF SameLocals1Frame, AtFrame
  <2>2. CASE NewDistance \in 0 .. MaxSame
    <3>1. WriteFrame("same_locals_1", <<NewDistance>>) /\ NewDistance <= MaxSame
      BY <1>2, <2>2, FrameLimitsAssumption DEF SameLocals1Frame
    <3>2. "same_locals_1" \in FrameTypes \ {"reserved"}
      BY DEF FrameTypes, ShortTypes, OffsetTypes
    <3> QED
      BY <2>1, <3>1, <3>2, WriteFrameInv
  <2>3. CASE NewDistance \notin 0 .. MaxSame
    <3>1. WriteFrame("same_locals_1_extended", Uoffset(NewDistance))
      BY <1>2, <2>3 DEF SameLocals1Frame
    <3>2. /\ "same_locals_1_extended" \in FrameTypes \ {"reserved"}
          /\ "same_locals_1_extended" \notin ShortTypes
      BY DEF FrameTypes, ShortTypes, OffsetTypes
    <3>3. Plainly("same_locals_1_extended") = Plainly(InputFrame.type)
      BY <2>1 DEF Plainly
    <3> QED
      BY <2>1, <3>1, <3>2, <3>3, WriteFrameInv
  <2> QED
    BY <2>2, <2>3
<1>3. CASE OffsetFrame
  <2>1. PICK type \in OffsetTypes : AtFrame(type) /\ WriteFrame(type, Uoffset(NewDistance))
    BY <1>3 DEF OffsetFrame
  <2>2. InputFrame.type = type /\ AtFrame(InputFrame.type)
    BY <2>1 DEF AtFrame
  <2>3. type \in FrameTypes \ {"reserved"} /\ type \notin ShortTypes
    BY <2>1 DEF FrameTypes, ShortTypes, OffsetTypes
  <2> QED
    BY <2>1, <2>2, <2>3, WriteFrameInv
<1> QED
  BY <1>1, <1>2, <1>3

LEMMA CldcFrameInv == ASSUME IInv, FramesInv, CldcFrame PROVE FramesInv'
<1> DEFINE n == Len(newframes) + 1
           offset == Uoffset(method_code_map(InputFrame.offset))
           r == [type |-> InputFrame.type, offset |-> offset,
                 types |-> copy_verification_types(InputFrame.types)]
<1>1. /\ TypeInv /\ MethodInv /\ MethodFrames /\ N \in Nat
      /\ Len(newframes) \in Nat /\ Len(method.frames) \in Nat
  BY Basics
<1>2. /\ stage = "frames" /\ Len(newframes) < Len(method.frames)
      /\ method.attribute = "StackMap" /\ newframes' = Append(newframes, r)
      /\ UNCHANGED rewriter /\ UNCHANGED <<stage, last_pc, last_new_pc, delta_adj>>
  BY DEF CldcFrame
<1>3. n \in 1 .. Len(method.frames) /\ InputFrame = method.frames[n]
  BY <1>1, <1>2 DEF InputFrame
<1>4. /\ InputFrame.at \in 1 .. N /\ InputFrame.type = "full"
      /\ InputFrame.offset = method.at[InputFrame.at]
  BY <1>1, <1>2, <1>3 DEF MethodFrames
<1>5. offset = Uoffset(NewOffset(n))
  <2>1. InputFrame.at \in 1 .. N + 1 /\ map[InputFrame.at] \in Int
    BY <1>1, <1>4, MapTyped
  <2>2. method_code_map(InputFrame.offset) = map[InputFrame.at]
    BY <1>1, <1>4, <2>1, CodeMap
  <2>3. NewOffset(n) = map[InputFrame.at] - 0
    BY <1>2, <1>3 DEF NewOffset
  <2>4. NewOffset(n) = map[InputFrame.at]
    BY <2>1, <2>3
  <2> QED
    BY <2>2, <2>4
<1>6. r \in FrameRecords
  <2>1. copy_verification_types(InputFrame.types) \in Seq([tag : VerificationTags, offset : Int])
    BY <1>1, <1>3, CopiedTypes
  <2>2. offset \in Seq(Int)
    BY <1>1, <1>3, <1>5, OffsetTyped
  <2> HIDE DEF offset
  <2> QED
    BY <1>4, <2>1, <2>2 DEF FrameRecords, FrameTypes, OffsetTypes
<1>7. Fits(r, n)
  BY <1>3, <1>4, <1>5 DEF Fits, ShortTypes
<1> HIDE DEF r
<1>8. OutputInv' /\ Len(newframes') = n /\ newframes' # <<>>
  BY <1>2, <1>6, <1>7, FrameAdded
<1>9. method' = method /\ map' = map /\ phase' = phase
  BY <1>2, SameFrames
<1>10. CursorInv'
  BY <1>2, <1>9 DEF FramesInv, CursorInv
<1>11. StageInv'
  BY <1>2, <1>9 DEF FramesInv, StageInv
<1>12. GrownInv'
  <2>1. /\ UoffsetGrowth \in Nat /\ TypesGrowth(InputFrame.types) \in Nat
        /\ grown' = grown + UoffsetGrowth + TypesGrowth(InputFrame.types)
    BY <1>1, <1>3, Growth DEF CldcFrame
  <2> QED
    BY <2>1 DEF FramesInv, GrownInv
<1> QED
  BY <1>8, <1>10, <1>11, <1>12 DEF FramesInv

(* The steps that write no frame. *)
LEMMA OtherStepInv ==
  ASSUME IInv, FramesInv, UNCHANGED <<rewriter, last_pc, last_new_pc, delta_adj, newframes>>,
         StageInv', GrownInv'
  PROVE  FramesInv'
<1>1. UNCHANGED rewriter
  OBVIOUS
<1>2. method' = method /\ map' = map
  BY <1>1, SameFrames
<1>3. CursorInv'
  BY <1>2 DEF FramesInv, CursorInv
<1>4. \A i \in 1 .. Len(newframes) : Fits(newframes[i], i)'
  BY <1>1, StillFits DEF FramesInv, OutputInv
<1>5. OutputInv'
  BY <1>2, <1>4 DEF FramesInv, OutputInv, FrameRecords
<1> QED
  BY <1>3, <1>5 DEF FramesInv

LEMMA CodeStepInv == ASSUME IInv, FramesInv, Next, UNCHANGED framing PROVE FramesInv'
<1>1. stage = "code"
  <2>1. phase # "done"
    BY DEF Next, EntryInjection, InjectForOpcode, InjectionsDone, AdjustInstruction,
           AdjustmentsDone, WriteInstruction, CodeWritten
  <2> QED
    BY <2>1 DEF FramesInv, StageInv
<1>2. UNCHANGED <<stage, last_pc, last_new_pc, delta_adj, newframes, grown, method>>
  BY DEF framing, Next, EntryInjection, InjectForOpcode, InjectionsDone, AdjustInstruction,
         AdjustmentsDone, WriteInstruction, CodeWritten
<1>3. newframes = <<>> /\ newframes' = <<>> /\ Len(newframes) = 0
  BY <1>1, <1>2, EmptySeq DEF FramesInv, StageInv
<1>4. StageInv'
  BY <1>1, <1>2, <1>3 DEF StageInv
<1>5. CursorInv'
  BY <1>2, <1>3 DEF FramesInv, CursorInv
<1>6. OutputInv'
  <2>1. newframes' \in Seq(FrameRecords) /\ Len(newframes') = 0 /\ Len(method.frames) \in Nat
    BY <1>3, Basics, EmptySeq
  <2> QED
    BY <1>2, <2>1 DEF OutputInv, FrameRecords
<1>7. GrownInv'
  BY <1>2 DEF FramesInv, GrownInv
<1> QED
  BY <1>4, <1>5, <1>6, <1>7 DEF FramesInv

(* The inductive invariant of the frames. *)
THEOREM FramesInvariance == FramesSpec => [](IInv /\ FramesInv)
<1>1. FramesSpec => []IInv
  BY RewriterInside, Invariance, PTL
<1>2. FramesInit /\ IInv => FramesInv
  <2> SUFFICES ASSUME FramesInit, IInv
               PROVE  FramesInv
    OBVIOUS
  <2>1. MethodFrames
    BY FramesFacts DEF IInv, TypeInv
  <2>2. /\ newframes = <<>> /\ Len(newframes) = 0 /\ <<>> \in Seq(FrameRecords)
        /\ Len(method.frames) \in Nat
    BY <2>1, EmptySeq DEF FramesInit, MethodFrames
  <2> QED
    BY <2>2 DEF FramesInit, FramesInv, StageInv, CursorInv, OutputInv, GrownInv
<1>3. IInv /\ FramesInv /\ [FramesNext]_stackmaps => FramesInv'
  <2> SUFFICES ASSUME IInv, FramesInv, [FramesNext]_stackmaps
               PROVE  FramesInv'
    OBVIOUS
  <2>1. CASE Next /\ UNCHANGED framing
    BY <2>1, CodeStepInv
  <2>2. CASE FramesBegin
    <3>1. UNCHANGED <<rewriter, last_pc, last_new_pc, delta_adj, newframes>>
      BY <2>2 DEF FramesBegin
    <3>2. StageInv'
      BY <2>2, <3>1 DEF FramesBegin, FramesInv, StageInv, rewriter
    <3>3. GrownInv'
      BY <2>2 DEF FramesBegin, GrownInv, UoffsetGrowth
    <3> QED
      BY <3>1, <3>2, <3>3, OtherStepInv
  <2>3. CASE FramesDone
    <3>1. UNCHANGED <<rewriter, last_pc, last_new_pc, delta_adj, newframes>>
      BY <2>3 DEF FramesDone
    <3>2. stage' = "end" /\ grown' = grown
      BY <2>3 DEF FramesDone, FramesInv, GrownInv
    <3>3. StageInv'
      BY <2>3, <3>1, <3>2 DEF FramesDone, FramesInv, StageInv, rewriter
    <3>4. GrownInv'
      BY <3>2 DEF FramesInv, GrownInv
    <3> QED
      BY <3>1, <3>3, <3>4, OtherStepInv
  <2>4. CASE ReservedFrame
    <3>1. UNCHANGED <<rewriter, last_pc, last_new_pc, delta_adj, newframes>>
      BY <2>4 DEF ReservedFrame, AtFrame, FatalFrame
    <3>2. StageInv'
      BY <2>4, <3>1
         DEF ReservedFrame, AtFrame, FatalFrame, FramesInv, StageInv, rewriter, InputFrame
    <3>3. GrownInv'
      BY <2>4 DEF ReservedFrame, FatalFrame, FramesInv, GrownInv
    <3> QED
      BY <3>1, <3>2, <3>3, OtherStepInv
  <2>5. CASE SameFrame \/ SameLocals1Frame \/ OffsetFrame
    BY <2>5, FrameStepInv
  <2>6. CASE CldcFrame
    BY <2>6, CldcFrameInv
  <2>7. CASE UNCHANGED stackmaps
    <3>1. UNCHANGED <<rewriter, stage, last_pc, last_new_pc, delta_adj, newframes, grown>>
      BY <2>7 DEF stackmaps, framing
    <3>2. StageInv'
      BY <3>1 DEF FramesInv, StageInv, rewriter, InputFrame
    <3>3. GrownInv'
      BY <3>1 DEF FramesInv, GrownInv
    <3> QED
      BY <3>1, <3>2, <3>3, OtherStepInv
  <2> QED
    BY <2>1, <2>2, <2>3, <2>4, <2>5, <2>6, <2>7 DEF FramesNext
<1> QED
  BY <1>1, <1>2, <1>3, PTL DEF FramesSpec

-----------------------------------------------------------------------------
(***************************************************************************)
(* The properties.                                                         *)
(***************************************************************************)
(* The variables have their types: the running positions stay inside the two *)
(* codes, delta_adj tells the first frame from the others, and no frame goes  *)
(* out with a reserved type.                                                  *)
THEOREM FramesTypeCorrect == FramesSpec => []FramesTypeOK
<1>1. FramesSpec => []TypeOK
  BY RewriterInside, TypeCorrect, PTL
<1>2. ASSUME IInv, FramesInv, TypeOK
      PROVE  FramesTypeOK
  <2>1. /\ TypeInv /\ MethodInv /\ MethodFrames /\ N \in Nat
        /\ Len(newframes) \in Nat /\ Len(method.frames) \in Nat
        /\ newframes \in Seq(FrameRecords)
        /\ newframes = <<>> <=> Len(newframes) = 0
    BY <1>2, Basics
  <2>2. out \in Nat /\ method.at[N + 1] \in Nat
    <3>1. N + 1 \in 1 .. N + 1
      BY <2>1
    <3> QED
      BY <1>2, <2>1, <3>1 DEF TypeOK, MethodInv
  <2>3. Len(newframes) \in 0 .. Len(method.frames)
    BY <1>2, <2>1 DEF FramesInv, OutputInv
  <2>4. ASSUME NEW i \in 1 .. Len(newframes)
        PROVE  newframes[i].type \in FrameTypes \ {"reserved"}
    <3>1. newframes[i] \in FrameRecords
      BY <2>1, ElementOfSeq
    <3>2. newframes[i].type # "reserved"
      BY <1>2 DEF FramesInv, OutputInv, Fits
    <3> QED
      BY <3>1, <3>2 DEF FrameRecords
  <2>5. /\ last_pc \in 0 .. method.at[N + 1]
        /\ stage = "code" => last_new_pc = 0
        /\ stage # "code" => last_new_pc \in 0 .. out
        /\ delta_adj = IF last_pc = 0 /\ last_new_pc = 0 /\ newframes = <<>> THEN 0
                       ELSE IF method.attribute = "StackMap" THEN 0 ELSE 1
    <3>1. CASE newframes = <<>> \/ method.attribute = "StackMap"
      <4>1. last_pc = 0 /\ last_new_pc = 0 /\ delta_adj = 0
        BY <1>2, <3>1 DEF FramesInv, CursorInv
      <4> QED
        BY <2>2, <3>1, <4>1
    <3>2. CASE ~ (newframes = <<>> \/ method.attribute = "StackMap")
      <4> DEFINE k == method.frames[Len(newframes)].at
      <4>1. last_pc = method.at[k] /\ last_new_pc = map[k] /\ delta_adj = 1
        BY <1>2, <3>2 DEF FramesInv, CursorInv
      <4>2. k \in 1 .. N
        <5>1. Len(newframes) \in 1 .. Len(method.frames)
          BY <2>1, <2>3, <3>2
        <5> QED
          BY <2>1, <5>1 DEF MethodFrames
      <4>3. phase = "done" /\ stage # "code"
        BY <1>2, <3>2 DEF FramesInv, StageInv
      <4> HIDE DEF k
      <4>4. /\ map[k] \in Int /\ 0 <= map[k] /\ map[k] <= out
            /\ method.at[k] \in Nat /\ method.at[k] <= method.at[N + 1]
        BY <1>2, <4>2, <4>3, InsideCode
      <4>5. last_pc \in 0 .. method.at[N + 1] /\ last_new_pc \in 0 .. out
        BY <2>2, <4>1, <4>4
      <4> QED
        BY <3>2, <4>1, <4>3, <4>5
    <3> QED
      BY <3>1, <3>2
  <2> QED
    BY <1>2, <2>3, <2>4, <2>5 DEF FramesInv, StageInv, FramesTypeOK
<1>3. IInv /\ FramesInv /\ TypeOK => FramesTypeOK
  BY <1>2
<1> QED
  BY <1>1, <1>3, FramesInvariance, PTL

(* Only a frame of a reserved type stops the JVM: the write pass meets no     *)
(* widening it does not know, and of the assertions on the stack maps, that   *)
(* distances are not negative (1868, 1869), that positions stay inside the    *)
(* old and the new code (1872, 1873) and that the attribute does not shrink   *)
(* (1881, 1924), none fails.  The assertions on the sizes of the two images   *)
(* (CRW_ASSERT_CI) are not among them.                                        *)
THEOREM OnlyReservedIsFatal ==
  FramesSpec => [](phase # "fatal" /\ (stage = "fatal" => InputFrame.type = "reserved"))
<1>1. FramesInv => (stage = "fatal" => InputFrame.type = "reserved")
  BY DEF FramesInv, StageInv
<1>2. IInv => phase # "fatal"
  BY DEF IInv, TypeInv
<1> QED
  BY <1>1, <1>2, FramesInvariance, PTL

(* In code that needs no wide offsets every frame has one offset. *)
LEMMA OneOffset ==
  ASSUME IInv, FramesInv, out <= MaxU2, NEW i \in 1 .. Len(newframes)
  PROVE  Fits(newframes[i], i) /\ newframes[i].offset = <<NewOffset(i)>>
<1>1. out \in Int
  BY DEF IInv, TypeInv
<1>2. ~ (out > MaxU2)
  BY <1>1, FrameLimitsAssumption
<1>3. Uoffset(NewOffset(i)) = <<NewOffset(i)>>
  BY <1>2 DEF Uoffset
<1> QED
  BY <1>3 DEF FramesInv, OutputInv, Fits

(* The verifier finds each frame where branches to its instruction now land,  *)
(* in an encoding that holds the distance, with the same types; and an object *)
(* that is not initialized yet is still named by the new instruction itself.  *)
THEOREM FramesFollowCode == FramesSpec => []FramesKept
<1>1. ASSUME IInv, FramesInv, stage = "end", out <= MaxU2, NEW i \in 1 .. Len(method.frames)
      PROVE  LET old == method.frames[i]
                 new == newframes[i]
             IN  /\ Plainly(new.type) = Plainly(old.type)
                 /\ new.offset = <<ReadAt(i)>>
                 /\ new.type \in ShortTypes /\ method.attribute = "StackMapTable" =>
                      new.offset[1] <= MaxSame
                 /\ \A j \in DOMAIN old.types :
                      IF old.types[j].tag = "Uninitialized"
                      THEN \E k \in 1 .. N : /\ method.at[k] = old.types[j].offset
                                             /\ new.types[j].offset = written[k].op
                      ELSE new.types[j] = old.types[j]
  <2> DEFINE old == method.frames[i]
             new == newframes[i]
  <2>1. phase = "done" /\ Len(newframes) = Len(method.frames)
    BY <1>1 DEF FramesInv, StageInv
  <2>2. /\ TypeInv /\ MethodInv /\ MethodFrames /\ N \in Nat /\ Len(written) = N
        /\ Len(method.frames) \in Nat
    BY <1>1, <2>1, CodeDone, Basics
  <2>3. i \in 1 .. Len(newframes)
    BY <2>1
  <2>4. Fits(new, i) /\ new.offset = <<NewOffset(i)>>
    BY <1>1, <2>3, OneOffset
  <2>5. ReadAt(i) = NewOffset(i)
    <3>1. old.at \in 1 .. N /\ (i > 1 => method.frames[i - 1].at \in 1 .. N)
      BY <2>2 DEF MethodFrames
    <3>2. LandingPoint(old.at) = map[old.at]
      BY <1>1, <2>1, <3>1, LandsAt
    <3>3. CASE i = 1 \/ method.attribute = "StackMap"
      BY <3>2, <3>3 DEF ReadAt, NewOffset
    <3>4. CASE ~ (i = 1 \/ method.attribute = "StackMap")
      <4>1. i > 1
        BY <2>2, <3>4
      <4>2. LandingPoint(method.frames[i - 1].at) = map[method.frames[i - 1].at]
        BY <1>1, <2>1, <3>1, <4>1, LandsAt
      <4> QED
        BY <3>2, <3>4, <4>2 DEF ReadAt, NewOffset
    <3> QED
      BY <3>3, <3>4
  <2>6. ASSUME NEW j \in DOMAIN old.types
        PROVE  IF old.types[j].tag = "Uninitialized"
               THEN \E k \in 1 .. N : /\ method.at[k] = old.types[j].offset
                                      /\ new.types[j].offset = written[k].op
               ELSE new.types[j] = old.types[j]
    <3>1. new.types = copy_verification_types(old.types)
      BY <2>4 DEF Fits
    <3>2. CASE old.types[j].tag = "Uninitialized"
      <4>1. PICK k \in 1 .. N : /\ Instr(k).op = "plain"
                                /\ method.at[k] = old.types[j].offset
                                /\ new.types[j].offset = map[k]
        BY <2>2, <3>1, <3>2, CopiedTypes
      <4>2. written[k].op = map[k]
        <5>1. written[k].op = OpAt(k) /\ map[k] = OpAt(k) - Len(BeforeCode(k)) * TemplateLength
          BY <1>1, <2>2, WrittenFacts
        <5>2. BeforeCode(k) = <<>>
          BY <4>1 DEF BeforeCode, IsReturn
        <5>3. Len(BeforeCode(k)) * TemplateLength = 0
          BY <2>2, <5>2, TemplateFacts, EmptySeq
        <5>4. OpAt(k) \in Int
          BY <1>1, <2>1, MapRises
        <5> QED
          BY <5>1, <5>3, <5>4
      <4> QED
        BY <3>2, <4>1, <4>2
    <3>3. CASE old.types[j].tag # "Uninitialized"
      BY <2>2, <3>1, <3>3, CopiedTypes
    <3> QED
      BY <3>2, <3>3
  <2>7. new.type \in ShortTypes => new.offset[1] <= MaxSame
    BY <2>4 DEF Fits
  <2>8. Plainly(new.type) = Plainly(old.type)
    BY <2>4 DEF Fits
  <2> QED
    BY <2>4, <2>5, <2>6, <2>7, <2>8
<1>2. IInv /\ FramesInv => FramesKept
  BY <1>1 DEF FramesKept
<1> QED
  BY <1>2, FramesInvariance, PTL

-----------------------------------------------------------------------------
(***************************************************************************)
(* Adding up the distances.                                                *)
(***************************************************************************)
\* The frames' positions in the new code, without adding anything up.
MappedAt == [i \in 1 .. Len(newframes) |-> map[method.frames[i].at]]

(* Whoever adds up the distances finds the positions of the map: the function *)
(* MappedAt solves NewPosition's equation, and any other solution would first *)
(* differ at some frame whose predecessor is right.                           *)
LEMMA PositionsAddUp ==
  ASSUME IInv, FramesInv, stage = "end", out <= MaxU2
  PROVE  NewPosition = MappedAt
<1> DEFINE Step(p, i) == newframes[i].offset[1]
                          + IF i = 1 \/ method.attribute = "StackMap" THEN 0 ELSE p[i - 1] + 1
           Solves(p) == p = [i \in 1 .. Len(newframes) |-> Step(p, i)]
<1>1. /\ phase = "done" /\ Len(newframes) = Len(method.frames)
      /\ TypeInv /\ MethodInv /\ MethodFrames /\ N \in Nat
      /\ Len(newframes) \in Nat
  BY CodeDone, Basics DEF FramesInv, StageInv
<1>2. ASSUME NEW i \in 1 .. Len(newframes)
      PROVE  newframes[i].offset[1] = NewOffset(i)
  BY OneOffset
<1>3. ASSUME NEW i \in 1 .. Len(newframes)
      PROVE  /\ MappedAt[i] \in Int
             /\ i > 1 => i - 1 \in 1 .. Len(newframes) /\ MappedAt[i - 1] \in Int
             /\ MappedAt[i] = Step(MappedAt, i)
  <2>1. map[method.frames[i].at] \in Int /\ MappedAt[i] = map[method.frames[i].at]
    BY <1>1, MapTyped DEF MappedAt, MethodFrames
  <2>2. CASE i = 1 \/ method.attribute = "StackMap"
    <3>1. NewOffset(i) = map[method.frames[i].at] - 0
      BY <2>2 DEF NewOffset
    <3>2. Step(MappedAt, i) = NewOffset(i) + 0
      BY <1>2, <2>2
    <3>3. Step(MappedAt, i) = MappedAt[i]
      BY <2>1, <3>1, <3>2
    <3>4. ASSUME i > 1
          PROVE  i - 1 \in 1 .. Len(newframes) /\ MappedAt[i - 1] \in Int
      <4>1. i - 1 \in 1 .. Len(newframes)
        BY <1>1, <3>4
      <4> QED
        BY <1>1, <4>1, MapTyped DEF MappedAt, MethodFrames
    <3> QED
      BY <2>1, <3>3, <3>4
  <2>3. CASE ~ (i = 1 \/ method.attribute = "StackMap")
    <3>1. i > 1 /\ i - 1 \in 1 .. Len(newframes)
      BY <1>1, <2>3
    <3>2. MappedAt[i - 1] = map[method.frames[i - 1].at] /\ MappedAt[i - 1] \in Int
      BY <1>1, <3>1, MapTyped DEF MappedAt, MethodFrames
    <3>3. NewOffset(i) = map[method.frames[i].at] - (MappedAt[i - 1] + 1)
      BY <2>3, <3>2 DEF NewOffset
    <3>4. Step(MappedAt, i) = NewOffset(i) + (MappedAt[i - 1] + 1)
      BY <1>2, <2>3
    <3>5. Step(MappedAt, i) = MappedAt[i]
      <4> HIDE DEF Step
      <4> QED
        BY <2>1, <3>2, <3>3, <3>4
    <3> QED
      BY <2>1, <3>1, <3>2, <3>5
  <2> QED
    BY <2>2, <2>3
<1>4. Solves(MappedAt)
  <2>1. MappedAt = [i \in 1 .. Len(newframes) |-> MappedAt[i]]
    BY DEF MappedAt
  <2> QED
    BY <1>3, <2>1
<1>5. NewPosition = CHOOSE p : Solves(p)
  BY DEF NewPosition
<1>6. Solves(NewPosition)
  <2> HIDE DEF Solves
  <2> QED
    BY <1>4, <1>5
<1> DEFINE Wrong == {i \in 1 .. Len(newframes) : NewPosition[i] # MappedAt[i]}
<1>7. Wrong = {}
  <2> SUFFICES ASSUME Wrong # {}
               PROVE  FALSE
    OBVIOUS
  <2>1. Wrong \subseteq Nat
    BY <1>1
  <2>2. PICK i \in Wrong : \A j \in Wrong : i <= j
    <3> HIDE DEF Wrong
    <3> QED
      BY <2>1, LeastNatural
  <2>3. i \in 1 .. Len(newframes) /\ NewPosition[i] # MappedAt[i]
    BY <2>2
  <2>4. NewPosition[i] = Step(NewPosition, i)
    BY <1>6, <2>3
  <2>5. i > 1 => NewPosition[i - 1] = MappedAt[i - 1]
    <3>1. ASSUME i > 1
          PROVE  i - 1 \in 1 .. Len(newframes) /\ ~ (i <= i - 1)
      BY <1>1, <2>3, <3>1
    <3> QED
      BY <2>2, <3>1
  <2>6. i = 1 \/ i > 1
    BY <1>1, <2>3
  <2>7. Step(NewPosition, i) = Step(MappedAt, i)
    BY <2>5, <2>6
  <2> QED
    BY <1>3, <2>3, <2>4, <2>7
<1>8. NewPosition = [i \in 1 .. Len(newframes) |-> NewPosition[i]]
  BY <1>6
<1> QED
  BY <1>7, <1>8 DEF MappedAt

(* A method that had a frame for each basic block still has one where the new *)
(* code needs it, as long as no if was widened.                               *)
THEOREM BlocksStayFramed == FramesSpec => []BlocksFramed
<1>1. ASSUME IInv, FramesInv, stage = "end", out <= MaxU2,
             NeedsFrames(method) \subseteq FramesAt(method),
             \A k \in 1 .. N : Instr(k).op = "if" => widening[k] = 0
      PROVE  NewNeedsFrames \subseteq NewFramesAt
  <2>1. phase = "done" /\ Len(newframes) = Len(method.frames)
    BY <1>1 DEF FramesInv, StageInv
  <2>2. /\ TypeInv /\ MethodInv /\ N \in Nat /\ Len(written) = N
    BY <1>1, <2>1, CodeDone
  <2>3. ASSUME NEW place \in NeedsFrames(method)
        PROVE  map[place] \in NewFramesAt
    <3>1. PICK i \in 1 .. Len(method.frames) : place = method.frames[i].at
      BY <1>1, <2>3 DEF FramesAt
    <3>2. NewPosition[i] = map[place]
      BY <1>1, <2>1, <3>1, PositionsAddUp DEF MappedAt
    <3> QED
      BY <2>1, <3>1, <3>2 DEF NewFramesAt
  <2>4. ASSUME NEW k \in 1 .. N, NEW t \in DOMAIN Instr(k).to
        PROVE  written[k].lands[t] \in NewFramesAt
    <3>1. written[k] = WrittenAt(k)
      BY <1>1, <2>2, WrittenFacts
    <3>2. written[k].lands[t] = Landing(k, OpAt(k), Instr(k).to[t])
      BY <3>1 DEF WrittenAt
    <3>3. written[k].lands[t] = map[Instr(k).to[t]]
      BY <1>1, <2>2, <3>2, BranchLands
    <3>4. Instr(k).to[t] \in BranchTargets(method)
      BY DEF BranchTargets, Instr, N
    <3>5. Instr(k).to[t] \in NeedsFrames(method)
      BY <3>4 DEF NeedsFrames
    <3> QED
      BY <2>3, <3>3, <3>5
  <2>5. ASSUME NEW k \in 1 .. N - 1,
               NeverFallsThrough(Instr(k)) \/ (Instr(k).op = "if" /\ widening[k] = 5)
        PROVE  written[k].end \in NewFramesAt
    <3>1. k \in 1 .. N
      BY <2>2
    <3>2. NeverFallsThrough(Instr(k))
      BY <1>1, <2>5, <3>1
    <3>3. k + 1 \in NeedsFrames(method)
      <4>1. k + 1 \in Unreached(method)
        BY <3>2 DEF Unreached, Instr, N
      <4> QED
        BY <4>1 DEF NeedsFrames
    <3>4. written[k].end = map[k + 1]
      BY <1>1, <2>2, <3>1, WrittenFacts
    <3> QED
      BY <2>3, <3>3, <3>4
  <2>6. NewBranchTargets \subseteq NewFramesAt
    BY <2>4 DEF NewBranchTargets
  <2>7. NewUnreached \subseteq NewFramesAt
    BY <2>5 DEF NewUnreached
  <2>8. NewHandlers \subseteq NewFramesAt
    <3>1. ASSUME NEW e \in method.exceptions
          PROVE  NewExceptionRange(e.first, e.last, e.handler).handler \in NewFramesAt
      <4>1. e.handler \in NeedsFrames(method)
        BY DEF NeedsFrames, Handlers
      <4>2. NewExceptionRange(e.first, e.last, e.handler).handler = map[e.handler]
        BY DEF NewExceptionRange
      <4> QED
        BY <2>3, <4>1, <4>2
    <3> QED
      BY <3>1 DEF NewHandlers
  <2> QED
    BY <2>6, <2>7, <2>8 DEF NewNeedsFrames
<1>2. IInv /\ FramesInv => BlocksFramed
  BY <1>1 DEF BlocksFramed
<1> QED
  BY <1>2, FramesInvariance, PTL
=============================================================================
