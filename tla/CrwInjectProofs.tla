-------------------------- MODULE CrwInjectProofs --------------------------
(***************************************************************************)
(* Proofs about CrwInject, for methods of any length, any MaxDelta and any *)
(* class number.                                                           *)
(*                                                                         *)
(* The three passes never compare notes: the first two move the map, the   *)
(* third writes instruction after instruction.  What holds them together   *)
(* is LayoutInv, by which the map leaves between an instruction and the    *)
(* next one exactly the bytes that the write pass is going to need, and    *)
(* SettledInv, by which no instruction needs another widening when the     *)
(* write pass starts.                                                      *)
(***************************************************************************)
EXTENDS CrwInject, SequenceTheorems, WellFoundedInduction, TLAPS

(* A set of natural numbers has a least element. *)
LEMMA LeastNatural ==
  ASSUME NEW T, T \subseteq Nat, T # {}
  PROVE  \E x \in T : \A y \in T : x <= y
<1> DEFINE R == {ss \in Nat \X Nat : ss[1] < ss[2]}
<1>1. OpToRel(<, Nat) = R
  BY Zenon DEF OpToRel
<1>2. IsWellFoundedOn(R, Nat)
  BY <1>1, NatLessThanWellFounded, Zenon
<1>3. PICK x \in T : \A y \in T : ~ (<<y, x>> \in R)
  <2> HIDE DEF R
  <2> QED
    BY <1>2, WFMin
<1>4. ASSUME NEW y \in T, ~ (x <= y)
      PROVE  FALSE
  <2>1. <<y, x>> \in Nat \X Nat /\ y < x
    BY <1>4
  <2>2. <<y, x>> \in R
    BY <2>1
  <2> QED
    BY <1>3, <2>2
<1> QED
  BY <1>4

(* What rises from each place to the next rises from each place to all later *)
(* ones.                                                                     *)
LEMMA Rises ==
  ASSUME NEW n \in Nat, NEW f \in [1 .. n + 1 -> Int],
         \A k \in 1 .. n : f[k] < f[k + 1]
  PROVE  \A i, j \in 1 .. n + 1 : i < j => f[i] < f[j]
<1> SUFFICES ASSUME NEW i \in 1 .. n + 1, NEW l \in 1 .. n + 1, i < l, ~ (f[i] < f[l])
             PROVE  FALSE
  OBVIOUS
<1> DEFINE Low == {j \in 1 .. n + 1 : i < j /\ ~ (f[i] < f[j])}
<1>1. Low \subseteq Nat /\ Low # {}
  <2>1. l \in Low
    OBVIOUS
  <2>2. Low \subseteq 1 .. n + 1 /\ 1 .. n + 1 \subseteq Nat
    OBVIOUS
  <2> HIDE DEF Low
  <2> QED
    BY <2>1, <2>2
<1>2. PICK j \in Low : \A h \in Low : j <= h
  BY <1>1, LeastNatural
<1>3. j - 1 \in 1 .. n /\ f[j - 1] < f[j]
  <2>1. j - 1 \in 1 .. n /\ (j - 1) + 1 = j
    BY <1>2
  <2> QED
    BY <2>1
<1>4. j - 1 \notin Low
  BY <1>2, <1>3
<1>5. CASE i = j - 1
  BY <1>2, <1>3, <1>5
<1>6. CASE i < j - 1
  <2>1. f[i] < f[j - 1]
    BY <1>3, <1>4, <1>6
  <2>2. f[i] \in Int /\ f[j - 1] \in Int /\ f[j] \in Int /\ ~ (f[i] < f[j])
    BY <1>2, <1>3
  <2> QED
    BY <1>3, <2>1, <2>2
<1> QED
  BY <1>2, <1>3, <1>5, <1>6

-----------------------------------------------------------------------------
(***************************************************************************)
(* The method.                                                             *)
(***************************************************************************)
InputSize(k) == method.at[k + 1] - method.at[k]

\* What the assumption on Methods says of the method being rewritten.
MethodInv ==
  /\ N \in Nat /\ N > 0
  /\ method.at \in [1 .. N + 1 -> Nat] /\ method.at[1] = 0
  /\ method.number \in Nat /\ method.object_init_method \in BOOLEAN
  /\ \A k \in 1 .. N :
       /\ Instr(k).op \in Ops
       /\ Instr(k).len \in Nat \ {0}
       /\ Instr(k).to \in Seq(1 .. N)
       /\ Instr(k).op \in {"plain", "return"} => Instr(k).to = <<>>
       /\ Instr(k).op \in {"goto", "if", "goto_w"} => Len(Instr(k).to) = 1
       /\ IsSwitch(Instr(k)) => Len(Instr(k).to) > 0
       /\ IsShortBranch(k) => Instr(k).len = 3
       /\ Instr(k).op = "goto_w" => Instr(k).len = 5
       /\ method.at[k + 1] = method.at[k] + InputLength(Instr(k), method.at[k])

LEMMA MethodFacts ==
  ASSUME method \in Methods
  PROVE  WellFormed(method) /\ MethodInv
<1>1. WellFormed(method)
  BY MethodsAssumption
<1>2. method.code \in Seq([op : Ops, len : Nat \ {0}, to : Seq(1 .. N)])
  BY <1>1 DEF WellFormed, N
<1>3. N \in Nat /\ N > 0
  BY <1>1, <1>2, LenProperties DEF WellFormed, N
<1>4. ASSUME NEW k \in 1 .. N
      PROVE  Instr(k) \in [op : Ops, len : Nat \ {0}, to : Seq(1 .. N)]
  BY <1>2, ElementOfSeq DEF N, Instr
<1>5. method.at \in [1 .. N + 1 -> Nat] /\ method.at[1] = 0
  BY <1>1 DEF WellFormed, N
<1>6. method.number \in Nat /\ method.object_init_method \in BOOLEAN
  BY <1>1 DEF WellFormed
<1>7. ASSUME NEW k \in 1 .. N
      PROVE  /\ Instr(k).op \in {"plain", "return"} => Instr(k).to = <<>>
             /\ Instr(k).op \in {"goto", "if", "goto_w"} => Len(Instr(k).to) = 1
             /\ IsSwitch(Instr(k)) => Len(Instr(k).to) > 0
             /\ IsShortBranch(k) => Instr(k).len = 3
             /\ Instr(k).op = "goto_w" => Instr(k).len = 5
             /\ method.at[k + 1] = method.at[k] + InputLength(Instr(k), method.at[k])
  BY <1>1 DEF WellFormed, N, Instr, IsShortBranch
<1> QED
  BY <1>1, <1>3, <1>4, <1>5, <1>6, <1>7 DEF MethodInv

(* The operands of a switch are padded by one to four bytes, to a multiple of 4. *)
LEMMA Padding ==
  ASSUME NEW p \in Int
  PROVE  /\ NEXT_4BYTE_BOUNDARY(p) \in Int
         /\ NEXT_4BYTE_BOUNDARY(p) - p \in 1 .. 4
         /\ NEXT_4BYTE_BOUNDARY(p) % 4 = 0
BY DEF NEXT_4BYTE_BOUNDARY

LEMMA SizeFacts ==
  ASSUME MethodInv, NEW k \in 1 .. N
  PROVE  /\ InputSize(k) \in Nat /\ method.at[k] \in Nat /\ method.at[k + 1] \in Nat
         /\ InputSize(k) > 0
         /\ IsSwitch(Instr(k)) =>
              /\ SwitchBody(Instr(k)) \in Nat /\ SwitchBody(Instr(k)) >= 8
              /\ OldPad(k) \in 1 .. 4
              /\ InputSize(k) = OldPad(k) + SwitchBody(Instr(k))
         /\ ~ IsSwitch(Instr(k)) => InputSize(k) = Instr(k).len
<1>1. method.at[k] \in Nat /\ method.at[k + 1] \in Nat
  <2>1. N \in Nat /\ method.at \in [1 .. N + 1 -> Nat]
    BY DEF MethodInv
  <2>2. k \in 1 .. N + 1 /\ k + 1 \in 1 .. N + 1
    BY <2>1
  <2> QED
    BY <2>1, <2>2
<1>2. InputSize(k) = InputLength(Instr(k), method.at[k])
  <2>1. method.at[k + 1] = method.at[k] + InputLength(Instr(k), method.at[k])
    BY DEF MethodInv
  <2>2. InputLength(Instr(k), method.at[k]) \in Int
    <3>1. CASE IsSwitch(Instr(k))
      <4>1. Len(Instr(k).to) \in Nat
        BY <3>1, LenProperties DEF MethodInv
      <4>2. SwitchBody(Instr(k)) \in Int
        BY <4>1 DEF SwitchBody
      <4>3. NEXT_4BYTE_BOUNDARY(method.at[k]) \in Int
        BY <1>1, Padding
      <4> QED
        BY <1>1, <3>1, <4>2, <4>3 DEF InputLength
    <3>2. CASE ~ IsSwitch(Instr(k))
      <4>1. Instr(k).len \in Nat
        BY DEF MethodInv
      <4> QED
        BY <3>2, <4>1 DEF InputLength
    <3> QED
      BY <3>1, <3>2
  <2> QED
    BY <1>1, <2>1, <2>2 DEF InputSize
<1>3. CASE IsSwitch(Instr(k))
  <2>1. Len(Instr(k).to) \in Nat /\ Len(Instr(k).to) > 0
    BY <1>3, LenProperties DEF MethodInv
  <2>2. SwitchBody(Instr(k)) \in Nat /\ SwitchBody(Instr(k)) >= 8
    BY <2>1 DEF SwitchBody
  <2>3. OldPad(k) \in 1 .. 4
    BY <1>1, Padding DEF OldPad
  <2> QED
    BY <1>1, <1>2, <1>3, <2>2, <2>3 DEF InputLength, OldPad
<1>4. CASE ~ IsSwitch(Instr(k))
  BY <1>1, <1>2, <1>4 DEF MethodInv, InputLength
<1> QED
  BY <1>3, <1>4

LEMMA TemplateFacts ==
  ASSUME MethodInv
  PROVE  TemplateLength \in Nat
BY ClassNumberAssumption
   DEF MethodInv, TemplateLength, PushClassLength, PushShortLength, PushPoolLength

(* At most one call is injected at either place, and its length is a number. *)
LEMMA InjectedFacts ==
  ASSUME MethodInv, NEW k \in 1 .. N
  PROVE  /\ Len(EntryCode) \in {0, 1} /\ EntryCode \in Seq({"call", "return"})
         /\ Len(BeforeCode(k)) \in {0, 1} /\ BeforeCode(k) \in Seq({"call", "return"})
         /\ InjectedLength(EntryCode) \in Nat /\ InjectedLength(BeforeCode(k)) \in Nat
         /\ InjectedLength(BeforeCode(k)) = Len(BeforeCode(k)) * TemplateLength
<1>1. Len(EntryCode) \in {0, 1} /\ EntryCode \in Seq({"call", "return"})
  <2>1. EntryCode = <<>> \/ EntryCode = <<"call">>
    BY DEF EntryCode
  <2>2. CASE EntryCode = <<>>
    BY <2>2, EmptySeq
  <2>3. CASE EntryCode = <<"call">>
    BY <2>3
  <2> QED
    BY <2>1, <2>2, <2>3
<1>2. Len(BeforeCode(k)) \in {0, 1} /\ BeforeCode(k) \in Seq({"call", "return"})
  <2>1. BeforeCode(k) = <<>> \/ BeforeCode(k) = <<"return">>
    BY DEF BeforeCode
  <2>2. CASE BeforeCode(k) = <<>>
    BY <2>2, EmptySeq
  <2>3. CASE BeforeCode(k) = <<"return">>
    BY <2>3
  <2> QED
    BY <2>1, <2>2, <2>3
<1>3. InjectedLength(EntryCode) \in Nat
  BY <1>1, TemplateFacts DEF InjectedLength
<1>4. InjectedLength(BeforeCode(k)) \in Nat
  BY <1>2, TemplateFacts DEF InjectedLength
<1> QED
  BY <1>1, <1>2, <1>3, <1>4 DEF InjectedLength

-----------------------------------------------------------------------------
(***************************************************************************)
(* The inductive invariant.                                                *)
(***************************************************************************)
WideningRange(k) ==
  CASE IsSwitch(Instr(k))    -> -3 .. 3
    [] Instr(k).op = "goto"  -> {0, 2}
    [] Instr(k).op = "if"    -> {0, 5}
    [] OTHER                 -> {0}

\* The code in front of instruction k has been injected, and the map moved.
Injected(k) ==
  \/ phase = "inject" /\ k < pos
  \/ phase \in {"adjust", "write", "done"}

Before(k) == IF Injected(k) THEN InjectedLength(BeforeCode(k)) ELSE 0

Records ==
  [start : Int, op : Int, end : Int, lands : Seq(Int), next : Int]

TypeInv ==
  /\ method \in Methods
  /\ phase \in {"entry", "inject", "adjust", "write", "done"}
  /\ pos \in 1 .. N + 1
  /\ phase = "entry" => pos = 1
  /\ phase = "done" => pos = N + 1
  /\ map \in [1 .. N + 1 -> Int]
  /\ widening \in [1 .. N -> -3 .. 5]
  /\ \A k \in 1 .. N : widening[k] \in WideningRange(k)
  /\ phase \in {"entry", "inject"} => \A k \in 1 .. N : widening[k] = 0
  /\ out \in Int
  /\ written \in Seq(Records)

\* Between an instruction and the next one the map leaves what will be written.
LayoutInv ==
  /\ map[1] = IF phase = "entry" THEN 0 ELSE InjectedLength(EntryCode)
  /\ \A k \in 1 .. N : map[k + 1] = map[k] + Before(k) + InputSize(k) + widening[k]

\* How many calls of either kind there are in front of instruction k.
Entries(k) == IF k = 1 /\ phase # "entry" THEN Len(EntryCode) ELSE 0
Returns(k) == IF Injected(k) THEN Len(BeforeCode(k)) ELSE 0

InjectionsInv ==
  /\ injections \in [1 .. N -> Seq({"call", "return"})]
  /\ \A k \in 1 .. N : Len(injections[k]) = Entries(k) + Returns(k)

\* The pass over the branches changes nothing any more behind the input position.
SettledInv ==
  \A k \in 1 .. N :
    (phase = "adjust" /\ k < pos) \/ phase \in {"write", "done"} =>
      widening[k] = WideningNeeded(k)

\* Where the opcode of instruction k goes.
OpAt(k) == map[k] + InjectedLength(BeforeCode(k))

WrittenAt(k) ==
  [start |-> IF k = 1 THEN 0 ELSE map[k], op |-> OpAt(k), end |-> map[k + 1],
   lands |-> [t \in DOMAIN Instr(k).to |-> Landing(k, OpAt(k), Instr(k).to[t])],
   next  |-> FallThrough(k, OpAt(k))]

WrittenInv ==
  IF phase \in {"write", "done"}
  THEN /\ Len(written) = pos - 1
       /\ out = IF pos = 1 THEN 0 ELSE map[pos]
       /\ \A k \in 1 .. pos - 1 : written[k] = WrittenAt(k)
  ELSE written = <<>> /\ out = 0

IInv ==
  /\ TypeInv /\ LayoutInv /\ InjectionsInv /\ SettledInv /\ WrittenInv

LEMMA Method == ASSUME TypeInv PROVE MethodInv
BY MethodFacts DEF TypeInv

LEMMA MapTyped ==
  ASSUME TypeInv
  PROVE  /\ N \in Nat /\ N > 0
         /\ \A k \in 1 .. N + 1 : map[k] \in Int
         /\ \A k \in 1 .. N : map[k] \in Int /\ map[k + 1] \in Int /\ widening[k] \in Int
<1>1. N \in Nat /\ N > 0
  BY Method DEF MethodInv
<1>2. \A k \in 1 .. N + 1 : map[k] \in Int
  BY DEF TypeInv
<1>3. \A k \in 1 .. N : k \in 1 .. N + 1 /\ k + 1 \in 1 .. N + 1
  BY <1>1
<1>4. \A k \in 1 .. N : widening[k] \in Int
  BY DEF TypeInv
<1> QED
  BY <1>1, <1>2, <1>3, <1>4

(* A step that leaves the method alone leaves alone what is computed from it. *)
LEMMA SameMethod ==
  ASSUME UNCHANGED method
  PROVE  /\ N' = N /\ EntryCode' = EntryCode
         /\ InjectedLength(EntryCode)' = InjectedLength(EntryCode)
         /\ \A k : /\ Instr(k)' = Instr(k)
                   /\ InputSize(k)' = InputSize(k)
                   /\ BeforeCode(k)' = BeforeCode(k)
                   /\ InjectedLength(BeforeCode(k))' = InjectedLength(BeforeCode(k))
                   /\ WideningRange(k)' = WideningRange(k)
BY DEF N, EntryCode, Instr, InputSize, BeforeCode, IsReturn, WideningRange, InjectedLength,
       TemplateLength, PushClassLength, PushShortLength, PushPoolLength

(* The widening an instruction is given is one that the write pass knows. *)
LEMMA WideningTyped ==
  ASSUME TypeInv, NEW k \in 1 .. N
  PROVE  /\ WideningNeeded(k) \in WideningRange(k)
         /\ WideningNeeded(k) \in -3 .. 5
<1>1. MethodInv
  BY Method
<1>2. CASE IsSwitch(Instr(k))
  <2>1. OldPad(k) \in 1 .. 4
    BY <1>1, <1>2, SizeFacts
  <2>2. map[k] \in Int
    BY <1>1 DEF TypeInv, MethodInv
  <2>3. NewPad(k) \in 1 .. 4
    BY <2>2, Padding DEF NewPad
  <2> QED
    <3>1. WideningNeeded(k) = NewPad(k) - OldPad(k)
      BY <1>2 DEF WideningNeeded
    <3>2. WideningRange(k) = -3 .. 3
      BY <1>2 DEF WideningRange, IsSwitch
    <3> QED
      BY <2>1, <2>3, <3>1, <3>2
<1>3. CASE ~ IsSwitch(Instr(k))
  <2>1. widening[k] \in WideningRange(k) /\ widening[k] \in -3 .. 5
    BY DEF TypeInv
  <2>2. WideningNeeded(k) \in WideningRange(k)
    BY <1>3, <2>1 DEF WideningNeeded, WideningRange, IsShortBranch, IsSwitch
  <2>3. WideningRange(k) \subseteq -3 .. 5
    BY <1>3 DEF WideningRange
  <2> QED
    BY <2>2, <2>3
<1> QED
  BY <1>2, <1>3

-----------------------------------------------------------------------------
(***************************************************************************)
(* The invariant holds at the start and is kept by every step.             *)
(***************************************************************************)
LEMMA InitInv == ASSUME Init PROVE IInv
<1>1. method \in Methods /\ MethodInv
  BY MethodFacts DEF Init
<1>2. N \in Nat /\ N > 0 /\ map = method.at /\ method.at \in [1 .. N + 1 -> Nat]
  BY <1>1 DEF Init, MethodInv
<1>3. ASSUME NEW k \in 1 .. N
      PROVE  widening[k] \in WideningRange(k) /\ widening[k] = 0
  BY DEF Init, WideningRange
<1>4. TypeInv
  BY <1>1, <1>2, <1>3, EmptySeq DEF Init, TypeInv
<1>5. LayoutInv
  <2>1. ASSUME NEW k \in 1 .. N
        PROVE  map[k + 1] = map[k] + Before(k) + InputSize(k) + widening[k]
    <3>1. k \in 1 .. N + 1 /\ k + 1 \in 1 .. N + 1
      BY <1>2
    <3>2. map[k] \in Nat /\ map[k + 1] \in Nat
      BY <1>2, <3>1
    <3>3. Before(k) = 0
      BY DEF Init, Before, Injected
    <3> QED
      BY <1>2, <1>3, <3>2, <3>3 DEF InputSize
  <2>2. map[1] = 0
    BY <1>1 DEF Init, MethodInv
  <2> QED
    BY <2>1, <2>2 DEF LayoutInv, Init
<1>6. InjectionsInv
  <2>1. <<>> \in Seq({"call", "return"}) /\ Len(<<>>) = 0
    BY EmptySeq
  <2>2. injections = [k \in 1 .. N |-> <<>>] /\ phase = "entry"
    BY DEF Init
  <2>3. \A k \in 1 .. N : Entries(k) = 0 /\ Returns(k) = 0
    BY <2>2 DEF Entries, Returns, Injected
  <2> QED
    BY <2>1, <2>2, <2>3 DEF InjectionsInv
<1>7. SettledInv /\ WrittenInv
  BY DEF Init, SettledInv, WrittenInv
<1> QED
  BY <1>4, <1>5, <1>6, <1>7 DEF IInv

LEMMA EntryInjectionInv == ASSUME IInv, EntryInjection PROVE IInv'
<1>1. TypeInv /\ MethodInv /\ N \in Nat /\ N > 0
  BY Method DEF IInv, MethodInv
<1> DEFINE e == InjectedLength(EntryCode)
<1>2. /\ phase = "entry" /\ phase' = "inject" /\ pos = 1 /\ pos' = pos
      /\ map' = Adjusted(1, e)
      /\ injections' = [injections EXCEPT ![1] = @ \o EntryCode]
      /\ UNCHANGED <<method, widening, out, written>>
  BY <1>1 DEF EntryInjection, TypeInv
<1>3. /\ N' = N /\ InjectedLength(EntryCode)' = e /\ e \in Nat
      /\ \A k : InputSize(k)' = InputSize(k) /\ WideningRange(k)' = WideningRange(k)
  <2>1. 1 \in 1 .. N
    BY <1>1
  <2> QED
    BY <1>1, <1>2, <2>1, SameMethod, InjectedFacts
<1> HIDE DEF e
<1>4. /\ map' \in [1 .. N + 1 -> Int]
      /\ \A j \in 1 .. N + 1 : map'[j] = map[j] + e /\ map[j] \in Int
  <2>1. map \in [1 .. N + 1 -> Int] /\ e \in Int
    BY <1>1, <1>3 DEF TypeInv
  <2>2. /\ Adjusted(1, e) \in [1 .. N + 1 -> Int]
        /\ \A j \in 1 .. N + 1 : Adjusted(1, e)[j] = IF j >= 1 THEN map[j] + e ELSE map[j]
    BY <1>1, <2>1 DEF Adjusted
  <2> QED
    BY <1>2, <2>1, <2>2
<1>5. TypeInv'
  BY <1>1, <1>2, <1>3, <1>4 DEF TypeInv
<1>6. LayoutInv'
  <2>1. map'[1] = e
    BY <1>1, <1>2, <1>3, <1>4 DEF IInv, LayoutInv
  <2>2. ASSUME NEW k \in 1 .. N
        PROVE  map'[k + 1] = map'[k] + Before(k)' + InputSize(k)' + widening'[k]
    <3>1. k \in 1 .. N + 1 /\ k + 1 \in 1 .. N + 1
      BY <1>1
    <3>2. Before(k) = 0 /\ Before(k)' = 0
      BY <1>2 DEF Before, Injected
    <3>3. map[k + 1] = map[k] + Before(k) + InputSize(k) + widening[k]
      BY DEF IInv, LayoutInv
    <3>4. InputSize(k) \in Int /\ widening[k] \in Int
      <4>1. InputSize(k) \in Int
        BY <1>1, SizeFacts
      <4>2. widening[k] \in Int
        BY <1>1 DEF TypeInv
      <4> QED
        BY <4>1, <4>2
    <3> QED
      BY <1>2, <1>3, <1>4, <3>1, <3>2, <3>3, <3>4
  <2> QED
    BY <1>2, <1>3, <2>1, <2>2 DEF LayoutInv
<1>7. InjectionsInv'
  <2>1. ASSUME NEW k \in 1 .. N
        PROVE  /\ injections'[k] \in Seq({"call", "return"})
               /\ Len(injections'[k]) = IF k = 1 THEN Len(EntryCode) ELSE 0
    <3>1. injections[k] \in Seq({"call", "return"}) /\ Len(injections[k]) = 0
      <4>1. Entries(k) = 0 /\ Returns(k) = 0
        BY <1>2 DEF Entries, Returns, Injected
      <4>2. /\ injections[k] \in Seq({"call", "return"})
            /\ Len(injections[k]) = Entries(k) + Returns(k)
        BY DEF IInv, InjectionsInv
      <4> QED
        BY <4>1, <4>2
    <3>2. EntryCode \in Seq({"call", "return"}) /\ Len(EntryCode) \in Nat
      BY <1>1, InjectedFacts
    <3>3. injections'[k] = IF k = 1 THEN injections[k] \o EntryCode ELSE injections[k]
      BY <1>2 DEF IInv, InjectionsInv
    <3> QED
      BY <3>1, <3>2, <3>3, ConcatProperties
  <2>2. injections' \in [1 .. N -> Seq({"call", "return"})]
    BY <1>2, <2>1 DEF IInv, InjectionsInv
  <2>3. ASSUME NEW k \in 1 .. N
        PROVE  Len(injections'[k]) = Entries(k)' + Returns(k)'
    <3>1. Entries(k)' = IF k = 1 THEN Len(EntryCode) ELSE 0
      BY <1>2, SameMethod DEF Entries
    <3>2. Returns(k)' = 0
      BY <1>2 DEF Returns, Injected
    <3>3. Len(EntryCode) \in Nat
      BY <1>1, InjectedFacts
    <3> QED
      BY <2>1, <3>1, <3>2, <3>3
  <2> QED
    BY <1>3, <2>2, <2>3 DEF InjectionsInv
<1>8. SettledInv' /\ WrittenInv'
  BY <1>2 DEF IInv, SettledInv, WrittenInv
<1> QED
  BY <1>5, <1>6, <1>7, <1>8 DEF IInv

LEMMA InjectForOpcodeInv == ASSUME IInv, InjectForOpcode PROVE IInv'
<1>1. TypeInv /\ MethodInv /\ N \in Nat /\ N > 0
  BY Method DEF IInv, MethodInv
<1> DEFINE b == InjectedLength(BeforeCode(pos))
<1>2. /\ phase = "inject" /\ phase' = "inject" /\ pos \in 1 .. N /\ pos' = pos + 1
      /\ map' = Adjusted(pos + 1, b)
      /\ injections' = [injections EXCEPT ![pos] = @ \o BeforeCode(pos)]
      /\ UNCHANGED <<method, widening, out, written>>
  BY <1>1 DEF InjectForOpcode, TypeInv
<1>3. /\ N' = N /\ InjectedLength(EntryCode)' = InjectedLength(EntryCode)
      /\ EntryCode' = EntryCode /\ b \in Nat
      /\ \A k : /\ InputSize(k)' = InputSize(k) /\ WideningRange(k)' = WideningRange(k)
                /\ BeforeCode(k)' = BeforeCode(k)
                /\ InjectedLength(BeforeCode(k))' = InjectedLength(BeforeCode(k))
  BY <1>1, <1>2, SameMethod, InjectedFacts
<1>4. \A k \in 1 .. N : InjectedLength(BeforeCode(k)) \in Nat /\ Len(BeforeCode(k)) \in Nat
  BY <1>1, InjectedFacts
<1>5. /\ map' \in [1 .. N + 1 -> Int]
      /\ \A j \in 1 .. N + 1 : /\ map'[j] = IF j >= pos + 1 THEN map[j] + b ELSE map[j]
                               /\ map[j] \in Int
  <2> HIDE DEF b
  <2>1. map \in [1 .. N + 1 -> Int] /\ b \in Int /\ pos \in Int
    BY <1>1, <1>2, <1>3 DEF TypeInv
  <2>2. /\ Adjusted(pos + 1, b) \in [1 .. N + 1 -> Int]
        /\ \A j \in 1 .. N + 1 :
             Adjusted(pos + 1, b)[j] = IF j >= pos + 1 THEN map[j] + b ELSE map[j]
    BY <1>1, <2>1 DEF Adjusted
  <2> QED
    BY <1>2, <2>1, <2>2
<1>6. TypeInv'
  BY <1>1, <1>2, <1>3, <1>5 DEF TypeInv
<1>7. LayoutInv'
  <2>1. map'[1] = InjectedLength(EntryCode)
    BY <1>1, <1>2, <1>5 DEF IInv, LayoutInv
  <2>2. ASSUME NEW k \in 1 .. N
        PROVE  map'[k + 1] = map'[k] + Before(k)' + InputSize(k)' + widening'[k]
    <3>1. k \in 1 .. N + 1 /\ k + 1 \in 1 .. N + 1 /\ k \in Int /\ pos \in Int
      BY <1>1, <1>2
    <3>2. map[k + 1] = map[k] + Before(k) + InputSize(k) + widening[k]
      BY DEF IInv, LayoutInv
    <3>3. InputSize(k) \in Int
      BY <1>1, SizeFacts
    <3>4. widening[k] \in Int
      BY <1>1 DEF TypeInv
    <3>5. /\ map'[k] = IF k >= pos + 1 THEN map[k] + b ELSE map[k]
          /\ map'[k + 1] = IF k + 1 >= pos + 1 THEN map[k + 1] + b ELSE map[k + 1]
          /\ map[k] \in Int /\ map[k + 1] \in Int
      BY <1>5, <3>1
    <3>6. CASE k < pos
      <4>1. Before(k)' = Before(k) /\ Before(k) \in Int
        BY <1>2, <1>3, <1>4, <3>1, <3>6 DEF Before, Injected
      <4> QED
        BY <1>2, <1>3, <3>1, <3>2, <3>3, <3>4, <3>5, <3>6, <4>1
    <3>7. CASE k = pos
      <4>1. Before(k)' = b /\ Before(k) = 0
        BY <1>2, <1>3, <3>7 DEF Before, Injected
      <4> HIDE DEF b
      <4> QED
        BY <1>2, <1>3, <3>1, <3>2, <3>3, <3>4, <3>5, <3>7, <4>1
    <3>8. CASE pos < k
      <4>1. Before(k)' = 0 /\ Before(k) = 0
        BY <1>2, <1>3, <3>1, <3>8 DEF Before, Injected
      <4> HIDE DEF b
      <4> QED
        BY <1>2, <1>3, <3>1, <3>2, <3>3, <3>4, <3>5, <3>8, <4>1
    <3> QED
      BY <3>1, <3>6, <3>7, <3>8
  <2> QED
    BY <1>2, <1>3, <2>1, <2>2 DEF LayoutInv
<1>8. InjectionsInv'
  <2>1. injections \in [1 .. N -> Seq({"call", "return"})]
    BY DEF IInv, InjectionsInv
  <2>2. BeforeCode(pos) \in Seq({"call", "return"}) /\ Len(EntryCode) \in Nat
    BY <1>1, <1>2, InjectedFacts
  <2>3. ASSUME NEW k \in 1 .. N
        PROVE  /\ injections'[k] \in Seq({"call", "return"})
               /\ Len(injections'[k]) = IF k = pos THEN Len(injections[k]) + Len(BeforeCode(k))
                                                   ELSE Len(injections[k])
    <3>1. injections'[k] = IF k = pos THEN injections[k] \o BeforeCode(k) ELSE injections[k]
      BY <1>2, <2>1
    <3> QED
      BY <2>1, <2>2, <3>1, ConcatProperties
  <2>4. injections' \in [1 .. N -> Seq({"call", "return"})]
    BY <1>2, <2>1, <2>3
  <2>5. ASSUME NEW k \in 1 .. N
        PROVE  Len(injections'[k]) = Entries(k)' + Returns(k)'
    <3>1. Len(injections[k]) = Entries(k) + Returns(k)
      BY DEF IInv, InjectionsInv
    <3>2. Entries(k)' = Entries(k) /\ Entries(k) \in Nat
      BY <1>2, <1>3, <2>2 DEF Entries
    <3>3. Returns(k)' = IF k = pos THEN Len(BeforeCode(k)) ELSE Returns(k)
      BY <1>2, <1>3 DEF Returns, Injected
    <3>4. k = pos => Returns(k) = 0
      BY <1>2 DEF Returns, Injected
    <3>5. Returns(k) \in Nat /\ Len(BeforeCode(k)) \in Nat
      BY <1>4 DEF Returns
    <3> QED
      BY <2>3, <3>1, <3>2, <3>3, <3>4, <3>5
  <2> QED
    BY <1>3, <2>4, <2>5 DEF InjectionsInv
<1>9. SettledInv' /\ WrittenInv'
  BY <1>2 DEF IInv, SettledInv, WrittenInv
<1> QED
  BY <1>6, <1>7, <1>8, <1>9 DEF IInv

LEMMA InjectionsDoneInv == ASSUME IInv, InjectionsDone PROVE IInv'
<1>1. TypeInv /\ MethodInv /\ N \in Nat /\ N > 0
  BY Method DEF IInv, MethodInv
<1>2. /\ phase = "inject" /\ phase' = "adjust" /\ pos = N + 1 /\ pos' = 1
      /\ UNCHANGED <<method, map, widening, injections, out, written>>
  BY <1>1 DEF InjectionsDone, TypeInv
<1>3. /\ N' = N /\ InjectedLength(EntryCode)' = InjectedLength(EntryCode)
      /\ EntryCode' = EntryCode
      /\ \A k : /\ InputSize(k)' = InputSize(k) /\ WideningRange(k)' = WideningRange(k)
                /\ BeforeCode(k)' = BeforeCode(k)
                /\ InjectedLength(BeforeCode(k))' = InjectedLength(BeforeCode(k))
  BY <1>2, SameMethod
<1>4. \A k \in 1 .. N : Injected(k) /\ Injected(k)'
  BY <1>1, <1>2, <1>3 DEF Injected
<1>5. TypeInv'
  BY <1>1, <1>2, <1>3 DEF TypeInv
<1>6. LayoutInv'
  <2>1. \A k \in 1 .. N : Before(k)' = Before(k)
    BY <1>3, <1>4 DEF Before
  <2> QED
    BY <1>2, <1>3, <2>1 DEF IInv, LayoutInv
<1>7. InjectionsInv'
  BY <1>2, <1>3, <1>4 DEF IInv, InjectionsInv, Entries, Returns
<1>8. SettledInv' /\ WrittenInv'
  BY <1>2 DEF IInv, SettledInv, WrittenInv
<1> QED
  BY <1>5, <1>6, <1>7, <1>8 DEF IInv

(* What is computed from the layout stays while the layout does. *)
LEMMA SameLayout ==
  ASSUME UNCHANGED <<method, map, widening>>
  PROVE  \A k : /\ WideningNeeded(k)' = WideningNeeded(k)
                /\ WrittenAt(k)' = WrittenAt(k)
<1>1. UNCHANGED method /\ UNCHANGED map /\ UNCHANGED widening
  OBVIOUS
<1> QED
  BY <1>1
     DEF WideningNeeded, WrittenAt, OpAt, InjectedLength, TemplateLength, PushClassLength,
         PushShortLength, PushPoolLength, BeforeCode, IsReturn, Landing, FallThrough,
         WrittenLength, NewPad, OldPad, NewDelta, IsShortBranch, Instr

LEMMA AdjustInstructionInv == ASSUME IInv, AdjustInstruction PROVE IInv'
<1>1. TypeInv /\ MethodInv /\ N \in Nat /\ N > 0
  BY Method DEF IInv, MethodInv
<1>2. /\ phase = "adjust" /\ phase' = "adjust" /\ pos \in 1 .. N
      /\ UNCHANGED <<method, injections, out, written>>
  BY <1>1 DEF AdjustInstruction, TypeInv
<1>3. /\ N' = N /\ InjectedLength(EntryCode)' = InjectedLength(EntryCode)
      /\ EntryCode' = EntryCode
      /\ \A k : /\ InputSize(k)' = InputSize(k) /\ WideningRange(k)' = WideningRange(k)
                /\ BeforeCode(k)' = BeforeCode(k)
                /\ InjectedLength(BeforeCode(k))' = InjectedLength(BeforeCode(k))
  BY <1>2, SameMethod
<1>4. \A k \in 1 .. N : /\ Injected(k) /\ Injected(k)' /\ Before(k)' = Before(k)
                        /\ Entries(k)' = Entries(k) /\ Returns(k)' = Returns(k)
  BY <1>2, <1>3 DEF Injected, Before, Entries, Returns
<1>5. InjectionsInv'
  BY <1>2, <1>3, <1>4 DEF IInv, InjectionsInv
<1>6. WrittenInv'
  BY <1>2 DEF IInv, WrittenInv
<1>7. CASE WideningNeeded(pos) = widening[pos]
  <2>1. pos' = pos + 1 /\ UNCHANGED <<map, widening>>
    BY <1>7 DEF AdjustInstruction
  <2>2. TypeInv'
    BY <1>1, <1>2, <1>3, <2>1 DEF TypeInv
  <2>3. LayoutInv'
    BY <1>2, <1>3, <1>4, <2>1 DEF IInv, LayoutInv
  <2>4. SettledInv'
    <3>1. \A k : WideningNeeded(k)' = WideningNeeded(k)
      BY <1>2, <2>1, SameLayout
    <3>2. \A k \in 1 .. N : k < pos + 1 => k < pos \/ k = pos
      BY <1>2
    <3> QED
      BY <1>2, <1>3, <1>7, <2>1, <3>1, <3>2 DEF IInv, SettledInv
  <2> QED
    BY <1>5, <1>6, <2>2, <2>3, <2>4 DEF IInv
<1>8. CASE WideningNeeded(pos) # widening[pos]
  <2> DEFINE w == WideningNeeded(pos)
             d == w - widening[pos]
  <2>1. /\ pos' = 1 /\ map' = Adjusted(pos + 1, d)
        /\ widening' = [widening EXCEPT ![pos] = w]
    BY <1>8 DEF AdjustInstruction, Widen
  <2>2. /\ widening \in [1 .. N -> -3 .. 5] /\ w \in WideningRange(pos) /\ w \in -3 .. 5
        /\ d \in Int
    <3>1. widening \in [1 .. N -> -3 .. 5]
      BY <1>1 DEF TypeInv
    <3>2. w \in WideningRange(pos) /\ w \in -3 .. 5
      BY <1>1, <1>2, WideningTyped
    <3> HIDE DEF w
    <3> QED
      BY <1>2, <3>1, <3>2
  <2> HIDE DEF w, d
  <2>3. /\ map' \in [1 .. N + 1 -> Int]
        /\ \A j \in 1 .. N + 1 : /\ map'[j] = IF j >= pos + 1 THEN map[j] + d ELSE map[j]
                                 /\ map[j] \in Int
    <3>1. map \in [1 .. N + 1 -> Int] /\ pos \in Int
      BY <1>1, <1>2 DEF TypeInv
    <3>2. /\ Adjusted(pos + 1, d) \in [1 .. N + 1 -> Int]
          /\ \A j \in 1 .. N + 1 :
               Adjusted(pos + 1, d)[j] = IF j >= pos + 1 THEN map[j] + d ELSE map[j]
      BY <1>1, <2>2, <3>1 DEF Adjusted
    <3> QED
      BY <2>1, <3>1, <3>2
  <2>4. \A k \in 1 .. N : widening'[k] = IF k = pos THEN w ELSE widening[k]
    BY <2>1, <2>2
  <2>5. TypeInv'
    <3>1. widening' \in [1 .. N -> -3 .. 5]
      BY <2>1, <2>2
    <3>2. \A k \in 1 .. N : widening'[k] \in WideningRange(k)'
      BY <1>1, <1>3, <2>2, <2>4 DEF TypeInv
    <3>3. /\ method' \in Methods /\ pos' \in 1 .. N + 1 /\ out' \in Int
          /\ written' \in Seq(Records)
      BY <1>1, <1>2, <2>1 DEF TypeInv
    <3> QED
      BY <1>2, <1>3, <2>3, <3>1, <3>2, <3>3 DEF TypeInv
  <2>6. LayoutInv'
    <3>1. map'[1] = InjectedLength(EntryCode)
      BY <1>1, <1>2, <2>3 DEF IInv, LayoutInv
    <3>2. ASSUME NEW k \in 1 .. N
          PROVE  map'[k + 1] = map'[k] + Before(k)' + InputSize(k)' + widening'[k]
      <4>1. k \in 1 .. N + 1 /\ k + 1 \in 1 .. N + 1 /\ k \in Int /\ pos \in Int
        BY <1>1, <1>2
      <4>2. map[k + 1] = map[k] + Before(k) + InputSize(k) + widening[k]
        BY DEF IInv, LayoutInv
      <4>3. InputSize(k) \in Int
        BY <1>1, SizeFacts
      <4>4. Before(k) \in Int
        BY <1>1, InjectedFacts DEF Before
      <4>5. widening[k] \in Int /\ w \in Int /\ widening[pos] \in Int
        BY <1>2, <2>2
      <4>6. /\ map'[k] = IF k >= pos + 1 THEN map[k] + d ELSE map[k]
            /\ map'[k + 1] = IF k + 1 >= pos + 1 THEN map[k + 1] + d ELSE map[k + 1]
            /\ map[k] \in Int /\ map[k + 1] \in Int
        BY <2>3, <4>1
      <4>7. /\ InputSize(k)' = InputSize(k) /\ Before(k)' = Before(k)
            /\ widening'[k] = IF k = pos THEN w ELSE widening[k]
            /\ d = w - widening[pos]
        BY <1>3, <1>4, <2>4 DEF d
      <4>8. CASE k < pos
        BY <2>2, <4>1, <4>2, <4>3, <4>4, <4>5, <4>6, <4>7, <4>8
      <4>9. CASE k = pos
        BY <2>2, <4>1, <4>2, <4>3, <4>4, <4>5, <4>6, <4>7, <4>9
      <4>10. CASE pos < k
        <5>1. /\ map'[k] = map[k] + d /\ map'[k + 1] = map[k + 1] + d
              /\ widening'[k] = widening[k] /\ map[k] \in Int /\ map[k + 1] \in Int
              /\ InputSize(k)' = InputSize(k) /\ Before(k)' = Before(k)
          BY <4>1, <4>6, <4>7, <4>10
        <5> QED
          BY <2>2, <4>2, <4>3, <4>4, <4>5, <5>1
      <4> QED
        BY <4>1, <4>8, <4>9, <4>10
    <3> QED
      BY <1>2, <1>3, <3>1, <3>2 DEF LayoutInv
  <2>7. SettledInv'
    BY <1>2, <1>3, <2>1 DEF SettledInv
  <2> QED
    BY <1>5, <1>6, <2>5, <2>6, <2>7 DEF IInv
<1> QED
  BY <1>7, <1>8

LEMMA AdjustmentsDoneInv == ASSUME IInv, AdjustmentsDone PROVE IInv'
<1>1. TypeInv /\ MethodInv /\ N \in Nat /\ N > 0
  BY Method DEF IInv, MethodInv
<1>2. /\ phase = "adjust" /\ phase' = "write" /\ pos = N + 1 /\ pos' = 1
      /\ UNCHANGED <<method, map, widening, injections, out, written>>
  BY <1>1 DEF AdjustmentsDone, TypeInv
<1>3. /\ N' = N /\ InjectedLength(EntryCode)' = InjectedLength(EntryCode)
      /\ EntryCode' = EntryCode
      /\ \A k : /\ InputSize(k)' = InputSize(k) /\ WideningRange(k)' = WideningRange(k)
                /\ BeforeCode(k)' = BeforeCode(k)
                /\ InjectedLength(BeforeCode(k))' = InjectedLength(BeforeCode(k))
  BY <1>2, SameMethod
<1>4. \A k \in 1 .. N : /\ Injected(k) /\ Injected(k)' /\ Before(k)' = Before(k)
                        /\ Entries(k)' = Entries(k) /\ Returns(k)' = Returns(k)
  BY <1>2, <1>3 DEF Injected, Before, Entries, Returns
<1>5. TypeInv'
  BY <1>1, <1>2, <1>3 DEF TypeInv
<1>6. LayoutInv'
  BY <1>2, <1>3, <1>4 DEF IInv, LayoutInv
<1>7. InjectionsInv'
  BY <1>2, <1>3, <1>4 DEF IInv, InjectionsInv
<1>8. SettledInv'
  <2>1. \A k : WideningNeeded(k)' = WideningNeeded(k)
    BY <1>2, SameLayout
  <2> QED
    BY <1>1, <1>2, <1>3, <2>1 DEF IInv, SettledInv
<1>9. WrittenInv'
  BY <1>1, <1>2, EmptySeq DEF IInv, WrittenInv
<1> QED
  BY <1>5, <1>6, <1>7, <1>8, <1>9 DEF IInv

(* An instruction with the widening it needs takes, when it is written, the   *)
(* bytes that the map left for it.                                            *)
LEMMA WrittenSize ==
  ASSUME TypeInv, NEW k \in 1 .. N, widening[k] = WideningNeeded(k)
  PROVE  /\ Writable(k)
         /\ WrittenLength(k) = InputSize(k) + widening[k]
         /\ WrittenLength(k) \in Nat /\ WrittenLength(k) > 0
<1>1. MethodInv /\ widening[k] \in WideningRange(k) /\ InputSize(k) \in Nat /\ InputSize(k) > 0
  BY Method, SizeFacts DEF TypeInv
<1>2. CASE IsSwitch(Instr(k))
  <2>1. /\ OldPad(k) \in 1 .. 4 /\ SwitchBody(Instr(k)) \in Nat
        /\ InputSize(k) = OldPad(k) + SwitchBody(Instr(k))
    BY <1>1, <1>2, SizeFacts
  <2>2. map[k] \in Int
    BY <1>1 DEF TypeInv, MethodInv
  <2>3. NewPad(k) \in 1 .. 4
    BY <2>2, Padding DEF NewPad
  <2>4. WrittenLength(k) = NewPad(k) + SwitchBody(Instr(k))
    BY <1>2 DEF WrittenLength, IsShortBranch, IsSwitch
  <2>5. widening[k] = NewPad(k) - OldPad(k)
    BY <1>2 DEF WideningNeeded
  <2>6. Writable(k)
    BY <1>2 DEF Writable, IsShortBranch, IsSwitch
  <2> QED
    BY <2>1, <2>3, <2>4, <2>5, <2>6
<1>3. CASE IsShortBranch(k)
  <2>1. Instr(k).len = 3 /\ ~ IsSwitch(Instr(k)) /\ Instr(k).op \in {"goto", "if"}
    BY <1>1, <1>3 DEF MethodInv, IsShortBranch, IsSwitch
  <2>2. InputSize(k) = 3
    BY <1>1, <2>1, SizeFacts
  <2>3. CASE Instr(k).op = "goto"
    <3>1. WideningRange(k) = {0, 2}
      BY <2>1, <2>3 DEF WideningRange, IsSwitch
    <3>2. widening[k] = 0 \/ widening[k] = 2
      BY <1>1, <3>1
    <3> QED
      BY <1>3, <2>1, <2>2, <2>3, <3>2 DEF WrittenLength, Writable
  <2>4. CASE Instr(k).op = "if"
    <3>1. WideningRange(k) = {0, 5}
      BY <2>1, <2>4 DEF WideningRange, IsSwitch
    <3>2. widening[k] = 0 \/ widening[k] = 5
      BY <1>1, <3>1
    <3> QED
      BY <1>3, <2>1, <2>2, <2>4, <3>2 DEF WrittenLength, Writable
  <2> QED
    BY <2>1, <2>3, <2>4
<1>4. CASE ~ IsSwitch(Instr(k)) /\ ~ IsShortBranch(k)
  <2>1. widening[k] = 0
    BY <1>1, <1>4 DEF WideningRange, IsShortBranch
  <2>2. InputSize(k) = Instr(k).len
    BY <1>1, <1>4, SizeFacts
  <2>3. WrittenLength(k) = Instr(k).len
    BY <1>4 DEF WrittenLength
  <2> QED
    BY <1>1, <1>4, <2>1, <2>2, <2>3 DEF Writable
<1> QED
  BY <1>2, <1>3, <1>4

LEMMA TargetTyped ==
  ASSUME MethodInv, NEW k \in 1 .. N, NEW t \in DOMAIN Instr(k).to
  PROVE  Instr(k).to[t] \in 1 .. N
<1>1. Instr(k).to \in Seq(1 .. N)
  BY DEF MethodInv
<1> QED
  BY <1>1, LenProperties, ElementOfSeq

LEMMA LandingTyped ==
  ASSUME TypeInv, NEW k \in 1 .. N, NEW op \in Int, NEW target \in 1 .. N
  PROVE  Landing(k, op, target) \in Int
<1>1. map[k] \in Int /\ map[target] \in Int
  BY MapTyped
<1>2. NewDelta(k, target) \in Int
  BY <1>1 DEF NewDelta
<1>3. AsShort(NewDelta(k, target)) \in Int
  BY <1>2, MaxDeltaAssumption DEF AsShort
<1> QED
  BY <1>2, <1>3 DEF Landing

(* The record of an instruction that was written where the map has it. *)
LEMMA WrittenAtTyped ==
  ASSUME TypeInv, NEW k \in 1 .. N, widening[k] = WideningNeeded(k)
  PROVE  WrittenAt(k) \in Records
<1>1. MethodInv /\ map[k] \in Int /\ map[k + 1] \in Int
  BY Method, MapTyped
<1>2. OpAt(k) \in Int
  BY <1>1, InjectedFacts DEF OpAt
<1>3. FallThrough(k, OpAt(k)) \in Int
  BY <1>2, WrittenSize DEF FallThrough
<1> DEFINE lands == [t \in DOMAIN Instr(k).to |-> Landing(k, OpAt(k), Instr(k).to[t])]
<1>4. lands \in Seq(Int)
  <2>1. \A t \in DOMAIN Instr(k).to : Landing(k, OpAt(k), Instr(k).to[t]) \in Int
    BY <1>1, <1>2, TargetTyped, LandingTyped
  <2>2. Len(Instr(k).to) \in Nat /\ DOMAIN Instr(k).to = 1 .. Len(Instr(k).to)
    BY <1>1, LenProperties DEF MethodInv
  <2>3. lands \in [1 .. Len(Instr(k).to) -> Int]
    BY <2>1, <2>2
  <2> HIDE DEF lands
  <2> QED
    BY <2>2, <2>3, SeqDef
<1>5. WrittenAt(k) =
        [start |-> IF k = 1 THEN 0 ELSE map[k], op |-> OpAt(k), end |-> map[k + 1],
         lands |-> lands, next |-> FallThrough(k, OpAt(k))]
  BY DEF WrittenAt
<1> HIDE DEF lands
<1> QED
  BY <1>1, <1>2, <1>3, <1>4, <1>5 DEF Records

(* The write pass, which counts its output position by itself, is where the   *)
(* map has the instruction.                                                   *)
LEMMA WriteAgrees ==
  ASSUME IInv, phase = "write", pos \in 1 .. N
  PROVE  /\ WrittenInstr(pos) = WrittenAt(pos)
         /\ Writable(pos) /\ widening[pos] = WideningNeeded(pos)
<1>1. TypeInv /\ MethodInv
  BY Method DEF IInv
<1>2. widening[pos] = WideningNeeded(pos)
  BY DEF IInv, SettledInv
<1>3. /\ Writable(pos) /\ WrittenLength(pos) = InputSize(pos) + widening[pos]
      /\ WrittenLength(pos) \in Nat
  BY <1>1, <1>2, WrittenSize
<1>4. map[pos] \in Int /\ map[1] = InjectedLength(EntryCode)
  BY <1>1 DEF IInv, TypeInv, LayoutInv, MethodInv
<1>5. out = IF pos = 1 THEN 0 ELSE map[pos]
  BY DEF IInv, WrittenInv
<1> DEFINE op == out + InjectedLength(injections[pos])
           e == Len(EntryCode)
           b == Len(BeforeCode(pos))
<1>6. op = OpAt(pos)
  <2>1. Len(injections[pos]) = (IF pos = 1 THEN e ELSE 0) + b
    BY DEF IInv, InjectionsInv, Entries, Returns, Injected
  <2>2. e \in {0, 1} /\ b \in {0, 1} /\ TemplateLength \in Nat
    BY <1>1, InjectedFacts, TemplateFacts
  <2>3. /\ InjectedLength(injections[pos]) = ((IF pos = 1 THEN e ELSE 0) + b) * TemplateLength
        /\ InjectedLength(EntryCode) = e * TemplateLength
        /\ InjectedLength(BeforeCode(pos)) = b * TemplateLength
    BY <2>1 DEF InjectedLength
  <2> HIDE DEF e, b
  <2>4. CASE pos = 1
    <3>1. InjectedLength(injections[pos]) = e * TemplateLength + b * TemplateLength
      BY <2>2, <2>3, <2>4
    <3> QED
      BY <1>4, <1>5, <2>2, <2>3, <2>4, <3>1 DEF OpAt
  <2>5. CASE pos # 1
    <3>1. InjectedLength(injections[pos]) = b * TemplateLength
      BY <2>2, <2>3, <2>5
    <3> QED
      BY <1>5, <2>3, <2>5, <3>1 DEF OpAt
  <2> QED
    BY <2>4, <2>5
<1>7. op + WrittenLength(pos) = map[pos + 1]
  <2>1. map[pos + 1] = map[pos] + Before(pos) + InputSize(pos) + widening[pos]
    BY DEF IInv, LayoutInv
  <2>2. Before(pos) = InjectedLength(BeforeCode(pos)) /\ Before(pos) \in Nat
    BY <1>1, InjectedFacts DEF Before, Injected
  <2>3. InputSize(pos) \in Int
    BY <1>1, SizeFacts
  <2>4. widening[pos] \in Int
    BY <1>1 DEF TypeInv
  <2> HIDE DEF op
  <2> QED
    BY <1>3, <1>4, <1>6, <2>1, <2>2, <2>3, <2>4 DEF OpAt
<1>8. WrittenInstr(pos) =
        [start |-> out, op |-> op, end |-> op + WrittenLength(pos),
         lands |-> [t \in DOMAIN Instr(pos).to |-> Landing(pos, op, Instr(pos).to[t])],
         next  |-> FallThrough(pos, op)]
  BY DEF WrittenInstr
<1> HIDE DEF op
<1> QED
  BY <1>2, <1>3, <1>5, <1>6, <1>7, <1>8 DEF WrittenAt

LEMMA WriteInstructionInv == ASSUME IInv, WriteInstruction PROVE IInv'
<1>1. TypeInv /\ MethodInv /\ N \in Nat /\ N > 0
  BY Method DEF IInv, MethodInv
<1>2. phase = "write" /\ pos \in 1 .. N /\ UNCHANGED <<method, map, widening, injections>>
  BY <1>1 DEF WriteInstruction, TypeInv
<1>3. /\ WrittenInstr(pos) = WrittenAt(pos) /\ Writable(pos)
      /\ widening[pos] = WideningNeeded(pos)
  BY <1>2, WriteAgrees
<1>4. /\ written' = Append(written, WrittenAt(pos)) /\ out' = WrittenAt(pos).end
      /\ pos' = pos + 1 /\ phase' = phase
  BY <1>3 DEF WriteInstruction
<1>5. /\ N' = N /\ InjectedLength(EntryCode)' = InjectedLength(EntryCode)
      /\ EntryCode' = EntryCode
      /\ \A k : /\ InputSize(k)' = InputSize(k) /\ WideningRange(k)' = WideningRange(k)
                /\ BeforeCode(k)' = BeforeCode(k)
                /\ InjectedLength(BeforeCode(k))' = InjectedLength(BeforeCode(k))
  BY <1>2, SameMethod
<1>6. \A k : WideningNeeded(k)' = WideningNeeded(k) /\ WrittenAt(k)' = WrittenAt(k)
  BY <1>2, SameLayout
<1>7. \A k \in 1 .. N : /\ Before(k)' = Before(k)
                        /\ Entries(k)' = Entries(k) /\ Returns(k)' = Returns(k)
  BY <1>2, <1>4, <1>5 DEF Injected, Before, Entries, Returns
<1>8. WrittenAt(pos) \in Records /\ WrittenAt(pos).end = map[pos + 1]
  <2>1. WrittenAt(pos) \in Records
    BY <1>1, <1>2, <1>3, WrittenAtTyped
  <2> QED
    BY <2>1 DEF WrittenAt
<1>9. out' = map[pos + 1] /\ out' \in Int
  BY <1>1, <1>2, <1>4, <1>8, MapTyped
<1>10. /\ written' \in Seq(Records) /\ Len(written') = pos
       /\ \A k \in 1 .. pos : written'[k] = WrittenAt(k)
  <2>1. written \in Seq(Records) /\ Len(written) = pos - 1
    BY <1>1, <1>2 DEF IInv, TypeInv, WrittenInv
  <2>2. \A k \in 1 .. pos - 1 : written[k] = WrittenAt(k)
    BY <1>2 DEF IInv, WrittenInv
  <2>3. /\ written' \in Seq(Records) /\ Len(written') = Len(written) + 1
        /\ \A k \in 1 .. Len(written) : written'[k] = written[k]
        /\ written'[Len(written) + 1] = WrittenAt(pos)
    BY <1>4, <1>8, <2>1, AppendProperties
  <2>4. (pos - 1) + 1 = pos /\ \A k \in 1 .. pos : k \in 1 .. pos - 1 \/ k = pos
    BY <1>2
  <2> QED
    BY <2>1, <2>2, <2>3, <2>4
<1>11. TypeInv'
  <2>1. /\ method' \in Methods /\ pos' \in 1 .. N + 1 /\ widening' \in [1 .. N -> -3 .. 5]
        /\ map' \in [1 .. N + 1 -> Int] /\ \A k \in 1 .. N : widening'[k] \in WideningRange(k)
    BY <1>1, <1>2, <1>4 DEF TypeInv
  <2> QED
    BY <1>2, <1>4, <1>5, <1>9, <1>10, <2>1 DEF TypeInv
<1>12. LayoutInv'
  BY <1>2, <1>4, <1>5, <1>7 DEF IInv, LayoutInv
<1>13. InjectionsInv'
  BY <1>2, <1>5, <1>7 DEF IInv, InjectionsInv
<1>14. SettledInv'
  BY <1>2, <1>4, <1>5, <1>6 DEF IInv, SettledInv
<1>15. WrittenInv'
  <2>1. pos' - 1 = pos /\ pos' # 1
    BY <1>2, <1>4
  <2> QED
    BY <1>2, <1>4, <1>6, <1>9, <1>10, <2>1 DEF WrittenInv
<1> QED
  BY <1>11, <1>12, <1>13, <1>14, <1>15 DEF IInv

LEMMA CodeWrittenInv == ASSUME IInv, CodeWritten PROVE IInv'
<1>1. TypeInv /\ MethodInv /\ N \in Nat /\ N > 0
  BY Method DEF IInv, MethodInv
<1>2. /\ phase = "write" /\ phase' = "done" /\ pos = N + 1
      /\ UNCHANGED <<method, pos, map, widening, injections, out, written>>
  BY <1>1 DEF CodeWritten, TypeInv
<1>3. /\ N' = N /\ InjectedLength(EntryCode)' = InjectedLength(EntryCode)
      /\ EntryCode' = EntryCode
      /\ \A k : /\ InputSize(k)' = InputSize(k) /\ WideningRange(k)' = WideningRange(k)
                /\ BeforeCode(k)' = BeforeCode(k)
                /\ InjectedLength(BeforeCode(k))' = InjectedLength(BeforeCode(k))
  BY <1>2, SameMethod
<1>4. \A k : WideningNeeded(k)' = WideningNeeded(k) /\ WrittenAt(k)' = WrittenAt(k)
  BY <1>2, SameLayout
<1>5. \A k \in 1 .. N : /\ Before(k)' = Before(k)
                        /\ Entries(k)' = Entries(k) /\ Returns(k)' = Returns(k)
  BY <1>2, <1>3 DEF Injected, Before, Entries, Returns
<1>6. TypeInv'
  BY <1>1, <1>2, <1>3 DEF TypeInv
<1>7. LayoutInv'
  BY <1>2, <1>3, <1>5 DEF IInv, LayoutInv
<1>8. InjectionsInv'
  BY <1>2, <1>3, <1>5 DEF IInv, InjectionsInv
<1>9. SettledInv'
  BY <1>2, <1>3, <1>4 DEF IInv, SettledInv
<1>10. WrittenInv'
  BY <1>2, <1>4 DEF IInv, WrittenInv
<1> QED
  BY <1>6, <1>7, <1>8, <1>9, <1>10 DEF IInv

LEMMA StutterInv == ASSUME IInv, UNCHANGED rewriter PROVE IInv'
<1>1. UNCHANGED <<method, phase, pos, map, widening, injections, out, written>>
  BY DEF rewriter
<1>2. /\ N' = N /\ InjectedLength(EntryCode)' = InjectedLength(EntryCode)
      /\ EntryCode' = EntryCode
      /\ \A k : /\ InputSize(k)' = InputSize(k) /\ WideningRange(k)' = WideningRange(k)
                /\ BeforeCode(k)' = BeforeCode(k)
                /\ InjectedLength(BeforeCode(k))' = InjectedLength(BeforeCode(k))
  BY <1>1, SameMethod
<1>3. \A k : WideningNeeded(k)' = WideningNeeded(k) /\ WrittenAt(k)' = WrittenAt(k)
  BY <1>1, SameLayout
<1>4. \A k \in 1 .. N : /\ Before(k)' = Before(k)
                        /\ Entries(k)' = Entries(k) /\ Returns(k)' = Returns(k)
  BY <1>1, <1>2 DEF Injected, Before, Entries, Returns
<1>5. TypeInv'
  BY <1>1, <1>2 DEF IInv, TypeInv
<1>6. LayoutInv'
  BY <1>1, <1>2, <1>4 DEF IInv, LayoutInv
<1>7. InjectionsInv'
  BY <1>1, <1>2, <1>4 DEF IInv, InjectionsInv
<1>8. SettledInv'
  BY <1>1, <1>2, <1>3 DEF IInv, SettledInv
<1>9. WrittenInv'
  BY <1>1, <1>3 DEF IInv, WrittenInv
<1> QED
  BY <1>5, <1>6, <1>7, <1>8, <1>9 DEF IInv

(* The inductive invariant holds in every state of the rewriting. *)
THEOREM Invariance == Spec => []IInv
<1>1. Init => IInv
  BY InitInv
<1>2. IInv /\ [Next]_rewriter => IInv'
  <2> SUFFICES ASSUME IInv, [Next]_rewriter
               PROVE  IInv'
    OBVIOUS
  <2>1. CASE EntryInjection
    BY <2>1, EntryInjectionInv
  <2>2. CASE InjectForOpcode
    BY <2>2, InjectForOpcodeInv
  <2>3. CASE InjectionsDone
    BY <2>3, InjectionsDoneInv
  <2>4. CASE AdjustInstruction
    BY <2>4, AdjustInstructionInv
  <2>5. CASE AdjustmentsDone
    BY <2>5, AdjustmentsDoneInv
  <2>6. CASE WriteInstruction
    BY <2>6, WriteInstructionInv
  <2>7. CASE CodeWritten
    BY <2>7, CodeWrittenInv
  <2>8. CASE UNCHANGED rewriter
    BY <2>8, StutterInv
  <2> QED
    BY <2>1, <2>2, <2>3, <2>4, <2>5, <2>6, <2>7, <2>8 DEF Next
<1> QED
  BY <1>1, <1>2, PTL DEF Spec

-----------------------------------------------------------------------------
(***************************************************************************)
(* What the invariant says of the new code.                                *)
(***************************************************************************)
(* Once the branches are settled the map rises: every instruction ends where  *)
(* the next one begins, and nothing lies in front of the entry code.          *)
LEMMA MapRises ==
  ASSUME IInv, phase \in {"write", "done"}
  PROVE  /\ \A k \in 1 .. N : OpAt(k) \in Int /\ map[k] <= OpAt(k) /\ OpAt(k) < map[k + 1]
         /\ \A i, j \in 1 .. N + 1 : i <= j => map[i] <= map[j]
         /\ \A i \in 1 .. N + 1 : InjectedLength(EntryCode) <= map[i]
         /\ InjectedLength(EntryCode) \in Nat
<1>1. TypeInv /\ MethodInv /\ N \in Nat /\ N > 0 /\ map \in [1 .. N + 1 -> Int]
  BY Method DEF IInv, MethodInv, TypeInv
<1>2. ASSUME NEW k \in 1 .. N
      PROVE  OpAt(k) \in Int /\ map[k] <= OpAt(k) /\ OpAt(k) < map[k + 1]
             /\ map[k] \in Int /\ map[k + 1] \in Int
  <2>1. map[k] \in Int /\ map[k + 1] \in Int
    BY <1>1, MapTyped
  <2>2. InjectedLength(BeforeCode(k)) \in Nat /\ Before(k) = InjectedLength(BeforeCode(k))
    BY <1>1, InjectedFacts DEF Before, Injected
  <2>3. map[k + 1] = map[k] + Before(k) + InputSize(k) + widening[k]
    BY DEF IInv, LayoutInv
  <2>4. /\ WrittenLength(k) = InputSize(k) + widening[k]
        /\ WrittenLength(k) \in Nat /\ WrittenLength(k) > 0
    <3>1. widening[k] = WideningNeeded(k)
      BY DEF IInv, SettledInv
    <3> QED
      BY <1>1, <3>1, WrittenSize
  <2>5. InputSize(k) \in Int
    BY <1>1, SizeFacts
  <2>6. widening[k] \in Int
    BY <1>1, MapTyped
  <2> QED
    BY <2>1, <2>2, <2>3, <2>4, <2>5, <2>6 DEF OpAt
<1>3. \A k \in 1 .. N : map[k] < map[k + 1]
  BY <1>2
<1>4. \A i, j \in 1 .. N + 1 : i < j => map[i] < map[j]
  BY <1>1, <1>3, Rises
<1>5. ASSUME NEW i \in 1 .. N + 1, NEW j \in 1 .. N + 1, i <= j
      PROVE  map[i] <= map[j]
  <2>1. map[i] \in Int /\ map[j] \in Int
    BY <1>1
  <2>2. i < j \/ i = j
    BY <1>1, <1>5
  <2> QED
    BY <1>4, <2>1, <2>2
<1>6. InjectedLength(EntryCode) \in Nat /\ map[1] = InjectedLength(EntryCode)
  <2>1. 1 \in 1 .. N
    BY <1>1
  <2> QED
    BY <1>1, <2>1, InjectedFacts DEF IInv, LayoutInv
<1>7. \A i \in 1 .. N + 1 : map[1] <= map[i]
  <2>1. 1 \in 1 .. N + 1 /\ \A i \in 1 .. N + 1 : 1 <= i
    BY <1>1
  <2> QED
    BY <1>5, <2>1
<1> QED
  BY <1>2, <1>5, <1>6, <1>7

(* What is known of an instruction that has been written. *)
LEMMA WrittenFacts ==
  ASSUME IInv, NEW k \in 1 .. Len(written)
  PROVE  /\ phase \in {"write", "done"} /\ k \in 1 .. N /\ k < pos
         /\ written[k] = WrittenAt(k)
         /\ written[k].op = OpAt(k) /\ written[k].end = map[k + 1]
         /\ widening[k] = WideningNeeded(k)
         /\ map[k] = OpAt(k) - Len(BeforeCode(k)) * TemplateLength
<1>1. TypeInv /\ MethodInv /\ N \in Nat /\ pos \in 1 .. N + 1
  BY Method DEF IInv, MethodInv, TypeInv
<1>2. phase \in {"write", "done"}
  BY EmptySeq DEF IInv, WrittenInv
<1>3. k \in 1 .. pos - 1
  BY <1>2 DEF IInv, WrittenInv
<1>4. k \in 1 .. N /\ k < pos
  BY <1>1, <1>3
<1>5. written[k] = WrittenAt(k)
  BY <1>2, <1>3 DEF IInv, WrittenInv
<1>6. written[k].op = OpAt(k) /\ written[k].end = map[k + 1]
  BY <1>5 DEF WrittenAt
<1>7. widening[k] = WideningNeeded(k)
  BY <1>2, <1>4 DEF IInv, SettledInv
<1>8. map[k] = OpAt(k) - Len(BeforeCode(k)) * TemplateLength
  <2>1. map[k] \in Int
    BY <1>1, <1>4, MapTyped
  <2>2. /\ InjectedLength(BeforeCode(k)) \in Nat
        /\ InjectedLength(BeforeCode(k)) = Len(BeforeCode(k)) * TemplateLength
    BY <1>1, <1>4, InjectedFacts
  <2> QED
    BY <2>1, <2>2 DEF OpAt
<1> QED
  BY <1>2, <1>4, <1>5, <1>6, <1>7, <1>8

(* The variables have their types, and so no widening is met that the write  *)
(* pass cannot write: CRW_FATAL is never reached.                            *)
THEOREM TypeCorrect == Spec => [](TypeOK /\ phase # "fatal")
<1>1. ASSUME IInv
      PROVE  TypeOK /\ phase # "fatal"
  <2>1. TypeInv /\ MethodInv /\ N \in Nat /\ WellFormed(method)
    BY <1>1, Method, MethodFacts DEF IInv, MethodInv, TypeInv
  <2>2. ASSUME NEW k \in 1 .. N
        PROVE  widening[k] \in IF IsSwitch(Instr(k)) THEN -3 .. 3
                              ELSE IF IsShortBranch(k) THEN {0, 2, 5} ELSE {0}
    <3>1. widening[k] \in WideningRange(k)
      BY <2>1 DEF TypeInv
    <3> QED
      BY <3>1 DEF WideningRange, IsShortBranch, IsSwitch
  <2>3. out \in Nat
    <3>1. CASE phase \in {"write", "done"}
      <4>1. out = 0 \/ out = map[pos]
        BY <1>1, <3>1 DEF IInv, WrittenInv
      <4>2. pos \in 1 .. N + 1 /\ map[pos] \in Int
        BY <2>1, MapTyped DEF TypeInv
      <4>3. InjectedLength(EntryCode) <= map[pos] /\ InjectedLength(EntryCode) \in Nat
        BY <1>1, <3>1, <4>2, MapRises
      <4> QED
        BY <4>1, <4>2, <4>3
    <3>2. CASE phase \notin {"write", "done"}
      BY <1>1, <3>2 DEF IInv, WrittenInv
    <3> QED
      BY <3>1, <3>2
  <2>4. Len(written) \in 0 .. N
    <3>1. pos \in 1 .. N + 1
      BY <2>1 DEF TypeInv
    <3>2. Len(written) = pos - 1 \/ Len(written) = 0
      BY <1>1, EmptySeq DEF IInv, WrittenInv
    <3> QED
      BY <2>1, <3>1, <3>2
  <2>5. injections \in [1 .. N -> Seq({"call", "return"})]
    BY <1>1 DEF IInv, InjectionsInv
  <2> QED
    BY <2>1, <2>2, <2>3, <2>4, <2>5 DEF TypeInv, TypeOK
<1> QED
  BY <1>1, Invariance, PTL

(* The write pass puts every instruction where the map of the other two      *)
(* passes has it, and its output position is never another one.              *)
THEOREM PassesAgree == Spec => []MapIsLayout
<1>1. ASSUME IInv
      PROVE  MapIsLayout
  <2>1. ASSUME NEW k \in 1 .. Len(written)
        PROVE  written[k].op - Len(BeforeCode(k)) * TemplateLength = map[k]
    BY <1>1, WrittenFacts
  <2> QED
    BY <1>1, <2>1 DEF IInv, WrittenInv, MapIsLayout
<1> QED
  BY <1>1, Invariance, PTL

(* The operands of every switch are written on a 4-byte boundary. *)
THEOREM SwitchesStayAligned == Spec => []SwitchesAligned
<1>1. ASSUME IInv
      PROVE  SwitchesAligned
  <2> SUFFICES ASSUME NEW k \in 1 .. Len(written), IsSwitch(Instr(k))
               PROVE  (written[k].op + NewPad(k)) % 4 = 0
    BY DEF SwitchesAligned
  <2>1. k \in 1 .. N /\ written[k].op = OpAt(k) /\ MethodInv /\ TypeInv
    BY <1>1, WrittenFacts, Method DEF IInv
  <2>2. map[k] \in Int
    BY <2>1, MapTyped
  <2>3. InjectedLength(BeforeCode(k)) = 0
    <3>1. BeforeCode(k) = <<>>
      BY DEF BeforeCode, IsReturn, IsSwitch
    <3> QED
      BY <2>1, <3>1, TemplateFacts, EmptySeq DEF InjectedLength
  <2>4. OpAt(k) + NewPad(k) = NEXT_4BYTE_BOUNDARY(map[k])
    <3>1. NEXT_4BYTE_BOUNDARY(map[k]) \in Int
      BY <2>2, Padding
    <3> QED
      BY <2>2, <2>3, <3>1 DEF OpAt, NewPad
  <2> QED
    BY <2>1, <2>2, <2>4, Padding
<1> QED
  BY <1>1, Invariance, PTL

(* A delta that fits in 16 bits is read back as it was. *)
LEMMA ShortIsExact ==
  ASSUME NEW delta \in Int, FitsShort(delta)
  PROVE  AsShort(delta) = delta
<1> DEFINE m == 2 * MaxDelta + 2
           x == delta + MaxDelta + 1
<1>1. m \in Nat /\ m > 0 /\ x \in Nat /\ x < m /\ MaxDelta \in Nat
  BY MaxDeltaAssumption DEF FitsShort
<1>2. AsShort(delta) = (x % m) - MaxDelta - 1
  BY DEF AsShort
<1>3. x % m = x
  <2> HIDE DEF m, x
  <2> QED
    BY <1>1
<1> QED
  BY <1>1, <1>2, <1>3

(* A branch that has the widening it needs lands where the map has its target. *)
LEMMA BranchLands ==
  ASSUME IInv, NEW k \in 1 .. Len(written), NEW t \in DOMAIN Instr(k).to
  PROVE  Landing(k, OpAt(k), Instr(k).to[t]) = map[Instr(k).to[t]]
<1>1. TypeInv /\ MethodInv /\ k \in 1 .. N /\ widening[k] = WideningNeeded(k)
  BY WrittenFacts, Method DEF IInv
<1> DEFINE target == Instr(k).to[t]
<1>2. target \in 1 .. N
  BY <1>1, TargetTyped
<1>3. map[k] \in Int /\ map[target] \in Int
  BY <1>1, <1>2, MapTyped
<1>4. NewDelta(k, target) = map[target] - map[k]
  BY DEF NewDelta
<1>5. Instr(k).op \notin {"plain", "return"}
  <2>1. Instr(k).to # <<>>
    OBVIOUS
  <2> QED
    BY <1>1, <2>1 DEF MethodInv
<1>6. OpAt(k) = map[k]
  <2>1. BeforeCode(k) = <<>>
    BY <1>5 DEF BeforeCode, IsReturn
  <2>2. InjectedLength(BeforeCode(k)) = 0
    BY <1>1, <2>1, TemplateFacts, EmptySeq DEF InjectedLength
  <2> QED
    BY <1>3, <2>2 DEF OpAt
<1>7. CASE IsShortBranch(k) /\ widening[k] = 0
  <2>1. t = 1
    <3>1. Len(Instr(k).to) = 1 /\ Instr(k).to \in Seq(1 .. N)
      BY <1>1, <1>7 DEF MethodInv, IsShortBranch
    <3> QED
      BY <3>1, LenProperties
  <2>2. FitsShort(NewDelta(k, target))
    BY <1>1, <1>7, <2>1 DEF WideningNeeded, IsShortBranch, IsSwitch
  <2>3. AsShort(NewDelta(k, target)) = map[target] - map[k]
    BY <1>3, <1>4, <2>2, ShortIsExact
  <2>4. Landing(k, OpAt(k), target) = OpAt(k) + AsShort(NewDelta(k, target))
    BY <1>7 DEF Landing
  <2> HIDE DEF target
  <2>5. OpAt(k) + AsShort(NewDelta(k, target)) = map[target]
    BY <1>3, <1>6, <2>3
  <2> QED
    BY <2>4, <2>5 DEF target
<1>8. CASE ~ (IsShortBranch(k) /\ widening[k] = 0)
  <2>1. \/ Landing(k, OpAt(k), target) = (OpAt(k) + 3) + (NewDelta(k, target) - 3)
        \/ Landing(k, OpAt(k), target) = OpAt(k) + NewDelta(k, target)
    BY <1>8 DEF Landing
  <2> HIDE DEF target
  <2>2. Landing(k, OpAt(k), target) = map[target]
    BY <1>3, <1>4, <1>6, <2>1
  <2> QED
    BY <2>2 DEF target
<1> QED
  BY <1>7, <1>8

(* Control flow is kept: every branch, widened or not, lands on its own     *)
(* target in front of the code injected for it, and the instructions follow  *)
(* one another without a gap.                                                *)
THEOREM BranchesKept == Spec => []TargetsKept
<1>1. ASSUME IInv, phase = "done", NEW k \in 1 .. N
      PROVE  /\ \A t \in DOMAIN Instr(k).to :
                  written[k].lands[t] = LandingPoint(Instr(k).to[t])
             /\ written[k].next = written[k].end
             /\ k < N => written[k + 1].start = written[k].end
  <2>1. TypeInv /\ MethodInv /\ N \in Nat /\ Len(written) = N
    <3>1. TypeInv /\ MethodInv
      BY <1>1, Method DEF IInv
    <3>2. N \in Nat /\ pos = N + 1
      BY <1>1, <3>1 DEF MethodInv, TypeInv
    <3>3. Len(written) = pos - 1
      BY <1>1 DEF IInv, WrittenInv
    <3> QED
      BY <3>1, <3>2, <3>3
  <2>2. k \in 1 .. Len(written) /\ written[k] = WrittenAt(k) /\ written[k].end = map[k + 1]
        /\ written[k].op = OpAt(k) /\ widening[k] = WideningNeeded(k)
    BY <1>1, <2>1, WrittenFacts
  <2>3. ASSUME NEW t \in DOMAIN Instr(k).to
        PROVE  written[k].lands[t] = LandingPoint(Instr(k).to[t])
    <3>1. Instr(k).to[t] \in 1 .. Len(written)
      BY <2>1, TargetTyped
    <3>2. LandingPoint(Instr(k).to[t]) = map[Instr(k).to[t]]
      BY <1>1, <3>1, WrittenFacts DEF LandingPoint
    <3>3. written[k].lands[t] = Landing(k, OpAt(k), Instr(k).to[t])
      BY <2>2 DEF WrittenAt
    <3> QED
      BY <1>1, <2>2, <3>2, <3>3, BranchLands
  <2>4. written[k].next = written[k].end
    <3>1. written[k].next = FallThrough(k, OpAt(k))
      BY <2>2 DEF WrittenAt
    <3>2. FallThrough(k, OpAt(k)) = OpAt(k) + WrittenLength(k)
      <4>1. CASE Instr(k).op = "if" /\ widening[k] = 5
        <5>1. WrittenLength(k) = 8
          BY <4>1 DEF WrittenLength, IsShortBranch, IsSwitch
        <5>2. OpAt(k) \in Int
          BY <1>1, MapRises
        <5> QED
          BY <4>1, <5>1, <5>2 DEF FallThrough
      <4>2. CASE ~ (Instr(k).op = "if" /\ widening[k] = 5)
        BY <4>2 DEF FallThrough
      <4> QED
        BY <4>1, <4>2
    <3>3. OpAt(k) + WrittenLength(k) = map[k + 1]
      <4>1. WrittenLength(k) = InputSize(k) + widening[k]
        BY <2>1, <2>2, WrittenSize
      <4>2. map[k + 1] = map[k] + Before(k) + InputSize(k) + widening[k]
        BY <1>1 DEF IInv, LayoutInv
      <4>3. Before(k) = InjectedLength(BeforeCode(k)) /\ Before(k) \in Int
        BY <1>1, <2>1, InjectedFacts DEF Before, Injected
      <4>4. map[k] \in Int /\ widening[k] \in Int /\ InputSize(k) \in Int
        BY <2>1, MapTyped, SizeFacts
      <4> QED
        BY <4>1, <4>2, <4>3, <4>4 DEF OpAt
    <3> QED
      BY <2>2, <3>1, <3>2, <3>3
  <2>5. ASSUME k < N
        PROVE  written[k + 1].start = written[k].end
    <3>1. k + 1 \in 1 .. Len(written) /\ k + 1 # 1
      BY <2>1, <2>5
    <3>2. written[k + 1] = WrittenAt(k + 1)
      BY <1>1, <3>1, WrittenFacts
    <3>3. written[k + 1].start = map[k + 1]
      BY <3>1, <3>2 DEF WrittenAt
    <3> QED
      BY <2>2, <3>3
  <2> QED
    BY <2>3, <2>4, <2>5
<1>2. IInv => TargetsKept
  BY <1>1 DEF TargetsKept
<1> QED
  BY <1>2, Invariance, PTL

(* The code written between two positions of the map is that of the          *)
(* instructions between them.                                                *)
LEMMA Between ==
  ASSUME IInv, phase = "done",
         NEW first \in 1 .. N + 1, NEW last \in 1 .. N + 1, first < last,
         NEW k \in 1 .. N
  PROVE  IF k \in first .. last - 1 THEN Covers(map[first], map[last], k)
                                    ELSE Disjoint(map[first], map[last], k)
<1>1. TypeInv /\ N \in Nat /\ Len(written) = N
  <2>1. TypeInv /\ N \in Nat
    BY Method DEF IInv, MethodInv
  <2>2. pos = N + 1 /\ Len(written) = pos - 1
    BY <2>1 DEF IInv, TypeInv, WrittenInv
  <2> QED
    BY <2>1, <2>2
<1>2. written[k].op = OpAt(k) /\ written[k].end = map[k + 1]
  BY <1>1, WrittenFacts
<1>3. OpAt(k) \in Int /\ map[k] <= OpAt(k) /\ map[k] \in Int /\ map[k + 1] \in Int
  BY <1>1, MapRises, MapTyped
<1>4. map[first] \in Int /\ map[last] \in Int
  BY <1>1, MapTyped
<1>5. k \in 1 .. N + 1 /\ k + 1 \in 1 .. N + 1
  BY <1>1
<1>6. CASE k \in first .. last - 1
  <2>1. first <= k /\ k + 1 <= last
    BY <1>1, <1>6
  <2>2. map[first] <= map[k] /\ map[k + 1] <= map[last]
    BY <1>5, <2>1, MapRises
  <2>3. map[first] <= OpAt(k)
    BY <1>3, <1>4, <2>2
  <2> QED
    BY <1>2, <1>6, <2>2, <2>3 DEF Covers
<1>7. CASE k < first
  <2>1. k + 1 <= first /\ k \notin first .. last - 1
    BY <1>1, <1>7
  <2>2. map[k + 1] <= map[first]
    BY <1>5, <2>1, MapRises
  <2> QED
    BY <1>2, <2>1, <2>2 DEF Disjoint
<1>8. CASE last <= k
  <2>1. k \notin first .. last - 1
    BY <1>1, <1>8
  <2>2. map[last] <= map[k]
    BY <1>5, <1>8, MapRises
  <2>3. map[last] <= OpAt(k)
    BY <1>3, <1>4, <2>2
  <2> QED
    BY <1>2, <2>1, <2>3 DEF Disjoint
<1> QED
  BY <1>1, <1>6, <1>7, <1>8

(* The landing point of an instruction is the place the map has for it. *)
LEMMA LandsAt ==
  ASSUME IInv, phase = "done", NEW k \in 1 .. N
  PROVE  LandingPoint(k) = map[k] /\ map[k] \in Int
<1>1. TypeInv /\ MethodInv
  BY Method DEF IInv
<1>2. Len(written) = N
  BY <1>1 DEF IInv, WrittenInv, TypeInv, MethodInv
<1>3. map[k] = OpAt(k) - Len(BeforeCode(k)) * TemplateLength /\ written[k].op = OpAt(k)
  BY <1>2, WrittenFacts
<1> QED
  BY <1>1, <1>3, MapTyped DEF LandingPoint

(* A try block still covers its own instructions and no others, and never    *)
(* the code injected at the entry, and its handler is where a branch to the  *)
(* handler's instruction would land.                                         *)
THEOREM TryBlocksCover == Spec => []TryBlocksKept
<1>1. ASSUME IInv, phase = "done", NEW first \in 1 .. N + 1, NEW last \in 1 .. N + 1,
             NEW handler \in 1 .. N, first < last
      PROVE  LET r == NewExceptionRange(first, last, handler) IN
             /\ \A k \in 1 .. N : IF k \in first .. last - 1 THEN Covers(r.start, r.end, k)
                                                             ELSE Disjoint(r.start, r.end, k)
             /\ r.start >= InjectedLength(EntryCode)
             /\ r.handler = LandingPoint(handler)
  <2> DEFINE r == NewExceptionRange(first, last, handler)
  <2>1. r.start = map[first] /\ r.end = map[last] /\ r.handler = map[handler]
    BY DEF NewExceptionRange
  <2>2. map[first] \in Int /\ InjectedLength(EntryCode) \in Nat
        /\ InjectedLength(EntryCode) <= map[first]
    BY <1>1, MapRises, MapTyped DEF IInv
  <2>3. map[first] >= InjectedLength(EntryCode)
    BY <2>2
  <2>4. LandingPoint(handler) = map[handler]
    BY <1>1, LandsAt
  <2> HIDE DEF r
  <2> QED
    BY <1>1, <2>1, <2>3, <2>4, Between DEF r
<1>2. IInv => TryBlocksKept
  BY <1>1 DEF TryBlocksKept
<1> QED
  BY <1>2, Invariance, PTL

(* The input positions rise, and so only the first one is 0. *)
LEMMA PositionsRise ==
  ASSUME MethodInv
  PROVE  \A i, j \in 1 .. N + 1 : i < j => method.at[i] < method.at[j]
<1>1. N \in Nat /\ method.at \in [1 .. N + 1 -> Int]
  BY DEF MethodInv
<1>2. ASSUME NEW j \in 1 .. N
      PROVE  method.at[j] < method.at[j + 1]
  <2>1. InputSize(j) > 0 /\ method.at[j] \in Nat /\ method.at[j + 1] \in Nat
    BY SizeFacts
  <2> QED
    BY <2>1 DEF InputSize
<1> DEFINE at == method.at
<1>3. at \in [1 .. N + 1 -> Int] /\ \A j \in 1 .. N : at[j] < at[j + 1]
  BY <1>1, <1>2
<1> HIDE DEF at
<1>4. \A i, j \in 1 .. N + 1 : i < j => at[i] < at[j]
  BY <1>1, <1>3, Rises
<1> QED
  BY <1>4 DEF at

LEMMA OnlyFirstAtZero ==
  ASSUME MethodInv, NEW k \in 1 .. N + 1
  PROVE  method.at[k] = 0 <=> k = 1
<1>1. N \in Nat /\ method.at \in [1 .. N + 1 -> Int] /\ method.at[1] = 0
  BY DEF MethodInv
<1>2. CASE k = 1
  BY <1>1, <1>2
<1>3. CASE k # 1
  <2>1. 1 \in 1 .. N + 1 /\ 1 < k
    BY <1>1, <1>3
  <2>2. method.at[1] < method.at[k]
    BY <2>1, PositionsRise
  <2> QED
    BY <1>1, <1>3, <2>2
<1> QED
  BY <1>2, <1>3

(* A local variable is visible in its own instructions and no others; an     *)
(* argument also in the entry code; and no range ends behind the code.       *)
THEOREM VariablesVisible == Spec => []VariableRangesKept
<1>1. ASSUME IInv, phase = "done",
             NEW first \in 1 .. N + 1, NEW last \in 1 .. N + 1, first < last
      PROVE  LET r == NewVarRange(first, last) IN
             /\ \A k \in 1 .. N :
                  IF k \in first .. last - 1 THEN Covers(r.start, r.start + r.length, k)
                                             ELSE Disjoint(r.start, r.start + r.length, k)
             /\ first = 1 => r.start = 0
             /\ r.start + r.length <= out
  <2>1. TypeInv /\ MethodInv /\ N \in Nat /\ pos = N + 1
    <3>1. TypeInv /\ MethodInv
      BY <1>1, Method DEF IInv
    <3> QED
      BY <1>1, <3>1 DEF TypeInv, MethodInv
  <2>2. map[first] \in Int /\ map[last] \in Int
    BY <2>1, MapTyped
  <2>3. NewStart(first) = IF first = 1 THEN 0 ELSE map[first]
    BY <2>1, OnlyFirstAtZero DEF NewStart
  <2> DEFINE r == NewVarRange(first, last)
  <2>4. r.start = NewStart(first) /\ r.length = map[last] - NewStart(first)
    BY DEF NewVarRange
  <2> HIDE DEF r
  <2>5. r.start + r.length = map[last]
    BY <2>2, <2>3, <2>4
  <2>6. out = map[N + 1]
    BY <1>1, <2>1 DEF IInv, WrittenInv, MethodInv
  <2>7. map[last] <= out
    <3>1. N + 1 \in 1 .. N + 1 /\ last <= N + 1
      BY <2>1
    <3> QED
      BY <1>1, <2>6, <3>1, MapRises
  <2>8. ASSUME NEW k \in 1 .. N
        PROVE  IF k \in first .. last - 1 THEN Covers(r.start, map[last], k)
                                          ELSE Disjoint(r.start, map[last], k)
    <3>1. IF k \in first .. last - 1 THEN Covers(map[first], map[last], k)
                                     ELSE Disjoint(map[first], map[last], k)
      BY <1>1, Between
    <3>2. CASE first # 1
      BY <2>3, <2>4, <3>1, <3>2
    <3>3. CASE first = 1
      <4>1. r.start = 0
        BY <2>3, <2>4, <3>3
      <4>2. CASE k \in first .. last - 1
        <5>1. written[k].end <= map[last] /\ map[first] <= written[k].op
          BY <3>1, <4>2 DEF Covers
        <5>2. Len(written) = N
          BY <1>1, <2>1 DEF IInv, WrittenInv
        <5>3. written[k].op \in Int
          <6>1. written[k].op = OpAt(k)
            BY <1>1, <5>2, WrittenFacts
          <6> QED
            BY <1>1, <6>1, MapRises
        <5>4. InjectedLength(EntryCode) <= map[first] /\ InjectedLength(EntryCode) \in Nat
          BY <1>1, MapRises
        <5>5. 0 <= written[k].op
          BY <2>2, <5>1, <5>3, <5>4
        <5> QED
          BY <4>1, <4>2, <5>1, <5>5 DEF Covers
      <4>3. CASE k \notin first .. last - 1
        <5>1. last <= k
          BY <2>1, <3>3, <4>3
        <5>2. k \in 1 .. N + 1 /\ map[k] \in Int
          BY <2>1, MapTyped
        <5>3. map[last] <= map[k] /\ map[k] <= OpAt(k) /\ OpAt(k) \in Int
          BY <1>1, <5>1, <5>2, MapRises
        <5>4. written[k].op = OpAt(k)
          <6>1. Len(written) = N
            BY <1>1, <2>1 DEF IInv, WrittenInv
          <6> QED
            BY <1>1, <6>1, WrittenFacts
        <5>5. map[last] <= written[k].op
          BY <2>2, <5>2, <5>3, <5>4
        <5> QED
          BY <4>3, <5>5 DEF Disjoint
      <4> QED
        BY <4>2, <4>3
    <3> QED
      BY <3>2, <3>3
  <2>9. first = 1 => r.start = 0
    BY <2>3, <2>4
  <2> QED
    BY <2>5, <2>7, <2>8, <2>9 DEF r
<1>2. IInv => VariableRangesKept
  BY <1>1 DEF VariableRangesKept
<1> QED
  BY <1>2, Invariance, PTL
=============================================================================
