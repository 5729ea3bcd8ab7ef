---------------------------- MODULE MCCrwInject ----------------------------
(***************************************************************************)
(* Methods for TLC: every sequence of a few instructions from a small set, *)
(* at every layout they can have in a class file, with the stack maps a    *)
(* compiler gives them and, for some, with maps of every kind of frame.    *)
(***************************************************************************)
EXTENDS StackMaps

\* The offsets of the instructions of a code of at most four, and of its end.
After(code, k, p) == IF k > Len(code) THEN p ELSE p + InputLength(code[k], p)

Offsets(code) ==
  LET p1 == After(code, 1, 0)
      p2 == After(code, 2, p1)
      p3 == After(code, 3, p2)
      p4 == After(code, 4, p3)
  IN  SubSeq(<<0, p1, p2, p3, p4>>, 1, Len(code) + 1)

Plain(l) == [op |-> "plain", len |-> l, to |-> <<>>]
Return == [op |-> "return", len |-> 1, to |-> <<>>]

\* Instructions of a code of n: the lengths of the plain ones let deltas end on
\* either side of MaxDelta.
Small(n) ==
  {Plain(9), Return}
    \cup [op : {"goto", "if"}, len : {3}, to : {<<t>> : t \in 1 .. n}]
    \cup [op : {"lookupswitch"}, len : {1}, to : {<<t>> : t \in 1 .. n}]

Large(n) ==
  Small(n) \cup {Plain(1), Plain(6)}
    \cup [op : {"goto_w"}, len : {5}, to : {<<t>> : t \in 1 .. n}]
    \cup [op : {"lookupswitch", "tableswitch"}, len : {1},
          to : {<<1, t>> : t \in 1 .. n}]

\* No method falls off its end.
Closed(code) == code[Len(code)].op \notin {"plain", "if"}

\* Short branches reach their targets.
Reaches(l) ==
  \A k \in 1 .. Len(l.code) : l.code[k].op \in {"goto", "if"} =>
    FitsShort(l.at[l.code[k].to[1]] - l.at[k])

\* A frame of the type for instruction k, when the one before it is for j (or 0).
FrameFor(l, j, k, type, types) ==
  [type |-> type, at |-> k, types |-> types,
   offset |-> l.at[k] - IF j = 0 THEN 0 ELSE l.at[j] + 1]

\* What a compiler writes: a frame for each basic block, in the shortest form.
CompilerFrames(l) ==
  LET needed == NeedsFrames(l)
      ks == SelectSeq([k \in 1 .. Len(l.code) |-> k], LAMBDA k : k \in needed)
      Frame(i) == FrameFor(l, IF i = 1 THEN 0 ELSE ks[i - 1], ks[i], "same", <<>>)
  IN  [i \in 1 .. Len(ks) |-> IF Frame(i).offset <= MaxSame THEN Frame(i)
                              ELSE [Frame(i) EXCEPT !.type = "same_extended"]]

\* A local that is uninitialized or is not.
Local(l, new) ==
  IF new THEN <<[tag |-> "Uninitialized", offset |-> l.at[1]]>>
         ELSE <<[tag |-> "Object", offset |-> 0]>>

\* Two frames of any type, at places[1] and places[2].
TwoFrames(l, s) ==
  <<FrameFor(l, 0, s.places[1], s.t1, <<>>),
    FrameFor(l, s.places[1], s.places[2], s.t2, Local(l, s.new))>>

CldcFrames(l, s) ==
  [i \in 1 .. 2 |-> FrameFor(l, 0, s.places[i], "full", Local(l, s.new))]

Frames(l, s) ==
  CASE s.kind \in {"compiler", "try"} -> CompilerFrames(l)
    [] s.kind = "any"      -> TwoFrames(l, s)
    [] s.kind = "cldc"     -> CldcFrames(l, s)

\* The short forms hold short distances only.
Encodable(frames) ==
  \A i \in DOMAIN frames : frames[i].type \in ShortTypes => frames[i].offset <= MaxSame

\* With a try block or without: all but the last instruction, which handles it.
TryBlock(code, s) ==
  IF s.kind # "try" THEN {} ELSE {[first |-> 1, last |-> Len(code), handler |-> Len(code)]}

Layout(code, s) == [code |-> code, at |-> Offsets(code), exceptions |-> TryBlock(code, s)]

\* A method is made from <<code, number, is it Object.<init>, frames>>.  The sets
\* of these are products, which TLC joins without comparing their elements.
Possible(m) ==
  LET l == Layout(m[1], m[4])
  IN  /\ Closed(m[1]) /\ Reaches(l) /\ l.at[Len(m[1]) + 1] <= MaxU2
      /\ Encodable(Frames(l, m[4]))

Method(m) ==
  [code |-> m[1], at |-> Offsets(m[1]), number |-> m[2], object_init_method |-> m[3],
   exceptions |-> TryBlock(m[1], m[4]),
   attribute |-> IF m[4].kind = "cldc" THEN "StackMap" ELSE "StackMapTable",
   frames |-> Frames(Layout(m[1], m[4]), m[4])]

Compiled == {[kind |-> "compiler"]}
Tried == {[kind |-> "try"]}

\* Short codes of every instruction, with and without injections of two lengths;
\* then longer ones with a third length, and still longer ones where one widening
\* can make another necessary.
TwoInstructions == [1 .. 2 -> Large(2)] \X {0, 128} \X BOOLEAN \X (Compiled \cup Tried)
ThreeInstructions == [1 .. 3 -> Large(3)] \X {6} \X {FALSE} \X Compiled
ThreeTried == [1 .. 3 -> Small(3)] \X {6} \X {FALSE} \X Tried
FourInstructions == [1 .. 4 -> Small(4)] \X {0} \X {FALSE} \X Compiled

\* Methods with frames of every type, or with the attribute of CLDC.
Places == {<<1, 2>>, <<1, 4>>, <<2, 3>>, <<3, 4>>}
SomeOps == {Plain(6), Return, [op |-> "goto", len |-> 3, to |-> <<1>>],
            [op |-> "lookupswitch", len |-> 1, to |-> <<2>>]}
FramedCodes == {Plain(1), Plain(9)} \X SomeOps \X SomeOps \X {Return}

AnyFrames == FramedCodes \X {0} \X {FALSE} \X
  [kind : {"any"}, places : Places, new : BOOLEAN, t2 : FrameTypes,
   t1 : {"same", "same_extended", "same_locals_1", "full"}]

CldcMethods == FramedCodes \X {0} \X {FALSE} \X
  [kind : {"cldc"}, places : Places, new : BOOLEAN]

AllMethods ==
  {Method(m) : m \in
     {m \in TwoInstructions \cup ThreeInstructions \cup ThreeTried \cup FourInstructions
              \cup AnyFrames \cup CldcMethods : Possible(m)}}

\* Enough code for a widened if.
LoopMethods ==
  {Method(m) : m \in
     {m \in [1 .. 3 -> Small(3)] \X {0} \X {FALSE} \X Compiled : Possible(m)}}
=============================================================================
