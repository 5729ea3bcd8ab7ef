----------------------------- MODULE MCJVMAgent -----------------------------
(* Instances of JVMAgent for TLC.  Class a has two methods, of which one   *)
(* is left alone in a system class and the other is not reported, and      *)
(* where it has a third one that one is native.                            *)
EXTENDS JVMAgent

CONSTANTS A, B, T1

AllClasses      == [c \in Classes |-> "class"]
BInterface      == [c \in Classes |-> IF c = B THEN "interface" ELSE "class"]
ThreeInA        == [c \in Classes |-> IF c = A THEN 3 ELSE 1]
ThirdOfA        == {<<A, 2>>}
TwoInA          == [c \in Classes |-> IF c = A THEN 2 ELSE 1]
FirstOfA        == {<<A, 0>>}
OneEach         == [t \in Threads |-> 1]
TwoByT1         == [t \in Threads |-> IF t = T1 THEN 2 ELSE 1]
FirstOfEach     == {<<A, 0>>, <<B, 0>>}

=============================================================================
