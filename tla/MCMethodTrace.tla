---------------------------- MODULE MCMethodTrace ----------------------------
(* Instances of MethodTrace for TLC: a traced class with a reported        *)
(* method, and the bridge.                                                 *)
EXTENDS MethodTrace

CONSTANTS A

AllClasses == [c \in Classes |-> "class"]
OneMethod  == [c \in Classes |-> 1]
FirstOfA   == {<<A, 0>>}
OneEach    == [t \in Threads |-> 1]
OneByT1    == [t \in Threads |-> IF t = Main THEN 0 ELSE 1]

=============================================================================
