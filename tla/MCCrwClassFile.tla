--------------------------- MODULE MCCrwClassFile ---------------------------
(* Class files for TLC: short pools of one-slot and two-slot entries, pools *)
(* at the limit of the index, and up to three methods, or more methods than *)
(* a signed number holds.                                                   *)
EXTENDS CrwClassFile

PoolEntry(tag) == [tag |-> tag, text |-> "", index1 |-> 0, index2 |-> 0]
OfTags(tags) == [k \in DOMAIN tags |-> PoolEntry(tags[k])]

ShortPools ==
  {OfTags(t) : t \in UNION {[1 .. n -> {"Utf8", "Long", "InvokeDynamic", "Dynamic"}]
                              : n \in 1 .. 3}}
Pools == {OfTags([k \in 1 .. n |-> "Utf8"]) : n \in 4 .. 18}

Method(name, code_len, max_stack, returns) ==
  [name |-> name, descr |-> "()V", code_len |-> code_len, max_stack |-> max_stack,
   returns |-> returns]

SomeMethods ==
  {Method("<init>", 1, 0, TRUE), Method("<clinit>", 4, 1, TRUE),
   Method("run", 9, 2, FALSE), Method("run", 0, 0, FALSE),
   Method("currentThread", 5, 1, TRUE)}

File(known, name, interface, pool, ms) ==
  [known_version |-> known, name |-> name, interface |-> interface, pool |-> pool,
   methods |-> ms]

TwoUtf8 == OfTags(<<"Utf8", "Utf8">>)

AllClassFiles ==
  {File(TRUE, "Test", FALSE, pool, <<m>>) : pool \in ShortPools \cup Pools,
                                            m \in SomeMethods}
    \cup {File(TRUE, name, interface, TwoUtf8, ms) :
            name \in {"Test", "java/lang/Object", "java/lang/Thread"},
            interface \in BOOLEAN,
            ms \in UNION {[1 .. n -> SomeMethods] : n \in 0 .. 3}}
    \cup {File(TRUE, "Test", FALSE, TwoUtf8,
               [m \in 1 .. 18 |-> Method("run", 9, 2, TRUE)]),
          File(TRUE, "Test", FALSE, TwoUtf8, <<Method("run", 9, 9, TRUE)>>),
          File(TRUE, "Test", FALSE, <<>>, <<>>),
          File(FALSE, "Test", FALSE, TwoUtf8, <<>>)}

=============================================================================
