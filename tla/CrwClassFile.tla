---------------------------- MODULE CrwClassFile ----------------------------
(***************************************************************************)
(* The walk over a class file (java_crw_demo.c: java_crw_demo,             *)
(* inject_class, cpool_setup, method_write_all).  The constant pool is     *)
(* copied and mirrored in a table, entries for the class number and the    *)
(* bridge's methods are appended, each method with code gets its calls,    *)
(* and the names of all methods go to the agent by mnum_callback.  What    *)
(* happens inside a method's code is CrwInject.                            *)
(***************************************************************************)
EXTENDS Integers, Sequences, FiniteSets

CONSTANTS
  ClassFiles,    \* the class files the JVM may hand over
  ClassNumbers,  \* the numbers the agent may give
  MaxIconst,     \* the greatest number with an iconst instruction: 5
  MaxByte,       \* of one signed byte: 127
  MaxShort,      \* of two signed bytes: 32767
  IndexWidth,    \* how many values a CrwCpoolIndex has: 65536
  MaxStack,      \* the greatest max_stack: 65535
  MAXIMUM_NEW_CPOOL_ENTRIES

ASSUME ClassFileAssumption ==
  /\ {MaxIconst, MaxByte, MaxShort, IndexWidth, MaxStack, MAXIMUM_NEW_CPOOL_ENTRIES}
       \subseteq Nat
  /\ ClassNumbers \subseteq Nat

\* There is room for all the entries that NewEntries may list.
ASSUME NewEntriesFit == MAXIMUM_NEW_CPOOL_ENTRIES > 11

\* The bridge's class and methods, and the signature of both.
MTRACE_class == "bridge"
MTRACE_entry == "method_entry"
MTRACE_exit  == "method_exit"
call_sig     == "(II)V"

\* An entry that is not text.
no_text == ""

TwoSlots == {"Long", "Double"}

\* Mutant: the tags of Java 7 are not known.
KnownTagsJava6 ==
  TwoSlots \cup {"Utf8", "Class", "String", "Fieldref", "Methodref",
                 "InterfaceMethodref", "Integer", "Float", "NameAndType"}

KnownTags ==
  TwoSlots \cup {"Utf8", "Class", "String", "Fieldref", "Methodref",
                 "InterfaceMethodref", "Integer", "Float", "NameAndType",
                 "MethodType", "MethodHandle", "InvokeDynamic"}

Slots(e) == IF e.tag \in TwoSlots THEN 2 ELSE 1

\* The index of the k-th entry of a pool, by the two slots of Long and Double.
IndexOf(pool, k) ==
  k + Cardinality({j \in 1 .. k - 1 : pool[j].tag \in TwoSlots})

PoolEntries == [tag : STRING, text : STRING, index1 : Nat, index2 : Nat]

\* A class file that the JVM could read: the count of its pool fits an index.
WellFormedFile(f) ==
  /\ f.pool \in Seq(PoolEntries)
  /\ IndexOf(f.pool, Len(f.pool) + 1) < IndexWidth
  /\ f.methods \in Seq([name : STRING, descr : STRING, code_len : Nat,
                        max_stack : Nat, returns : BOOLEAN])

ASSUME FilesAssumption == \A f \in ClassFiles : WellFormedFile(f)

VARIABLES
  stage,
  file, number, system_class,  \* the arguments of java_crw_demo
  i,                           \* the index of the next entry to copy
  out,                         \* the entries of the new pool, as they are written
  cpool,                       \* the table that mirrors it: <<index, entry>>
  cpool_max_elements, cpool_count_plus_one,
  added,                       \* the indexes the new entries got
  methods,                     \* for each method written, its calls and max_stack
  registered                   \* what mnum_callback was told

arguments == <<file, number, system_class>>
constantPool == <<i, out, cpool, cpool_max_elements, cpool_count_plus_one, added>>
classFile == <<stage, arguments, constantPool, methods, registered>>

count_plus_one == IndexOf(file.pool, Len(file.pool) + 1)

CrwInit ==
  /\ stage = "begin"
  /\ file \in ClassFiles /\ number \in ClassNumbers /\ system_class \in BOOLEAN
  /\ i = 1 /\ out = <<>> /\ cpool = {} /\ added = <<>>
  /\ cpool_max_elements = 0 /\ cpool_count_plus_one = 0
  /\ methods = <<>> /\ registered = <<>>

\* fatal_error(), also of an assertion: the process aborts.
CrwFatal ==
  /\ stage' = "fatal"
  /\ UNCHANGED <<arguments, constantPool, methods, registered>>

-----------------------------------------------------------------------------
(* The constant pool: cpool_setup().                                       *)

\* Mutant: the size is not cut to the width of an index.
BeginWide ==
  /\ stage = "begin" /\ file.known_version /\ count_plus_one > 1
  /\ stage' = "pool"
  /\ cpool_max_elements' = count_plus_one + MAXIMUM_NEW_CPOOL_ENTRIES
  /\ cpool_count_plus_one' = count_plus_one
  /\ UNCHANGED <<arguments, i, out, cpool, added, methods, registered>>

\* The size of the table wraps like an index; a table of none cannot be allocated.
Begin ==
  LET size == (count_plus_one + MAXIMUM_NEW_CPOOL_ENTRIES) % IndexWidth IN
  /\ stage = "begin" /\ file.known_version /\ count_plus_one > 1 /\ size # 0
  /\ stage' = "pool"
  /\ cpool_max_elements' = size
  /\ cpool_count_plus_one' = count_plus_one
  /\ UNCHANGED <<arguments, i, out, cpool, added, methods, registered>>

BeginFails ==
  /\ stage = "begin"
  /\ \/ ~file.known_version
     \/ count_plus_one <= 1
     \/ (count_plus_one + MAXIMUM_NEW_CPOOL_ENTRIES) % IndexWidth = 0
  /\ CrwFatal

\* The assertion of fillin_cpool_entry compares the index with the count of the pool,
\* not with the size of the table: the entry is written, and behind the end of a table
\* that is too small anything may happen next.
fillin_cpool_entry(index, entry, next_stage) ==
  IF index \in 1 .. cpool_count_plus_one' - 1
  THEN /\ cpool' = cpool \cup {<<index, entry>>}
       /\ stage' = IF index < cpool_max_elements THEN next_stage ELSE "undefined"
  ELSE stage' = "fatal" /\ UNCHANGED cpool

\* Mutant: the table is filled at the index of the second slot.
CopyEntrySecondSlot ==
  LET entry == file.pool[Len(out) + 1] IN
  /\ stage = "pool" /\ i < count_plus_one /\ entry.tag \in KnownTags
  /\ out' = Append(out, entry)
  /\ UNCHANGED <<arguments, cpool_max_elements, cpool_count_plus_one, added,
                 methods, registered>>
  /\ fillin_cpool_entry(i + Slots(entry) - 1, entry, "pool")
  /\ i' = i + Slots(entry)

CopyEntry ==
  LET entry == file.pool[Len(out) + 1] IN
  /\ stage = "pool" /\ i < count_plus_one /\ entry.tag \in KnownTags
  /\ out' = Append(out, entry)
  /\ UNCHANGED <<arguments, cpool_max_elements, cpool_count_plus_one, added,
                 methods, registered>>
  /\ fillin_cpool_entry(i, entry, "pool")
  /\ i' = i + Slots(entry)

UnknownTag ==
  /\ stage = "pool" /\ i < count_plus_one
  /\ file.pool[Len(out) + 1].tag \notin KnownTags
  /\ CrwFatal

PoolCopied ==
  /\ stage = "pool" /\ i >= count_plus_one
  /\ stage' = "add"
  /\ UNCHANGED <<arguments, constantPool, methods, registered>>

\* The new entries: what each is, and which of the others it refers to.
New(what, tag, text, uses) == [what |-> what, tag |-> tag, text |-> text, uses |-> uses]

MethodEntries(name) ==
  << New(<<name, "name">>, "Utf8", name, <<>>),
     New(<<name, "descr">>, "Utf8", call_sig, <<>>),
     New(<<name, "type">>, "NameAndType", no_text, <<<<name, "name">>, <<name, "descr">>>>),
     New(<<name, "method">>, "Methodref", no_text,
         <<<<MTRACE_class, "class">>, <<name, "type">>>>) >>

\* The agent gives no names for Object.<init> and for new arrays.
NewEntries ==
  (IF number > MaxShort
   THEN << New(<<"number", "value">>, "Integer", no_text, <<>>) >> ELSE <<>>)
  \o << New(<<MTRACE_class, "name">>, "Utf8", MTRACE_class, <<>>),
        New(<<MTRACE_class, "class">>, "Class", no_text, <<<<MTRACE_class, "name">>>>) >>
  \o MethodEntries(MTRACE_entry) \o MethodEntries(MTRACE_exit)

\* The index of a new entry; 0 as long as it is not there.
NewIndex(what) ==
  LET Places == {k \in 1 .. Len(added) : NewEntries[k].what = what}
  IN  IF Places = {} THEN 0 ELSE added[CHOOSE k \in Places : TRUE]

U2 == 2 * (MaxShort + 1)

Filled(new) ==
  [tag |-> new.tag, text |-> new.text,
   index1 |-> IF new.tag = "Integer" THEN number \div U2
              ELSE IF Len(new.uses) >= 1 THEN NewIndex(new.uses[1]) ELSE 0,
   index2 |-> IF new.tag = "Integer" THEN number % U2
              ELSE IF Len(new.uses) = 2 THEN NewIndex(new.uses[2]) ELSE 0]

\* add_new_cpool_entry, with an assertion of its own on the size of the table.
AddEntry ==
  LET entry == Filled(NewEntries[Len(added) + 1])
      count == (cpool_count_plus_one + 1) % IndexWidth
  IN  /\ stage = "add" /\ Len(added) < Len(NewEntries)
      /\ IF count >= cpool_max_elements THEN CrwFatal
         ELSE /\ out' = Append(out, entry)
              /\ added' = Append(added, cpool_count_plus_one)
              /\ cpool_count_plus_one' = count
              /\ fillin_cpool_entry(cpool_count_plus_one, entry, "add")
              /\ UNCHANGED <<arguments, i, cpool_max_elements, methods, registered>>

\* An interface is left as it is, without the callback.  Then come this class, its
\* superclass, its interfaces and its fields.
PoolDone ==
  /\ stage = "add" /\ Len(added) = Len(NewEntries)
  /\ stage' = IF file.interface THEN "unchanged" ELSE "methods"
  /\ UNCHANGED <<arguments, constantPool, methods, registered>>

-----------------------------------------------------------------------------
(* The methods: method_write_all().                                        *)

Push(n, max) == [bytes |-> n % (2 * (max + 1)), max |-> max]

push_short_constant(n) ==
  IF n <= MaxIconst THEN [const |-> n]
  ELSE IF n <= MaxByte THEN Push(n, MaxByte) ELSE Push(n, MaxShort)

\* Mutant: every class number is pushed as a short.
push_cnum_Short == push_short_constant(number)

\* ldc with one byte of index, or ldc_w with two.
push_pool_constant(index) ==
  IF index <= MaxByte THEN [ldc |-> index] ELSE [ldc_w |-> index]

push_cnum ==
  IF number <= MaxShort THEN push_short_constant(number)
                        ELSE push_pool_constant(NewIndex(<<"number", "value">>))

\* The number of the method is not tested like that of the class.
push_mnum(m) == push_short_constant(m)

Call(name, m) ==
  [cnum |-> push_cnum, mnum |-> push_mnum(m), method |-> NewIndex(<<name, "method">>)]

skip_method(m) ==
  system_class /\
    \/ m.code_len = 1 /\ m.name \in {"<init>", "finalize"}
    \/ m.name = "<clinit>"
    \/ file.name = "java/lang/Thread" /\ m.name = "currentThread"

\* Nothing is injected into the constructor of Object either.
Untouched(m) ==
  \/ m.code_len = 0
  \/ file.name = "java/lang/Object" /\ m.name = "<init>" /\ m.descr = "()V"
  \/ skip_method(m)

NextMethod == file.methods[Len(methods) + 1]

\* max_stack is that of the code and the call together.
NewStack(m) == m.max_stack + 2

CopyMethod ==
  /\ stage = "methods" /\ Len(methods) < Len(file.methods)
  /\ Untouched(NextMethod)
  /\ methods' = Append(methods, [calls |-> {}, max_stack |-> NextMethod.max_stack])
  /\ UNCHANGED <<stage, arguments, constantPool, registered>>

InjectMethod ==
  LET m == Len(methods) IN
  /\ stage = "methods" /\ Len(methods) < Len(file.methods)
  /\ ~Untouched(NextMethod) /\ NewStack(NextMethod) <= MaxStack
  /\ methods' = Append(methods,
       [calls |-> {Call(MTRACE_entry, m)}
                    \cup (IF NextMethod.returns THEN {Call(MTRACE_exit, m)} ELSE {}),
        max_stack |-> NewStack(NextMethod)])
  /\ UNCHANGED <<stage, arguments, constantPool, registered>>

StackFails ==
  /\ stage = "methods" /\ Len(methods) < Len(file.methods)
  /\ ~Untouched(NextMethod) /\ NewStack(NextMethod) > MaxStack
  /\ CrwFatal

\* mnum_callback for every class; a new image only with an injection in it.
MethodsDone ==
  /\ stage = "methods" /\ Len(methods) = Len(file.methods)
  /\ registered' = [m \in 1 .. Len(methods) |->
                      <<file.methods[m].name, file.methods[m].descr>>]
  /\ stage' = IF \A m \in 1 .. Len(methods) : methods[m].calls = {}
              THEN "unchanged" ELSE "image"
  /\ UNCHANGED <<arguments, constantPool, methods>>

CrwNext ==
  \/ Begin \/ BeginFails
  \/ CopyEntry \/ UnknownTag \/ PoolCopied
  \/ AddEntry \/ PoolDone
  \/ CopyMethod \/ InjectMethod \/ StackFails \/ MethodsDone

CrwSpec == CrwInit /\ [][CrwNext]_classFile

-----------------------------------------------------------------------------
(***************************************************************************)
(* Correctness.                                                            *)
(***************************************************************************)
\* The variables have their types, and indexes fit their two bytes, those of the table
\* that mirrors the pool too.
CrwTypeOK ==
  /\ stage \in {"begin", "pool", "add", "methods", "image", "unchanged", "fatal",
                "undefined"}
  /\ {cpool_max_elements, cpool_count_plus_one} \subseteq 0 .. IndexWidth - 1
  /\ \A entry \in cpool : entry[1] \in 1 .. IndexWidth - 1
  /\ Len(out) <= Len(file.pool) + Len(added) + 1
  /\ Len(added) <= Len(NewEntries)
  /\ Len(methods) <= Len(file.methods)
  /\ registered # <<>> => stage \in {"image", "unchanged"}

\* What the JVM finds at an index of the new pool.
Entry(index) == out[CHOOSE k \in 1 .. Len(out) : IndexOf(out, k) = index]

\* The new pool can be read: it has as many slots as it says, the table mirrors it,
\* and every entry is where the ones that refer to it say, whatever two-slot
\* entries come before it.
PoolAgrees ==
  stage = "image" =>
    /\ cpool_count_plus_one = IndexOf(out, Len(out) + 1)
    /\ cpool = {<<IndexOf(out, k), out[k]>> : k \in 1 .. Len(out)}
    /\ \A k \in 1 .. Len(added) : added[k] = IndexOf(out, Len(file.pool) + k)

\* The number an Integer entry of the pool stands for.
Integer(entry) == entry.index1 * U2 + entry.index2

U1 == 2 * (MaxByte + 1)

\* How the JVM evaluates a pushed number.
Value(push) ==
  IF "const" \in DOMAIN push THEN push.const
  ELSE IF "ldc" \in DOMAIN push THEN Integer(Entry(push.ldc % U1))
  ELSE IF "ldc_w" \in DOMAIN push THEN Integer(Entry(push.ldc_w % IndexWidth))
  ELSE IF push.bytes <= push.max THEN push.bytes
       ELSE push.bytes - 2 * (push.max + 1)

Names(method, name) ==
  LET type == Entry(method.index2) IN
  /\ method.tag = "Methodref"
  /\ Entry(Entry(method.index1).index1).text = MTRACE_class
  /\ Entry(type.index1).text = name /\ Entry(type.index2).text = call_sig

\* Every injected call calls a method of the bridge with the number of its class
\* and the number under which mnum_callback told the agent this method's name.
\* A method number above 32767 is pushed as a negative one and is not covered.
CallsIdentify ==
  stage = "image" =>
    \A m \in 1 .. Len(methods) : \A call \in methods[m].calls :
      /\ \E name \in {MTRACE_entry, MTRACE_exit} : Names(Entry(call.method), name)
      /\ Value(call.cnum) = number
      /\ m - 1 <= MaxShort => Value(call.mnum) = m - 1
      /\ registered[m] = <<file.methods[m].name, file.methods[m].descr>>

JavaEightTags ==
  {"Utf8", "Integer", "Float", "Long", "Double", "Class", "String", "Fieldref",
   "Methodref", "InterfaceMethodref", "NameAndType", "MethodHandle", "MethodType",
   "InvokeDynamic"}

\* The table mirrors the pool: no entry is written behind its end.
MirrorHoldsPool == \A entry \in cpool : entry[1] < cpool_max_elements

\* A class file of Java 8 that has a pool with room for the new entries, and room for
\* two more words on the stack, reaches none of the fatal errors above and no write
\* behind the table.
OrdinaryClassAccepted ==
  stage \in {"fatal", "undefined"} =>
    \/ ~file.known_version
    \/ file.pool = <<>>
    \/ \E k \in 1 .. Len(file.pool) : file.pool[k].tag \notin JavaEightTags
    \/ count_plus_one + MAXIMUM_NEW_CPOOL_ENTRIES >= IndexWidth
    \/ \E m \in 1 .. Len(file.methods) : file.methods[m].max_stack + 2 > MaxStack

=============================================================================
