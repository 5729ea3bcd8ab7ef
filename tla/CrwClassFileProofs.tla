------------------------- MODULE CrwClassFileProofs -------------------------
(***************************************************************************)
(* Proofs about CrwClassFile, for class files with pools and methods of    *)
(* any number, any class number and any width of an index.                 *)
(*                                                                         *)
(* Three counts of the new pool run side by side: the entries written, the *)
(* index in the input and the index of the next new entry.  PoolInv keeps  *)
(* them together, whatever two-slot entries there are, until the pool does *)
(* not fit an index any more.  FilledInv says that each new entry refers   *)
(* to entries added before it, so that its references stay right while     *)
(* others follow.                                                          *)
(***************************************************************************)
EXTENDS CrwClassFile, SequenceTheorems, FiniteSetTheorems, WellFoundedInduction, TLAPS

-----------------------------------------------------------------------------
(***************************************************************************)
(* The inductive invariant.                                                *)
(***************************************************************************)
PoolSize == Len(file.pool)

\* What is known of the entries of the new pool.
BridgeNames == {MTRACE_class, MTRACE_entry, MTRACE_exit}
Texts == BridgeNames \cup {no_text, call_sig}
OutEntries ==
  [tag : STRING \cup KnownTags, text : STRING \cup Texts, index1 : Nat, index2 : Nat]

\* A call of a method of the bridge from method m.
BridgeCalls(m) == {Call(MTRACE_entry, m), Call(MTRACE_exit, m)}
Calls == {Call(name, m) : name \in {MTRACE_entry, MTRACE_exit}, m \in Nat}
WrittenMethods == [calls : SUBSET Calls, max_stack : Nat]

TypeInv ==
  /\ stage \in {"begin", "pool", "add", "methods", "image", "unchanged", "fatal",
                "undefined"}
  /\ file \in ClassFiles /\ number \in ClassNumbers
  /\ i \in Nat
  /\ out \in Seq(OutEntries)
  /\ added \in Seq(Nat)
  /\ {cpool_max_elements, cpool_count_plus_one} \subseteq 0 .. IndexWidth - 1

\* How far the pool is written.
PoolInv ==
  /\ \A k \in 1 .. Len(out) : k <= PoolSize => out[k] = file.pool[k]
  /\ \/ Len(added) = 0 /\ Len(out) <= PoolSize
     \/ Len(out) = PoolSize + Len(added)
  /\ Len(added) <= Len(NewEntries)
  /\ \A k \in 1 .. Len(added) :
       added[k] = IndexOf(out, PoolSize + k) /\ added[k] = count_plus_one + (k - 1)
  /\ stage = "begin" => out = <<>> /\ cpool = {}
  /\ stage \in {"begin", "pool"} =>
       Len(added) = 0 /\ Len(out) <= PoolSize /\ i = IndexOf(file.pool, Len(out) + 1)
  /\ stage = "pool" => cpool_count_plus_one = count_plus_one
  /\ stage \in {"add", "methods", "image", "unchanged"} =>
       /\ Len(out) = PoolSize + Len(added)
       /\ cpool_count_plus_one = IndexOf(out, Len(out) + 1)
       /\ cpool_count_plus_one = count_plus_one + Len(added)
  /\ stage \in {"methods", "image"} => Len(added) = Len(NewEntries)

\* The table is filled like the pool, but for the last entry before an error.
MirrorInv ==
  /\ stage # "fatal" => cpool = {<<IndexOf(out, k), out[k]>> : k \in 1 .. Len(out)}
  /\ \A entry \in cpool : entry[1] \in 1 .. IndexWidth - 1

\* A new entry is what it would be now.
FilledInv ==
  \A k \in 1 .. Len(added) : out[PoolSize + k] = Filled(NewEntries[k])

MethodsInv ==
  /\ stage \in {"begin", "pool", "add"} => methods = <<>>
  /\ methods \in Seq(WrittenMethods)
  /\ Len(methods) <= Len(file.methods)
  /\ \A m \in 1 .. Len(methods) : methods[m].calls \subseteq BridgeCalls(m - 1)
  /\ stage = "image" =>
       /\ Len(methods) = Len(file.methods)
       /\ registered = [m \in 1 .. Len(methods) |->
                          <<file.methods[m].name, file.methods[m].descr>>]
  /\ registered # <<>> => stage \in {"image", "unchanged"}

\* What OrdinaryClassAccepted asks of a class file.
Ordinary ==
  /\ file.known_version /\ file.pool # <<>>
  /\ \A k \in 1 .. PoolSize : file.pool[k].tag \in JavaEightTags
  /\ count_plus_one + MAXIMUM_NEW_CPOOL_ENTRIES < IndexWidth
  /\ \A m \in 1 .. Len(file.methods) : file.methods[m].max_stack + 2 <= MaxStack

\* The table is as large as it was meant to be.
OrdinaryInv ==
  Ordinary =>
    /\ stage \notin {"fatal", "undefined"}
    /\ stage # "begin" =>
         cpool_max_elements = count_plus_one + MAXIMUM_NEW_CPOOL_ENTRIES

IInv ==
  TypeInv /\ PoolInv /\ MirrorInv /\ FilledInv /\ MethodsInv /\ OrdinaryInv

-----------------------------------------------------------------------------
(***************************************************************************)
(* Indexes.                                                                *)
(***************************************************************************)
TwoSlotsBefore(pool, k) == {j \in 1 .. k - 1 : pool[j].tag \in TwoSlots}

(* An index counts the entries before, those of two slots twice. *)
LEMMA IndexStep ==
  ASSUME NEW pool, NEW k \in Nat, k > 0
  PROVE  /\ IndexOf(pool, k) \in Nat /\ IndexOf(pool, k) >= k
         /\ IndexOf(pool, k + 1) = IndexOf(pool, k) + Slots(pool[k])
         /\ IsFiniteSet(TwoSlotsBefore(pool, k))
<1> DEFINE S == TwoSlotsBefore(pool, k)
           T == TwoSlotsBefore(pool, k + 1)
<1>1. IsFiniteSet(1 .. k - 1)
  BY FS_Interval
<1>2. S \in SUBSET (1 .. k - 1)
  BY DEF TwoSlotsBefore
<1>3. IsFiniteSet(S) /\ Cardinality(S) \in Nat
  <2> HIDE DEF S
  <2> QED
    BY <1>1, <1>2, FS_Subset, FS_CardinalityType
<1>4. IndexOf(pool, k) = k + Cardinality(S) /\ IndexOf(pool, k + 1) = (k + 1) + Cardinality(T)
  BY DEF IndexOf, TwoSlotsBefore
<1>5. k \notin S
  BY DEF TwoSlotsBefore
<1>6. CASE pool[k].tag \in TwoSlots
  <2>1. T = S \cup {k}
    BY <1>6 DEF TwoSlotsBefore
  <2>2. Cardinality(T) = Cardinality(S) + 1
    <3> HIDE DEF S, T
    <3> QED
      BY <1>3, <1>5, <2>1, FS_AddElement
  <2> HIDE DEF S, T
  <2> QED
    BY <1>3, <1>4, <1>6, <2>2 DEF Slots, S
<1>7. CASE pool[k].tag \notin TwoSlots
  <2>1. T = S
    BY <1>7 DEF TwoSlotsBefore
  <2> HIDE DEF S, T
  <2> QED
    BY <1>3, <1>4, <1>7, <2>1 DEF Slots, S
<1> QED
  BY <1>6, <1>7

LEMMA FirstIndex == ASSUME NEW pool PROVE IndexOf(pool, 1) = 1
<1>1. {j \in 1 .. 1 - 1 : pool[j].tag \in TwoSlots} = {}
  OBVIOUS
<1> QED
  BY <1>1, FS_EmptySet DEF IndexOf

(* An index depends on the entries before it only. *)
LEMMA SameIndex ==
  ASSUME NEW p, NEW q, NEW k \in Nat, \A j \in 1 .. k - 1 : p[j] = q[j]
  PROVE  IndexOf(p, k) = IndexOf(q, k)
<1>1. {j \in 1 .. k - 1 : p[j].tag \in TwoSlots} = {j \in 1 .. k - 1 : q[j].tag \in TwoSlots}
  OBVIOUS
<1> QED
  BY <1>1 DEF IndexOf

(* No two entries have the same index: what begins later has a greater one. *)
LEMMA IndexRises ==
  ASSUME NEW pool, NEW j \in Nat, NEW k \in Nat, 0 < j, j < k
  PROVE  IndexOf(pool, j) < IndexOf(pool, k)
<1> DEFINE S == TwoSlotsBefore(pool, j)
           T == TwoSlotsBefore(pool, k)
<1>1. IsFiniteSet(S) /\ IsFiniteSet(T)
  BY IndexStep
<1>2. S \in SUBSET T
  BY DEF TwoSlotsBefore
<1>3. IndexOf(pool, j) = j + Cardinality(S) /\ IndexOf(pool, k) = k + Cardinality(T)
  BY DEF IndexOf, TwoSlotsBefore
<1> HIDE DEF S, T
<1>4. Cardinality(S) \in Nat /\ Cardinality(T) \in Nat /\ Cardinality(S) <= Cardinality(T)
  BY <1>1, <1>2, FS_Subset, FS_CardinalityType
<1> QED
  BY <1>3, <1>4

LEMMA OneIndexEach ==
  ASSUME NEW pool, NEW j \in Nat, NEW k \in Nat, 0 < j, 0 < k,
         IndexOf(pool, j) = IndexOf(pool, k)
  PROVE  j = k
<1>1. IndexOf(pool, j) \in Nat /\ IndexOf(pool, k) \in Nat
  BY IndexStep
<1>2. ~ (j < k) /\ ~ (k < j)
  BY <1>1, IndexRises
<1> QED
  BY <1>2

(* A pool that gets an entry more. *)
LEMMA Appended ==
  ASSUME NEW S, NEW pool \in Seq(S), NEW e \in S
  PROVE  LET new == Append(pool, e) n == Len(pool) IN
         /\ n \in Nat /\ new \in Seq(S) /\ Len(new) = n + 1 /\ new[n + 1] = e
         /\ \A k \in 1 .. n : new[k] = pool[k]
         /\ \A k \in 1 .. n + 1 : IndexOf(new, k) = IndexOf(pool, k)
         /\ IndexOf(new, n + 2) = IndexOf(pool, n + 1) + Slots(e)
         /\ IndexOf(pool, n + 1) \in Nat /\ IndexOf(pool, n + 1) > 0
<1> DEFINE new == Append(pool, e)
           n == Len(pool)
<1>1. /\ n \in Nat /\ new \in Seq(S) /\ Len(new) = n + 1 /\ new[n + 1] = e
      /\ \A k \in 1 .. n : new[k] = pool[k]
  BY AppendProperties, LenProperties
<1> HIDE DEF new, n
<1>2. ASSUME NEW k \in 1 .. n + 1
      PROVE  IndexOf(new, k) = IndexOf(pool, k)
  <2>1. k \in Nat /\ \A j \in 1 .. k - 1 : j \in 1 .. n
    BY <1>1
  <2> QED
    BY <1>1, <2>1, SameIndex
<1>3. n + 1 \in Nat /\ n + 1 > 0 /\ (n + 1) + 1 = n + 2 /\ n + 1 \in 1 .. n + 1
  BY <1>1
<1>4. IndexOf(new, n + 2) = IndexOf(new, n + 1) + Slots(new[n + 1])
  BY <1>3, IndexStep
<1>5. IndexOf(new, n + 2) = IndexOf(pool, n + 1) + Slots(e)
  BY <1>1, <1>2, <1>3, <1>4
<1>6. IndexOf(pool, n + 1) \in Nat /\ IndexOf(pool, n + 1) >= n + 1
  BY <1>3, IndexStep
<1> QED
  BY <1>1, <1>2, <1>3, <1>5, <1>6 DEF new, n

-----------------------------------------------------------------------------
(***************************************************************************)
(* The new entries.                                                        *)
(***************************************************************************)
\* The names of new entries, and the entries.
Whats == (BridgeNames \cup {"number"})
           \X {"value", "name", "class", "descr", "type", "method"}
NewRecords ==
  [what : Whats, tag : KnownTags \ TwoSlots, text : Texts, uses : Seq(Whats)]

LEMMA Concat ==
  ASSUME NEW S, NEW s \in Seq(S), NEW t \in Seq(S)
  PROVE  /\ s \o t \in Seq(S) /\ Len(s \o t) = Len(s) + Len(t)
         /\ \A k \in 1 .. Len(s) : (s \o t)[k] = s[k]
         /\ \A k \in 1 .. Len(t) : (s \o t)[Len(s) + k] = t[k]
<1>1. Len(s) \in Nat /\ Len(t) \in Nat
  BY LenProperties
<1>2. /\ s \o t \in Seq(S) /\ Len(s \o t) = Len(s) + Len(t)
      /\ \A k \in 1 .. Len(s) + Len(t) :
           (s \o t)[k] = IF k <= Len(s) THEN s[k] ELSE t[k - Len(s)]
  BY ConcatProperties
<1>3. ASSUME NEW k \in 1 .. Len(s)
      PROVE  (s \o t)[k] = s[k]
  BY <1>1, <1>2
<1>4. ASSUME NEW k \in 1 .. Len(t)
      PROVE  (s \o t)[Len(s) + k] = t[k]
  <2>1. /\ Len(s) + k \in 1 .. Len(s) + Len(t) /\ ~ (Len(s) + k <= Len(s))
        /\ (Len(s) + k) - Len(s) = k
    BY <1>1
  <2> QED
    BY <1>2, <2>1
<1> QED
  BY <1>2, <1>3, <1>4

\* How many entries come before those of the bridge's class.
First == IF number > MaxShort THEN 1 ELSE 0

\* The entries of a method of the bridge, the first of which is number b + 1.
MethodTable(b, name) ==
  /\ NewEntries[b + 1] = New(<<name, "name">>, "Utf8", name, <<>>)
  /\ NewEntries[b + 2] = New(<<name, "descr">>, "Utf8", call_sig, <<>>)
  /\ NewEntries[b + 3] = New(<<name, "type">>, "NameAndType", no_text,
                             <<<<name, "name">>, <<name, "descr">>>>)
  /\ NewEntries[b + 4] = New(<<name, "method">>, "Methodref", no_text,
                             <<<<MTRACE_class, "class">>, <<name, "type">>>>)

NewTable ==
  /\ NewEntries \in Seq(NewRecords) /\ Len(NewEntries) = First + 10
  /\ First = 1 =>
       NewEntries[1] = New(<<"number", "value">>, "Integer", no_text, <<>>)
  /\ NewEntries[First + 1] = New(<<MTRACE_class, "name">>, "Utf8", MTRACE_class, <<>>)
  /\ NewEntries[First + 2] =
       New(<<MTRACE_class, "class">>, "Class", no_text, <<<<MTRACE_class, "name">>>>)
  /\ MethodTable(First + 2, MTRACE_entry)
  /\ MethodTable(First + 6, MTRACE_exit)

LEMMA NewTyped ==
  ASSUME NEW what \in Whats, NEW tag \in KnownTags \ TwoSlots, NEW text \in Texts,
         NEW uses \in Seq(Whats)
  PROVE  New(what, tag, text, uses) \in NewRecords
BY DEF New, NewRecords

LEMMA NewTags ==
  {"Utf8", "NameAndType", "Methodref", "Class", "Integer"} \subseteq KnownTags \ TwoSlots
BY DEF KnownTags, TwoSlots

LEMMA MethodEntriesTyped ==
  ASSUME NEW name \in BridgeNames
  PROVE  MethodEntries(name) \in Seq(NewRecords) /\ Len(MethodEntries(name)) = 4
<1> DEFINE e1 == New(<<name, "name">>, "Utf8", name, <<>>)
           e2 == New(<<name, "descr">>, "Utf8", call_sig, <<>>)
           e3 == New(<<name, "type">>, "NameAndType", no_text, <<<<name, "name">>, <<name, "descr">>>>)
           e4 == New(<<name, "method">>, "Methodref", no_text,
                     <<<<MTRACE_class, "class">>, <<name, "type">>>>)
<1>1. /\ <<name, "name">> \in Whats /\ <<name, "descr">> \in Whats
      /\ <<name, "type">> \in Whats /\ <<name, "method">> \in Whats
      /\ <<MTRACE_class, "class">> \in Whats
  BY DEF Whats, BridgeNames
<1>2. name \in Texts /\ call_sig \in Texts /\ no_text \in Texts
  BY DEF Texts
<1>3. /\ <<>> \in Seq(Whats) /\ <<<<name, "name">>, <<name, "descr">>>> \in Seq(Whats)
      /\ <<<<MTRACE_class, "class">>, <<name, "type">>>> \in Seq(Whats)
  BY <1>1
<1>4. e1 \in NewRecords
  BY <1>1, <1>2, <1>3, NewTags, NewTyped
<1>5. e2 \in NewRecords
  BY <1>1, <1>2, <1>3, NewTags, NewTyped
<1>6. e3 \in NewRecords
  BY <1>1, <1>2, <1>3, NewTags, NewTyped
<1>7. e4 \in NewRecords
  BY <1>1, <1>2, <1>3, NewTags, NewTyped
<1>8. MethodEntries(name) = <<e1, e2, e3, e4>>
  BY DEF MethodEntries
<1> HIDE DEF e1, e2, e3, e4
<1> QED
  BY <1>4, <1>5, <1>6, <1>7, <1>8

LEMMA NewEntriesTable == NewTable
<1> DEFINE e == New(<<"number", "value">>, "Integer", no_text, <<>>)
           a == IF number > MaxShort THEN <<e>> ELSE <<>>
           b1 == New(<<MTRACE_class, "name">>, "Utf8", MTRACE_class, <<>>)
           b2 == New(<<MTRACE_class, "class">>, "Class", no_text, <<<<MTRACE_class, "name">>>>)
           b == << b1, b2 >>
           c == MethodEntries(MTRACE_entry)
           d == MethodEntries(MTRACE_exit)
<1>1. NewEntries = ((a \o b) \o c) \o d
  BY DEF NewEntries
<1>2. e \in NewRecords
  <2>1. <<"number", "value">> \in Whats /\ <<>> \in Seq(Whats) /\ no_text \in Texts
    BY DEF Whats, Texts
  <2> QED
    BY <2>1, NewTags, NewTyped
<1>3. b1 \in NewRecords /\ b2 \in NewRecords
  <2>1. /\ <<MTRACE_class, "name">> \in Whats /\ <<MTRACE_class, "class">> \in Whats
        /\ MTRACE_class \in Texts /\ no_text \in Texts
    BY DEF Whats, BridgeNames, Texts
  <2>2. <<>> \in Seq(Whats) /\ <<<<MTRACE_class, "name">>>> \in Seq(Whats)
    <3> DEFINE w == <<MTRACE_class, "name">>
    <3>1. w \in Whats
      BY <2>1
    <3> HIDE DEF w
    <3>2. <<w>> \in Seq(Whats)
      BY <3>1
    <3> QED
      BY <3>2, EmptySeq DEF w
  <2>3. b1 \in NewRecords
    BY <2>1, <2>2, NewTags, NewTyped
  <2>4. b2 \in NewRecords
    BY <2>1, <2>2, NewTags, NewTyped
  <2> QED
    BY <2>3, <2>4
<1>4. First \in {0, 1}
  BY DEF First
<1>5. a \in Seq(NewRecords) /\ Len(a) = First /\ (First = 1 => a[1] = e)
  <2> HIDE DEF e
  <2>1. CASE number > MaxShort
    BY <1>2, <2>1 DEF First
  <2>2. CASE ~ (number > MaxShort)
    BY <2>2, EmptySeq DEF First
  <2> QED
    BY <2>1, <2>2
<1>6. b \in Seq(NewRecords) /\ Len(b) = 2 /\ b[1] = b1 /\ b[2] = b2
  <2> HIDE DEF b1, b2
  <2> QED
    BY <1>3
<1>7. c \in Seq(NewRecords) /\ Len(c) = 4 /\ d \in Seq(NewRecords) /\ Len(d) = 4
  BY MethodEntriesTyped DEF BridgeNames
<1>8. /\ NewEntries \in Seq(NewRecords) /\ Len(NewEntries) = First + 10
      /\ \A k \in 1 .. First : NewEntries[k] = a[k]
      /\ \A k \in 1 .. 2 : NewEntries[First + k] = b[k]
      /\ \A k \in 1 .. 4 : NewEntries[(First + 2) + k] = c[k]
      /\ \A k \in 1 .. 4 : NewEntries[(First + 6) + k] = d[k]
  <2> HIDE DEF a, b, c, d
  <2> DEFINE R == NewRecords
  <2> HIDE DEF R
  <2>1. /\ a \in Seq(R) /\ Len(a) = First /\ b \in Seq(R) /\ Len(b) = 2
        /\ c \in Seq(R) /\ Len(c) = 4 /\ d \in Seq(R) /\ Len(d) = 4
    BY <1>5, <1>6, <1>7 DEF R
  <2>2. /\ a \o b \in Seq(R) /\ Len(a \o b) = First + 2
        /\ \A k \in 1 .. First : (a \o b)[k] = a[k]
        /\ \A k \in 1 .. 2 : (a \o b)[First + k] = b[k]
    <3>a. a \in Seq(R) /\ b \in Seq(R)
      BY <2>1
    <3>1. /\ a \o b \in Seq(R) /\ Len(a \o b) = Len(a) + Len(b)
          /\ \A k \in 1 .. Len(a) : (a \o b)[k] = a[k]
          /\ \A k \in 1 .. Len(b) : (a \o b)[Len(a) + k] = b[k]
      BY <3>a, Concat
    <3> QED
      BY <2>1, <3>1, Zenon
  <2>3. /\ (a \o b) \o c \in Seq(R) /\ Len((a \o b) \o c) = First + 6
        /\ \A k \in 1 .. First + 2 : ((a \o b) \o c)[k] = (a \o b)[k]
        /\ \A k \in 1 .. 4 : ((a \o b) \o c)[(First + 2) + k] = c[k]
    <3> DEFINE ab == a \o b
    <3> HIDE DEF ab
    <3>3. ab \in Seq(R) /\ Len(ab) = First + 2
      BY <2>2 DEF ab
    <3>a. ab \in Seq(R) /\ c \in Seq(R)
      BY <2>1, <3>3
    <3>4. /\ ab \o c \in Seq(R) /\ Len(ab \o c) = Len(ab) + Len(c)
          /\ \A k \in 1 .. Len(ab) : (ab \o c)[k] = ab[k]
          /\ \A k \in 1 .. Len(c) : (ab \o c)[Len(ab) + k] = c[k]
      BY <3>a, Concat
    <3>5. /\ ab \o c \in Seq(R) /\ Len(ab \o c) = (First + 2) + 4
          /\ \A k \in 1 .. First + 2 : (ab \o c)[k] = ab[k]
          /\ \A k \in 1 .. 4 : (ab \o c)[(First + 2) + k] = c[k]
      BY <2>1, <3>3, <3>4, Zenon
    <3>1. /\ (a \o b) \o c \in Seq(R) /\ Len((a \o b) \o c) = (First + 2) + 4
          /\ \A k \in 1 .. First + 2 : ((a \o b) \o c)[k] = (a \o b)[k]
          /\ \A k \in 1 .. 4 : ((a \o b) \o c)[(First + 2) + k] = c[k]
      BY <3>5 DEF ab
    <3>2. (First + 2) + 4 = First + 6
      BY <1>4
    <3> QED
      BY <3>1, <3>2
  <2>4. /\ NewEntries \in Seq(R) /\ Len(NewEntries) = First + 10
        /\ \A k \in 1 .. First + 6 : NewEntries[k] = ((a \o b) \o c)[k]
        /\ \A k \in 1 .. 4 : NewEntries[(First + 6) + k] = d[k]
    <3> DEFINE abc == (a \o b) \o c
    <3>3. NewEntries = abc \o d
      BY <1>1
    <3> HIDE DEF abc
    <3>4. abc \in Seq(R) /\ Len(abc) = First + 6
      BY <2>3 DEF abc
    <3>a. abc \in Seq(R) /\ d \in Seq(R)
      BY <2>1, <3>4
    <3>5. /\ abc \o d \in Seq(R) /\ Len(abc \o d) = Len(abc) + Len(d)
          /\ \A k \in 1 .. Len(abc) : (abc \o d)[k] = abc[k]
          /\ \A k \in 1 .. Len(d) : (abc \o d)[Len(abc) + k] = d[k]
      BY <3>a, Concat
    <3>6. /\ NewEntries \in Seq(R) /\ Len(NewEntries) = (First + 6) + 4
          /\ \A k \in 1 .. First + 6 : NewEntries[k] = abc[k]
          /\ \A k \in 1 .. 4 : NewEntries[(First + 6) + k] = d[k]
      BY <2>1, <3>3, <3>4, <3>5, Zenon
    <3>1. /\ NewEntries \in Seq(R) /\ Len(NewEntries) = (First + 6) + 4
          /\ \A k \in 1 .. First + 6 : NewEntries[k] = ((a \o b) \o c)[k]
          /\ \A k \in 1 .. 4 : NewEntries[(First + 6) + k] = d[k]
      BY <3>6 DEF abc
    <3>2. (First + 6) + 4 = First + 10
      BY <1>4
    <3> QED
      BY <3>1, <3>2
  <2>5. \A k \in 1 .. First : NewEntries[k] = a[k]
    <3>1. \A k \in 1 .. First : k \in 1 .. First + 2 /\ k \in 1 .. First + 6
      BY <1>4
    <3> QED
      BY <2>2, <2>3, <2>4, <3>1
  <2>6. \A k \in 1 .. 2 : NewEntries[First + k] = b[k]
    <3>1. \A k \in 1 .. 2 : First + k \in 1 .. First + 2 /\ First + k \in 1 .. First + 6
      BY <1>4
    <3> QED
      BY <2>2, <2>3, <2>4, <3>1
  <2>7. \A k \in 1 .. 4 : NewEntries[(First + 2) + k] = c[k]
    <3>1. \A k \in 1 .. 4 : (First + 2) + k \in 1 .. First + 6
      BY <1>4
    <3> QED
      BY <2>3, <2>4, <3>1
  <2> QED
    BY <2>4, <2>5, <2>6, <2>7 DEF R
<1>9. MethodTable(First + 2, MTRACE_entry)
  <2>1. \A k \in {1, 2, 3, 4} : NewEntries[(First + 2) + k] = c[k]
    <3>1. \A k \in 1 .. 4 : NewEntries[(First + 2) + k] = c[k]
      BY <1>8
    <3> HIDE DEF e, a, b1, b2, b, c, d
    <3> QED
      BY <3>1
  <2> QED
    BY <2>1 DEF MethodTable, MethodEntries
<1>10. MethodTable(First + 6, MTRACE_exit)
  <2>1. \A k \in {1, 2, 3, 4} : NewEntries[(First + 6) + k] = d[k]
    <3>1. \A k \in 1 .. 4 : NewEntries[(First + 6) + k] = d[k]
      BY <1>8
    <3> HIDE DEF e, a, b1, b2, b, c, d
    <3> QED
      BY <3>1
  <2> QED
    BY <2>1 DEF MethodTable, MethodEntries
<1>11. /\ First = 1 => NewEntries[1] = e
       /\ NewEntries[First + 1] = b1 /\ NewEntries[First + 2] = b2
  <2> HIDE DEF e, a, b, b1, b2
  <2> QED
    BY <1>5, <1>6, <1>8
<1> QED
  BY <1>4, <1>8, <1>9, <1>10, <1>11 DEF NewTable


LEMMA NewFields ==
  ASSUME NEW what, NEW tag, NEW text, NEW uses, NEW e, e = New(what, tag, text, uses)
  PROVE  e.what = what /\ e.tag = tag /\ e.text = text /\ e.uses = uses
BY DEF New

(* The names of the class's entries, and what they refer to. *)
LEMMA ClassNames ==
  /\ First = 1 => NewEntries[1].what = <<"number", "value">> /\ NewEntries[1].uses = <<>>
  /\ NewEntries[First + 1].what = <<MTRACE_class, "name">>
  /\ NewEntries[First + 1].uses = <<>>
  /\ NewEntries[First + 2].what = <<MTRACE_class, "class">>
  /\ NewEntries[First + 2].uses = << NewEntries[First + 1].what >>
<1> DEFINE w0 == <<"number", "value">>
           w1 == <<MTRACE_class, "name">>
           w2 == <<MTRACE_class, "class">>
           u2 == << w1 >>
<1>1. First = 1 => NewEntries[1] = New(w0, "Integer", no_text, <<>>)
  BY NewEntriesTable DEF NewTable
<1>2. NewEntries[First + 1] = New(w1, "Utf8", MTRACE_class, <<>>)
  BY NewEntriesTable DEF NewTable
<1>3. NewEntries[First + 2] = New(w2, "Class", no_text, u2)
  BY NewEntriesTable DEF NewTable
<1>4. First = 1 => NewEntries[1].what = w0 /\ NewEntries[1].uses = <<>>
  <2> HIDE DEF w0
  <2> QED
    BY <1>1, NewFields
<1>5. NewEntries[First + 1].what = w1 /\ NewEntries[First + 1].uses = <<>>
  <2> HIDE DEF w1
  <2> QED
    BY <1>2, NewFields
<1>6. NewEntries[First + 2].what = w2 /\ NewEntries[First + 2].uses = u2
  <2> HIDE DEF w2, u2
  <2> QED
    BY <1>3, NewFields
<1> QED
  BY <1>4, <1>5, <1>6

(* Those of a method of the bridge. *)
LEMMA MethodNames ==
  ASSUME NEW b, NEW name, MethodTable(b, name)
  PROVE  /\ NewEntries[b + 1].what = <<name, "name">> /\ NewEntries[b + 1].uses = <<>>
         /\ NewEntries[b + 2].what = <<name, "descr">> /\ NewEntries[b + 2].uses = <<>>
         /\ NewEntries[b + 3].what = <<name, "type">>
         /\ NewEntries[b + 3].uses = << NewEntries[b + 1].what, NewEntries[b + 2].what >>
         /\ NewEntries[b + 4].what = <<name, "method">>
         /\ NewEntries[b + 4].uses = << NewEntries[First + 2].what, NewEntries[b + 3].what >>
<1> DEFINE w1 == <<name, "name">>
           w2 == <<name, "descr">>
           w3 == <<name, "type">>
           w4 == <<name, "method">>
           u3 == << w1, w2 >>
           u4 == << <<MTRACE_class, "class">>, w3 >>
<1>1. NewEntries[b + 1] = New(w1, "Utf8", name, <<>>)
  BY DEF MethodTable
<1>2. NewEntries[b + 2] = New(w2, "Utf8", call_sig, <<>>)
  BY DEF MethodTable
<1>3. NewEntries[b + 3] = New(w3, "NameAndType", no_text, u3)
  BY DEF MethodTable
<1>4. NewEntries[b + 4] = New(w4, "Methodref", no_text, u4)
  BY DEF MethodTable
<1>5. NewEntries[b + 1].what = w1 /\ NewEntries[b + 1].uses = <<>>
  <2> HIDE DEF w1
  <2> QED
    BY <1>1, NewFields
<1>6. NewEntries[b + 2].what = w2 /\ NewEntries[b + 2].uses = <<>>
  <2> HIDE DEF w2
  <2> QED
    BY <1>2, NewFields
<1>7. NewEntries[b + 3].what = w3 /\ NewEntries[b + 3].uses = u3
  <2> HIDE DEF w3, u3
  <2> QED
    BY <1>3, NewFields
<1>8. NewEntries[b + 4].what = w4 /\ NewEntries[b + 4].uses = u4
  <2> HIDE DEF w4, u4
  <2> QED
    BY <1>4, NewFields
<1>9. NewEntries[First + 2].what = <<MTRACE_class, "class">>
  BY ClassNames
<1> QED
  BY <1>5, <1>6, <1>7, <1>8, <1>9

\* The place of a name among the names of the new entries.
Base(name) == IF name = MTRACE_entry THEN 2 ELSE IF name = MTRACE_exit THEN 6 ELSE 0
KindNumber(kind) ==
  IF kind = "name" THEN 1 ELSE IF kind \in {"class", "descr"} THEN 2
  ELSE IF kind = "type" THEN 3 ELSE IF kind = "method" THEN 4 ELSE 0
Rank(what) == First + Base(what[1]) + KindNumber(what[2])

(* Every new entry has a name of its own. *)
LEMMA OneName ==
  ASSUME NEW j \in 1 .. Len(NewEntries), NEW k \in 1 .. Len(NewEntries),
         NewEntries[j].what = NewEntries[k].what
  PROVE  j = k
<1>1. ASSUME NEW name, NEW kind
      PROVE  Rank(<<name, kind>>) = First + Base(name) + KindNumber(kind)
  BY DEF Rank
<1>2. /\ Base(MTRACE_class) = 0 /\ Base("number") = 0
      /\ Base(MTRACE_entry) = 2 /\ Base(MTRACE_exit) = 6
  BY DEF Base, MTRACE_class, MTRACE_entry, MTRACE_exit
<1>3. /\ KindNumber("name") = 1 /\ KindNumber("class") = 2 /\ KindNumber("descr") = 2
      /\ KindNumber("type") = 3 /\ KindNumber("method") = 4 /\ KindNumber("value") = 0
  BY DEF KindNumber
<1>4. First \in {0, 1} /\ Len(NewEntries) = First + 10
  BY NewEntriesTable DEF NewTable, First
<1>5. First = 1 => Rank(NewEntries[1].what) = 1
  <2>1. Rank(<<"number", "value">>) = First + 0 + 0
    BY <1>1, <1>2, <1>3
  <2> QED
    BY <2>1, ClassNames
<1>6. Rank(NewEntries[First + 1].what) = First + 1
  <2>1. Rank(<<MTRACE_class, "name">>) = First + 0 + 1
    BY <1>1, <1>2, <1>3
  <2>2. First + 0 + 1 = First + 1
    BY <1>4
  <2> QED
    BY <2>1, <2>2, ClassNames
<1>7. Rank(NewEntries[First + 2].what) = First + 2
  <2>1. Rank(<<MTRACE_class, "class">>) = First + 0 + 2
    BY <1>1, <1>2, <1>3
  <2>2. First + 0 + 2 = First + 2
    BY <1>4
  <2> QED
    BY <2>1, <2>2, ClassNames
<1>8. ASSUME NEW name, NEW b, MethodTable(b, name), First + Base(name) = b
      PROVE  /\ Rank(NewEntries[b + 1].what) = b + 1 /\ Rank(NewEntries[b + 2].what) = b + 2
             /\ Rank(NewEntries[b + 3].what) = b + 3 /\ Rank(NewEntries[b + 4].what) = b + 4
  <2>1. /\ Rank(<<name, "name">>) = b + 1 /\ Rank(<<name, "descr">>) = b + 2
        /\ Rank(<<name, "type">>) = b + 3 /\ Rank(<<name, "method">>) = b + 4
    BY <1>1, <1>3, <1>8
  <2> QED
    BY <1>8, <2>1, MethodNames
<1>9. /\ MethodTable(First + 2, MTRACE_entry) /\ First + Base(MTRACE_entry) = First + 2
      /\ MethodTable(First + 6, MTRACE_exit) /\ First + Base(MTRACE_exit) = First + 6
  BY <1>2, NewEntriesTable DEF NewTable
<1>10. \A n \in {(First + 2) + 1, (First + 2) + 2, (First + 2) + 3, (First + 2) + 4} :
         Rank(NewEntries[n].what) = n
  <2> DEFINE b == First + 2
  <2> HIDE DEF b
  <2>2. MethodTable(b, MTRACE_entry) /\ First + Base(MTRACE_entry) = b
    BY <1>9 DEF b
  <2>3. \A n \in {b + 1, b + 2, b + 3, b + 4} : Rank(NewEntries[n].what) = n
    BY <1>8, <2>2
  <2> QED
    BY <2>3 DEF b
<1>11. \A n \in {(First + 6) + 1, (First + 6) + 2, (First + 6) + 3, (First + 6) + 4} :
         Rank(NewEntries[n].what) = n
  <2> DEFINE b == First + 6
  <2> HIDE DEF b
  <2>2. MethodTable(b, MTRACE_exit) /\ First + Base(MTRACE_exit) = b
    BY <1>9 DEF b
  <2>3. \A n \in {b + 1, b + 2, b + 3, b + 4} : Rank(NewEntries[n].what) = n
    BY <1>8, <2>2
  <2> QED
    BY <2>3 DEF b
<1>12. ASSUME NEW n \in 1 .. Len(NewEntries)
       PROVE  Rank(NewEntries[n].what) = n
  <2>1. \/ First = 1 /\ n = 1
        \/ n = First + 1 \/ n = First + 2
        \/ n \in {(First + 2) + 1, (First + 2) + 2, (First + 2) + 3, (First + 2) + 4}
        \/ n \in {(First + 6) + 1, (First + 6) + 2, (First + 6) + 3, (First + 6) + 4}
    BY <1>4
  <2> QED
    BY <1>5, <1>6, <1>7, <1>10, <1>11, <2>1
<1> QED
  BY <1>12

\* Entry k refers to entry j.
Refers(k, u, j) == NewEntries[k].uses[u] = NewEntries[j].what

(* A new entry refers to at most two others, and they come before it. *)
LEMMA UsesBefore ==
  ASSUME NEW k \in 1 .. Len(NewEntries)
  PROVE  /\ Len(NewEntries[k].uses) \in 0 .. 2
         /\ \A u \in 1 .. Len(NewEntries[k].uses) : \E j \in 1 .. k - 1 : Refers(k, u, j)
<1> DEFINE Fine(n) ==
             /\ Len(NewEntries[n].uses) \in 0 .. 2
             /\ \A u \in 1 .. Len(NewEntries[n].uses) : \E j \in 1 .. n - 1 : Refers(n, u, j)
<1>1. Len(NewEntries) = First + 10 /\ First \in {0, 1}
  BY NewEntriesTable DEF NewTable, First
<1>2. ASSUME NEW n, NewEntries[n].uses = <<>>
      PROVE  Fine(n)
  BY <1>2
<1>3. ASSUME NEW n \in Nat, NEW x \in Nat, 0 < x, x < n,
             NewEntries[n].uses = << NewEntries[x].what >>
      PROVE  Fine(n)
  <2>1. Len(NewEntries[n].uses) = 1 /\ Refers(n, 1, x) /\ x \in 1 .. n - 1
    BY <1>3 DEF Refers
  <2> QED
    BY <2>1
<1>4. ASSUME NEW n \in Nat, NEW x \in Nat, NEW y \in Nat, 0 < x, x < n, 0 < y, y < n,
             NewEntries[n].uses = << NewEntries[x].what, NewEntries[y].what >>
      PROVE  Fine(n)
  <2>1. /\ Len(NewEntries[n].uses) = 2 /\ Refers(n, 1, x) /\ Refers(n, 2, y)
        /\ x \in 1 .. n - 1 /\ y \in 1 .. n - 1
    BY <1>4 DEF Refers
  <2> QED
    BY <2>1
<1>5. First = 1 => Fine(1)
  BY <1>2, ClassNames
<1>6. Fine(First + 1)
  BY <1>2, ClassNames
<1>7. Fine(First + 2)
  <2>1. First + 1 \in Nat /\ First + 2 \in Nat /\ 0 < First + 1 /\ First + 1 < First + 2
    BY <1>1
  <2>2. NewEntries[First + 2].uses = << NewEntries[First + 1].what >>
    BY ClassNames
  <2> HIDE DEF Fine
  <2> QED
    BY <1>3, <2>1, <2>2
<1>8. ASSUME NEW name, NEW b \in {First + 2, First + 6}, MethodTable(b, name)
      PROVE  Fine(b + 1) /\ Fine(b + 2) /\ Fine(b + 3) /\ Fine(b + 4)
  <2>1. /\ b + 1 \in Nat /\ b + 2 \in Nat /\ b + 3 \in Nat /\ b + 4 \in Nat
        /\ 0 < b + 1 /\ 0 < b + 2 /\ 0 < b + 3 /\ First + 2 \in Nat /\ 0 < First + 2
        /\ b + 1 < b + 3 /\ b + 2 < b + 3 /\ b + 3 < b + 4 /\ First + 2 < b + 4
    BY <1>1
  <2>2. NewEntries[b + 1].uses = <<>> /\ NewEntries[b + 2].uses = <<>>
    BY <1>8, MethodNames
  <2>3. NewEntries[b + 3].uses = << NewEntries[b + 1].what, NewEntries[b + 2].what >>
    BY <1>8, MethodNames
  <2>4. NewEntries[b + 4].uses = << NewEntries[First + 2].what, NewEntries[b + 3].what >>
    BY <1>8, MethodNames
  <2> HIDE DEF Fine
  <2>5. Fine(b + 1) /\ Fine(b + 2)
    BY <1>2, <2>2
  <2>6. Fine(b + 3)
    BY <1>4, <2>1, <2>3
  <2>7. Fine(b + 4)
    BY <1>4, <2>1, <2>4
  <2> QED
    BY <2>5, <2>6, <2>7
<1>9. /\ Fine((First + 2) + 1) /\ Fine((First + 2) + 2)
      /\ Fine((First + 2) + 3) /\ Fine((First + 2) + 4)
  <2>1. MethodTable(First + 2, MTRACE_entry)
    BY NewEntriesTable DEF NewTable
  <2> HIDE DEF Fine
  <2> QED
    BY <1>8, <2>1
<1>10. /\ Fine((First + 6) + 1) /\ Fine((First + 6) + 2)
       /\ Fine((First + 6) + 3) /\ Fine((First + 6) + 4)
  <2>1. MethodTable(First + 6, MTRACE_exit)
    BY NewEntriesTable DEF NewTable
  <2> HIDE DEF Fine
  <2> QED
    BY <1>8, <2>1
<1>11. Fine(k)
  <2>1. \/ First = 1 /\ k = 1
        \/ k = First + 1 \/ k = First + 2
        \/ k \in {(First + 2) + 1, (First + 2) + 2, (First + 2) + 3, (First + 2) + 4}
        \/ k \in {(First + 6) + 1, (First + 6) + 2, (First + 6) + 3, (First + 6) + 4}
    BY <1>1
  <2> HIDE DEF Fine
  <2> QED
    BY <1>5, <1>6, <1>7, <1>9, <1>10, <2>1
<1> QED
  BY <1>11

-----------------------------------------------------------------------------
(***************************************************************************)
(* What the invariant says of the file and of the new entries.             *)
(***************************************************************************)
(* A file fits its indexes. *)
LEMMA FileFits ==
  ASSUME TypeInv
  PROVE  /\ file.pool \in Seq(PoolEntries) /\ PoolSize \in Nat
         /\ count_plus_one \in Nat /\ count_plus_one < IndexWidth
         /\ count_plus_one > PoolSize
         /\ IndexWidth \in Nat /\ MAXIMUM_NEW_CPOOL_ENTRIES \in Nat
         /\ MaxStack \in Nat /\ MaxShort \in Nat /\ number \in Nat
<1>1. WellFormedFile(file)
  BY FilesAssumption DEF TypeInv
<1>2. file.pool \in Seq(PoolEntries) /\ IndexOf(file.pool, PoolSize + 1) < IndexWidth
  BY <1>1 DEF WellFormedFile, PoolSize
<1>3. PoolSize \in Nat
  BY <1>2, LenProperties DEF PoolSize
<1>4. IndexOf(file.pool, PoolSize + 1) \in Nat /\ IndexOf(file.pool, PoolSize + 1) >= PoolSize + 1
  BY <1>3, IndexStep
<1>5. count_plus_one = IndexOf(file.pool, PoolSize + 1)
  BY DEF count_plus_one, PoolSize
<1>6. /\ IndexWidth \in Nat /\ MAXIMUM_NEW_CPOOL_ENTRIES \in Nat
      /\ MaxStack \in Nat /\ MaxShort \in Nat /\ number \in Nat
  BY ClassFileAssumption DEF TypeInv
<1> QED
  BY <1>2, <1>3, <1>4, <1>5, <1>6

(* The k-th new entry, filled in, is an entry of the pool with one slot. *)
LEMMA FilledTyped ==
  ASSUME TypeInv, PoolInv, NEW k \in 1 .. Len(NewEntries)
  PROVE  /\ NewEntries[k] \in NewRecords
         /\ Filled(NewEntries[k]) \in OutEntries /\ Slots(Filled(NewEntries[k])) = 1
<1> DEFINE new == NewEntries[k]
<1>1. new \in NewRecords
  <2>1. NewEntries \in Seq(NewRecords)
    BY NewEntriesTable DEF NewTable
  <2> HIDE DEF NewRecords
  <2> QED
    BY <2>1, ElementOfSeq
<1>2. \A what : NewIndex(what) \in Nat
  <2> SUFFICES ASSUME NEW what PROVE NewIndex(what) \in Nat
    OBVIOUS
  <2> DEFINE Places == {j \in 1 .. Len(added) : NewEntries[j].what = what}
  <2>1. CASE Places = {}
    BY <2>1 DEF NewIndex
  <2>2. CASE Places # {}
    <3>1. (CHOOSE j \in Places : TRUE) \in Places
      BY <2>2
    <3>2. (CHOOSE j \in Places : TRUE) \in 1 .. Len(added)
      BY <3>1
    <3>3. added[CHOOSE j \in Places : TRUE] \in Nat
      BY <3>2 DEF TypeInv
    <3> QED
      BY <2>2, <3>3 DEF NewIndex
  <2> QED
    BY <2>1, <2>2
<1>3. number \div U2 \in Nat /\ number % U2 \in Nat
  <2>1. number \in Nat /\ U2 \in Nat /\ U2 > 0
    BY FileFits DEF U2
  <2> HIDE DEF U2
  <2> QED
    BY <2>1
<1>4. new.tag \in KnownTags \ TwoSlots /\ new.text \in Texts
  BY <1>1 DEF NewRecords
<1> HIDE DEF new
<1>5. Filled(new).index1 \in Nat /\ Filled(new).index2 \in Nat
  BY <1>2, <1>3 DEF Filled
<1>6. Filled(new).tag = new.tag /\ Filled(new).text = new.text
  BY DEF Filled
<1>7. Filled(new) = [tag |-> Filled(new).tag, text |-> Filled(new).text,
                     index1 |-> Filled(new).index1, index2 |-> Filled(new).index2]
  BY DEF Filled
<1>8. Filled(new) \in OutEntries
  BY <1>4, <1>5, <1>6, <1>7 DEF OutEntries
<1>9. Slots(Filled(new)) = 1
  BY <1>4, <1>6 DEF Slots
<1> QED
  BY <1>1, <1>8, <1>9 DEF new

(* The new entries depend on the class number only, and there is room for them. *)
LEMMA NewEntriesFew ==
  Len(NewEntries) \in Nat /\ Len(NewEntries) < MAXIMUM_NEW_CPOOL_ENTRIES
<1>1. Len(NewEntries) = First + 10 /\ First \in {0, 1}
  BY NewEntriesTable DEF NewTable, First
<1>2. MAXIMUM_NEW_CPOOL_ENTRIES \in Nat
  BY ClassFileAssumption
<1> QED
  BY <1>1, <1>2, NewEntriesFit

(* The entry of a name is the one that was added under it. *)
LEMMA FoundAt ==
  ASSUME NEW indexes, NEW k \in 1 .. Len(indexes),
         Len(indexes) \in Nat, Len(indexes) <= Len(NewEntries)
  PROVE  LET Places == {j \in 1 .. Len(indexes) : NewEntries[j].what = NewEntries[k].what}
         IN  Places # {} /\ (CHOOSE j \in Places : TRUE) = k
<1> DEFINE Places == {j \in 1 .. Len(indexes) : NewEntries[j].what = NewEntries[k].what}
<1>1. \A j \in 1 .. Len(indexes) : j \in 1 .. Len(NewEntries)
  <2>1. Len(NewEntries) \in Nat
    BY NewEntriesFew
  <2> QED
    BY <2>1
<1>2. k \in Places
  OBVIOUS
<1>3. \A j \in Places : j = k
  BY <1>1, OneName
<1> QED
  BY <1>2, <1>3

LEMMA IndexOfNew ==
  ASSUME NEW k \in 1 .. Len(added), Len(added) \in Nat, Len(added) <= Len(NewEntries)
  PROVE  NewIndex(NewEntries[k].what) = added[k]
BY FoundAt DEF NewIndex

(* An entry stays right while others follow. *)
LEMMA FilledStays ==
  ASSUME NEW k \in 1 .. Len(NewEntries), UNCHANGED number,
         \A j \in 1 .. k - 1 : NewIndex(NewEntries[j].what)' = NewIndex(NewEntries[j].what)
  PROVE  Filled(NewEntries[k])' = Filled(NewEntries[k])
<1>1. NewEntries' = NewEntries
  BY DEF NewEntries
<1> DEFINE new == NewEntries[k]
           uses == NewEntries[k].uses
<1>2. /\ Len(uses) \in 0 .. 2
      /\ \A u \in 1 .. Len(uses) : NewIndex(uses[u])' = NewIndex(uses[u])
  <2>1. Len(uses) \in 0 .. 2
    BY UsesBefore
  <2>2. ASSUME NEW u \in 1 .. Len(uses)
        PROVE  NewIndex(uses[u])' = NewIndex(uses[u])
    <3>1. PICK j \in 1 .. k - 1 : uses[u] = NewEntries[j].what
      BY UsesBefore DEF Refers
    <3>2. uses' = uses /\ NewEntries[j].what' = NewEntries[j].what
      BY <1>1
    <3> QED
      BY <3>1, <3>2
  <2> QED
    BY <2>1, <2>2
<1>3. Len(uses) >= 1 => NewIndex(uses[1])' = NewIndex(uses[1])
  BY <1>2
<1>4. Len(uses) = 2 => NewIndex(uses[2])' = NewIndex(uses[2])
  BY <1>2
<1>5. new' = new
  BY <1>1
<1> QED
  BY <1>1, <1>3, <1>4, <1>5 DEF Filled, U2

-----------------------------------------------------------------------------
(***************************************************************************)
(* The invariant is inductive.                                             *)
(***************************************************************************)
(* It holds before the walk. *)
LEMMA InitInv == CrwInit => IInv
<1> SUFFICES ASSUME CrwInit PROVE IInv
  OBVIOUS
<1> USE DEF CrwInit
<1>1. WellFormedFile(file)
  BY FilesAssumption
<1>2. IndexWidth > 0 /\ IndexWidth \in Nat /\ number \in Nat
  <2>1. IndexOf(file.pool, Len(file.pool) + 1) \in Nat
    <3>1. Len(file.pool) \in Nat
      BY <1>1, LenProperties DEF WellFormedFile
    <3> QED
      BY <3>1, IndexStep
  <2> QED
    BY <1>1, <2>1, ClassFileAssumption DEF WellFormedFile
<1>3. TypeInv
  <2>1. out \in Seq(OutEntries) /\ added \in Seq(Nat)
    BY EmptySeq
  <2> QED
    BY <1>2, <2>1 DEF TypeInv
<1>4. Len(out) = 0 /\ Len(added) = 0 /\ Len(methods) = 0
  BY EmptySeq
<1>5. PoolInv
  <2>1. Len(NewEntries) \in Nat /\ PoolSize \in Nat
    BY <1>3, FileFits, NewEntriesFew
  <2>2. i = IndexOf(file.pool, Len(out) + 1)
    BY <1>4, FirstIndex
  <2> QED
    BY <1>4, <2>1, <2>2 DEF PoolInv
<1>6. MirrorInv
  <2>1. {<<IndexOf(out, k), out[k]>> : k \in 1 .. Len(out)} = {}
    BY <1>4
  <2> QED
    BY <2>1 DEF MirrorInv
<1>7. MethodsInv
  <2>1. Len(file.methods) \in Nat
    BY <1>1, LenProperties DEF WellFormedFile
  <2>2. methods \in Seq(WrittenMethods)
    BY EmptySeq
  <2> QED
    BY <1>4, <2>1, <2>2 DEF MethodsInv
<1>8. OrdinaryInv
  BY DEF OrdinaryInv
<1>9. FilledInv
  BY <1>4 DEF FilledInv
<1> QED
  BY <1>9, <1>3, <1>5, <1>6, <1>7, <1>8 DEF IInv

(* What depends on the class number and on the indexes of the new entries only. *)
LEMMA SameCalls ==
  ASSUME UNCHANGED <<number, added>>
  PROVE  /\ NewEntries' = NewEntries /\ WrittenMethods' = WrittenMethods
         /\ \A m : BridgeCalls(m)' = BridgeCalls(m)
<1>1. NewEntries' = NewEntries
  BY DEF NewEntries
<1>2. WrittenMethods' = WrittenMethods
  BY DEF WrittenMethods, Calls, Call, push_cnum, push_pool_constant, push_mnum, NewIndex, NewEntries
<1>3. \A m : BridgeCalls(m)' = BridgeCalls(m)
  BY DEF BridgeCalls, Call, push_cnum, push_pool_constant, push_mnum, NewIndex, NewEntries
<1> QED
  BY <1>1, <1>2, <1>3

LEMMA SameFilled ==
  ASSUME FilledInv, UNCHANGED <<file, number, out, added>>
  PROVE  FilledInv'
<1>1. NewEntries' = NewEntries /\ PoolSize' = PoolSize
  BY DEF NewEntries, PoolSize
<1>2. \A k : Filled(NewEntries[k])' = Filled(NewEntries[k])
  BY <1>1 DEF Filled, NewIndex, U2
<1> QED
  BY <1>1, <1>2 DEF FilledInv

(* An error leaves everything as it is; the class file was not an ordinary one. *)
LEMMA FatalInv ==
  ASSUME IInv, CrwFatal, stage \in {"begin", "pool", "add", "methods"}, ~ Ordinary
  PROVE  IInv'
<1> USE DEF IInv, CrwFatal, arguments, constantPool
<1>1. /\ UNCHANGED <<file, number, i, out, cpool, cpool_max_elements,
                     cpool_count_plus_one, added, methods, registered>>
      /\ stage' = "fatal"
  OBVIOUS
<1>2. TypeInv'
  BY <1>1 DEF TypeInv
<1>3. NewEntries' = NewEntries /\ PoolSize' = PoolSize /\ count_plus_one' = count_plus_one
  BY <1>1 DEF NewEntries, PoolSize, count_plus_one
<1>4. PoolInv'
  BY <1>1, <1>3 DEF PoolInv
<1>5. MirrorInv'
  BY <1>1 DEF MirrorInv
<1>6. MethodsInv'
  <2>1. WrittenMethods' = WrittenMethods /\ \A m : BridgeCalls(m)' = BridgeCalls(m)
    BY <1>1, SameCalls
  <2>2. registered = <<>>
    BY DEF MethodsInv
  <2> QED
    BY <1>1, <2>1, <2>2 DEF MethodsInv
<1>7. ~ Ordinary'
  BY <1>1, <1>3 DEF Ordinary
<1>8. OrdinaryInv'
  BY <1>7 DEF OrdinaryInv
<1>9. FilledInv'
  BY <1>1, SameFilled
<1> QED
  BY <1>9, <1>2, <1>4, <1>5, <1>6, <1>8

LEMMA BeginInv ==
  ASSUME IInv, Begin \/ BeginFails
  PROVE  IInv'
<1> USE DEF IInv
<1>1. CASE Begin
  <2> USE <1>1 DEF Begin
  <2>1. /\ UNCHANGED <<file, number, i, out, cpool, added, methods, registered>>
        /\ stage = "begin" /\ stage' = "pool"
        /\ cpool_count_plus_one' = count_plus_one
        /\ cpool_max_elements' = (count_plus_one + MAXIMUM_NEW_CPOOL_ENTRIES) % IndexWidth
    BY DEF arguments
  <2>2. /\ NewEntries' = NewEntries /\ WrittenMethods' = WrittenMethods
        /\ \A m : BridgeCalls(m)' = BridgeCalls(m)
    BY <2>1, SameCalls
  <2>3. PoolSize' = PoolSize /\ count_plus_one' = count_plus_one
    BY <2>1 DEF PoolSize, count_plus_one
  <2>4. /\ count_plus_one \in Nat /\ MAXIMUM_NEW_CPOOL_ENTRIES \in Nat /\ IndexWidth \in Nat
        /\ count_plus_one < IndexWidth
    BY FileFits
  <2>5. cpool_max_elements' \in 0 .. IndexWidth - 1
    BY <2>1, <2>4
  <2>6. TypeInv'
    BY <2>1, <2>4, <2>5 DEF TypeInv
  <2>7. PoolInv'
    BY <2>1, <2>2, <2>3 DEF PoolInv
  <2>8. MirrorInv'
    BY <2>1 DEF MirrorInv, PoolInv
  <2>9. MethodsInv'
    BY <2>1, <2>2 DEF MethodsInv
  <2>10. OrdinaryInv'
    <3>1. Ordinary' => Ordinary
      BY <2>1, <2>3 DEF Ordinary
    <3>2. ASSUME Ordinary
          PROVE  cpool_max_elements' = count_plus_one + MAXIMUM_NEW_CPOOL_ENTRIES
      <4>1. count_plus_one + MAXIMUM_NEW_CPOOL_ENTRIES < IndexWidth
        BY <3>2 DEF Ordinary
      <4> QED
        BY <2>1, <2>4, <4>1
    <3> QED
      BY <2>1, <2>3, <3>1, <3>2 DEF OrdinaryInv
  <2>11. FilledInv'
    BY <2>1, SameFilled
  <2> QED
    BY <2>11, <2>6, <2>7, <2>8, <2>9, <2>10
<1>2. CASE BeginFails
  <2>1. CrwFatal /\ stage = "begin"
    BY <1>2 DEF BeginFails
  <2>2. ~ Ordinary
    <3>1. CASE ~ file.known_version
      BY <3>1 DEF Ordinary
    <3>3. CASE count_plus_one <= 1
      <4>1. file.pool = <<>>
        <5>1. /\ PoolSize \in Nat /\ count_plus_one \in Nat
              /\ file.pool \in Seq(PoolEntries) /\ count_plus_one > PoolSize
          BY FileFits
        <5>2. Len(file.pool) = 0
          BY <3>3, <5>1 DEF PoolSize
        <5> HIDE DEF PoolEntries
        <5> QED
          BY <5>1, <5>2, EmptySeq
      <4> QED
        BY <4>1 DEF Ordinary
    <3>2. CASE (count_plus_one + MAXIMUM_NEW_CPOOL_ENTRIES) % IndexWidth = 0
      <4>1. /\ count_plus_one \in Nat /\ MAXIMUM_NEW_CPOOL_ENTRIES \in Nat
            /\ IndexWidth \in Nat /\ count_plus_one > 0
        BY FileFits
      <4>2. ASSUME count_plus_one + MAXIMUM_NEW_CPOOL_ENTRIES < IndexWidth
            PROVE  FALSE
        BY <3>2, <4>1, <4>2
      <4> QED
        BY <4>2 DEF Ordinary
    <3> QED
      BY <1>2, <3>1, <3>2, <3>3 DEF BeginFails
  <2> QED
    BY <2>1, <2>2, FatalInv
<1> QED
  BY <1>1, <1>2

LEMMA CopyEntryInv ==
  ASSUME IInv, CopyEntry
  PROVE  IInv'
<1> USE DEF IInv
<1> DEFINE n == Len(out)
           entry == file.pool[n + 1]
<1>1. /\ UNCHANGED <<file, number, cpool_max_elements, cpool_count_plus_one, added,
                     methods, registered>>
      /\ stage = "pool" /\ i < count_plus_one /\ entry.tag \in KnownTags
      /\ out' = Append(out, entry) /\ i' = i + Slots(entry)
  BY DEF CopyEntry, arguments
<1>2. i \in 1 .. cpool_count_plus_one - 1 =>
        /\ cpool' = cpool \cup {<<i, entry>>}
        /\ \/ i < cpool_max_elements /\ stage' = "pool"
           \/ ~ (i < cpool_max_elements) /\ stage' = "undefined"
  BY <1>1 DEF CopyEntry, fillin_cpool_entry
<1>3. /\ NewEntries' = NewEntries /\ WrittenMethods' = WrittenMethods
      /\ \A m : BridgeCalls(m)' = BridgeCalls(m)
  BY <1>1, SameCalls
<1>4. PoolSize' = PoolSize /\ count_plus_one' = count_plus_one
  BY <1>1 DEF PoolSize, count_plus_one
<1>5. /\ count_plus_one \in Nat /\ PoolSize \in Nat /\ file.pool \in Seq(PoolEntries)
      /\ n \in Nat
  <2>1. out \in Seq(OutEntries)
    BY DEF TypeInv
  <2> HIDE DEF PoolEntries, OutEntries
  <2> QED
    BY <2>1, FileFits, LenProperties
<1>6. Len(added) = 0 /\ n <= PoolSize /\ i = IndexOf(file.pool, n + 1)
  BY <1>1 DEF PoolInv
<1>7. n < PoolSize
  <2>1. ASSUME n = PoolSize PROVE FALSE
    <3>1. i = count_plus_one
      BY <1>6, <2>1 DEF count_plus_one, PoolSize
    <3> QED
      BY <1>1, <1>5, <3>1
  <2> QED
    BY <1>5, <1>6, <2>1
<1>8. entry \in OutEntries
  <2>1. entry \in PoolEntries
    <3>1. n + 1 \in 1 .. Len(file.pool)
      BY <1>5, <1>7 DEF PoolSize
    <3> HIDE DEF PoolEntries
    <3> QED
      BY <1>5, <3>1, ElementOfSeq
  <2> QED
    BY <2>1 DEF PoolEntries, OutEntries
<1>9. /\ out' \in Seq(OutEntries) /\ Len(out') = n + 1 /\ out'[n + 1] = entry
      /\ \A k \in 1 .. n : out'[k] = out[k]
      /\ \A k \in 1 .. n + 1 : IndexOf(out', k) = IndexOf(out, k)
      /\ IndexOf(out, n + 1) \in Nat /\ IndexOf(out, n + 1) > 0
  <2>1. out \in Seq(OutEntries)
    BY DEF TypeInv
  <2> HIDE DEF entry
  <2> QED
    BY <1>1, <1>8, <2>1, Appended
<1>10. IndexOf(out, n + 1) = i
  <2>1. \A k \in 1 .. n : out[k] = file.pool[k]
    <3>1. \A k \in 1 .. n : k <= PoolSize
      BY <1>5, <1>6
    <3> QED
      BY <3>1 DEF PoolInv
  <2>2. n + 1 \in Nat /\ (n + 1) - 1 = n
    BY <1>5
  <2>3. IndexOf(out, n + 1) = IndexOf(file.pool, n + 1)
    BY <2>1, <2>2, SameIndex
  <2> QED
    BY <1>6, <2>3
<1>11. i' = IndexOf(file.pool, (n + 1) + 1)
  <2>1. n + 1 \in Nat /\ n + 1 > 0
    BY <1>5
  <2> QED
    BY <1>1, <1>6, <2>1, IndexStep
<1>18. /\ cpool' = cpool \cup {<<i, entry>>}
       /\ \/ i < cpool_max_elements /\ stage' = "pool"
          \/ ~ (i < cpool_max_elements) /\ stage' = "undefined"
       /\ i \in 1 .. IndexWidth - 1
  <2>1. cpool_count_plus_one = count_plus_one
    BY <1>1 DEF PoolInv
  <2>2. i \in Nat /\ i > 0
    BY <1>9, <1>10
  <2>3. i \in 1 .. cpool_count_plus_one - 1
    BY <1>1, <1>5, <2>1, <2>2
  <2>4. count_plus_one < IndexWidth /\ IndexWidth \in Nat
    BY FileFits
  <2>5. i \in 1 .. IndexWidth - 1
    BY <1>1, <1>5, <2>2, <2>4
  <2> QED
    BY <1>2, <2>3, <2>5
<1> HIDE DEF entry, n
<1>12. TypeInv'
  <2>1. i' \in Nat
    <3>1. (n + 1) + 1 \in Nat /\ (n + 1) + 1 > 0
      BY <1>5
    <3> QED
      BY <1>11, <3>1, IndexStep
  <2>2. stage' \in {"pool", "undefined"}
    BY <1>18
  <2> QED
    BY <1>1, <1>9, <2>1, <2>2 DEF TypeInv
<1>13. PoolInv'
  <2>1. \A k \in 1 .. Len(out') : k <= PoolSize' => out'[k] = file'.pool[k]
    <3>1. \A k \in 1 .. n + 1 : k \in 1 .. n \/ k = n + 1
      BY <1>5
    <3>2. \A k \in 1 .. n : k <= PoolSize => out[k] = file.pool[k]
      BY DEF PoolInv, n
    <3> QED
      BY <1>1, <1>4, <1>9, <3>1, <3>2 DEF entry
  <2>2. Len(added') = 0 /\ Len(out') <= PoolSize'
    BY <1>1, <1>4, <1>5, <1>6, <1>7, <1>9
  <2>3. i' = IndexOf(file'.pool, Len(out') + 1)
    BY <1>1, <1>9, <1>11
  <2>4. cpool_count_plus_one' = count_plus_one'
    BY <1>1, <1>4 DEF PoolInv
  <2>5. Len(added') <= Len(NewEntries')
    BY <1>1, <1>3 DEF PoolInv
  <2>6. stage' \in {"pool", "undefined"}
    BY <1>18
  <2> QED
    BY <2>1, <2>2, <2>3, <2>4, <2>5, <2>6 DEF PoolInv
<1>14. MirrorInv'
  <2>1. cpool = {<<IndexOf(out, k), out[k]>> : k \in 1 .. n}
    BY <1>1 DEF MirrorInv, n
  <2>2. {<<IndexOf(out', k), out'[k]>> : k \in 1 .. n + 1}
          = {<<IndexOf(out, k), out[k]>> : k \in 1 .. n} \cup {<<i, entry>>}
    <3>1. \A k : k \in 1 .. n + 1 <=> k \in 1 .. n \/ k = n + 1
      BY <1>5
    <3> QED
      BY <1>9, <1>10, <3>1
  <2>3. cpool' = {<<IndexOf(out', k), out'[k]>> : k \in 1 .. Len(out')}
    BY <1>9, <1>18, <2>1, <2>2
  <2>4. \A e \in cpool' : e[1] \in 1 .. IndexWidth - 1
    <3>1. \A e \in cpool : e[1] \in 1 .. IndexWidth - 1
      BY DEF MirrorInv
    <3> QED
      BY <1>18, <3>1
  <2> QED
    BY <2>3, <2>4 DEF MirrorInv
<1>15. MethodsInv'
  BY <1>1, <1>18, <1>3 DEF MethodsInv
<1>16. OrdinaryInv'
  <2>1. Ordinary' => Ordinary
    BY <1>1, <1>4 DEF Ordinary
  <2>2. ASSUME Ordinary
        PROVE  /\ cpool_max_elements = count_plus_one + MAXIMUM_NEW_CPOOL_ENTRIES
               /\ i < cpool_max_elements
    <3>1. cpool_max_elements = count_plus_one + MAXIMUM_NEW_CPOOL_ENTRIES
      BY <1>1, <2>2 DEF OrdinaryInv
    <3>2. MAXIMUM_NEW_CPOOL_ENTRIES \in Nat /\ i \in Nat
      BY ClassFileAssumption DEF TypeInv
    <3> QED
      BY <1>1, <1>5, <3>1, <3>2
  <2> QED
    BY <1>1, <1>18, <1>4, <2>1, <2>2 DEF OrdinaryInv
<1>17. FilledInv'
  <2>1. Len(added') = 0
    BY <1>1, <1>6
  <2> QED
    BY <2>1 DEF FilledInv
<1> QED
  BY <1>17, <1>12, <1>13, <1>14, <1>15, <1>16

LEMMA UnknownTagInv ==
  ASSUME IInv, UnknownTag
  PROVE  IInv'
<1> USE DEF IInv
<1>1. /\ CrwFatal /\ stage = "pool" /\ i < count_plus_one
      /\ file.pool[Len(out) + 1].tag \notin KnownTags
  BY DEF UnknownTag
<1>2. Len(out) + 1 \in 1 .. PoolSize
  <2>1. out \in Seq(OutEntries)
    BY DEF TypeInv
  <2>2. Len(out) \in Nat
    BY <2>1, LenProperties
  <2>3. count_plus_one \in Nat /\ PoolSize \in Nat
    BY FileFits
  <2>4. Len(out) <= PoolSize /\ i = IndexOf(file.pool, Len(out) + 1)
    BY <1>1 DEF PoolInv
  <2>5. Len(out) # PoolSize
    BY <1>1, <2>3, <2>4 DEF count_plus_one, PoolSize
  <2> QED
    BY <2>2, <2>3, <2>4, <2>5
<1>3. JavaEightTags \subseteq KnownTags
  BY DEF JavaEightTags, KnownTags, TwoSlots
<1>4. ~ Ordinary
  BY <1>1, <1>2, <1>3 DEF Ordinary
<1> QED
  BY <1>1, <1>4, FatalInv

LEMMA PoolCopiedInv ==
  ASSUME IInv, PoolCopied
  PROVE  IInv'
<1> USE DEF IInv
<1>1. /\ UNCHANGED <<file, number, i, out, cpool, cpool_max_elements,
                     cpool_count_plus_one, added, methods, registered>>
      /\ stage = "pool" /\ i >= count_plus_one /\ stage' = "add"
  BY DEF PoolCopied, arguments, constantPool
<1>2. /\ NewEntries' = NewEntries /\ WrittenMethods' = WrittenMethods
      /\ \A m : BridgeCalls(m)' = BridgeCalls(m)
  BY <1>1, SameCalls
<1>3. PoolSize' = PoolSize /\ count_plus_one' = count_plus_one
  BY <1>1 DEF PoolSize, count_plus_one
<1>4. Len(out) = PoolSize
  <2>1. out \in Seq(OutEntries)
    BY DEF TypeInv
  <2>2. Len(out) \in Nat
    BY <2>1, LenProperties
  <2>3. count_plus_one \in Nat /\ PoolSize \in Nat
    BY FileFits
  <2>4. Len(out) <= PoolSize /\ i = IndexOf(file.pool, Len(out) + 1)
    BY <1>1 DEF PoolInv
  <2>5. ASSUME Len(out) < PoolSize PROVE FALSE
    <3>1. IndexOf(file.pool, Len(out) + 1) < IndexOf(file.pool, PoolSize + 1)
      BY <2>2, <2>3, <2>5, IndexRises
    <3>2. count_plus_one = IndexOf(file.pool, PoolSize + 1)
      BY DEF count_plus_one, PoolSize
    <3>3. i \in Nat
      BY DEF TypeInv
    <3> QED
      BY <1>1, <2>3, <2>4, <3>1, <3>2, <3>3
  <2> QED
    BY <2>2, <2>3, <2>4, <2>5
<1>5. /\ Len(added) = 0 /\ Len(out) = PoolSize + Len(added)
      /\ cpool_count_plus_one = count_plus_one + Len(added)
  <2>1. count_plus_one \in Nat /\ PoolSize \in Nat
    BY FileFits
  <2> QED
    BY <1>1, <1>4, <2>1 DEF PoolInv
<1>6. cpool_count_plus_one = IndexOf(out, Len(out) + 1)
  <2>1. PoolSize \in Nat /\ PoolSize + 1 \in Nat /\ (PoolSize + 1) - 1 = PoolSize
    BY FileFits
  <2>2. \A k \in 1 .. PoolSize : out[k] = file.pool[k]
    BY <1>4, <2>1 DEF PoolInv
  <2>3. IndexOf(out, PoolSize + 1) = IndexOf(file.pool, PoolSize + 1)
    BY <2>1, <2>2, SameIndex
  <2> QED
    BY <1>1, <1>4, <2>3 DEF PoolInv, count_plus_one, PoolSize
<1>7. TypeInv'
  BY <1>1 DEF TypeInv
<1>8. PoolInv'
  BY <1>1, <1>2, <1>3, <1>5, <1>6 DEF PoolInv
<1>9. MirrorInv'
  BY <1>1 DEF MirrorInv
<1>10. MethodsInv'
  BY <1>1, <1>2 DEF MethodsInv
<1>11. OrdinaryInv'
  <2>1. Ordinary' => Ordinary
    BY <1>1, <1>3 DEF Ordinary
  <2> QED
    BY <1>1, <1>3, <2>1 DEF OrdinaryInv
<1>12. FilledInv'
  BY <1>1, SameFilled
<1> QED
  BY <1>12, <1>7, <1>8, <1>9, <1>10, <1>11

LEMMA PoolDoneInv ==
  ASSUME IInv, PoolDone
  PROVE  IInv'
<1> USE DEF IInv
<1>1. /\ UNCHANGED <<file, number, i, out, cpool, cpool_max_elements,
                     cpool_count_plus_one, added, methods, registered>>
      /\ stage = "add" /\ Len(added) = Len(NewEntries)
      /\ stage' \in {"unchanged", "methods"}
  BY DEF PoolDone, arguments, constantPool
<1>2. /\ NewEntries' = NewEntries /\ WrittenMethods' = WrittenMethods
      /\ \A m : BridgeCalls(m)' = BridgeCalls(m)
  BY <1>1, SameCalls
<1>3. PoolSize' = PoolSize /\ count_plus_one' = count_plus_one
  BY <1>1 DEF PoolSize, count_plus_one
<1>4. TypeInv'
  BY <1>1 DEF TypeInv
<1>5. PoolInv'
  BY <1>1, <1>2, <1>3 DEF PoolInv
<1>6. MirrorInv'
  BY <1>1 DEF MirrorInv
<1>7. MethodsInv'
  BY <1>1, <1>2 DEF MethodsInv
<1>8. OrdinaryInv'
  <2>1. Ordinary' => Ordinary
    BY <1>1, <1>3 DEF Ordinary
  <2> QED
    BY <1>1, <1>3, <2>1 DEF OrdinaryInv
<1>9. FilledInv'
  BY <1>1, SameFilled
<1> QED
  BY <1>9, <1>4, <1>5, <1>6, <1>7, <1>8

(* The assertion keeps an ordinary class file out of add_new_cpool_entry's error. *)
LEMMA AddEntryInv ==
  ASSUME IInv, AddEntry
  PROVE  IInv'
<1> USE DEF IInv
<1> DEFINE a == Len(added)
           n == Len(out)
           c == cpool_count_plus_one
           entry == Filled(NewEntries[a + 1])
           count == (c + 1) % IndexWidth
<1>1. /\ stage = "add" /\ a < Len(NewEntries)
      /\ \/ count >= cpool_max_elements /\ CrwFatal
         \/ /\ ~ (count >= cpool_max_elements)
            /\ out' = Append(out, entry) /\ added' = Append(added, c)
            /\ cpool_count_plus_one' = count
            /\ IF c \in 1 .. count - 1
               THEN /\ cpool' = cpool \cup {<<c, entry>>}
                    /\ \/ c < cpool_max_elements /\ stage' = "add"
                       \/ ~ (c < cpool_max_elements) /\ stage' = "undefined"
               ELSE stage' = "fatal" /\ cpool' = cpool
            /\ UNCHANGED <<file, number, i, cpool_max_elements, methods, registered>>
  BY DEF AddEntry, fillin_cpool_entry, arguments
<1>2. /\ count_plus_one \in Nat /\ PoolSize \in Nat
      /\ IndexWidth \in Nat /\ MAXIMUM_NEW_CPOOL_ENTRIES \in Nat
      /\ Len(NewEntries) \in Nat /\ Len(NewEntries) < MAXIMUM_NEW_CPOOL_ENTRIES
  BY FileFits, NewEntriesFew
<1>3. a \in Nat /\ n \in Nat /\ c \in 0 .. IndexWidth - 1
      /\ cpool_max_elements \in 0 .. IndexWidth - 1
  <2>1. out \in Seq(OutEntries) /\ added \in Seq(Nat)
    BY DEF TypeInv
  <2> HIDE DEF OutEntries
  <2>2. a \in Nat /\ n \in Nat
    BY <2>1, LenProperties
  <2> QED
    BY <2>2 DEF TypeInv
<1>4. n = PoolSize + a /\ c = IndexOf(out, n + 1) /\ c = count_plus_one + a
  BY <1>1 DEF PoolInv
<1>5. Ordinary => /\ cpool_max_elements = count_plus_one + MAXIMUM_NEW_CPOOL_ENTRIES
                  /\ count = c + 1 /\ count < cpool_max_elements /\ c < cpool_max_elements
                  /\ c > 0
  <2> SUFFICES ASSUME Ordinary
               PROVE  /\ cpool_max_elements = count_plus_one + MAXIMUM_NEW_CPOOL_ENTRIES
                      /\ count = c + 1 /\ count < cpool_max_elements /\ c < cpool_max_elements
                      /\ c > 0
    OBVIOUS
  <2>1. cpool_max_elements = count_plus_one + MAXIMUM_NEW_CPOOL_ENTRIES
    BY <1>1 DEF OrdinaryInv
  <2>2. c + 1 < cpool_max_elements
    BY <1>1, <1>2, <1>3, <1>4, <2>1
  <2>3. c + 1 \in 0 .. IndexWidth - 1
    BY <1>2, <1>3, <2>2
  <2>4. count = c + 1
    BY <1>2, <2>3
  <2>5. c > 0
    <3>1. count_plus_one > PoolSize
      BY FileFits
    <3> QED
      BY <1>2, <1>3, <1>4, <3>1
  <2> QED
    BY <1>3, <2>1, <2>2, <2>4, <2>5
<1>6. CASE count >= cpool_max_elements /\ CrwFatal
  <2>1. ~ Ordinary
    <3>1. count \in Int /\ cpool_max_elements \in Int
      BY <1>2, <1>3
    <3> QED
      BY <1>5, <1>6, <3>1
  <2> QED
    BY <1>1, <1>6, <2>1, FatalInv
<1>7. CASE ~ (count >= cpool_max_elements)
  <2>1. /\ out' = Append(out, entry) /\ added' = Append(added, c)
        /\ cpool_count_plus_one' = count
        /\ IF c \in 1 .. count - 1
           THEN /\ cpool' = cpool \cup {<<c, entry>>}
                /\ \/ c < cpool_max_elements /\ stage' = "add"
                   \/ ~ (c < cpool_max_elements) /\ stage' = "undefined"
           ELSE stage' = "fatal" /\ cpool' = cpool
        /\ UNCHANGED <<file, number, i, cpool_max_elements, methods, registered>>
    BY <1>1, <1>7
  <2>2. entry \in OutEntries /\ Slots(entry) = 1
    <3>1. a + 1 \in 1 .. Len(NewEntries)
      BY <1>1, <1>2, <1>3
    <3> QED
      BY <3>1, FilledTyped
  <2>3. NewEntries' = NewEntries
    BY <2>1 DEF NewEntries
  <2>4. PoolSize' = PoolSize /\ count_plus_one' = count_plus_one
    BY <2>1 DEF PoolSize, count_plus_one
  <2>5. stage' \in {"add", "undefined", "fatal"}
    BY <2>1
  <2>6. methods = <<>> /\ registered = <<>>
    BY <1>1 DEF MethodsInv
  <2> HIDE DEF entry
  <2>7. /\ out' \in Seq(OutEntries) /\ Len(out') = n + 1 /\ out'[n + 1] = entry
        /\ \A k \in 1 .. n : out'[k] = out[k]
        /\ \A k \in 1 .. n + 1 : IndexOf(out', k) = IndexOf(out, k)
        /\ IndexOf(out', n + 2) = c + 1
        /\ c > 0
    <3>1. out \in Seq(OutEntries)
      BY DEF TypeInv
    <3>2. entry \in OutEntries
      BY <2>2
    <3> DEFINE new == Append(out, entry)
    <3>3. /\ new \in Seq(OutEntries) /\ Len(new) = n + 1 /\ new[n + 1] = entry
          /\ \A k \in 1 .. n : new[k] = out[k]
          /\ \A k \in 1 .. n + 1 : IndexOf(new, k) = IndexOf(out, k)
          /\ IndexOf(new, n + 2) = IndexOf(out, n + 1) + Slots(entry)
          /\ IndexOf(out, n + 1) > 0
      BY ONLY <3>1, <3>2, Appended
    <3>4. out' = new
      BY <2>1
    <3> HIDE DEF new
    <3> QED
      BY <1>4, <2>2, <3>3, <3>4
  <2>8. /\ added' \in Seq(Nat) /\ Len(added') = a + 1 /\ added'[a + 1] = c
        /\ \A k \in 1 .. a : added'[k] = added[k]
    <3>1. added \in Seq(Nat) /\ c \in Nat
      BY <1>3 DEF TypeInv
    <3> HIDE DEF c
    <3> QED
      BY <2>1, <3>1, AppendProperties
  <2>9. count \in 0 .. IndexWidth - 1
    BY <1>2, <1>3
  <2>10. stage' = "add" => count = c + 1
    <3>1. ASSUME c < cpool_max_elements PROVE count = c + 1
      <4>1. c + 1 \in 0 .. IndexWidth - 1
        BY <1>2, <1>3, <3>1
      <4> QED
        BY <1>2, <4>1
    <3> QED
      BY <2>1, <3>1
  <2> HIDE DEF a, n, c, count
  <2>11. TypeInv'
    BY <2>1, <2>5, <2>7, <2>8, <2>9 DEF TypeInv
  <2>12. PoolInv'
    <3>1. \A k \in 1 .. Len(out') : k <= PoolSize' => out'[k] = file'.pool[k]
      <4>1. \A k \in 1 .. n + 1 : k <= PoolSize => k \in 1 .. n
        BY <1>2, <1>3, <1>4
      <4>2. \A k \in 1 .. n : k <= PoolSize => out[k] = file.pool[k]
        BY DEF PoolInv, n
      <4> QED
        BY <2>1, <2>4, <2>7, <4>1, <4>2
    <3>2. Len(out') = PoolSize' + Len(added')
      BY <1>2, <1>3, <1>4, <2>4, <2>7, <2>8
    <3>3. Len(added') <= Len(NewEntries')
      BY <1>1, <1>2, <1>3, <2>3, <2>8
    <3>4. ASSUME NEW k \in 1 .. Len(added')
          PROVE  /\ added'[k] = IndexOf(out', PoolSize' + k)
                 /\ added'[k] = count_plus_one' + (k - 1)
      <4>1. k \in 1 .. a \/ k = a + 1
        BY <1>3, <2>8
      <4>2. CASE k \in 1 .. a
        <5>1. PoolSize + k \in 1 .. n + 1
          BY <1>2, <1>3, <1>4, <4>2
        <5>2. added[k] = IndexOf(out, PoolSize + k) /\ added[k] = count_plus_one + (k - 1)
          BY <4>2 DEF PoolInv, a
        <5> QED
          BY <2>4, <2>7, <2>8, <4>2, <5>1, <5>2
      <4>3. CASE k = a + 1
        <5>1. PoolSize + k = n + 1 /\ k - 1 = a /\ n + 1 \in 1 .. n + 1
          BY <1>2, <1>3, <1>4, <4>3
        <5> QED
          BY <1>4, <2>4, <2>7, <2>8, <4>3, <5>1
      <4> QED
        BY <4>1, <4>2, <4>3
    <3>5. stage' = "add" =>
            /\ cpool_count_plus_one' = IndexOf(out', Len(out') + 1)
            /\ cpool_count_plus_one' = count_plus_one' + Len(added')
      <4>1. Len(out') + 1 = n + 2
        BY <1>3, <2>7
      <4>2. c + 1 = count_plus_one + (a + 1)
        BY <1>2, <1>3, <1>4
      <4> QED
        BY <2>1, <2>4, <2>7, <2>8, <2>10, <4>1, <4>2
    <3> QED
      BY <2>5, <3>1, <3>2, <3>3, <3>4, <3>5 DEF PoolInv
  <2>13. MirrorInv'
    <3>1. cpool = {<<IndexOf(out, k), out[k]>> : k \in 1 .. n}
      BY <1>1 DEF MirrorInv, n
    <3>2. {<<IndexOf(out', k), out'[k]>> : k \in 1 .. n + 1}
            = {<<IndexOf(out, k), out[k]>> : k \in 1 .. n} \cup {<<c, entry>>}
      <4>1. \A k : k \in 1 .. n + 1 <=> k \in 1 .. n \/ k = n + 1
        BY <1>3
      <4> QED
        BY <1>4, <2>7, <4>1
    <3>3. stage' # "fatal" =>
            cpool' = {<<IndexOf(out', k), out'[k]>> : k \in 1 .. Len(out')}
      BY <2>1, <2>7, <3>1, <3>2
    <3>4. \A e \in cpool' : e[1] \in 1 .. IndexWidth - 1
      <4>1. \A e \in cpool : e[1] \in 1 .. IndexWidth - 1
        BY DEF MirrorInv
      <4>2. c \in 1 .. IndexWidth - 1
        BY <1>2, <1>3, <2>7
      <4>3. cpool' = cpool \/ cpool' = cpool \cup {<<c, entry>>}
        BY <2>1
      <4> QED
        BY <2>1, <4>1, <4>2, <4>3
    <3> QED
      BY <3>3, <3>4 DEF MirrorInv
  <2>14. MethodsInv'
    <3>1. Len(methods) = 0 /\ <<>> \in Seq(WrittenMethods')
      BY <2>6, EmptySeq
    <3>2. Len(methods) <= Len(file.methods)
      BY DEF MethodsInv
    <3> QED
      BY <2>1, <2>5, <2>6, <3>1, <3>2 DEF MethodsInv
  <2>15. OrdinaryInv'
    <3>1. Ordinary' => Ordinary
      BY <2>1, <2>4 DEF Ordinary
    <3>2. ASSUME Ordinary
          PROVE  /\ stage' = "add"
                 /\ cpool_max_elements = count_plus_one + MAXIMUM_NEW_CPOOL_ENTRIES
      <4>1. c \in 1 .. count - 1 /\ c < cpool_max_elements
        BY <1>2, <1>3, <1>5, <3>2
      <4> QED
        BY <1>5, <2>1, <3>2, <4>1
    <3> QED
      BY <2>1, <2>4, <3>1, <3>2 DEF OrdinaryInv
  <2>16. FilledInv'
    <3>1. ASSUME NEW k \in 1 .. Len(added')
          PROVE  out'[PoolSize' + k] = Filled(NewEntries[k])'
      <4>1. a + 1 <= Len(NewEntries)
        BY <1>1, <1>2, <1>3
      <4>2. ASSUME NEW j \in 1 .. a
            PROVE  NewIndex(NewEntries[j].what)' = NewIndex(NewEntries[j].what)
        <5>1. NewIndex(NewEntries[j].what) = added[j]
          <6>1. j \in 1 .. Len(added) /\ Len(added) \in Nat /\ Len(added) <= Len(NewEntries)
            BY <1>2, <1>3, <4>1 DEF a
          <6> QED
            BY <6>1, IndexOfNew
        <5>2. NewIndex(NewEntries[j].what)' = added'[j]
          <6>1. j \in 1 .. Len(added') /\ Len(added') \in Nat /\ Len(added') <= Len(NewEntries)
            BY <1>3, <2>8, <4>1
          <6>2. LET Places == {l \in 1 .. Len(added') : NewEntries[l].what = NewEntries[j].what}
                IN  Places # {} /\ (CHOOSE l \in Places : TRUE) = j
            BY <6>1, FoundAt
          <6> QED
            BY <2>3, <6>2 DEF NewIndex
        <5> QED
          BY <2>8, <5>1, <5>2
      <4>3. k \in 1 .. Len(NewEntries) /\ k \in 1 .. a + 1 /\ \A j \in 1 .. k - 1 : j \in 1 .. a
        BY <1>2, <1>3, <2>8, <4>1
      <4>4. Filled(NewEntries[k])' = Filled(NewEntries[k])
        BY <2>1, <4>2, <4>3, FilledStays
      <4>5. CASE k = a + 1
        BY <1>4, <2>4, <2>7, <4>4, <4>5, <1>2, <1>3 DEF entry
      <4>6. CASE k \in 1 .. a
        <5>1. PoolSize + k \in 1 .. n
          BY <1>2, <1>3, <1>4, <4>6
        <5>2. out[PoolSize + k] = Filled(NewEntries[k])
          BY <4>6 DEF FilledInv, a
        <5> QED
          BY <2>4, <2>7, <4>4, <5>1, <5>2
      <4> QED
        BY <1>3, <4>3, <4>5, <4>6
    <3> QED
      BY <3>1 DEF FilledInv
  <2> QED
    BY <2>16, <2>11, <2>12, <2>13, <2>14, <2>15
<1> QED
  BY <1>1, <1>6, <1>7

(* A method more, with its calls. *)
LEMMA MethodInv ==
  ASSUME IInv, CopyMethod \/ InjectMethod
  PROVE  IInv'
<1> USE DEF IInv
<1> DEFINE m == Len(methods)
<1>1. PICK written :
        /\ written.calls \subseteq BridgeCalls(m) /\ written = [calls |-> written.calls,
                                                               max_stack |-> written.max_stack]
        /\ written.max_stack \in {NextMethod.max_stack, NewStack(NextMethod)}
        /\ methods' = Append(methods, written)
  <2>1. CASE CopyMethod
    <3> DEFINE w == [calls |-> {}, max_stack |-> NextMethod.max_stack]
    <3>1. methods' = Append(methods, w)
      BY <2>1 DEF CopyMethod
    <3>2. /\ w.calls \subseteq BridgeCalls(m)
          /\ w = [calls |-> w.calls, max_stack |-> w.max_stack]
          /\ w.max_stack \in {NextMethod.max_stack, NewStack(NextMethod)}
      OBVIOUS
    <3> QED
      BY <3>1, <3>2
  <2>2. CASE InjectMethod
    <3> DEFINE cs == {Call(MTRACE_entry, m)}
                       \cup (IF NextMethod.returns THEN {Call(MTRACE_exit, m)} ELSE {})
               w == [calls |-> cs, max_stack |-> NewStack(NextMethod)]
    <3>1. methods' = Append(methods, w)
      BY <2>2 DEF InjectMethod
    <3>2. cs \subseteq BridgeCalls(m)
      BY DEF BridgeCalls
    <3> HIDE DEF cs
    <3>3. /\ w.calls \subseteq BridgeCalls(m)
          /\ w = [calls |-> w.calls, max_stack |-> w.max_stack]
          /\ w.max_stack \in {NextMethod.max_stack, NewStack(NextMethod)}
      BY <3>2
    <3> QED
      BY <3>1, <3>3
  <2> QED
    BY <2>1, <2>2
<1>2. /\ UNCHANGED <<stage, file, number, i, out, cpool, cpool_max_elements,
                     cpool_count_plus_one, added, registered>>
      /\ stage = "methods" /\ m < Len(file.methods)
  BY DEF CopyMethod, InjectMethod, arguments, constantPool
<1>3. /\ NewEntries' = NewEntries /\ WrittenMethods' = WrittenMethods
      /\ \A k : BridgeCalls(k)' = BridgeCalls(k)
  BY <1>2, SameCalls
<1>4. PoolSize' = PoolSize /\ count_plus_one' = count_plus_one
  BY <1>2 DEF PoolSize, count_plus_one
<1>5. methods \in Seq(WrittenMethods) /\ m \in Nat /\ Len(file.methods) \in Nat
  <2>1. methods \in Seq(WrittenMethods)
    BY DEF MethodsInv
  <2>2. m \in Nat
    <3> HIDE DEF WrittenMethods
    <3> QED
      BY <2>1, LenProperties
  <2>3. WellFormedFile(file)
    BY FilesAssumption DEF TypeInv
  <2>4. Len(file.methods) \in Nat
    BY <2>3, LenProperties DEF WellFormedFile
  <2> QED
    BY <2>1, <2>2, <2>4
<1>6. written \in WrittenMethods
  <2>1. written.calls \in SUBSET Calls
    <3>1. BridgeCalls(m) \subseteq Calls
      BY <1>5 DEF BridgeCalls, Calls
    <3> QED
      BY <1>1, <3>1
  <2>2. written.max_stack \in Nat
    <3>1. file.methods \in Seq([name : STRING, descr : STRING, code_len : Nat,
                                max_stack : Nat, returns : BOOLEAN])
      BY FilesAssumption DEF TypeInv, WellFormedFile
    <3>2. m + 1 \in 1 .. Len(file.methods)
      BY <1>2, <1>5
    <3>3. file.methods[m + 1].max_stack \in Nat
      <4> DEFINE R == [name : STRING, descr : STRING, code_len : Nat,
                       max_stack : Nat, returns : BOOLEAN]
      <4>1. file.methods[m + 1] \in R
        <5> HIDE DEF R, m
        <5>1. file.methods \in Seq(R)
          BY <3>1 DEF R
        <5> QED
          BY <3>2, <5>1, ElementOfSeq
      <4> QED
        BY <4>1
    <3> QED
      BY <1>1, <3>3 DEF NextMethod, NewStack
  <2> QED
    BY <1>1, <2>1, <2>2 DEF WrittenMethods
<1>7. /\ methods' \in Seq(WrittenMethods) /\ Len(methods') = m + 1
      /\ methods'[m + 1] = written /\ \A k \in 1 .. m : methods'[k] = methods[k]
  <2> HIDE DEF WrittenMethods
  <2> QED
    BY <1>1, <1>5, <1>6, AppendProperties
<1> HIDE DEF m
<1>8. TypeInv'
  BY <1>2 DEF TypeInv
<1>9. PoolInv'
  BY <1>2, <1>3, <1>4 DEF PoolInv
<1>10. MirrorInv'
  BY <1>2 DEF MirrorInv
<1>11. MethodsInv'
  <2>1. ASSUME NEW k \in 1 .. Len(methods')
        PROVE  methods'[k].calls \subseteq BridgeCalls(k - 1)
    <3>1. k \in 1 .. m \/ (k = m + 1 /\ k - 1 = m)
      BY <1>5, <1>7
    <3>2. \A j \in 1 .. m : methods[j].calls \subseteq BridgeCalls(j - 1)
      BY DEF MethodsInv, m
    <3> QED
      BY <1>1, <1>7, <3>1, <3>2
  <2>2. registered = <<>>
    BY <1>2 DEF MethodsInv
  <2>3. Len(methods') <= Len(file.methods)
    BY <1>2, <1>5, <1>7
  <2>4. stage' = "methods" /\ registered' = <<>> /\ file' = file
    BY <1>2, <2>2
  <2> QED
    BY <1>3, <1>7, <2>1, <2>3, <2>4 DEF MethodsInv
<1>12. OrdinaryInv'
  <2>1. Ordinary' => Ordinary
    BY <1>2, <1>4 DEF Ordinary
  <2> QED
    BY <1>2, <1>4, <2>1 DEF OrdinaryInv
<1>13. FilledInv'
  BY <1>2, SameFilled
<1> QED
  BY <1>13, <1>8, <1>9, <1>10, <1>11, <1>12

LEMMA StackFailsInv ==
  ASSUME IInv, StackFails
  PROVE  IInv'
<1> USE DEF IInv
<1>1. /\ CrwFatal /\ stage = "methods" /\ Len(methods) < Len(file.methods)
      /\ NewStack(NextMethod) > MaxStack
  BY DEF StackFails
<1>2. Len(methods) + 1 \in 1 .. Len(file.methods)
  <2>1. methods \in Seq(WrittenMethods)
    BY DEF MethodsInv
  <2>2. Len(methods) \in Nat
    <3> HIDE DEF WrittenMethods
    <3> QED
      BY <2>1, LenProperties
  <2>3. WellFormedFile(file)
    BY FilesAssumption DEF TypeInv
  <2>4. Len(file.methods) \in Nat
    BY <2>3, LenProperties DEF WellFormedFile
  <2> QED
    BY <1>1, <2>2, <2>4
<1>3. ~ (NextMethod.max_stack + 2 <= MaxStack)
  <2>1. file.methods \in Seq([name : STRING, descr : STRING, code_len : Nat,
                              max_stack : Nat, returns : BOOLEAN])
    BY FilesAssumption DEF TypeInv, WellFormedFile
  <2>2. NextMethod.max_stack \in Nat
    <3> DEFINE R == [name : STRING, descr : STRING, code_len : Nat,
                     max_stack : Nat, returns : BOOLEAN]
    <3>1. file.methods[Len(methods) + 1] \in R
      <4> HIDE DEF R
      <4>1. file.methods \in Seq(R)
        BY <2>1 DEF R
      <4> QED
        BY <1>2, <4>1, ElementOfSeq
    <3> QED
      BY <3>1 DEF NextMethod
  <2>3. MaxStack \in Nat
    BY FileFits
  <2> QED
    BY <1>1, <2>2, <2>3 DEF NewStack
<1>4. ~ Ordinary
  BY <1>2, <1>3 DEF Ordinary, NextMethod
<1> QED
  BY <1>1, <1>4, FatalInv

LEMMA MethodsDoneInv ==
  ASSUME IInv, MethodsDone
  PROVE  IInv'
<1> USE DEF IInv
<1>1. /\ UNCHANGED <<file, number, i, out, cpool, cpool_max_elements,
                     cpool_count_plus_one, added, methods>>
      /\ stage = "methods" /\ Len(methods) = Len(file.methods)
      /\ stage' \in {"unchanged", "image"}
      /\ registered' = [m \in 1 .. Len(methods) |->
                          <<file.methods[m].name, file.methods[m].descr>>]
  BY DEF MethodsDone, arguments, constantPool
<1>2. /\ NewEntries' = NewEntries /\ WrittenMethods' = WrittenMethods
      /\ \A m : BridgeCalls(m)' = BridgeCalls(m)
  BY <1>1, SameCalls
<1>3. PoolSize' = PoolSize /\ count_plus_one' = count_plus_one
  BY <1>1 DEF PoolSize, count_plus_one
<1>4. TypeInv'
  BY <1>1 DEF TypeInv
<1>5. PoolInv'
  BY <1>1, <1>2, <1>3 DEF PoolInv
<1>6. MirrorInv'
  BY <1>1 DEF MirrorInv
<1>7. MethodsInv'
  BY <1>1, <1>2 DEF MethodsInv
<1>8. OrdinaryInv'
  <2>1. Ordinary' => Ordinary
    BY <1>1, <1>3 DEF Ordinary
  <2> QED
    BY <1>1, <1>3, <2>1 DEF OrdinaryInv
<1>9. FilledInv'
  BY <1>1, SameFilled
<1> QED
  BY <1>9, <1>4, <1>5, <1>6, <1>7, <1>8

(* Nothing changes. *)
LEMMA SameStateInv ==
  ASSUME IInv, UNCHANGED classFile
  PROVE  IInv'
<1> USE DEF IInv
<1>1. UNCHANGED <<stage, file, number, i, out, cpool, cpool_max_elements,
                  cpool_count_plus_one, added, methods, registered>>
  BY DEF classFile, arguments, constantPool
<1>2. /\ NewEntries' = NewEntries /\ WrittenMethods' = WrittenMethods
      /\ \A m : BridgeCalls(m)' = BridgeCalls(m)
  BY <1>1, SameCalls
<1>3. PoolSize' = PoolSize /\ count_plus_one' = count_plus_one
  BY <1>1 DEF PoolSize, count_plus_one
<1>4. TypeInv'
  BY <1>1 DEF TypeInv
<1>5. PoolInv'
  BY <1>1, <1>2, <1>3 DEF PoolInv
<1>6. MirrorInv'
  BY <1>1 DEF MirrorInv
<1>7. MethodsInv'
  BY <1>1, <1>2 DEF MethodsInv
<1>8. OrdinaryInv'
  <2>1. Ordinary' => Ordinary
    BY <1>1, <1>3 DEF Ordinary
  <2> QED
    BY <1>1, <1>3, <2>1 DEF OrdinaryInv
<1>9. FilledInv'
  BY <1>1, SameFilled
<1> QED
  BY <1>9, <1>4, <1>5, <1>6, <1>7, <1>8

-----------------------------------------------------------------------------
(***************************************************************************)
(* The theorems.                                                           *)
(***************************************************************************)
\* The invariant holds of every walk, of any class file the JVM could read and with
\* any class number.
THEOREM ClassFileInvariance == CrwSpec => []IInv
<1>1. IInv /\ [CrwNext]_classFile => IInv'
  <2> SUFFICES ASSUME IInv, [CrwNext]_classFile PROVE IInv'
    OBVIOUS
  <2>1. CASE Begin \/ BeginFails
    BY <2>1, BeginInv
  <2>2. CASE CopyEntry
    BY <2>2, CopyEntryInv
  <2>3. CASE UnknownTag
    BY <2>3, UnknownTagInv
  <2>4. CASE PoolCopied
    BY <2>4, PoolCopiedInv
  <2>5. CASE AddEntry
    BY <2>5, AddEntryInv
  <2>6. CASE PoolDone
    BY <2>6, PoolDoneInv
  <2>7. CASE CopyMethod \/ InjectMethod
    BY <2>7, MethodInv
  <2>8. CASE StackFails
    BY <2>8, StackFailsInv
  <2>9. CASE MethodsDone
    BY <2>9, MethodsDoneInv
  <2>10. CASE UNCHANGED classFile
    BY <2>10, SameStateInv
  <2> QED
    BY <2>1, <2>2, <2>3, <2>4, <2>5, <2>6, <2>7, <2>8, <2>9, <2>10 DEF CrwNext
<1> QED
  BY <1>1, InitInv, PTL DEF CrwSpec

\* The walk copies no entry twice and adds none beyond its list, tells the agent the
\* names only at its end, and no index it uses needs more than two bytes (cpool_setup,
\* fillin_cpool_entry).  That the table is long enough for its entries is not part of
\* it: when the size wraps, MirrorHoldsPool fails.
THEOREM ClassFileTypeCorrect == CrwSpec => []CrwTypeOK
<1>1. IInv => CrwTypeOK
  <2> SUFFICES ASSUME IInv PROVE CrwTypeOK
    OBVIOUS
  <2>1. Len(out) <= Len(file.pool) + Len(added) + 1
    <3>1. out \in Seq(OutEntries) /\ added \in Seq(Nat)
      BY DEF IInv, TypeInv
    <3> HIDE DEF OutEntries
    <3>2. Len(out) \in Nat /\ Len(added) \in Nat
      BY <3>1, LenProperties
    <3>3. PoolSize \in Nat
      BY FileFits DEF IInv
    <3>4. (Len(added) = 0 /\ Len(out) <= PoolSize) \/ Len(out) = PoolSize + Len(added)
      BY DEF IInv, PoolInv
    <3>5. Len(out) <= PoolSize + Len(added) + 1
      BY <3>2, <3>3, <3>4
    <3> QED
      BY <3>5 DEF PoolSize
  <2> QED
    BY <2>1 DEF IInv, TypeInv, PoolInv, MirrorInv, MethodsInv, CrwTypeOK
<1> QED
  BY <1>1, ClassFileInvariance, PTL

\* The new constant pool can be read: its count is that of its slots, the table that
\* the rewriter looks entries up in mirrors it, and every new entry is where its index
\* says, whatever entries of two slots come before (cpool_setup,
\* add_new_cpool_entry).
THEOREM PoolCanBeRead == CrwSpec => []PoolAgrees
<1>1. IInv => PoolAgrees
  <2> SUFFICES ASSUME IInv, stage = "image" PROVE PoolAgrees
    BY DEF PoolAgrees
  <2>1. cpool_count_plus_one = IndexOf(out, Len(out) + 1)
    BY DEF IInv, PoolInv
  <2>2. cpool = {<<IndexOf(out, k), out[k]>> : k \in 1 .. Len(out)}
    BY DEF IInv, MirrorInv
  <2>3. \A k \in 1 .. Len(added) : added[k] = IndexOf(out, Len(file.pool) + k)
    BY DEF IInv, PoolInv, PoolSize
  <2> QED
    BY <2>1, <2>2, <2>3 DEF PoolAgrees
<1> QED
  BY <1>1, ClassFileInvariance, PTL

\* For a class file of Java 8 whose pool and stacks leave room for the agent's entries
\* none of the errors of this module is reached (the version, the empty pool, unknown
\* tags, the size of the table, its assertions, max_stack), and no entry is written
\* behind the end of the table.  The assertions on the length of the output buffer and
\* those of the rewriting of code are not among them.
THEOREM OrdinaryClassIsAccepted == CrwSpec => []OrdinaryClassAccepted
<1>1. IInv => OrdinaryClassAccepted
  <2> SUFFICES ASSUME IInv, stage \in {"fatal", "undefined"} PROVE OrdinaryClassAccepted
    BY DEF OrdinaryClassAccepted
  <2>1. ~ Ordinary
    BY DEF IInv, OrdinaryInv
  <2>2. \/ ~ file.known_version
        \/ file.pool = <<>>
        \/ \E k \in 1 .. Len(file.pool) : file.pool[k].tag \notin JavaEightTags
        \/ ~ (count_plus_one + MAXIMUM_NEW_CPOOL_ENTRIES < IndexWidth)
        \/ \E m \in 1 .. Len(file.methods) : ~ (file.methods[m].max_stack + 2 <= MaxStack)
    BY <2>1 DEF Ordinary, PoolSize
  <2>3. ASSUME ~ (count_plus_one + MAXIMUM_NEW_CPOOL_ENTRIES < IndexWidth)
        PROVE  count_plus_one + MAXIMUM_NEW_CPOOL_ENTRIES >= IndexWidth
    BY <2>3, FileFits DEF IInv
  <2>4. ASSUME NEW m \in 1 .. Len(file.methods), ~ (file.methods[m].max_stack + 2 <= MaxStack)
        PROVE  file.methods[m].max_stack + 2 > MaxStack
    <3>1. file.methods \in Seq([name : STRING, descr : STRING, code_len : Nat,
                                max_stack : Nat, returns : BOOLEAN])
      BY FilesAssumption DEF IInv, TypeInv, WellFormedFile
    <3>2. file.methods[m].max_stack \in Nat
      <4> DEFINE R == [name : STRING, descr : STRING, code_len : Nat,
                       max_stack : Nat, returns : BOOLEAN]
      <4>1. file.methods[m] \in R
        <5> HIDE DEF R
        <5>1. file.methods \in Seq(R)
          BY <3>1 DEF R
        <5> QED
          BY <5>1, ElementOfSeq
      <4> QED
        BY <4>1
    <3>3. MaxStack \in Nat
      BY FileFits DEF IInv
    <3> QED
      BY <2>4, <3>2, <3>3
  <2> QED
    BY <2>2, <2>3, <2>4 DEF OrdinaryClassAccepted
<1> QED
  BY <1>1, ClassFileInvariance, PTL

(* The JVM finds a new entry where the rewriter's references lead. *)
LEMMA EntryAt ==
  ASSUME IInv, stage = "image", NEW k \in 1 .. Len(NewEntries)
  PROVE  Entry(NewIndex(NewEntries[k].what)) = Filled(NewEntries[k])
<1> USE DEF IInv
<1>1. Len(added) = Len(NewEntries) /\ Len(out) = PoolSize + Len(added)
  BY DEF PoolInv
<1>2. Len(added) \in Nat /\ PoolSize \in Nat
  BY <1>1, FileFits, NewEntriesFew
<1>3. NewIndex(NewEntries[k].what) = IndexOf(out, PoolSize + k)
  <2>1. NewIndex(NewEntries[k].what) = added[k]
    BY <1>1, <1>2, IndexOfNew
  <2>2. added[k] = IndexOf(out, PoolSize + k)
    BY <1>1 DEF PoolInv
  <2> QED
    BY <2>1, <2>2
<1> DEFINE p == PoolSize + k
           Found(j) == IndexOf(out, j) = IndexOf(out, p)
<1>4. p \in 1 .. Len(out)
  BY <1>1, <1>2
<1>5. ASSUME NEW j \in 1 .. Len(out), Found(j)
      PROVE  j = p
  <2>1. j \in Nat /\ 0 < j /\ p \in Nat /\ 0 < p
    BY <1>1, <1>2, <1>4
  <2> QED
    BY <1>5, <2>1, OneIndexEach
<1>6. (CHOOSE j \in 1 .. Len(out) : Found(j)) = p
  <2>1. Found(p)
    OBVIOUS
  <2> HIDE DEF Found, p
  <2> QED
    BY <1>4, <1>5, <2>1
<1>7. Entry(NewIndex(NewEntries[k].what)) = out[p]
  BY <1>3, <1>6 DEF Entry
<1>8. out[p] = Filled(NewEntries[k])
  BY <1>1 DEF FilledInv
<1> QED
  BY <1>7, <1>8

LEMMA FilledFields ==
  ASSUME NEW e
  PROVE  /\ Filled(e).tag = e.tag /\ Filled(e).text = e.text
         /\ e.tag # "Integer" /\ Len(e.uses) >= 1 => Filled(e).index1 = NewIndex(e.uses[1])
         /\ e.tag # "Integer" /\ Len(e.uses) = 2 => Filled(e).index2 = NewIndex(e.uses[2])
         /\ e.tag = "Integer" =>
              Filled(e).index1 = number \div U2 /\ Filled(e).index2 = number % U2
BY DEF Filled

(* The tags and texts of the new entries. *)
LEMMA ClassTexts ==
  /\ First = 1 => NewEntries[1].tag = "Integer"
  /\ NewEntries[First + 1].text = MTRACE_class
  /\ NewEntries[First + 2].tag = "Class"
<1> DEFINE w0 == <<"number", "value">>
           w1 == <<MTRACE_class, "name">>
           w2 == <<MTRACE_class, "class">>
           u2 == << w1 >>
<1>1. First = 1 => NewEntries[1] = New(w0, "Integer", no_text, <<>>)
  BY NewEntriesTable DEF NewTable
<1>2. NewEntries[First + 1] = New(w1, "Utf8", MTRACE_class, <<>>)
  BY NewEntriesTable DEF NewTable
<1>3. NewEntries[First + 2] = New(w2, "Class", no_text, u2)
  BY NewEntriesTable DEF NewTable
<1> HIDE DEF w0, w1, w2, u2
<1>4. First = 1 => NewEntries[1].tag = "Integer"
  BY <1>1, NewFields
<1>5. NewEntries[First + 1].text = MTRACE_class
  BY <1>2, NewFields
<1>6. NewEntries[First + 2].tag = "Class"
  BY <1>3, NewFields
<1> QED
  BY <1>4, <1>5, <1>6

LEMMA MethodTexts ==
  ASSUME NEW b, NEW name, MethodTable(b, name)
  PROVE  /\ NewEntries[b + 1].text = name /\ NewEntries[b + 2].text = call_sig
         /\ NewEntries[b + 3].tag = "NameAndType" /\ NewEntries[b + 4].tag = "Methodref"
<1> DEFINE w1 == <<name, "name">>
           w2 == <<name, "descr">>
           w3 == <<name, "type">>
           w4 == <<name, "method">>
           u3 == << w1, w2 >>
           u4 == << <<MTRACE_class, "class">>, w3 >>
<1>1. NewEntries[b + 1] = New(w1, "Utf8", name, <<>>)
  BY DEF MethodTable
<1>2. NewEntries[b + 2] = New(w2, "Utf8", call_sig, <<>>)
  BY DEF MethodTable
<1>3. NewEntries[b + 3] = New(w3, "NameAndType", no_text, u3)
  BY DEF MethodTable
<1>4. NewEntries[b + 4] = New(w4, "Methodref", no_text, u4)
  BY DEF MethodTable
<1> HIDE DEF w1, w2, w3, w4, u3, u4
<1>5. NewEntries[b + 1].text = name
  BY <1>1, NewFields
<1>6. NewEntries[b + 2].text = call_sig
  BY <1>2, NewFields
<1>7. NewEntries[b + 3].tag = "NameAndType"
  BY <1>3, NewFields
<1>8. NewEntries[b + 4].tag = "Methodref"
  BY <1>4, NewFields
<1> QED
  BY <1>5, <1>6, <1>7, <1>8

(* A pushed number is the number, as long as it fits two signed bytes. *)
LEMMA PushedValue ==
  ASSUME NEW n \in Nat, n <= MaxShort
  PROVE  Value(push_short_constant(n)) = n
<1>1. MaxIconst \in Nat /\ MaxByte \in Nat /\ MaxShort \in Nat
  BY ClassFileAssumption
<1>2. Value([const |-> n]) = n
  BY DEF Value
<1>3. ASSUME NEW max \in Nat, n <= max
      PROVE  Value(Push(n, max)) = n
  <2>1. n % (2 * (max + 1)) = n
    BY <1>3
  <2>2. Push(n, max) = [bytes |-> n, max |-> max]
    BY <2>1 DEF Push
  <2>3. Value([bytes |-> n, max |-> max]) = n
    <3> DEFINE push == [bytes |-> n, max |-> max]
    <3>1. "const" \notin DOMAIN push /\ "ldc" \notin DOMAIN push /\ "ldc_w" \notin DOMAIN push
      OBVIOUS
    <3>2. push.bytes = n /\ push.max = max
      OBVIOUS
    <3> HIDE DEF push
    <3>3. push.bytes <= push.max
      BY <1>3, <3>2
    <3>4. Value(push) = push.bytes
      BY <3>1, <3>3 DEF Value
    <3> QED
      BY <3>2, <3>4 DEF push
  <2> QED
    BY <2>2, <2>3
<1>4. CASE n <= MaxIconst
  BY <1>2, <1>4 DEF push_short_constant
<1>5. CASE ~ (n <= MaxIconst) /\ n <= MaxByte
  BY <1>1, <1>3, <1>5 DEF push_short_constant
<1>6. CASE ~ (n <= MaxIconst) /\ ~ (n <= MaxByte)
  BY <1>1, <1>3, <1>6 DEF push_short_constant
<1> QED
  BY <1>4, <1>5, <1>6

LEMMA DivMod ==
  ASSUME NEW n \in Nat, NEW u \in Nat, u > 0,
         NEW q, NEW r, q = n \div u, r = n % u
  PROVE  q * u + r = n
<1>1. q \in Int /\ r \in Int
  OBVIOUS
<1>2. u * q + r = n
  BY <1>1
<1>3. u * q = q * u
  BY <1>1
<1> QED
  BY <1>2, <1>3

(* A constant of the pool is found, by ldc or by ldc_w. *)
LEMMA PoolValue ==
  ASSUME NEW x \in 0 .. IndexWidth - 1
  PROVE  Value(push_pool_constant(x)) = Integer(Entry(x))
<1>1. MaxByte \in Nat /\ IndexWidth \in Nat
  BY ClassFileAssumption
<1>2. CASE x <= MaxByte
  <2>1. x % U1 = x
    BY <1>1, <1>2 DEF U1
  <2>2. "const" \notin DOMAIN [ldc |-> x] /\ "ldc" \in DOMAIN [ldc |-> x]
    OBVIOUS
  <2>3. Value([ldc |-> x]) = Integer(Entry(x % U1))
    BY <2>2 DEF Value
  <2> QED
    BY <1>2, <2>1, <2>3 DEF push_pool_constant
<1>3. CASE ~ (x <= MaxByte)
  <2>1. x % IndexWidth = x
    BY <1>1
  <2>2. /\ "const" \notin DOMAIN [ldc_w |-> x] /\ "ldc" \notin DOMAIN [ldc_w |-> x]
        /\ "ldc_w" \in DOMAIN [ldc_w |-> x]
    OBVIOUS
  <2>3. Value([ldc_w |-> x]) = Integer(Entry(x % IndexWidth))
    BY <2>2 DEF Value
  <2> QED
    BY <1>3, <2>1, <2>3 DEF push_pool_constant
<1> QED
  BY <1>2, <1>3

(* The index of the class number is an index of the table. *)
LEMMA NumberIndex ==
  ASSUME IInv, stage = "image", First = 1
  PROVE  NewIndex(<<"number", "value">>) \in 0 .. IndexWidth - 1
<1>1. 1 \in 1 .. Len(added) /\ Len(added) \in Nat /\ Len(added) = Len(NewEntries)
  <2>1. Len(NewEntries) = First + 10
    BY NewEntriesTable DEF NewTable
  <2>2. Len(added) = Len(NewEntries)
    BY DEF IInv, PoolInv
  <2> QED
    BY <2>1, <2>2
<1>2. NewIndex(NewEntries[1].what) = added[1]
  BY <1>1, IndexOfNew
<1>3. added[1] = count_plus_one + (1 - 1)
  BY <1>1 DEF IInv, PoolInv
<1>4. count_plus_one \in Nat /\ count_plus_one < IndexWidth /\ IndexWidth \in Nat
  BY FileFits DEF IInv
<1>5. NewEntries[1].what = <<"number", "value">>
  BY ClassNames
<1>6. added[1] \in 0 .. IndexWidth - 1
  BY <1>3, <1>4
<1> QED
  BY <1>2, <1>5, <1>6

(* The class number, also when it is an entry of the pool. *)
LEMMA PushedNumber ==
  ASSUME IInv, stage = "image"
  PROVE  Value(push_cnum) = number
<1>1. number \in Nat /\ MaxShort \in Nat
  BY FileFits DEF IInv
<1>2. CASE number <= MaxShort
  BY <1>1, <1>2, PushedValue DEF push_cnum
<1>3. CASE ~ (number <= MaxShort)
  <2>1. First = 1 /\ 1 \in 1 .. Len(NewEntries)
    <3>1. Len(NewEntries) = First + 10
      BY NewEntriesTable DEF NewTable
    <3> QED
      BY <1>1, <1>3, <3>1 DEF First
  <2> DEFINE x == NewIndex(<<"number", "value">>)
  <2>2. Entry(x) = Filled(NewEntries[1])
    BY <2>1, ClassNames, EntryAt
  <2>3. Entry(x).index1 = number \div U2 /\ Entry(x).index2 = number % U2
    BY <2>1, <2>2, ClassTexts, FilledFields
  <2>4. U2 \in Nat /\ U2 > 0
    BY <1>1 DEF U2
  <2>5. Entry(x).index1 * U2 + Entry(x).index2 = number
    <3> HIDE DEF x
    <3> QED
      BY <1>1, <2>3, <2>4, DivMod
  <2>6. push_cnum = push_pool_constant(x)
    BY <1>3 DEF push_cnum
  <2>7. x \in 0 .. IndexWidth - 1
    BY <2>1, NumberIndex
  <2> HIDE DEF x
  <2>8. Value(push_pool_constant(x)) = Integer(Entry(x))
    BY <2>7, PoolValue
  <2> QED
    BY <2>5, <2>6, <2>8 DEF Integer
<1> QED
  BY <1>2, <1>3

LEMMA FilledPair ==
  ASSUME NEW e, NEW w1, NEW w2, e.uses = <<w1, w2>>, e.tag # "Integer"
  PROVE  Filled(e).index1 = NewIndex(w1) /\ Filled(e).index2 = NewIndex(w2)
<1>1. Len(e.uses) = 2 /\ e.uses[1] = w1 /\ e.uses[2] = w2
  OBVIOUS
<1>2. Len(e.uses) >= 1
  BY <1>1
<1>3. Filled(e).index1 = NewIndex(e.uses[1]) /\ Filled(e).index2 = NewIndex(e.uses[2])
  BY <1>1, <1>2, FilledFields
<1> QED
  BY <1>1, <1>3

(* The reference to a method of the bridge. *)
LEMMA NamesMethod ==
  ASSUME IInv, stage = "image", NEW b \in {First + 2, First + 6},
         NEW name, MethodTable(b, name)
  PROVE  Names(Entry(NewIndex(<<name, "method">>)), name)
<1>1. /\ b + 1 \in 1 .. Len(NewEntries) /\ b + 2 \in 1 .. Len(NewEntries)
      /\ b + 3 \in 1 .. Len(NewEntries) /\ b + 4 \in 1 .. Len(NewEntries)
      /\ First + 1 \in 1 .. Len(NewEntries) /\ First + 2 \in 1 .. Len(NewEntries)
  <2>1. Len(NewEntries) = First + 10 /\ First \in {0, 1}
    BY NewEntriesTable DEF NewTable, First
  <2> QED
    BY <2>1
<1> DEFINE E(k) == Filled(NewEntries[k])
           x(k) == NewIndex(NewEntries[k].what)
<1>2. ASSUME NEW k \in 1 .. Len(NewEntries)
      PROVE  Entry(x(k)) = E(k) /\ E(k).tag = NewEntries[k].tag /\ E(k).text = NewEntries[k].text
  BY EntryAt, FilledFields
<1>3. E(b + 4).index1 = x(First + 2) /\ E(b + 4).index2 = x(b + 3)
  <2>1. NewEntries[b + 4].uses = << NewEntries[First + 2].what, NewEntries[b + 3].what >>
    BY MethodNames
  <2>2. NewEntries[b + 4].tag # "Integer"
    BY MethodTexts
  <2> QED
    BY <2>1, <2>2, FilledPair
<1>4. E(b + 3).index1 = x(b + 1) /\ E(b + 3).index2 = x(b + 2)
  <2>1. NewEntries[b + 3].uses = << NewEntries[b + 1].what, NewEntries[b + 2].what >>
    BY MethodNames
  <2>2. NewEntries[b + 3].tag # "Integer"
    BY MethodTexts
  <2> QED
    BY <2>1, <2>2, FilledPair
<1>5. E(First + 2).index1 = x(First + 1)
  <2>1. NewEntries[First + 2].uses = << NewEntries[First + 1].what >>
    BY ClassNames
  <2>2. NewEntries[First + 2].tag # "Integer"
    BY ClassTexts
  <2> QED
    BY <2>1, <2>2, FilledFields
<1>6. E(b + 4).tag = "Methodref"
  BY <1>1, <1>2, MethodTexts
<1>7. E(b + 1).text = name /\ E(b + 2).text = call_sig /\ E(First + 1).text = MTRACE_class
  BY <1>1, <1>2, ClassTexts, MethodTexts
<1>8. NewIndex(<<name, "method">>) = x(b + 4)
  BY MethodNames
<1> HIDE DEF E, x
<1>9. Entry(NewIndex(<<name, "method">>)) = E(b + 4)
  BY <1>1, <1>2, <1>8
<1>10. Entry(Entry(E(b + 4).index1).index1) = E(First + 1)
  BY <1>1, <1>2, <1>3, <1>5
<1>11. /\ Entry(E(b + 4).index2) = E(b + 3)
       /\ Entry(E(b + 3).index1) = E(b + 1) /\ Entry(E(b + 3).index2) = E(b + 2)
  BY <1>1, <1>2, <1>3, <1>4
<1> QED
  BY <1>6, <1>7, <1>9, <1>10, <1>11 DEF Names

\* Every call that the rewriter puts into a class leads to a method of the bridge, and
\* hands over the number of its class and the number under which mnum_callback told the
\* agent that method's name (push_cnum, push_mnum, add_new_method_cpool_entry).
THEOREM CallsLeadToTheBridge == CrwSpec => []CallsIdentify
<1>1. IInv => CallsIdentify
  <2> SUFFICES ASSUME IInv, stage = "image",
                      NEW m \in 1 .. Len(methods), NEW call \in methods[m].calls
               PROVE  /\ \E name \in {MTRACE_entry, MTRACE_exit} :
                           Names(Entry(call.method), name)
                      /\ Value(call.cnum) = number
                      /\ m - 1 <= MaxShort => Value(call.mnum) = m - 1
                      /\ registered[m] = <<file.methods[m].name, file.methods[m].descr>>
    BY DEF CallsIdentify
  <2>1. PICK name \in {MTRACE_entry, MTRACE_exit} : call = Call(name, m - 1)
    <3>1. methods[m].calls \subseteq BridgeCalls(m - 1)
      BY DEF IInv, MethodsInv
    <3> QED
      BY <3>1 DEF BridgeCalls
  <2>2. /\ call.cnum = push_cnum /\ call.mnum = push_mnum(m - 1)
        /\ call.method = NewIndex(<<name, "method">>)
    BY <2>1 DEF Call
  <2>3. Names(Entry(call.method), name)
    <3>1. MethodTable(First + 2, MTRACE_entry) /\ MethodTable(First + 6, MTRACE_exit)
      BY NewEntriesTable DEF NewTable
    <3>2. PICK b \in {First + 2, First + 6} : MethodTable(b, name)
      BY <3>1
    <3> QED
      BY <2>2, <3>2, NamesMethod
  <2>4. Value(call.cnum) = number
    BY <2>2, PushedNumber
  <2>5. ASSUME m - 1 <= MaxShort PROVE Value(call.mnum) = m - 1
    <3>1. m - 1 \in Nat
      <4>1. methods \in Seq(WrittenMethods)
        BY DEF IInv, MethodsInv
      <4>2. Len(methods) \in Nat
        <5> HIDE DEF WrittenMethods
        <5> QED
          BY <4>1, LenProperties
      <4> QED
        BY <4>2
    <3> QED
      BY <2>2, <2>5, <3>1, PushedValue DEF push_mnum
  <2>6. registered[m] = <<file.methods[m].name, file.methods[m].descr>>
    BY DEF IInv, MethodsInv
  <2> QED
    BY <2>3, <2>4, <2>5, <2>6
<1> QED
  BY <1>1, ClassFileInvariance, PTL
=============================================================================
