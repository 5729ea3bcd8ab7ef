-------------------------- MODULE TraceFilterProofs --------------------------
(***************************************************************************)
(* Proofs about TraceFilter, for option strings of any length, any buffers *)
(* and any names.  The loop over the options goes from word to word, which *)
(* is shown of get_token() first.  What a class name and a method name     *)
(* must be like for the two questions about them to agree is shown of the  *)
(* operators; the invariant says that nothing else was asked.              *)
(***************************************************************************)
EXTENDS TraceFilter, FiniteSetTheorems, SequenceTheorems, WellFoundedInduction, TLAPS

-----------------------------------------------------------------------------
(***************************************************************************)
(* The inductive invariant.                                                *)
(***************************************************************************)
Strings == Seq(STRING)
Holds(s, cs) == \E k \in 1 .. Len(s) : s[k] \in cs

TypeInv ==
  /\ pc \in {"first", "option", "next", "running", "loaded", "called", "exited", "fatal"}
  /\ options \in Strings /\ next \in Strings /\ token \in Strings /\ m_include \in Strings
  /\ cname \in ClassNames \cup {Empty} /\ mname \in MethodNames \cup {Empty}
  /\ instrumented \in BOOLEAN /\ reported \in BOOLEAN

\* What is left of the options, and what fits the buffers.
ScanInv ==
  /\ Len(next) <= Len(options)
  /\ Len(token) < MAX_TOKEN_LENGTH /\ Len(m_include) < MAX_METHOD_NAME_LENGTH
  /\ ~ Holds(token, Separators) /\ ~ Holds(m_include, Separators)

\* What was asked of the item.
AskedInv ==
  /\ cname # Empty => Parsed
  /\ pc \in {"loaded", "called"} =>
       cname \in ClassNames /\ instrumented = interested(cname, Empty)
  /\ pc = "called" =>
       mname \in MethodNames /\ reported = (instrumented /\ interested(cname, mname))

IInv == TypeInv /\ ScanInv /\ AskedInv

-----------------------------------------------------------------------------
(***************************************************************************)
(* Strings.                                                                *)
(***************************************************************************)
LEMMA LeastNatural ==
  ASSUME NEW T, T \subseteq Nat, T # {}
  PROVE  \E x \in T : \A y \in T : x <= y
<1> DEFINE R == {ss \in Nat \X Nat : ss[1] < ss[2]}
<1>1. OpToRel(<, Nat) = R
  BY Zenon DEF OpToRel
<1>2. IsWellFoundedOn(R, Nat)
  BY <1>1, NatLessThanWellFounded, Zenon
<1>3. PICK x \in T : \A y \in T : ~ (<<y, x>> \in R)
  <2> HIDE DEF R
  <2> QED
    BY <1>2, WFMin
<1>4. ASSUME NEW y \in T, ~ (x <= y)
      PROVE  FALSE
  <2>1. <<y, x>> \in Nat \X Nat /\ y < x
    BY <1>4
  <2>2. <<y, x>> \in R
    BY <2>1
  <2> QED
    BY <1>3, <2>2
<1> QED
  BY <1>4

(* The least of some places in a string. *)
LEMMA LeastPlace ==
  ASSUME NEW n \in Nat, NEW I, I \subseteq 1 .. n, I # {}
  PROVE  Min(I) \in I /\ \A k \in I : Min(I) <= k
<1>1. I \subseteq Nat
  OBVIOUS
<1>2. \E x \in I : \A y \in I : x <= y
  BY <1>1, LeastNatural
<1> QED
  BY <1>2, Zenon DEF Min

(* strspn: what is spanned is of the set, and the character behind it is not. *)
LEMMA Span ==
  ASSUME NEW s \in Strings, NEW cs
  PROVE  /\ strspn(s, cs) \in 0 .. Len(s)
         /\ \A k \in 1 .. strspn(s, cs) : s[k] \in cs
         /\ strspn(s, cs) # Len(s) => s[strspn(s, cs) + 1] \notin cs
         /\ s # Empty /\ s[1] \notin cs => strspn(s, cs) = 0
<1> DEFINE I == {k \in 1 .. Len(s) : s[k] \notin cs}
<1>1. Len(s) \in Nat
  BY LenProperties DEF Strings
<1>2. strspn(s, cs) = IF I = {} \/ Min(I) = 0 THEN Len(s) ELSE Min(I) - 1
  BY DEF strspn, SelectInSeq
<1>3. CASE I = {}
  <2>1. s # Empty => 1 \in 1 .. Len(s)
    BY <1>1, EmptySeq DEF Empty, Strings
  <2>2. ~ (s # Empty /\ s[1] \notin cs)
    BY <1>3, <2>1
  <2>3. \A k \in 1 .. Len(s) : s[k] \in cs
    BY <1>3
  <2> QED
    BY <1>1, <1>2, <1>3, <2>2, <2>3
<1>4. CASE I # {}
  <2>1. Min(I) \in I /\ \A k \in I : Min(I) <= k
    <3>1. I \subseteq 1 .. Len(s)
      OBVIOUS
    <3> HIDE DEF I
    <3> QED
      BY <1>1, <1>4, <3>1, LeastPlace
  <2>2. Min(I) \in 1 .. Len(s) /\ s[Min(I)] \notin cs
    BY <2>1
  <2>3. s[1] \notin cs => Min(I) = 1
    <3>1. 1 \in 1 .. Len(s)
      BY <1>1, <2>2
    <3>2. s[1] \notin cs => Min(I) <= 1
      BY <2>1, <3>1
    <3> HIDE DEF I
    <3> QED
      BY <2>2, <3>2
  <2>4. \A k \in 1 .. Len(s) : k < Min(I) => s[k] \in cs
    <3> SUFFICES ASSUME NEW k \in 1 .. Len(s), k < Min(I), s[k] \notin cs PROVE FALSE
      OBVIOUS
    <3>1. Min(I) <= k
      BY <2>1
    <3> HIDE DEF I
    <3> QED
      BY <1>1, <2>2, <3>1
  <2> HIDE DEF I
  <2>5. strspn(s, cs) = Min(I) - 1
    BY <1>2, <1>4, <2>2
  <2>6. strspn(s, cs) + 1 = Min(I)
    BY <1>1, <2>2, <2>5
  <2>7. \A k \in 1 .. Min(I) - 1 : s[k] \in cs
    BY <1>1, <2>2, <2>4
  <2>8. s[strspn(s, cs) + 1] \notin cs
    BY <2>2, <2>6
  <2>9. Min(I) - 1 \in 0 .. Len(s) /\ (Min(I) = 1 => Min(I) - 1 = 0)
    BY <1>1, <2>2
  <2> QED
    BY <2>3, <2>5, <2>7, <2>8, <2>9
<1> QED
  BY <1>3, <1>4

(* strcspn: no character in the span is one of the set, and the one behind it is. *)
LEMMA Complement ==
  ASSUME NEW s \in Strings, NEW cs
  PROVE  /\ strcspn(s, cs) \in 0 .. Len(s)
         /\ \A k \in 1 .. strcspn(s, cs) : s[k] \notin cs
         /\ strcspn(s, cs) # Len(s) => s[strcspn(s, cs) + 1] \in cs
         /\ ~ Holds(s, cs) => strcspn(s, cs) = Len(s)
<1> DEFINE I == {k \in 1 .. Len(s) : s[k] \in cs}
<1>1. Len(s) \in Nat
  BY LenProperties DEF Strings
<1>2. strcspn(s, cs) = IF I = {} \/ Min(I) = 0 THEN Len(s) ELSE Min(I) - 1
  BY DEF strcspn, SelectInSeq
<1>3. CASE I = {}
  BY <1>1, <1>2, <1>3
<1>4. CASE I # {}
  <2>1. Min(I) \in I /\ \A k \in I : Min(I) <= k
    <3>1. I \subseteq 1 .. Len(s)
      OBVIOUS
    <3> HIDE DEF I
    <3> QED
      BY <1>1, <1>4, <3>1, LeastPlace
  <2>2. Min(I) \in 1 .. Len(s) /\ s[Min(I)] \in cs /\ Holds(s, cs)
    BY <2>1 DEF Holds
  <2>3. strcspn(s, cs) = Min(I) - 1
    <3> HIDE DEF I
    <3> QED
      BY <1>1, <1>2, <1>4, <2>2
  <2>4. ASSUME NEW k \in 1 .. strcspn(s, cs)
        PROVE  s[k] \notin cs
    <3>1. k \in 1 .. Len(s) /\ ~ (Min(I) <= k)
      <4> HIDE DEF I
      <4> QED
        BY <1>1, <2>2, <2>3
    <3>2. k \notin I
      BY <2>1, <3>1
    <3> QED
      BY <3>1, <3>2
  <2> HIDE DEF I
  <2>5. strcspn(s, cs) + 1 = Min(I)
    BY <1>1, <2>2, <2>3
  <2>6. s[strcspn(s, cs) + 1] \in cs
    BY <2>2, <2>5
  <2> QED
    BY <1>1, <2>2, <2>3, <2>4, <2>6
<1> QED
  BY <1>3, <1>4

(* Drop() removes characters at the begin. *)
LEMMA Dropped ==
  ASSUME NEW s \in Strings, NEW n \in Nat, n <= Len(s)
  PROVE  /\ Drop(s, n) \in Strings /\ Len(Drop(s, n)) = Len(s) - n
         /\ \A k \in 1 .. Len(s) - n : Drop(s, n)[k] = s[n + k]
<1>1. Len(s) \in Nat
  BY LenProperties DEF Strings
<1>2. \A k \in n + 1 .. Len(s) : s[k] \in STRING
  <2>1. \A k \in n + 1 .. Len(s) : k \in 1 .. Len(s)
    BY <1>1
  <2> QED
    BY <2>1, ElementOfSeq DEF Strings
<1>3. n + 1 \in Int /\ Len(s) \in Int /\ Len(s) - (n + 1) + 1 = Len(s) - n
  BY <1>1
<1>4. /\ SubSeq(s, n + 1, Len(s)) \in Seq(STRING)
      /\ Len(SubSeq(s, n + 1, Len(s))) = IF n + 1 <= Len(s) THEN Len(s) - (n + 1) + 1 ELSE 0
      /\ \A k \in 1 .. Len(s) - (n + 1) + 1 : SubSeq(s, n + 1, Len(s))[k] = s[(n + 1) + k - 1]
  BY <1>2, <1>3, SubSeqProperties
<1>5. \A k \in 1 .. Len(s) - n : (n + 1) + k - 1 = n + k
  BY <1>1
<1> DEFINE d == SubSeq(s, n + 1, Len(s))
<1>6. d \in Strings
  BY <1>4 DEF Strings
<1>7. Len(d) = Len(s) - n
  <2>1. Len(d) = IF n + 1 <= Len(s) THEN Len(s) - n ELSE 0
    BY <1>3, <1>4
  <2> HIDE DEF d
  <2> QED
    BY <1>1, <2>1
<1>8. \A k \in 1 .. Len(s) - n : d[k] = s[n + k]
  BY <1>3, <1>4, <1>5
<1> HIDE DEF d
<1> QED
  BY <1>6, <1>7, <1>8 DEF d, Drop

LEMMA DropNone ==
  ASSUME NEW s \in Strings
  PROVE  Drop(s, 0) = s
<1>1. SubSeq(s, 1, Len(s)) = s
  BY SubSeqFull DEF Strings
<1> QED
  BY <1>1 DEF Drop

(* The begin of a string. *)
LEMMA Begun ==
  ASSUME NEW s \in Strings, NEW n \in 0 .. Len(s)
  PROVE  /\ SubSeq(s, 1, n) \in Strings /\ Len(SubSeq(s, 1, n)) = n
         /\ \A k \in 1 .. n : SubSeq(s, 1, n)[k] = s[k]
<1>1. Len(s) \in Nat
  BY LenProperties DEF Strings
<1>2. \A k \in 1 .. n : s[k] \in STRING
  <2>1. \A k \in 1 .. n : k \in 1 .. Len(s)
    BY <1>1
  <2> QED
    BY <2>1, ElementOfSeq DEF Strings
<1>3. n - 1 + 1 = n /\ n \in Int /\ 1 \in Int
  BY <1>1
<1>4. /\ SubSeq(s, 1, n) \in Seq(STRING)
      /\ Len(SubSeq(s, 1, n)) = IF 1 <= n THEN n - 1 + 1 ELSE 0
      /\ \A k \in 1 .. n - 1 + 1 : SubSeq(s, 1, n)[k] = s[1 + k - 1]
  BY <1>2, <1>3, SubSeqProperties
<1>5. \A k \in 1 .. n : 1 + k - 1 = k
  OBVIOUS
<1> QED
  BY <1>1, <1>3, <1>4, <1>5 DEF Strings

(* What get_token() finds fits its buffer and holds no separator, and the rest is no *)
(* longer than the string was; behind a token it is shorter. *)
LEMMA TokenFits ==
  ASSUME NEW str \in Strings, NEW seps, NEW max \in Nat \ {0}
  PROVE  LET t == get_token(str, seps, max) IN
         /\ t.found \in BOOLEAN /\ t.token \in Strings /\ t.rest \in Strings
         /\ Len(t.token) < max /\ Len(t.rest) <= Len(str)
         /\ ~ Holds(t.token, seps)
         /\ t.found => Len(t.rest) < Len(str)
<1> DEFINE n == strspn(str, seps)
           s == Drop(str, n)
           len == strcspn(s, seps)
           t == get_token(str, seps, max)
           Fine == /\ t.found \in BOOLEAN /\ t.token \in Strings /\ t.rest \in Strings
                   /\ Len(t.token) < max /\ Len(t.rest) <= Len(str)
                   /\ ~ Holds(t.token, seps)
                   /\ t.found => Len(t.rest) < Len(str)
<1>1. /\ n \in 0 .. Len(str) /\ Len(str) \in Nat
      /\ n # Len(str) => str[n + 1] \notin seps
  BY Span, LenProperties DEF Strings
<1>2. /\ s \in Strings /\ Len(s) = Len(str) - n /\ Len(s) \in Nat
      /\ \A k \in 1 .. Len(str) - n : s[k] = str[n + k]
  <2>1. n \in Nat /\ n <= Len(str) /\ Len(str) - n \in Nat
    BY <1>1
  <2> QED
    BY <2>1, Dropped
<1>3. /\ len \in 0 .. Len(s) /\ \A k \in 1 .. len : s[k] \notin seps
      /\ len # Len(s) => s[len + 1] \in seps
  <2> HIDE DEF s
  <2> QED
    BY <1>2, Complement
<1>4. ASSUME s = Empty \/ len >= max
      PROVE  Fine
  <2>1. t = [found |-> FALSE, token |-> Empty, rest |-> Empty]
    BY <1>4 DEF get_token
  <2>2. Empty \in Strings /\ Len(Empty) = 0
    BY EmptySeq DEF Empty, Strings
  <2>3. ~ Holds(Empty, seps)
    BY <2>2 DEF Holds
  <2>4. t.found = FALSE /\ t.token = Empty /\ t.rest = Empty
    BY <2>1
  <2>5. 0 < max /\ 0 <= Len(str)
    BY <1>1
  <2> HIDE DEF t
  <2> QED
    BY <2>2, <2>3, <2>4, <2>5
<1>5. ASSUME ~ (s = Empty \/ len >= max)
      PROVE  Fine
  <2>1. t = [found |-> TRUE, token |-> SubSeq(s, 1, len), rest |-> Drop(s, len)]
    BY <1>5 DEF get_token
  <2> HIDE DEF t, s, len
  <2>2. /\ SubSeq(s, 1, len) \in Strings /\ Len(SubSeq(s, 1, len)) = len
        /\ \A k \in 1 .. len : SubSeq(s, 1, len)[k] = s[k]
    BY <1>2, <1>3, Begun
  <2>3. Drop(s, len) \in Strings /\ Len(Drop(s, len)) = Len(s) - len
    <3>1. len \in Nat /\ len <= Len(s)
      BY <1>2, <1>3
    <3> QED
      BY <1>2, <3>1, Dropped
  <2>4. ~ Holds(SubSeq(s, 1, len), seps)
    BY <1>3, <2>2 DEF Holds
  <2>5. len < max /\ Len(s) - len <= Len(str)
    BY <1>1, <1>2, <1>3, <1>5
  <2>6. len # 0
    <3> SUFFICES ASSUME len = 0 PROVE FALSE
      OBVIOUS
    <3>1. Len(s) # 0
      <4> SUFFICES ASSUME Len(s) = 0 PROVE FALSE
        OBVIOUS
      <4>1. s \in Seq(STRING)
        BY <1>2 DEF Strings
      <4>2. s = <<>>
        BY <4>1, EmptySeq
      <4> QED
        BY <1>5, <4>2 DEF Empty
    <3>2. s[1] \in seps
      BY <1>3, <3>1
    <3>3. n # Len(str) /\ 1 \in 1 .. Len(str) - n
      BY <1>1, <1>2, <3>1
    <3>4. s[1] = str[n + 1]
      BY <1>2, <3>3
    <3> QED
      BY <1>1, <3>2, <3>3, <3>4
  <2>7. Len(s) - len < Len(str)
    BY <1>1, <1>2, <1>3, <2>6
  <2>8. t.found = TRUE /\ t.token = SubSeq(s, 1, len) /\ t.rest = Drop(s, len)
    BY <2>1
  <2> QED
    BY <2>2, <2>3, <2>4, <2>5, <2>7, <2>8
<1> QED
  BY <1>4, <1>5

(* What is cut out of the rest of a string. *)
LEMMA CutOfDrop ==
  ASSUME NEW s \in Strings, NEW n \in 0 .. Len(s), NEW i \in Nat \ {0},
         NEW j \in i - 1 .. Len(s) - n
  PROVE  SubSeq(Drop(s, n), i, j) = SubSeq(s, n + i, n + j)
<1>1. Len(s) \in Nat
  BY LenProperties DEF Strings
<1>2. PICK d : d = Drop(s, n)
  OBVIOUS
<1>3. d \in Strings /\ Len(d) = Len(s) - n /\ \A k \in 1 .. Len(s) - n : d[k] = s[n + k]
  <2>1. n \in Nat /\ n <= Len(s)
    BY <1>1
  <2> QED
    BY <1>2, <2>1, Dropped
<1>4. /\ SubSeq(d, i, j) \in Seq(STRING)
      /\ Len(SubSeq(d, i, j)) = IF i <= j THEN j - i + 1 ELSE 0
      /\ \A k \in 1 .. j - i + 1 : SubSeq(d, i, j)[k] = d[i + k - 1]
  <2>1. \A k \in i .. j : d[k] \in STRING
    <3>1. \A k \in i .. j : k \in 1 .. Len(d)
      BY <1>1, <1>3
    <3> QED
      BY <1>3, <3>1, ElementOfSeq DEF Strings
  <2>2. i \in Int /\ j \in Int
    BY <1>1
  <2> QED
    BY <2>1, <2>2, SubSeqProperties
<1>5. /\ SubSeq(s, n + i, n + j) \in Seq(STRING)
      /\ Len(SubSeq(s, n + i, n + j)) = IF n + i <= n + j THEN n + j - (n + i) + 1 ELSE 0
      /\ \A k \in 1 .. n + j - (n + i) + 1 :
           SubSeq(s, n + i, n + j)[k] = s[n + i + k - 1]
  <2>1. \A k \in n + i .. n + j : s[k] \in STRING
    <3>1. \A k \in n + i .. n + j : k \in 1 .. Len(s)
      BY <1>1
    <3> QED
      BY <3>1, ElementOfSeq DEF Strings
  <2>2. n + i \in Int /\ n + j \in Int
    BY <1>1
  <2> QED
    BY <2>1, <2>2, SubSeqProperties
<1>6. PICK a : a = SubSeq(d, i, j)
  OBVIOUS
<1>7. PICK b : b = SubSeq(s, n + i, n + j)
  OBVIOUS
<1>8. j - i + 1 \in Nat /\ n + j - (n + i) + 1 = j - i + 1
  BY <1>1
<1>9. Len(a) = j - i + 1 /\ Len(b) = j - i + 1
  BY <1>1, <1>4, <1>5, <1>6, <1>7, <1>8
<1>10. ASSUME NEW k \in 1 .. j - i + 1 PROVE a[k] = b[k]
  <2>1. a[k] = d[i + k - 1] /\ b[k] = s[n + i + k - 1]
    BY <1>4, <1>5, <1>6, <1>7, <1>8
  <2>2. i + k - 1 \in 1 .. Len(s) - n /\ n + (i + k - 1) = n + i + k - 1
    BY <1>1
  <2>3. d[i + k - 1] = s[n + (i + k - 1)]
    BY <1>3, <2>2
  <2> QED
    BY <2>1, <2>2, <2>3
<1>11. a \in Seq(STRING) /\ b \in Seq(STRING)
  BY <1>4, <1>5, <1>6, <1>7
<1>12. a = b
  BY <1>9, <1>10, <1>11, SeqEqual
<1> QED
  BY <1>2, <1>6, <1>7, <1>12

(* The rest of the rest. *)
LEMMA DropDrop ==
  ASSUME NEW s \in Strings, NEW n \in 0 .. Len(s), NEW j \in 0 .. Len(s) - n
  PROVE  Drop(Drop(s, n), j) = Drop(s, n + j)
<1>1. Len(s) \in Nat
  BY LenProperties DEF Strings
<1>2. Len(Drop(s, n)) = Len(s) - n
  <2>1. n \in Nat /\ n <= Len(s)
    BY <1>1
  <2> QED
    BY <2>1, Dropped
<1>3. j + 1 \in Nat \ {0} /\ Len(s) - n \in (j + 1) - 1 .. Len(s) - n
  BY <1>1
<1>4. SubSeq(Drop(s, n), j + 1, Len(s) - n) = SubSeq(s, n + (j + 1), n + (Len(s) - n))
  BY <1>3, CutOfDrop
<1>5. n + (j + 1) = n + j + 1 /\ n + (Len(s) - n) = Len(s)
  BY <1>1
<1>6. Drop(Drop(s, n), j) = SubSeq(Drop(s, n), j + 1, Len(s) - n)
  BY <1>2 DEF Drop
<1> QED
  BY <1>4, <1>5, <1>6 DEF Drop

\* A token t of a string: the first characters that are not of the set, if they fit.
FirstToken(t, str, seps, max) ==
  \/ (\A k \in 1 .. Len(str) : str[k] \in seps) /\ t.found = FALSE
  \/ \E i \in 1 .. Len(str) : \E j \in i .. Len(str) :
       /\ \A k \in 1 .. i - 1 : str[k] \in seps
       /\ \A k \in i .. j : str[k] \notin seps
       /\ j # Len(str) => str[j + 1] \in seps
       /\ j - i + 1 < max =>
            /\ t.found = TRUE
            /\ t.token = SubSeq(str, i, j) /\ t.rest = Drop(str, j)

(* get_token() finds it. *)
LEMMA TokenAt ==
  ASSUME NEW str \in Strings, NEW seps, NEW max \in Nat \ {0}
  PROVE  FirstToken(get_token(str, seps, max), str, seps, max)
<1>1. PICK n : n = strspn(str, seps)
  OBVIOUS
<1>2. /\ n \in 0 .. Len(str) /\ Len(str) \in Nat
      /\ \A k \in 1 .. n : str[k] \in seps
      /\ n # Len(str) => str[n + 1] \notin seps
  BY <1>1, Span, LenProperties DEF Strings
<1>3. PICK s : s = Drop(str, n)
  OBVIOUS
<1>4. /\ s \in Strings /\ Len(s) = Len(str) - n
      /\ \A k \in 1 .. Len(str) - n : s[k] = str[n + k]
  <2>1. n \in Nat /\ n <= Len(str)
    BY <1>2
  <2> QED
    BY <1>3, <2>1, Dropped
<1>5. PICK len : len = strcspn(s, seps)
  OBVIOUS
<1>6. /\ len \in 0 .. Len(s)
      /\ \A k \in 1 .. len : s[k] \notin seps
      /\ len # Len(s) => s[len + 1] \in seps
  BY <1>4, <1>5, Complement
<1>7. PICK t : t = get_token(str, seps, max)
  OBVIOUS
<1>8. t = IF s = Empty \/ len >= max
          THEN [found |-> FALSE, token |-> Empty, rest |-> Empty]
          ELSE [found |-> TRUE, token |-> SubSeq(s, 1, len), rest |-> Drop(s, len)]
  BY <1>1, <1>3, <1>5, <1>7 DEF get_token
<1>9. CASE n = Len(str)
  <2>1. s = Empty
    <3>1. s \in Seq(STRING) /\ Len(s) = 0
      BY <1>2, <1>4, <1>9 DEF Strings
    <3>2. s = <<>>
      BY <3>1, EmptySeq
    <3> QED
      BY <3>2 DEF Empty
  <2>2. t.found = FALSE
    BY <1>8, <2>1
  <2> QED
    BY <1>2, <1>7, <1>9, <2>2 DEF FirstToken
<1>10. CASE n # Len(str)
  <2>0. 1 \in 1 .. Len(str) - n /\ Len(str) - n # 0
    BY <1>2, <1>10
  <2>1. s[1] = str[n + 1] /\ s[1] \notin seps
    BY <1>2, <1>4, <1>10, <2>0
  <2>2. len \in 1 .. Len(str) - n
    BY <1>2, <1>4, <1>6, <1>10, <2>1
  <2>3. s # Empty
    <3>1. Len(Empty) = 0
      BY EmptySeq DEF Empty
    <3> QED
      BY <1>4, <2>0, <3>1
  <2> DEFINE i == n + 1
             j == n + len
  <2>4. i \in 1 .. Len(str) /\ j \in i .. Len(str)
    BY <1>2, <1>10, <2>2
  <2>5. \A k \in 1 .. i - 1 : str[k] \in seps
    BY <1>2
  <2>6. ASSUME NEW k \in i .. j
        PROVE  str[k] \notin seps
    <3>1. k - n \in 1 .. len /\ k - n \in 1 .. Len(str) - n /\ n + (k - n) = k
      BY <1>2, <2>2
    <3>2. s[k - n] = str[k]
      BY <1>4, <3>1
    <3> QED
      BY <1>6, <3>1, <3>2
  <2>7. ASSUME j # Len(str)
        PROVE  str[j + 1] \in seps
    <3>1. len # Len(str) - n /\ len + 1 \in 1 .. Len(str) - n /\ n + (len + 1) = j + 1
      BY <1>2, <2>2, <2>7
    <3>2. s[len + 1] = str[j + 1]
      BY <1>4, <3>1
    <3> QED
      BY <1>4, <1>6, <3>1, <3>2
  <2>8. j - i + 1 = len
    BY <1>2, <2>2
  <2>9. ASSUME len < max
        PROVE  t.found = TRUE /\ t.token = SubSeq(str, i, j) /\ t.rest = Drop(str, j)
    <3>1. ~ (len >= max)
      BY <1>2, <2>2, <2>9
    <3>2. t = [found |-> TRUE, token |-> SubSeq(s, 1, len), rest |-> Drop(s, len)]
      BY <1>8, <2>3, <3>1
    <3>3. SubSeq(s, 1, len) = SubSeq(str, i, j)
      <4>1. 1 \in Nat \ {0} /\ len \in 1 - 1 .. Len(str) - n
        BY <1>2, <2>2
      <4> QED
        BY <1>2, <1>3, <4>1, CutOfDrop
    <3>4. Drop(s, len) = Drop(str, j)
      <4>1. len \in 0 .. Len(str) - n
        BY <1>2, <2>2
      <4> QED
        BY <1>2, <1>3, <4>1, DropDrop
    <3> QED
      BY <3>2, <3>3, <3>4
  <2> HIDE DEF i, j
  <2>10. \E x \in 1 .. Len(str) : \E y \in x .. Len(str) :
              /\ \A k \in 1 .. x - 1 : str[k] \in seps
              /\ \A k \in x .. y : str[k] \notin seps
              /\ y # Len(str) => str[y + 1] \in seps
              /\ y - x + 1 < max =>
                   /\ t.found = TRUE
                   /\ t.token = SubSeq(str, x, y) /\ t.rest = Drop(str, y)
    BY <2>4, <2>5, <2>6, <2>7, <2>8, <2>9
  <2> QED
    BY <1>7, <2>10 DEF FirstToken
<1> QED
  BY <1>9, <1>10

-----------------------------------------------------------------------------
(***************************************************************************)
(* The words of the options.                                               *)
(***************************************************************************)
(* Where a word begins and ends. *)
LEMMA WordIs ==
  ASSUME options \in Strings, NEW i \in 1 .. Len(options), NEW j \in i .. Len(options),
         IsSep(j + 1), \A k \in i .. j : ~IsSep(k)
  PROVE  Word(i) = SubSeq(options, i, j) /\ Len(Word(i)) = j - i + 1
<1>1. Len(options) \in Nat
  BY LenProperties DEF Strings
<1> DEFINE End(n) == IsSep(n + 1) /\ \A k \in i .. n : ~IsSep(k)
<1>2. PICK e : e = CHOOSE n \in i .. Len(options) : End(n)
  OBVIOUS
<1>3. e \in i .. Len(options) /\ End(e)
  <2>1. \E n \in i .. Len(options) : End(n)
    BY Zenon
  <2> HIDE DEF End
  <2> QED
    BY <1>2, <2>1, Zenon
<1>4. e = j
  <2>1. ASSUME e < j PROVE FALSE
    <3>1. e + 1 \in i .. j
      BY <1>1, <1>3, <2>1
    <3> QED
      BY <1>3, <3>1
  <2>2. ASSUME j < e PROVE FALSE
    <3>1. j + 1 \in i .. e
      BY <1>1, <1>3, <2>2
    <3> QED
      BY <1>3, <3>1
  <2>3. e \in Int /\ j \in Int
    BY <1>1, <1>3
  <2> QED
    BY <2>1, <2>2, <2>3
<1>5. Word(i) = SubSeq(options, i, j)
  BY <1>2, <1>4 DEF Word
<1>6. Len(SubSeq(options, i, j)) = IF i <= j THEN j - i + 1 ELSE 0
  <2>1. \A k \in i .. j : options[k] \in STRING
    <3>1. \A k \in i .. j : k \in 1 .. Len(options)
      BY <1>1
    <3> QED
      BY <3>1, ElementOfSeq DEF Strings
  <2>2. i \in Int /\ j \in Int
    BY <1>1
  <2> QED
    BY <2>1, <2>2, SubSeqProperties
<1> QED
  BY <1>1, <1>5, <1>6

\* What is behind p in the options: no word, or the next word, if it fits, with the rest.
NextToken(t, p, max) ==
  \/ (\A k \in Starts : k <= p) /\ t.found = FALSE
  \/ \E i \in Starts :
       /\ p < i /\ \A k \in Starts : k <= p \/ i <= k
       /\ Len(Word(i)) < max =>
            /\ t.found = TRUE /\ t.token = Word(i)
            /\ \E q \in i .. Len(options) :
                 /\ t.rest = Drop(options, q) /\ IsSep(q + 1)
                 /\ \A k \in Starts : k <= q => k <= i

(* get_token() finds it behind a word and at the begin of the options. *)
LEMMA NextWord ==
  ASSUME options \in Strings, NEW p \in 0 .. Len(options), p = 0 \/ IsSep(p + 1),
         NEW seps, Separators \subseteq seps,
         \A k \in 1 .. Len(options) : options[k] \in seps => options[k] \in Separators,
         NEW max \in Nat \ {0}
  PROVE  NextToken(get_token(Drop(options, p), seps, max), p, max)
<1>1. PICK len : len = Len(options)
  OBVIOUS
<1>2. len \in Nat /\ p \in 0 .. len
  BY <1>1, LenProperties DEF Strings
<1>3. PICK str : str = Drop(options, p)
  OBVIOUS
<1>4. /\ str \in Strings /\ Len(str) = len - p
      /\ \A k \in 1 .. len - p : str[k] = options[p + k]
  <2>1. p \in Nat /\ p <= len
    BY <1>2
  <2> QED
    BY <1>1, <1>3, <2>1, Dropped
<1>5. PICK t : t = get_token(str, seps, max)
  OBVIOUS
<1>6. \A k \in 1 .. len - p : str[k] \in seps <=> IsSep(p + k)
  <2> SUFFICES ASSUME NEW k \in 1 .. len - p PROVE str[k] \in seps <=> IsSep(p + k)
    OBVIOUS
  <2>1. p + k \in 1 .. len /\ p + k # 0 /\ p + k # len + 1
    BY <1>2
  <2>2. IsSep(p + k) <=> options[p + k] \in Separators
    BY <1>1, <2>1 DEF IsSep
  <2>3. options[p + k] \in seps <=> options[p + k] \in Separators
    BY <1>1, <2>1
  <2> QED
    BY <1>4, <2>2, <2>3
<1>7. \A k \in Starts : k \in 1 .. len /\ ~IsSep(k) /\ IsSep(k - 1)
  BY <1>1 DEF Starts
<1>8. CASE (\A k \in 1 .. Len(str) : str[k] \in seps) /\ t.found = FALSE
  <2>1. ASSUME NEW k \in Starts, ~ (k <= p) PROVE FALSE
    <3>1. k - p \in 1 .. len - p /\ p + (k - p) = k
      BY <1>2, <1>7, <2>1
    <3>2. IsSep(k)
      BY <1>4, <1>6, <1>8, <3>1
    <3> QED
      BY <1>7, <3>2
  <2> QED
    BY <1>3, <1>5, <1>8, <2>1 DEF NextToken
<1>9. CASE \E i \in 1 .. Len(str) : \E j \in i .. Len(str) :
             /\ \A k \in 1 .. i - 1 : str[k] \in seps
             /\ \A k \in i .. j : str[k] \notin seps
             /\ j # Len(str) => str[j + 1] \in seps
             /\ j - i + 1 < max =>
                  /\ t.found = TRUE
                  /\ t.token = SubSeq(str, i, j) /\ t.rest = Drop(str, j)
  <2>1. PICK i \in 1 .. len - p : \E j \in i .. len - p :
             /\ \A k \in 1 .. i - 1 : str[k] \in seps
             /\ \A k \in i .. j : str[k] \notin seps
             /\ j # len - p => str[j + 1] \in seps
             /\ j - i + 1 < max =>
                  /\ t.found = TRUE
                  /\ t.token = SubSeq(str, i, j) /\ t.rest = Drop(str, j)
    BY <1>4, <1>9
  <2>2. PICK j \in i .. len - p :
             /\ \A k \in 1 .. i - 1 : str[k] \in seps
             /\ \A k \in i .. j : str[k] \notin seps
             /\ j # len - p => str[j + 1] \in seps
             /\ j - i + 1 < max =>
                  /\ t.found = TRUE
                  /\ t.token = SubSeq(str, i, j) /\ t.rest = Drop(str, j)
    BY <2>1
  <2>3. PICK a : a = p + i
    OBVIOUS
  <2>4. PICK b : b = p + j
    OBVIOUS
  <2>5. a \in 1 .. len /\ b \in a .. len /\ p < a /\ a \in Int /\ b \in Int
    BY <1>2, <2>3, <2>4
  <2>6. \A k \in a .. b : ~IsSep(k)
    <3> SUFFICES ASSUME NEW k \in a .. b PROVE ~IsSep(k)
      OBVIOUS
    <3>1. k - p \in i .. j /\ k - p \in 1 .. len - p /\ p + (k - p) = k
      BY <1>2, <2>3, <2>4
    <3>2. str[k - p] \notin seps
      BY <2>2, <3>1
    <3> QED
      BY <1>6, <3>1, <3>2
  <2>7. \A k \in p + 1 .. a - 1 : IsSep(k)
    <3> SUFFICES ASSUME NEW k \in p + 1 .. a - 1 PROVE IsSep(k)
      OBVIOUS
    <3>1. k - p \in 1 .. i - 1 /\ k - p \in 1 .. len - p /\ p + (k - p) = k
      BY <1>2, <2>3
    <3>2. str[k - p] \in seps
      BY <2>2, <3>1
    <3> QED
      BY <1>6, <3>1, <3>2
  <2>8. IsSep(b + 1)
    <3>1. CASE j = len - p
      <4>1. b + 1 = len + 1
        BY <1>2, <2>4, <3>1
      <4> QED
        BY <1>1, <4>1 DEF IsSep
    <3>2. CASE j # len - p
      <4>1. j + 1 \in 1 .. len - p /\ p + (j + 1) = b + 1
        BY <1>2, <2>4, <3>2
      <4>2. str[j + 1] \in seps
        BY <2>2, <3>2
      <4> QED
        BY <1>6, <4>1, <4>2
    <3> QED
      BY <3>1, <3>2
  <2>9. a \in Starts
    <3>1. ~IsSep(a)
      BY <2>5, <2>6
    <3>2. IsSep(a - 1)
      <4>1. CASE a - 1 \in p + 1 .. a - 1
        BY <2>7, <4>1
      <4>2. CASE a = p + 1
        <5>1. p = 0
          BY <3>1, <4>2
        <5>2. a - 1 = 0
          BY <4>2, <5>1
        <5> QED
          BY <5>2 DEF IsSep
      <4> QED
        BY <1>2, <2>5, <4>1, <4>2
    <3> QED
      BY <1>1, <2>5, <3>1, <3>2 DEF Starts
  <2>10. \A k \in Starts : k <= p \/ a <= k
    <3> SUFFICES ASSUME NEW k \in Starts, ~ (k <= p), ~ (a <= k) PROVE FALSE
      OBVIOUS
    <3>1. k \in p + 1 .. a - 1
      BY <1>2, <1>7, <2>5
    <3> QED
      BY <1>7, <2>7, <3>1
  <2>11. \A k \in Starts : k <= b => k <= a
    <3> SUFFICES ASSUME NEW k \in Starts, k <= b, ~ (k <= a) PROVE FALSE
      OBVIOUS
    <3>1. k - 1 \in a .. b
      BY <1>2, <1>7, <2>5
    <3> QED
      BY <1>7, <2>6, <3>1
  <2>12. Word(a) = SubSeq(options, a, b) /\ Len(Word(a)) = j - i + 1
    <3>1. b - a + 1 = j - i + 1
      BY <1>2, <2>3, <2>4
    <3> QED
      BY <1>1, <2>5, <2>6, <2>8, <3>1, WordIs
  <2>13. SubSeq(str, i, j) = SubSeq(options, a, b)
    <3>1. i \in Nat \ {0} /\ j \in i - 1 .. len - p
      BY <1>2
    <3> QED
      BY <1>1, <1>2, <1>3, <2>3, <2>4, <3>1, CutOfDrop
  <2>14. Drop(str, j) = Drop(options, b)
    <3>1. j \in 0 .. len - p
      BY <1>2
    <3> QED
      BY <1>1, <1>2, <1>3, <2>4, <3>1, DropDrop
  <2>15. Len(Word(a)) < max => t.found = TRUE /\ t.token = Word(a) /\ t.rest = Drop(options, b)
    BY <2>2, <2>12, <2>13, <2>14
  <2>16. \E q \in a .. Len(options) :
           /\ Len(Word(a)) < max => t.rest = Drop(options, q)
           /\ IsSep(q + 1) /\ \A k \in Starts : k <= q => k <= a
    BY <1>1, <2>5, <2>8, <2>11, <2>15
  <2>17. \E x \in Starts :
              /\ p < x /\ \A k \in Starts : k <= p \/ x <= k
              /\ Len(Word(x)) < max =>
                   /\ t.found = TRUE /\ t.token = Word(x)
                   /\ \E q \in x .. Len(options) :
                        /\ t.rest = Drop(options, q) /\ IsSep(q + 1)
                        /\ \A k \in Starts : k <= q => k <= x
    BY <2>5, <2>9, <2>10, <2>15, <2>16
  <2> QED
    BY <1>3, <1>5, <2>17 DEF NextToken
<1>10. \/ (\A k \in 1 .. Len(str) : str[k] \in seps) /\ t.found = FALSE
       \/ \E i \in 1 .. Len(str) : \E j \in i .. Len(str) :
             /\ \A k \in 1 .. i - 1 : str[k] \in seps
             /\ \A k \in i .. j : str[k] \notin seps
             /\ j # Len(str) => str[j + 1] \in seps
             /\ j - i + 1 < max =>
                  /\ t.found = TRUE
                  /\ t.token = SubSeq(str, i, j) /\ t.rest = Drop(str, j)
  <2>1. str \in Strings
    BY <1>4
  <2>2. FirstToken(t, str, seps, max)
    BY <1>5, <2>1, TokenAt
  <2> QED
    BY <2>2 DEF FirstToken
<1> QED
  BY <1>8, <1>9, <1>10

(* Counting the words. *)
LEMMA StartsFinite ==
  ASSUME options \in Strings
  PROVE  /\ IsFiniteSet(Starts) /\ Cardinality(Starts) \in Nat
         /\ \A i : Number(i) \in Nat /\ IsFiniteSet({k \in Starts : k <= i})
<1>1. Len(options) \in Nat
  BY LenProperties DEF Strings
<1>2. IsFiniteSet(1 .. Len(options))
  BY <1>1, FS_Interval
<1>3. Starts \subseteq 1 .. Len(options)
  BY DEF Starts
<1>4. IsFiniteSet(Starts) /\ Cardinality(Starts) \in Nat
  BY <1>2, <1>3, FS_Subset, FS_CardinalityType
<1>5. ASSUME NEW i
      PROVE  Number(i) \in Nat /\ IsFiniteSet({k \in Starts : k <= i})
  <2>1. {k \in Starts : k <= i} \subseteq Starts
    OBVIOUS
  <2>2. PICK S : S = {k \in Starts : k <= i}
    OBVIOUS
  <2>3. IsFiniteSet(S)
    BY <1>4, <2>1, <2>2, FS_Subset
  <2>4. Cardinality(S) \in Nat
    BY <2>3, FS_CardinalityType
  <2> QED
    BY <2>2, <2>3, <2>4 DEF Number
<1> QED
  BY <1>4, <1>5

LEMMA StartsAreNumbers ==
  ASSUME options \in Strings, NEW i \in Starts
  PROVE  i \in Nat /\ i \in 1 .. Len(options)
<1>1. Len(options) \in Nat
  BY LenProperties DEF Strings
<1> QED
  BY <1>1 DEF Starts

(* The first word is number one. *)
LEMMA FirstNumber ==
  ASSUME options \in Strings, NEW i \in Starts, \A k \in Starts : i <= k
  PROVE  Number(i) = 1
<1>1. \A k \in Starts : k <= i => k = i
  BY StartsAreNumbers
<1>2. i <= i
  BY StartsAreNumbers
<1>3. {k \in Starts : k <= i} = {i}
  BY <1>1, <1>2
<1>4. Cardinality({i}) = 1
  BY FS_Singleton
<1> QED
  BY <1>3, <1>4 DEF Number

(* The words are numbered one after the other. *)
LEMMA NextNumber ==
  ASSUME options \in Strings, NEW i \in Starts, NEW j \in Starts, i < j,
         \A k \in Starts : k <= i \/ j <= k
  PROVE  Number(j) = Number(i) + 1
<1>1. PICK S : S = {k \in Starts : k <= i}
  OBVIOUS
<1>2. j \notin S /\ i \in Nat /\ j \in Nat
  BY <1>1, StartsAreNumbers
<1>3. {k \in Starts : k <= j} = S \cup {j}
  <2>1. \A k \in Starts : k <= j <=> k <= i \/ k = j
    BY <1>2, StartsAreNumbers
  <2> QED
    BY <1>1, <2>1
<1>4. IsFiniteSet(S)
  BY <1>1, StartsFinite
<1>5. Cardinality(S \cup {j}) = Cardinality(S) + 1
  BY <1>2, <1>4, FS_AddElement
<1> QED
  BY <1>1, <1>3, <1>5 DEF Number

(* The number of the last word is how many there are. *)
LEMMA LastNumber ==
  ASSUME NEW i \in Starts, \A k \in Starts : k <= i
  PROVE  Number(i) = Cardinality(Starts)
<1>1. {k \in Starts : k <= i} = Starts
  OBVIOUS
<1> QED
  BY <1>1 DEF Number

-----------------------------------------------------------------------------
(***************************************************************************)
(* The invariant is inductive.                                             *)
(***************************************************************************)
LEMMA InitInv == FilterInit => IInv
<1> SUFFICES ASSUME FilterInit PROVE IInv
  OBVIOUS
<1> USE DEF FilterInit
<1>1. Empty \in Strings /\ Len(Empty) = 0
  BY EmptySeq DEF Empty, Strings
<1>2. options \in Strings
  BY FilterAssumption DEF Strings
<1>3. Len(options) \in Nat
  BY <1>2, LenProperties DEF Strings
<1>4. TypeInv
  BY <1>1, <1>2 DEF TypeInv
<1>5. ScanInv
  <2>1. 0 < MAX_TOKEN_LENGTH /\ 0 < MAX_METHOD_NAME_LENGTH
    BY FilterAssumption
  <2>2. ~ Holds(Empty, Separators)
    BY <1>1 DEF Holds
  <2> QED
    BY <1>1, <1>3, <2>1, <2>2 DEF ScanInv
<1>6. AskedInv
  BY DEF AskedInv
<1> QED
  BY <1>4, <1>5, <1>6 DEF IInv

(* An option is taken, after a blank or without. *)
LEMMA TakeOptionInv ==
  ASSUME IInv, NEW seps, Separators \subseteq seps, pc \in {"first", "next"},
         TakeOption(seps), options' = options
  PROVE  IInv'
<1> USE DEF IInv
<1> DEFINE t == get_token(next, seps, MAX_TOKEN_LENGTH)
<1>1. /\ pc' \in {"option", "running"} /\ next' = t.rest /\ token' = t.token
      /\ UNCHANGED <<options, m_include, cname, instrumented, mname, reported>>
  BY DEF TakeOption, events
<1>2. /\ t.token \in Strings /\ t.rest \in Strings
      /\ Len(t.token) < MAX_TOKEN_LENGTH /\ Len(t.rest) <= Len(next)
      /\ ~ Holds(t.token, seps)
  <2>1. next \in Strings
    BY DEF TypeInv
  <2>2. MAX_TOKEN_LENGTH \in Nat \ {0}
    BY FilterAssumption
  <2> QED
    BY <2>1, <2>2, TokenFits
<1> HIDE DEF t
<1>3. TypeInv'
  BY <1>1, <1>2 DEF TypeInv
<1>4. ScanInv'
  <2>1. Len(next') <= Len(options')
    <3>1. next \in Strings /\ options \in Strings
      BY DEF TypeInv
    <3>2. Len(next) \in Nat /\ Len(options) \in Nat /\ Len(t.rest) \in Nat
      BY <1>2, <3>1, LenProperties DEF Strings
    <3> QED
      BY <1>1, <1>2, <3>2 DEF ScanInv
  <2>2. ~ Holds(token', Separators)
    BY <1>1, <1>2 DEF Holds
  <2> QED
    BY <1>1, <1>2, <2>1, <2>2 DEF ScanInv
<1>5. AskedInv'
  <2>1. cname = Empty
    BY DEF AskedInv, Parsed
  <2> QED
    BY <1>1, <2>1 DEF AskedInv
<1> QED
  BY <1>3, <1>4, <1>5

(* The other steps of parse_options(). *)
LEMMA ParseInv ==
  ASSUME IInv, ParseOptions
  PROVE  IInv'
<1> USE DEF IInv
<1>1. options' = options
  BY DEF ParseOptions
<1>2. CASE FirstOption
  <2>1. Separators \subseteq {Blank} \cup Separators
    BY Zenon
  <2> QED
    BY <1>1, <1>2, <2>1, TakeOptionInv, Zenon DEF FirstOption
<1>3. CASE NextOption
  BY <1>1, <1>3, TakeOptionInv DEF NextOption
<1>4. CASE HelpOption \/ UnknownOption
  <2>1. /\ pc = "option" /\ pc' \in {"exited", "fatal"}
        /\ UNCHANGED <<options, next, token, m_include, cname, instrumented, mname, reported>>
    BY <1>1, <1>4 DEF HelpOption, UnknownOption, events
  <2>2. TypeInv'
    BY <2>1 DEF TypeInv
  <2>3. ScanInv'
    BY <2>1 DEF ScanInv
  <2>4. AskedInv'
    BY <2>1 DEF AskedInv, Parsed
  <2> QED
    BY <2>2, <2>3, <2>4
<1>5. CASE IncludeOption
  <2> DEFINE t == get_token(next, Separators, MAX_METHOD_NAME_LENGTH)
  <2>1. /\ pc = "option" /\ pc' \in {"next", "fatal"} /\ m_include' = t.token /\ next' = t.rest
        /\ UNCHANGED <<options, token, cname, instrumented, mname, reported>>
    BY <1>1, <1>5 DEF IncludeOption, events
  <2>2. /\ t.token \in Strings /\ t.rest \in Strings
        /\ Len(t.token) < MAX_METHOD_NAME_LENGTH /\ Len(t.rest) <= Len(next)
        /\ ~ Holds(t.token, Separators)
    <3>1. next \in Strings
      BY DEF TypeInv
    <3>2. MAX_METHOD_NAME_LENGTH \in Nat \ {0}
      BY FilterAssumption
    <3> QED
      BY <3>1, <3>2, TokenFits
  <2> HIDE DEF t
  <2>3. TypeInv'
    BY <2>1, <2>2 DEF TypeInv
  <2>4. ScanInv'
    <3>1. next \in Strings /\ options \in Strings
      BY DEF TypeInv
    <3>2. Len(next) \in Nat /\ Len(options) \in Nat /\ Len(t.rest) \in Nat
      BY <2>2, <3>1, LenProperties DEF Strings
    <3>3. Len(next') <= Len(options')
      BY <2>1, <2>2, <3>2 DEF ScanInv
    <3> QED
      BY <2>1, <2>2, <3>3 DEF ScanInv
  <2>5. AskedInv'
    <3>1. cname = Empty
      BY <2>1 DEF AskedInv, Parsed
    <3> QED
      BY <2>1, <3>1 DEF AskedInv
  <2> QED
    BY <2>3, <2>4, <2>5
<1> QED
  BY <1>2, <1>3, <1>4, <1>5 DEF ParseOptions

LEMMA InterestedIsBoolean ==
  ASSUME NEW class, NEW method
  PROVE  interested(class, method) \in BOOLEAN
BY DEF interested

(* The hook and the native ask the same item. *)
LEMMA LoadInv ==
  ASSUME IInv, NEW c \in ClassNames, LoadClass(c), options' = options
  PROVE  IInv'
<1> USE DEF IInv
<1>1. /\ pc = "running" /\ pc' = "loaded" /\ cname' = c /\ instrumented' = interested(c, Empty)
      /\ UNCHANGED <<options, next, token, m_include, mname, reported>>
  BY DEF LoadClass
<1>2. TypeInv'
  <2>1. instrumented' \in BOOLEAN
    BY <1>1, InterestedIsBoolean
  <2> QED
    BY <1>1, <2>1 DEF TypeInv
<1>3. ScanInv'
  BY <1>1 DEF ScanInv
<1>4. AskedInv'
  <2>1. interested(cname, Empty)' = interested(c, Empty)
    BY <1>1 DEF interested
  <2>2. instrumented' = interested(cname, Empty)'
    BY <1>1, <2>1, Zenon
  <2> QED
    BY <1>1, <2>2 DEF AskedInv, Parsed
<1> QED
  BY <1>2, <1>3, <1>4

LEMMA CallInv ==
  ASSUME IInv, NEW m \in MethodNames, CallMethod(m), options' = options
  PROVE  IInv'
<1> USE DEF IInv
<1>1. /\ pc = "loaded" /\ pc' = "called" /\ mname' = m
      /\ reported' = (instrumented /\ interested(cname, m))
      /\ UNCHANGED <<options, next, token, m_include, cname, instrumented>>
  BY DEF CallMethod
<1>2. TypeInv'
  <2>1. reported' \in BOOLEAN
    BY <1>1
  <2> QED
    BY <1>1, <2>1 DEF TypeInv
<1>3. ScanInv'
  BY <1>1 DEF ScanInv
<1>4. AskedInv'
  <2>1. interested(cname, Empty)' = interested(cname, Empty)
    BY <1>1 DEF interested
  <2>2. interested(cname, mname)' = interested(cname, m)
    BY <1>1 DEF interested
  <2>3. cname \in ClassNames /\ instrumented = interested(cname, Empty)
    BY <1>1 DEF AskedInv
  <2>4. instrumented' = interested(cname, Empty)'
    BY <1>1, <2>1, <2>3, Zenon
  <2>5. reported' = (instrumented' /\ interested(cname, mname)')
    BY <1>1, <2>2, Zenon
  <2> QED
    BY <1>1, <2>3, <2>4, <2>5 DEF AskedInv, Parsed
<1> QED
  BY <1>2, <1>3, <1>4

-----------------------------------------------------------------------------
(***************************************************************************)
(* The options are honoured: how far they are read, and what with.         *)
(***************************************************************************)
\* The options are read as far as the word at i.
ReadUpTo(i) ==
  \E q \in i .. Len(options) :
    /\ next = Drop(options, q) /\ IsSep(q + 1)
    /\ \A k \in Starts : k <= q => k <= i

IncludesBefore(i) == \A k \in Starts : k < i /\ IsOption(k) => Word(k) = Include

Readable == Fit /\ Blank \notin ToSet(options)

\* Where parse_options() is: at an option, or behind its item, with nothing but
\* includes before.
ReadInv ==
  Readable =>
    /\ pc = "first" => next = options /\ m_include = Empty
    /\ pc = "option" => \E i \in Starts :
         IsOption(i) /\ ReadUpTo(i) /\ IncludesBefore(i) /\ token = Word(i)
    /\ pc = "next" => \E i \in Starts :
         ~IsOption(i) /\ ReadUpTo(i) /\ IncludesBefore(i) /\ m_include = Word(i)

\* The agent runs with the item of the last include, if the words are includes with an
\* item each, and does not run if they are not.
LastHonoured ==
  Fit /\ Blank \notin ToSet(options) =>
    /\ Parsed => /\ WellFormed
                 /\ Starts = {} => m_include = Empty
                 /\ \A i \in Starts : (\A k \in Starts : k <= i) => m_include = Word(i)
    /\ pc = "fatal" => ~WellFormed

(* The words are those of the agent's argument, which parse_options() leaves alone. *)
LEMMA SameWords ==
  ASSUME options' = options
  PROVE  /\ Starts' = Starts /\ (Readable' <=> Readable) /\ (WellFormed' <=> WellFormed)
         /\ \A i : /\ Word(i)' = Word(i) /\ (IsOption(i)' <=> IsOption(i))
                   /\ (IsSep(i)' <=> IsSep(i)) /\ (IncludesBefore(i)' <=> IncludesBefore(i))
<1>1. \A i : IsSep(i)' <=> IsSep(i)
  BY DEF IsSep
<1>2. Starts' = Starts
  BY <1>1 DEF Starts
<1>3. \A i : Word(i)' = Word(i)
  BY <1>1 DEF Word
<1>4. \A i : Number(i)' = Number(i)
  BY <1>2 DEF Number
<1>5. \A i : IsOption(i)' <=> IsOption(i)
  BY <1>4 DEF IsOption
<1>6. \A i : IncludesBefore(i)' <=> IncludesBefore(i)
  BY <1>2, <1>3, <1>5 DEF IncludesBefore
<1>7. WellFormed' <=> WellFormed
  BY <1>2, <1>3, <1>5 DEF WellFormed
<1>8. Fit' <=> Fit
  BY <1>2, <1>3, <1>5 DEF Fit
<1> QED
  BY <1>1, <1>2, <1>3, <1>5, <1>6, <1>7, <1>8 DEF Readable

(* Options and items take turns. *)
LEMMA TakeTurns ==
  ASSUME options \in Strings, NEW i \in Starts, NEW j \in Starts, NEW q \in Int,
         i <= q, q < j, \A k \in Starts : k <= q => k <= i, \A k \in Starts : k <= q \/ j <= k
  PROVE  /\ IsOption(j) <=> ~IsOption(i)
         /\ \A k \in Starts : k < j => k < i \/ k = i
<1>1. i \in Nat /\ j \in Nat /\ \A k \in Starts : k \in Nat
  BY StartsAreNumbers
<1>2. i < j
  BY <1>1
<1>3. \A k \in Starts : k <= i \/ j <= k
  OBVIOUS
<1>4. Number(j) = Number(i) + 1
  BY <1>2, <1>3, NextNumber
<1>5. Number(i) \in Nat
  BY StartsFinite
<1>6. \A n \in Nat : (n + 1) % 2 = 1 <=> ~ (n % 2 = 1)
  OBVIOUS
<1>7. IsOption(j) <=> ~IsOption(i)
  BY <1>4, <1>5, <1>6 DEF IsOption
<1> QED
  BY <1>1, <1>3, <1>7

(* Behind the last word. *)
LEMMA LastWord ==
  ASSUME options \in Strings, NEW i \in Starts, \A k \in Starts : k <= i
  PROVE  /\ Cardinality(Starts) % 2 = 0 <=> ~IsOption(i)
         /\ \A k \in Starts : k < i \/ k = i
         /\ \A j \in Starts : (\A k \in Starts : k <= j) => j = i
<1>1. i \in Nat /\ \A k \in Starts : k \in Nat
  BY StartsAreNumbers
<1>2. Number(i) = Cardinality(Starts) /\ Number(i) \in Nat
  BY LastNumber, StartsFinite
<1>3. \A n \in Nat : n % 2 = 0 <=> ~ (n % 2 = 1)
  OBVIOUS
<1>4. Cardinality(Starts) % 2 = 0 <=> ~IsOption(i)
  BY <1>2, <1>3 DEF IsOption
<1> QED
  BY <1>1, <1>4

(* A word that is read fits the buffer it is copied to. *)
LEMMA WordFits ==
  ASSUME Fit, NEW i \in Starts
  PROVE  /\ IsOption(i) => Len(Word(i)) < MAX_TOKEN_LENGTH
         /\ ~IsOption(i) => Len(Word(i)) < MAX_METHOD_NAME_LENGTH
BY DEF Fit

(* Nothing but a separator ends a word. *)
LEMMA NoBlank ==
  ASSUME options \in Strings, Blank \notin ToSet(options),
         NEW k \in 1 .. Len(options), options[k] \in {Blank} \cup Separators
  PROVE  options[k] \in Separators
<1>1. DOMAIN options = 1 .. Len(options)
  BY LenProperties DEF Strings
<1>2. options[k] \in ToSet(options)
  BY <1>1 DEF ToSet
<1> QED
  BY <1>2

(* How far the options are read after a token is taken. *)
LEMMA ReadOn ==
  ASSUME options' = options, NEW i \in Starts,
         \E q \in i .. Len(options) :
           /\ next' = Drop(options, q) /\ IsSep(q + 1)
           /\ \A k \in Starts : k <= q => k <= i
  PROVE  ReadUpTo(i)'
BY SameWords DEF ReadUpTo

(* The first option, or the one behind an item. *)
LEMMA TakeOptionHonours ==
  ASSUME IInv, ReadInv, LastHonoured, options' = options, NEW seps,
         \/ pc = "first" /\ seps = {Blank} \cup Separators
         \/ pc = "next" /\ seps = Separators,
         TakeOption(seps)
  PROVE  ReadInv' /\ LastHonoured'
<1> SUFFICES ASSUME Readable PROVE ReadInv' /\ LastHonoured'
  BY SameWords DEF ReadInv, LastHonoured, Readable
<1>1. /\ options \in Strings /\ Len(options) \in Nat
      /\ Separators \subseteq seps
      /\ \A k \in 1 .. Len(options) : options[k] \in seps => options[k] \in Separators
  <2>1. options \in Strings
    BY DEF IInv, TypeInv
  <2>2. Separators \subseteq seps
    BY Zenon
  <2> QED
    BY <2>1, <2>2, NoBlank, LenProperties DEF Readable, Strings
<1>2. MAX_TOKEN_LENGTH \in Nat \ {0}
  BY FilterAssumption
<1>3. PICK t : t = get_token(next, seps, MAX_TOKEN_LENGTH)
  OBVIOUS
<1>4. /\ pc' = (IF t.found THEN "option" ELSE "running") /\ next' = t.rest /\ token' = t.token
      /\ m_include' = m_include
  BY <1>3 DEF TakeOption
<1>5. ASSUME t.found = FALSE, WellFormed, Starts = {} => m_include = Empty,
             \A i \in Starts : (\A k \in Starts : k <= i) => m_include = Word(i)
      PROVE  ReadInv' /\ LastHonoured'
  <2>1. pc' = "running"
    BY <1>4, <1>5
  <2>2. ReadInv'
    BY <2>1 DEF ReadInv
  <2>3. LastHonoured'
    BY <1>4, <1>5, <2>1, SameWords DEF LastHonoured
  <2> QED
    BY <2>2, <2>3
<1>6. ASSUME NEW i \in Starts, IsOption(i), IncludesBefore(i),
             Len(Word(i)) < MAX_TOKEN_LENGTH =>
               /\ t.found = TRUE /\ t.token = Word(i)
               /\ \E q \in i .. Len(options) :
                    /\ t.rest = Drop(options, q) /\ IsSep(q + 1)
                    /\ \A k \in Starts : k <= q => k <= i
      PROVE  ReadInv' /\ LastHonoured'
  <2>1. Len(Word(i)) < MAX_TOKEN_LENGTH
    BY <1>6, WordFits DEF Readable
  <2>2. pc' = "option" /\ token' = Word(i)
    BY <1>4, <1>6, <2>1
  <2>3. ReadUpTo(i)'
    BY <1>4, <1>6, <2>1, ReadOn
  <2>4. i \in Starts' /\ IsOption(i)' /\ IncludesBefore(i)' /\ token' = Word(i)'
    BY <1>6, <2>2, SameWords
  <2>5. ReadInv'
    BY <2>2, <2>3, <2>4 DEF ReadInv
  <2>6. LastHonoured'
    BY <2>2 DEF LastHonoured, Parsed
  <2> QED
    BY <2>5, <2>6
<1>7. CASE pc = "first"
  <2>1. next = Drop(options, 0) /\ m_include = Empty
    BY <1>1, <1>7, DropNone DEF ReadInv
  <2>2. 0 \in 0 .. Len(options)
    BY <1>1
  <2>3. NextToken(t, 0, MAX_TOKEN_LENGTH)
    BY <1>1, <1>2, <1>3, <2>1, <2>2, NextWord
  <2>4. CASE (\A k \in Starts : k <= 0) /\ t.found = FALSE
    <3>1. Starts = {}
      BY <2>4 DEF Starts
    <3>2. Cardinality({}) = 0 /\ 0 % 2 = 0
      BY FS_EmptySet
    <3>3. WellFormed
      BY <3>1, <3>2 DEF WellFormed
    <3> QED
      BY <1>5, <2>1, <2>4, <3>1, <3>3
  <2>5. ASSUME NEW i \in Starts,
               /\ 0 < i /\ \A k \in Starts : k <= 0 \/ i <= k
               /\ Len(Word(i)) < MAX_TOKEN_LENGTH =>
                    /\ t.found = TRUE /\ t.token = Word(i)
                    /\ \E q \in i .. Len(options) :
                         /\ t.rest = Drop(options, q) /\ IsSep(q + 1)
                         /\ \A k \in Starts : k <= q => k <= i
        PROVE  ReadInv' /\ LastHonoured'
    <3>1. \A k \in Starts : k \in 1 .. Len(options)
      BY <1>1, StartsAreNumbers
    <3>2. \A k \in Starts : i <= k /\ ~ (k < i)
      BY <1>1, <2>5, <3>1
    <3>3. Number(i) = 1
      BY <1>1, <3>2, FirstNumber
    <3>4. IsOption(i)
      BY <3>3 DEF IsOption
    <3>5. IncludesBefore(i)
      BY <3>2 DEF IncludesBefore
    <3> QED
      BY <1>6, <2>5, <3>4, <3>5
  <2> QED
    BY <2>3, <2>4, <2>5 DEF NextToken
<1>8. CASE pc = "next"
  <2>1. PICK h \in Starts :
          ~IsOption(h) /\ ReadUpTo(h) /\ IncludesBefore(h) /\ m_include = Word(h)
    BY <1>8 DEF ReadInv
  <2>2. PICK p \in h .. Len(options) :
          /\ next = Drop(options, p) /\ IsSep(p + 1)
          /\ \A k \in Starts : k <= p => k <= h
    BY <2>1 DEF ReadUpTo
  <2>3. h \in Nat /\ p \in 0 .. Len(options) /\ h <= p /\ p \in Int
    BY <1>1, <2>2, StartsAreNumbers
  <2>4. NextToken(t, p, MAX_TOKEN_LENGTH)
    BY <1>1, <1>2, <1>3, <2>2, <2>3, NextWord
  <2>5. CASE (\A k \in Starts : k <= p) /\ t.found = FALSE
    <3>1. \A k \in Starts : k <= h
      BY <2>2, <2>5
    <3>2. /\ Cardinality(Starts) % 2 = 0
          /\ \A k \in Starts : k < h \/ k = h
          /\ \A j \in Starts : (\A k \in Starts : k <= j) => j = h
      BY <1>1, <2>1, <3>1, LastWord
    <3>3. WellFormed
      BY <2>1, <3>2 DEF WellFormed, IncludesBefore
    <3> QED
      BY <1>5, <2>1, <2>5, <3>2, <3>3
  <2>6. ASSUME NEW i \in Starts,
               /\ p < i /\ \A k \in Starts : k <= p \/ i <= k
               /\ Len(Word(i)) < MAX_TOKEN_LENGTH =>
                    /\ t.found = TRUE /\ t.token = Word(i)
                    /\ \E q \in i .. Len(options) :
                         /\ t.rest = Drop(options, q) /\ IsSep(q + 1)
                         /\ \A k \in Starts : k <= q => k <= i
        PROVE  ReadInv' /\ LastHonoured'
    <3>1. /\ IsOption(i) <=> ~IsOption(h)
          /\ \A k \in Starts : k < i => k < h \/ k = h
      BY <1>1, <2>2, <2>3, <2>6, TakeTurns
    <3>2. IncludesBefore(i)
      BY <2>1, <3>1 DEF IncludesBefore
    <3> QED
      BY <1>6, <2>1, <2>6, <3>1, <3>2
  <2> QED
    BY <2>4, <2>5, <2>6 DEF NextToken
<1> QED
  BY <1>7, <1>8

(* The item of an include. *)
LEMMA IncludeHonours ==
  ASSUME IInv, ReadInv, LastHonoured, options' = options, IncludeOption
  PROVE  ReadInv' /\ LastHonoured'
<1> SUFFICES ASSUME Readable PROVE ReadInv' /\ LastHonoured'
  BY SameWords DEF ReadInv, LastHonoured, Readable
<1>1. options \in Strings /\ Len(options) \in Nat
  BY LenProperties DEF IInv, TypeInv, Strings
<1>2. MAX_METHOD_NAME_LENGTH \in Nat \ {0}
  BY FilterAssumption
<1>3. PICK t : t = get_token(next, Separators, MAX_METHOD_NAME_LENGTH)
  OBVIOUS
<1>4. /\ pc = "option" /\ token = Include
      /\ pc' = (IF t.found THEN "next" ELSE "fatal") /\ m_include' = t.token /\ next' = t.rest
  BY <1>3 DEF IncludeOption
<1>5. PICK h \in Starts :
        IsOption(h) /\ ReadUpTo(h) /\ IncludesBefore(h) /\ token = Word(h)
  BY <1>4 DEF ReadInv
<1>6. PICK p \in h .. Len(options) :
        /\ next = Drop(options, p) /\ IsSep(p + 1)
        /\ \A k \in Starts : k <= p => k <= h
  BY <1>5 DEF ReadUpTo
<1>7. h \in Nat /\ p \in 0 .. Len(options) /\ h <= p /\ p \in Int
  BY <1>1, <1>6, StartsAreNumbers
<1>8. NextToken(t, p, MAX_METHOD_NAME_LENGTH)
  <2>1. \A k \in 1 .. Len(options) : options[k] \in Separators => options[k] \in Separators
    OBVIOUS
  <2>2. Separators \subseteq Separators
    OBVIOUS
  <2> QED
    BY <1>1, <1>2, <1>3, <1>6, <1>7, <2>1, <2>2, NextWord
<1>9. CASE (\A k \in Starts : k <= p) /\ t.found = FALSE
  <2>1. \A k \in Starts : k <= h
    BY <1>6, <1>9
  <2>2. ~WellFormed
    BY <1>1, <1>5, <2>1, LastWord DEF WellFormed
  <2>3. pc' = "fatal"
    BY <1>4, <1>9
  <2>4. ReadInv'
    BY <2>3 DEF ReadInv
  <2>5. LastHonoured'
    BY <2>2, <2>3, SameWords DEF LastHonoured, Parsed
  <2> QED
    BY <2>4, <2>5
<1>10. ASSUME NEW i \in Starts,
              /\ p < i /\ \A k \in Starts : k <= p \/ i <= k
              /\ Len(Word(i)) < MAX_METHOD_NAME_LENGTH =>
                   /\ t.found = TRUE /\ t.token = Word(i)
                   /\ \E q \in i .. Len(options) :
                        /\ t.rest = Drop(options, q) /\ IsSep(q + 1)
                        /\ \A k \in Starts : k <= q => k <= i
       PROVE  ReadInv' /\ LastHonoured'
  <2>1. /\ IsOption(i) <=> ~IsOption(h)
        /\ \A k \in Starts : k < i => k < h \/ k = h
    BY <1>1, <1>6, <1>7, <1>10, TakeTurns
  <2>2. IncludesBefore(i)
    BY <1>4, <1>5, <2>1 DEF IncludesBefore
  <2>3. Len(Word(i)) < MAX_METHOD_NAME_LENGTH
    BY <1>5, <2>1, WordFits DEF Readable
  <2>4. pc' = "next" /\ m_include' = Word(i)
    BY <1>4, <1>10, <2>3
  <2>5. ReadUpTo(i)'
    BY <1>4, <1>10, <2>3, ReadOn
  <2>6. i \in Starts' /\ ~IsOption(i)' /\ IncludesBefore(i)' /\ m_include' = Word(i)'
    BY <1>5, <2>1, <2>2, <2>4, SameWords
  <2>7. ReadInv'
    BY <2>4, <2>5, <2>6 DEF ReadInv
  <2>8. LastHonoured'
    BY <2>4 DEF LastHonoured, Parsed
  <2> QED
    BY <2>7, <2>8
<1> QED
  BY <1>8, <1>9, <1>10 DEF NextToken

(* The steps that take no token. *)
LEMMA OtherStepsHonour ==
  ASSUME IInv, ReadInv, LastHonoured, options' = options, m_include' = m_include,
         \/ pc = "option" /\ pc' = "exited"
         \/ pc = "option" /\ token # Include /\ pc' = "fatal"
         \/ Parsed /\ pc' \in {"loaded", "called"}
  PROVE  ReadInv' /\ LastHonoured'
<1>1. ReadInv'
  BY DEF ReadInv
<1>2. CASE pc = "option" /\ pc' = "exited"
  BY <1>1, <1>2 DEF LastHonoured, Parsed
<1>3. CASE pc = "option" /\ token # Include /\ pc' = "fatal"
  <2>1. ASSUME Readable PROVE ~WellFormed
    <3>1. PICK h \in Starts : IsOption(h) /\ token = Word(h)
      BY <1>3, <2>1 DEF ReadInv
    <3> QED
      BY <1>3, <3>1 DEF WellFormed
  <2> QED
    BY <1>1, <1>3, <2>1, SameWords DEF LastHonoured, Parsed, Readable
<1>4. CASE Parsed /\ pc' \in {"loaded", "called"}
  <2>1. ASSUME Readable
        PROVE  /\ WellFormed /\ (Starts = {} => m_include = Empty)
               /\ \A i \in Starts : (\A k \in Starts : k <= i) => m_include = Word(i)
    BY <1>4, <2>1 DEF LastHonoured, Readable
  <2> QED
    BY <1>1, <1>4, <2>1, SameWords DEF LastHonoured, Parsed, Readable
<1> QED
  BY <1>2, <1>3, <1>4

-----------------------------------------------------------------------------
(***************************************************************************)
(* What an item names it covers.                                           *)
(***************************************************************************)
(* A token that fills the string and fits the buffer is found. *)
LEMMA WholeToken ==
  ASSUME NEW s \in Strings, NEW seps, NEW max \in Nat \ {0},
         s # Empty, ~ Holds(s, seps), Len(s) < max
  PROVE  get_token(s, seps, max).found = TRUE /\ get_token(s, seps, max).token = s
<1>1. Len(s) \in Nat
  BY LenProperties DEF Strings
<1>2. Len(s) # 0
  BY EmptySeq DEF Empty, Strings
<1>3. s[1] \notin seps
  <2>1. 1 \in 1 .. Len(s)
    BY <1>1, <1>2
  <2> QED
    BY <2>1 DEF Holds
<1>4. strspn(s, seps) = 0
  BY <1>3, Span
<1>5. Drop(s, strspn(s, seps)) = s
  BY <1>4, DropNone
<1>6. strcspn(s, seps) = Len(s)
  BY Complement
<1>7. SubSeq(s, 1, Len(s)) = s
  BY SubSeqFull DEF Strings
<1>8. ~ (Len(s) >= max)
  BY <1>1
<1>9. get_token(s, seps, max) = [found |-> TRUE, token |-> s, rest |-> Drop(s, Len(s))]
  BY <1>5, <1>6, <1>7, <1>8 DEF get_token
<1> QED
  BY <1>9

(* The item of the agent is the only token of its list. *)
LEMMA OneItem ==
  ASSUME NEW item \in Strings, item # Empty, ~ Holds(item, Separators),
         Len(item) < MAX_METHOD_NAME_LENGTH,
         NEW class, NEW method, covered_by_list_item(item, class, method)
  PROVE  covered_by_list(item, class, method)
<1> DEFINE t(n) == get_token(Drop(item, n), {Comma}, MAX_METHOD_NAME_LENGTH)
           Places == {0} \cup {i \in 1 .. Len(item) : item[i] = Comma}
<1>1. ~ Holds(item, {Comma})
  BY DEF Holds, Separators
<1>2. MAX_METHOD_NAME_LENGTH \in Nat \ {0}
  BY FilterAssumption
<1>3. t(0).found = TRUE /\ t(0).token = item
  BY <1>1, <1>2, WholeToken, DropNone
<1>4. 0 \in Places
  OBVIOUS
<1>5. \E n \in Places : t(n).found /\ covered_by_list_item(t(n).token, class, method)
  <2> HIDE DEF t, Places
  <2> QED
    BY <1>3, <1>4
<1> QED
  BY <1>5 DEF covered_by_list

(* The ways an item may name a class and a method. *)
Names(item, class, method) ==
  \/ item = class
  \/ /\ Begins(class, item) /\ item[Len(item)] # Star
     /\ method \in {Empty, Drop(item, Len(class) + 1)}
  \/ /\ item[Len(item)] = Star /\ Len(item) > 1
     /\ Begins(Front(item), class)

(* A string has the same start as itself. *)
LEMMA SameAsItself ==
  ASSUME NEW s, NEW n
  PROVE  SameStart(s, s, n)
BY DEF SameStart

(* An item that names the class covers its methods, asked for with the empty name or *)
(* with the one it names. *)
LEMMA ItemCovers ==
  ASSUME NEW item \in Strings, item # Empty, NEW class \in ClassNames, NEW method \in Strings,
         Names(item, class, method)
  PROVE  covered_by_list_item(item, class, method)
<1>1. class \in Strings /\ class # Empty /\ class[1] # Star
  BY FilterAssumption, NamesAssumption DEF Strings
<1>2. Len(item) \in Nat \ {0} /\ Len(class) \in Nat \ {0} /\ Len(method) \in Nat
  <2>1. Len(item) \in Nat /\ Len(class) \in Nat /\ Len(method) \in Nat
    BY <1>1, LenProperties DEF Strings
  <2>2. Len(item) # 0 /\ Len(class) # 0
    BY <1>1, EmptySeq DEF Empty, Strings
  <2> QED
    BY <2>1, <2>2
<1> DEFINE len == Len(item)
           cname_len == Len(class)
           rest == Drop(item, cname_len + 1)
<1>3. CASE item = class
  <2>1. item[1] # Star /\ SameStart(class, item, len - 1)
        /\ SameStart(class, item, Lesser(len, cname_len)) /\ cname_len >= len
    BY <1>1, <1>2, <1>3, SameAsItself
  <2> QED
    BY <2>1 DEF covered_by_list_item
<1>4. CASE /\ Begins(class, item) /\ item[Len(item)] # Star
           /\ method \in {Empty, Drop(item, Len(class) + 1)}
  <2>1. PICK n \in 0 .. Len(item) : class = SubSeq(item, 1, n)
    BY <1>4 DEF Begins
  <2>2. Len(class) = n /\ \A k \in 1 .. n : class[k] = item[k]
    BY <2>1, Begun
  <2>3. item[1] # Star
    <3>1. 1 \in 1 .. n
      BY <1>2, <2>1, <2>2
    <3> QED
      BY <1>1, <2>2, <3>1
  <2>4. SameStart(class, item, Lesser(len, cname_len))
    <3>1. Lesser(len, cname_len) = n /\ Lesser(n, Len(class)) = n /\ Lesser(n, Len(item)) = n
      BY <1>2, <2>1, <2>2 DEF Lesser
    <3>2. SubSeq(class, 1, n) = class
      BY <1>1, <2>2, SubSeqFull DEF Strings
    <3> QED
      BY <2>1, <3>1, <3>2 DEF SameStart
  <2>5. cname_len >= len \/ SameStart(method, rest, Lesser(Len(rest), Len(method)))
    <3>1. CASE method = rest
      BY <3>1, SameAsItself
    <3>2. CASE method = Empty /\ ~ (cname_len >= len)
      <4>1. Len(Empty) = 0
        BY EmptySeq DEF Empty
      <4>2. cname_len + 1 <= Len(item) /\ cname_len + 1 \in Nat
        BY <1>2, <3>2
      <4>3. rest \in Strings /\ Len(rest) \in Nat
        <5>1. rest \in Strings
          BY <4>2, Dropped
        <5> QED
          BY <5>1, LenProperties DEF Strings
      <4>4. Lesser(Len(rest), Len(method)) = 0
        <5> HIDE DEF rest
        <5> QED
          BY <3>2, <4>1, <4>3 DEF Lesser
      <4>5. Lesser(0, Len(method)) = 0 /\ Lesser(0, Len(rest)) = 0
        <5> HIDE DEF rest
        <5> QED
          BY <3>2, <4>1, <4>3 DEF Lesser
      <4>6. \A s \in Strings : SubSeq(s, 1, 0) = Empty
        <5> SUFFICES ASSUME NEW s \in Strings PROVE SubSeq(s, 1, 0) = Empty
          OBVIOUS
        <5>1. Len(s) \in Nat
          BY LenProperties DEF Strings
        <5>2. SubSeq(s, 1, 0) \in Strings /\ Len(SubSeq(s, 1, 0)) = 0
          BY <5>1, Begun
        <5> DEFINE z == SubSeq(s, 1, 0)
        <5>3. z \in Seq(STRING) /\ Len(z) = 0
          BY <5>2 DEF Strings
        <5> HIDE DEF z
        <5>4. z = <<>>
          BY <5>3, EmptySeq
        <5> QED
          BY <5>4 DEF z, Empty
      <4> HIDE DEF rest
      <4> QED
        BY <4>3, <4>4, <4>5, <4>6 DEF SameStart
    <3> QED
      BY <1>4, <3>1, <3>2
  <2> QED
    BY <1>4, <2>3, <2>4, <2>5 DEF covered_by_list_item
<1>5. CASE /\ item[Len(item)] = Star /\ Len(item) > 1
           /\ Begins(Front(item), class)
  <2>1. PICK n \in 0 .. Len(class) : SubSeq(item, 1, len - 1) = SubSeq(class, 1, n)
    BY <1>5 DEF Begins, Front
  <2>2. len - 1 \in 1 .. Len(item)
    BY <1>2, <1>5
  <2>3. /\ Len(SubSeq(item, 1, len - 1)) = len - 1
        /\ \A k \in 1 .. len - 1 : SubSeq(item, 1, len - 1)[k] = item[k]
    BY <2>2, Begun
  <2>4. /\ Len(SubSeq(class, 1, n)) = n
        /\ \A k \in 1 .. n : SubSeq(class, 1, n)[k] = class[k]
    BY <1>1, Begun
  <2>5. n = len - 1
    BY <2>1, <2>3, <2>4
  <2>6. item[1] # Star
    <3>1. 1 \in 1 .. n
      BY <2>2, <2>5
    <3>2. item[1] = class[1]
      BY <2>1, <2>3, <2>4, <2>5, <3>1
    <3> QED
      BY <1>1, <3>2
  <2>7. SameStart(class, item, len - 1)
    <3>1. Lesser(len - 1, Len(class)) = n /\ Lesser(len - 1, Len(item)) = n
      BY <1>2, <2>1, <2>5 DEF Lesser
    <3> QED
      BY <2>1, <2>5, <3>1 DEF SameStart
  <2> QED
    BY <1>5, <2>6, <2>7 DEF covered_by_list_item
<1> QED
  BY <1>3, <1>4, <1>5 DEF Names

-----------------------------------------------------------------------------
(***************************************************************************)
(* The theorems.                                                           *)
(***************************************************************************)
\* The invariant holds for every option string and every class and method.
THEOREM FilterInvariance == FilterSpec => []IInv
<1>1. IInv /\ [FilterNext]_filterVars => IInv'
  <2> SUFFICES ASSUME IInv, [FilterNext]_filterVars PROVE IInv'
    OBVIOUS
  <2>1. CASE ParseOptions
    BY <2>1, ParseInv
  <2>2. ASSUME NEW c \in ClassNames, LoadClass(c), options' = options
        PROVE  IInv'
    BY <2>2, LoadInv
  <2>3. ASSUME NEW m \in MethodNames, CallMethod(m), options' = options
        PROVE  IInv'
    BY <2>3, CallInv
  <2>4. CASE UNCHANGED filterVars
    <3>1. UNCHANGED <<pc, options, next, token, m_include, cname, instrumented, mname, reported>>
      BY <2>4 DEF filterVars
    <3>2. \A c, m : interested(c, m)' = interested(c, m)
      BY <3>1 DEF interested
    <3>3. TypeInv' /\ ScanInv'
      BY <3>1 DEF IInv, TypeInv, ScanInv
    <3>4. AskedInv'
      BY <3>1 DEF IInv, AskedInv, Parsed, interested
    <3> QED
      BY <3>3, <3>4 DEF IInv
  <2> QED
    BY <2>1, <2>2, <2>3, <2>4 DEF FilterNext
<1> QED
  BY <1>1, InitInv, PTL DEF FilterSpec

\* Type correctness: the tokens that get_token() copies fit the buffers of
\* parse_options(), with their NUL, and hold no separator, and no class is loaded before
\* the options are read.
THEOREM FilterTypeCorrect == FilterSpec => []FilterTypeOK
<1>1. ASSUME NEW s \in Strings, ~ Holds(s, Separators)
      PROVE  ToSet(s) \cap Separators = {}
  <2>1. DOMAIN s = 1 .. Len(s)
    BY LenProperties DEF Strings
  <2> QED
    BY <1>1, <2>1 DEF ToSet, Holds
<1>2. IInv => FilterTypeOK
  <2> SUFFICES ASSUME IInv PROVE FilterTypeOK
    OBVIOUS
  <2>1. ToSet(token) \cap Separators = {} /\ ToSet(m_include) \cap Separators = {}
    BY <1>1 DEF IInv, TypeInv, ScanInv
  <2> QED
    BY <2>1 DEF IInv, TypeInv, ScanInv, AskedInv, FilterTypeOK
<1> QED
  BY <1>2, FilterInvariance, PTL

\* The loop of parse_options() neither skips a word nor reads one twice: whatever the
\* string, if its words fit the buffers and it has no blanks, the agent refuses what is
\* not a list of includes with an item each, and otherwise runs with the item it read
\* last: of several items the others are dropped, although the comment there (line 96)
\* says that each is added to a list.
THEOREM LastItemRuns == FilterSpec => []LastHonoured
<1>1. FilterInit => ReadInv /\ LastHonoured
  BY DEF FilterInit, ReadInv, LastHonoured, Parsed
<1>2. IInv /\ ReadInv /\ LastHonoured /\ [FilterNext]_filterVars
        => (ReadInv /\ LastHonoured)'
  <2> SUFFICES ASSUME IInv, ReadInv, LastHonoured, [FilterNext]_filterVars
               PROVE  ReadInv' /\ LastHonoured'
    OBVIOUS
  <2>1. CASE ParseOptions
    <3>1. options' = options
      BY <2>1 DEF ParseOptions
    <3>2. CASE FirstOption
      BY <3>1, <3>2, TakeOptionHonours, Zenon DEF FirstOption
    <3>3. CASE NextOption
      BY <3>1, <3>3, TakeOptionHonours, Zenon DEF NextOption
    <3>4. CASE HelpOption \/ UnknownOption
      <4>1. /\ m_include' = m_include
            /\ \/ pc = "option" /\ pc' = "exited"
               \/ pc = "option" /\ token # Include /\ pc' = "fatal"
        BY <3>4 DEF HelpOption, UnknownOption
      <4> QED
        BY <3>1, <4>1, OtherStepsHonour
    <3>5. CASE IncludeOption
      BY <3>1, <3>5, IncludeHonours
    <3> QED
      BY <2>1, <3>2, <3>3, <3>4, <3>5 DEF ParseOptions
  <2>2. ASSUME options' = options,
               (\E c \in ClassNames : LoadClass(c)) \/ (\E m \in MethodNames : CallMethod(m))
        PROVE  ReadInv' /\ LastHonoured'
    <3>1. m_include' = m_include /\ Parsed /\ pc' \in {"loaded", "called"}
      BY <2>2 DEF LoadClass, CallMethod, Parsed
    <3> QED
      BY <2>2, <3>1, OtherStepsHonour
  <2>3. CASE UNCHANGED filterVars
    <3>1. UNCHANGED <<pc, options, next, token, m_include>>
      BY <2>3 DEF filterVars
    <3>2. \A i : ReadUpTo(i)' <=> ReadUpTo(i)
      BY <3>1, SameWords DEF ReadUpTo
    <3>3. ReadInv'
      BY <3>1, <3>2, SameWords DEF ReadInv
    <3>4. LastHonoured'
      BY <3>1, SameWords DEF LastHonoured, Parsed, Readable
    <3> QED
      BY <3>3, <3>4
  <2> QED
    BY <2>1, <2>2, <2>3 DEF FilterNext
<1> QED
  BY <1>1, <1>2, FilterInvariance, PTL DEF FilterSpec

(* Of two words the one that is no option is the last. *)
LEMMA SecondWord ==
  ASSUME options \in Strings, Cardinality(Starts) = 2, NEW i \in Starts, ~ IsOption(i),
         NEW k \in Starts
  PROVE  k <= i
<1> SUFFICES ASSUME ~ (k <= i) PROVE FALSE
  OBVIOUS
<1>1. PICK S : S = {j \in Starts : j <= i}
  OBVIOUS
<1>2. IsFiniteSet(Starts) /\ IsFiniteSet(S)
  BY <1>1, StartsFinite
<1>3. S \subseteq Starts /\ i \in S /\ k \notin S
  BY <1>1, StartsAreNumbers
<1>4. Cardinality(S) < Cardinality(Starts)
  <2>1. Cardinality(S) <= Cardinality(Starts) /\ (Cardinality(S) = Cardinality(Starts) => S = Starts)
    BY <1>2, <1>3, FS_Subset
  <2>2. Cardinality(S) \in Nat /\ Cardinality(Starts) \in Nat
    BY <1>2, FS_CardinalityType
  <2> QED
    BY <1>3, <2>1, <2>2
<1>5. Cardinality(S) \in Nat /\ Cardinality(S) # 0
  BY <1>2, <1>3, FS_CardinalityType, FS_EmptySet
<1>6. Number(i) = Cardinality(S)
  BY <1>1 DEF Number
<1>7. Number(i) = 1
  BY <1>4, <1>5, <1>6
<1> QED
  BY <1>7 DEF IsOption

\* The options are honoured: whatever the string, if its words fit the buffers and it has
\* no blanks, the agent runs exactly when they are includes with an item each, without an
\* item when there is no include and with the item of the only include when there is one.
THEOREM OptionsAreHonoured == FilterSpec => []OptionsHonoured
<1>1. IInv /\ LastHonoured => OptionsHonoured
  <2> SUFFICES ASSUME IInv, LastHonoured, Readable PROVE
        /\ Parsed => /\ WellFormed
                     /\ Starts = {} => m_include = Empty
                     /\ \A i \in Starts :
                          Cardinality(Starts) = 2 /\ ~ IsOption(i) => m_include = Word(i)
        /\ pc = "fatal" => ~ WellFormed
    BY DEF OptionsHonoured, Readable
  <2>1. options \in Strings
    BY DEF IInv, TypeInv
  <2>2. ASSUME Parsed, NEW i \in Starts, Cardinality(Starts) = 2, ~ IsOption(i)
        PROVE  m_include = Word(i)
    <3>1. \A k \in Starts : k <= i
      BY <2>1, <2>2, SecondWord
    <3> QED
      BY <2>2, <3>1 DEF LastHonoured, Readable
  <2> QED
    BY <2>2 DEF LastHonoured, Readable
<1> QED
  BY <1>1, FilterInvariance, LastItemRuns, PTL

\* The loop of parse_options() cannot go on for ever: a step of it ends the loop, or leaves
\* less of the string than there was.  (The part of ParseEnds that needs no fairness.)
ReadsOn == ParseOptions /\ pc' \in {"option", "next"} => Len(next') < Len(next)

THEOREM OptionsGetShorter == FilterSpec => [][ReadsOn]_filterVars
<1>1. IInv /\ [FilterNext]_filterVars => [ReadsOn]_filterVars
  <2> SUFFICES ASSUME IInv, ParseOptions, pc' \in {"option", "next"}
               PROVE  Len(next') < Len(next)
    BY DEF ReadsOn
  <2>1. next \in Strings /\ {MAX_TOKEN_LENGTH, MAX_METHOD_NAME_LENGTH} \subseteq Nat \ {0}
    BY FilterAssumption DEF IInv, TypeInv
  <2>2. ASSUME NEW seps, NEW max \in Nat \ {0}, get_token(next, seps, max).found,
               next' = get_token(next, seps, max).rest
        PROVE  Len(next') < Len(next)
    BY <2>1, <2>2, TokenFits
  <2>3. ASSUME NEW seps, TakeOption(seps)
        PROVE  Len(next') < Len(next)
    <3>1. /\ get_token(next, seps, MAX_TOKEN_LENGTH).found
          /\ next' = get_token(next, seps, MAX_TOKEN_LENGTH).rest
      BY <2>3 DEF TakeOption
    <3> QED
      BY <2>1, <2>2, <3>1
  <2>4. CASE FirstOption
    BY <2>3, <2>4, Zenon DEF FirstOption
  <2>5. CASE NextOption
    BY <2>3, <2>5, Zenon DEF NextOption
  <2>6. CASE IncludeOption
    <3>1. /\ get_token(next, Separators, MAX_METHOD_NAME_LENGTH).found
          /\ next' = get_token(next, Separators, MAX_METHOD_NAME_LENGTH).rest
      BY <2>6 DEF IncludeOption
    <3> QED
      BY <2>1, <2>2, <3>1
  <2>7. CASE HelpOption \/ UnknownOption
    BY <2>7 DEF HelpOption, UnknownOption
  <2> QED
    BY <2>4, <2>5, <2>6, <2>7 DEF ParseOptions
<1> QED
  BY <1>1, FilterInvariance, PTL DEF FilterSpec

\* What the item names is traced: the hook, which asks without a method name, has
\* instrumented every class of which the item names a method, and the native then
\* reports the method.
THEOREM NamedMethodsAreTraced == FilterSpec => []NamedIsTraced
<1>1. IInv => NamedIsTraced
  <2> SUFFICES ASSUME IInv, pc = "called", NamedByItem(cname, mname) PROVE reported
    BY DEF NamedIsTraced
  <2>1. /\ cname \in ClassNames /\ mname \in MethodNames
        /\ instrumented = interested(cname, Empty)
        /\ reported = (instrumented /\ interested(cname, mname))
    BY DEF IInv, AskedInv
  <2>2. m_include \in Strings /\ ~ Holds(m_include, Separators)
        /\ Len(m_include) < MAX_METHOD_NAME_LENGTH
    BY DEF IInv, TypeInv, ScanInv
  <2>3. Empty \in Strings /\ mname \in Strings
    BY <2>1, FilterAssumption, EmptySeq DEF Strings, Empty
  <2>4. ASSUME NEW method \in {Empty, mname}, m_include # Empty
        PROVE  covered_by_list(m_include, cname, method)
    <3>1. Names(m_include, cname, method)
      <4>1. Last(m_include) = m_include[Len(m_include)]
        BY DEF Last
      <4> QED
        BY <2>4, <4>1 DEF NamedByItem, Names
    <3>2. covered_by_list_item(m_include, cname, method)
      BY <2>1, <2>2, <2>3, <2>4, <3>1, ItemCovers
    <3> QED
      BY <2>2, <2>4, <3>2, OneItem
  <2>5. interested(cname, Empty) /\ interested(cname, mname)
    BY <2>4 DEF interested
  <2> QED
    BY <2>1, <2>5
<1> QED
  BY <1>1, FilterInvariance, PTL
=============================================================================
