---------------------------- MODULE NestingProofs ----------------------------
(***************************************************************************)
(* WellNested for any threads, classes and calls.  What a thread reported  *)
(* and did not report as left yet are frames of its stack, in the order of *)
(* the stack, and what lies between their entries has come back (Chain).   *)
(* This holds while the switch is on: an early thread, an exception and    *)
(* the end of the VM break it, but after the last of these nothing is sent.*)
(***************************************************************************)
EXTENDS JVMAgentProofs, FiniteSetTheorems

-----------------------------------------------------------------------------
(* Counting the messages of a thread.                                      *)
Those(msgs, t, what, j, k) == {i \in j .. k : msgs[i].thread = t /\ msgs[i].what = what}

LEMMA ReportsAre ==
  ASSUME NEW msgs, NEW t, NEW what, NEW j \in Nat, NEW k \in Nat
  PROVE  /\ IsFiniteSet(Those(msgs, t, what, j, k))
         /\ Reports(msgs, t, what, j, k) = Cardinality(Those(msgs, t, what, j, k))
         /\ Reports(msgs, t, what, j, k) \in Nat
         /\ k < j => Reports(msgs, t, what, j, k) = 0
<1>1. IsFiniteSet(j .. k)
  BY FS_Interval
<1>2. IsFiniteSet(Those(msgs, t, what, j, k))
  BY <1>1, FS_Subset DEF Those
<1>3. Reports(msgs, t, what, j, k) = Cardinality(Those(msgs, t, what, j, k))
  BY DEF Those, Reports
<1>4. k < j => Those(msgs, t, what, j, k) = {}
  BY DEF Those
<1> QED
  BY <1>2, <1>3, <1>4, FS_CardinalityType, FS_EmptySet

(* The count of a part, and of the rest.                                   *)
LEMMA ReportsSplit ==
  ASSUME NEW msgs, NEW t, NEW what, NEW j \in Nat, NEW m \in Nat, NEW k \in Nat,
         j <= m + 1, m <= k
  PROVE  Reports(msgs, t, what, j, k)
           = Reports(msgs, t, what, j, m) + Reports(msgs, t, what, m + 1, k)
<1> DEFINE S == Those(msgs, t, what, j, m)
           T == Those(msgs, t, what, m + 1, k)
           U == Those(msgs, t, what, j, k)
<1>1. U = S \cup T /\ S \cap T = {}
  BY DEF Those
<1>2. IsFiniteSet(S) /\ IsFiniteSet(T) /\ Cardinality(S) \in Nat /\ Cardinality(T) \in Nat
  BY ReportsAre, FS_CardinalityType
<1>3. /\ Reports(msgs, t, what, j, k) = Cardinality(U)
      /\ Reports(msgs, t, what, j, m) = Cardinality(S)
      /\ Reports(msgs, t, what, m + 1, k) = Cardinality(T)
  BY ReportsAre
<1> HIDE DEF S, T, U
<1>4. Cardinality(S \cup T) = Cardinality(S) + Cardinality(T) - Cardinality(S \cap T)
  BY <1>2, FS_Union
<1>5. Cardinality(S \cap T) = 0
  BY <1>1, FS_EmptySet
<1> QED
  BY <1>1, <1>2, <1>3, <1>4, <1>5

(* The count of one message.                                               *)
LEMMA ReportsOne ==
  ASSUME NEW msgs, NEW t, NEW what, NEW k \in Nat
  PROVE  Reports(msgs, t, what, k, k)
           = IF msgs[k].thread = t /\ msgs[k].what = what THEN 1 ELSE 0
<1>1. CASE msgs[k].thread = t /\ msgs[k].what = what
  <2>1. Those(msgs, t, what, k, k) = {k}
    BY <1>1 DEF Those
  <2>2. Cardinality({k}) = 1
    BY FS_Singleton
  <2> QED
    BY <1>1, <2>1, <2>2, ReportsAre
<1>2. CASE ~ (msgs[k].thread = t /\ msgs[k].what = what)
  <2>1. Those(msgs, t, what, k, k) = {}
    BY <1>2 DEF Those
  <2> QED
    BY <1>2, <2>1, ReportsAre, FS_EmptySet
<1> QED
  BY <1>1, <1>2

(* Two sequences that agree have the same reports.                         *)
LEMMA BalancedSame ==
  ASSUME NEW msgs, NEW msgs2, NEW t, NEW j \in Nat, NEW k \in Nat,
         \A i \in j .. k : msgs2[i] = msgs[i], Balanced(msgs, t, j, k)
  PROVE  Balanced(msgs2, t, j, k)
<1>1. ASSUME NEW i \in j .. k, NEW what
      PROVE  Reports(msgs2, t, what, j, i) = Reports(msgs, t, what, j, i)
  BY DEF Reports
<1>2. ASSUME NEW what
      PROVE  Reports(msgs2, t, what, j, k) = Reports(msgs, t, what, j, k)
  BY DEF Reports
<1> QED
  BY <1>1, <1>2 DEF Balanced

LEMMA BalancedNone ==
  ASSUME NEW msgs, NEW t, NEW j \in Nat, NEW k \in Nat, k < j
  PROVE  Balanced(msgs, t, j, k)
<1>1. \A what : Reports(msgs, t, what, j, k) = 0
  BY ReportsAre
<1>2. \A i \in j .. k : FALSE
  OBVIOUS
<1> QED
  BY <1>1, <1>2 DEF Balanced

LEMMA BalancedJoin ==
  ASSUME NEW msgs, NEW t, NEW j \in Nat, NEW m \in Nat, NEW k \in Nat,
         j <= m + 1, m <= k,
         Balanced(msgs, t, j, m), Balanced(msgs, t, m + 1, k)
  PROVE  Balanced(msgs, t, j, k)
<1> DEFINE R(what, a, b) == Reports(msgs, t, what, a, b)
<1>1. \A what : \A i \in Nat : R(what, j, i) \in Nat /\ R(what, m + 1, i) \in Nat
  BY ReportsAre
<1>2. \A what : \A i \in Nat : m <= i => R(what, j, i) = R(what, j, m) + R(what, m + 1, i)
  BY ReportsSplit
<1>3. /\ R("enter", j, m) = R("exit", j, m)
      /\ \A i \in j .. m : R("exit", j, i) <= R("enter", j, i)
      /\ R("enter", m + 1, k) = R("exit", m + 1, k)
      /\ \A i \in m + 1 .. k : R("exit", m + 1, i) <= R("enter", m + 1, i)
  BY DEF Balanced
<1> HIDE DEF R
<1>4. R("enter", j, k) = R("exit", j, k)
  BY <1>1, <1>2, <1>3
<1>5. ASSUME NEW i \in j .. k
      PROVE  R("exit", j, i) <= R("enter", j, i)
  <2>1. CASE i <= m
    BY <1>3, <2>1
  <2>2. CASE m < i
    <3>1. R("exit", m + 1, i) <= R("enter", m + 1, i)
      BY <1>3, <2>2
    <3>2. /\ R("exit", j, i) = R("exit", j, m) + R("exit", m + 1, i)
          /\ R("enter", j, i) = R("enter", j, m) + R("enter", m + 1, i)
      BY <1>2, <2>2
    <3>3. /\ R("exit", m + 1, i) \in Nat /\ R("enter", m + 1, i) \in Nat
          /\ R("exit", j, m) \in Nat /\ R("enter", j, m) \in Nat
      BY <1>1
    <3> QED
      BY <1>3, <3>1, <3>2, <3>3
  <2> QED
    BY <2>1, <2>2
<1> QED
  BY <1>4, <1>5 DEF R, Balanced

(* A message of another thread does not count.                             *)
LEMMA BalancedOther ==
  ASSUME NEW msgs, NEW t, NEW k \in Nat, msgs[k].thread # t
  PROVE  Balanced(msgs, t, k, k)
<1>1. Reports(msgs, t, "enter", k, k) = 0 /\ Reports(msgs, t, "exit", k, k) = 0
  BY ReportsOne
<1>2. \A i \in k .. k : i = k
  OBVIOUS
<1> QED
  BY <1>1, <1>2 DEF Balanced

(* A call: its entry, what it calls, its exit.                             *)
LEMMA BalancedCall ==
  ASSUME NEW msgs, NEW t, NEW j \in Nat, NEW k \in Nat, j < k,
         msgs[j].thread = t, msgs[j].what = "enter",
         msgs[k].thread = t, msgs[k].what = "exit",
         Balanced(msgs, t, j + 1, k - 1)
  PROVE  Balanced(msgs, t, j, k)
<1> DEFINE R(what, a, b) == Reports(msgs, t, what, a, b)
<1>1. \A what : \A a, b \in Nat : R(what, a, b) \in Nat
  BY ReportsAre
<1>2. /\ R("enter", j, j) = 1 /\ R("exit", j, j) = 0
      /\ R("enter", k, k) = 0 /\ R("exit", k, k) = 1
  BY ReportsOne
<1>3. ASSUME NEW what, NEW i \in j .. k - 1
      PROVE  R(what, j, i) = R(what, j, j) + R(what, j + 1, i)
  BY ReportsSplit
<1>4. ASSUME NEW what
      PROVE  R(what, j, k) = R(what, j, k - 1) + R(what, k, k)
  <2> DEFINE m == k - 1
  <2>1. m \in Nat /\ j <= m + 1 /\ m <= k /\ m + 1 = k
    OBVIOUS
  <2> HIDE DEF m
  <2>2. Reports(msgs, t, what, j, k)
          = Reports(msgs, t, what, j, m) + Reports(msgs, t, what, m + 1, k)
    BY <2>1, ReportsSplit
  <2> QED
    BY <2>1, <2>2 DEF m
<1>5. /\ R("enter", j + 1, k - 1) = R("exit", j + 1, k - 1)
      /\ \A i \in j + 1 .. k - 1 : R("exit", j + 1, i) <= R("enter", j + 1, i)
  BY DEF Balanced
<1>6. R("enter", j + 1, j) = 0 /\ R("exit", j + 1, j) = 0
  BY ReportsAre
<1> HIDE DEF R
<1>7. \A i \in j .. k - 1 :
        R("exit", j + 1, i) <= R("enter", j + 1, i) /\ R("exit", j, i) <= R("enter", j, i)
  <2> TAKE i \in j .. k - 1
  <2>1. R("exit", j + 1, i) <= R("enter", j + 1, i)
    <3>1. CASE i = j
      BY <1>6, <3>1
    <3>2. CASE i # j
      BY <1>5, <3>2
    <3> QED
      BY <3>1, <3>2
  <2>2. R("exit", j, i) = R("exit", j + 1, i) /\ R("enter", j, i) = 1 + R("enter", j + 1, i)
    BY <1>1, <1>2, <1>3
  <2>3. R("exit", j + 1, i) \in Nat /\ R("enter", j + 1, i) \in Nat
    BY <1>1
  <2> QED
    BY <2>1, <2>2, <2>3
<1>8. R("enter", j, k) = R("exit", j, k)
  <2>1. k - 1 \in j .. k - 1 /\ j + 1 \in Nat /\ k - 1 \in Nat
    OBVIOUS
  <2>2. /\ R("enter", j, k - 1) = 1 + R("enter", j + 1, k - 1)
        /\ R("exit", j, k - 1) = R("exit", j + 1, k - 1)
        /\ R("enter", j + 1, k - 1) \in Nat
    BY <1>1, <1>2, <1>3, <2>1
  <2>3. R("enter", j, k) = R("enter", j, k - 1) + 0 /\ R("exit", j, k) = R("exit", j, k - 1) + 1
    BY <1>2, <1>4
  <2> QED
    BY <1>5, <2>2, <2>3
<1>9. ASSUME NEW i \in j .. k
      PROVE  R("exit", j, i) <= R("enter", j, i)
  <2>1. CASE i = k
    <3>1. R("enter", j, k) \in Nat
      BY <1>1
    <3> QED
      BY <1>8, <2>1, <3>1
  <2>2. CASE i # k
    BY <1>7, <2>2
  <2> QED
    BY <2>1, <2>2
<1> QED
  BY <1>8, <1>9 DEF R, Balanced

-----------------------------------------------------------------------------
(* Frames and their entries.                                               *)
EntryMessage(t, f) == [thread |-> t, class |-> f[1], method |-> f[2], what |-> "enter"]

(* The frames at the positions O were entered by the messages that at      *)
(* gives, in this order; between two neighbours, and after the last, all   *)
(* calls have come back.                                                   *)
Neighbours(O, p, q) == p < q /\ \A r \in O : r <= p \/ q <= r
LastOf(O, p) == \A r \in O : r <= p

Chain(msgs, t, frames, O, at) ==
  /\ \A p \in O : at[p] \in 1 .. Len(msgs) /\ msgs[at[p]] = EntryMessage(t, frames[p])
  /\ \A p, q \in O : Neighbours(O, p, q) =>
       at[p] < at[q] /\ Balanced(msgs, t, at[p] + 1, at[q] - 1)
  /\ \A p \in O : LastOf(O, p) => Balanced(msgs, t, at[p] + 1, Len(msgs))

(* One more message.                                                       *)
Longer(msgs, msgs2) ==
  /\ Len(msgs) \in Nat /\ Len(msgs2) = Len(msgs) + 1
  /\ \A i \in 1 .. Len(msgs) : msgs2[i] = msgs[i]

LEMMA ChainOther ==
  ASSUME NEW msgs, NEW msgs2, Longer(msgs, msgs2), NEW t, NEW frames, NEW O, NEW at,
         Chain(msgs, t, frames, O, at), msgs2[Len(msgs2)].thread # t
  PROVE  Chain(msgs2, t, frames, O, at)
<1> DEFINE n == Len(msgs)
<1>1. n \in Nat /\ Len(msgs2) = n + 1 /\ \A i \in 1 .. n : msgs2[i] = msgs[i]
  BY DEF Longer
<1>2. \A p \in O : at[p] \in 1 .. n /\ msgs[at[p]] = EntryMessage(t, frames[p])
  BY DEF Chain
<1>3. ASSUME NEW p \in O
      PROVE  at[p] \in 1 .. Len(msgs2) /\ msgs2[at[p]] = EntryMessage(t, frames[p])
  BY <1>1, <1>2
<1>4. ASSUME NEW p \in O, NEW q \in O, Neighbours(O, p, q)
      PROVE  at[p] < at[q] /\ Balanced(msgs2, t, at[p] + 1, at[q] - 1)
  <2>1. at[p] < at[q] /\ Balanced(msgs, t, at[p] + 1, at[q] - 1)
    BY <1>4 DEF Chain
  <2>2. at[p] + 1 \in Nat /\ at[q] - 1 \in Nat
    BY <1>2
  <2>3. \A i \in at[p] + 1 .. at[q] - 1 : msgs2[i] = msgs[i]
    BY <1>1, <1>2
  <2> QED
    BY <2>1, <2>2, <2>3, BalancedSame
<1>5. ASSUME NEW p \in O, LastOf(O, p)
      PROVE  Balanced(msgs2, t, at[p] + 1, Len(msgs2))
  <2>1. Balanced(msgs, t, at[p] + 1, n)
    BY <1>5 DEF Chain
  <2>2. at[p] + 1 \in Nat /\ n \in Nat /\ at[p] + 1 <= n + 1 /\ n + 1 \in Nat /\ n <= n + 1
    BY <1>1, <1>2
  <2>3. \A i \in at[p] + 1 .. n : msgs2[i] = msgs[i]
    BY <1>1, <1>2
  <2>4. Balanced(msgs2, t, at[p] + 1, n)
    BY <2>1, <2>2, <2>3, BalancedSame
  <2>5. Balanced(msgs2, t, n + 1, n + 1)
    BY <1>1, <2>2, BalancedOther
  <2>6. Balanced(msgs2, t, at[p] + 1, n + 1)
    <3> HIDE DEF n
    <3> QED
      BY <2>2, <2>4, <2>5, BalancedJoin
  <2> QED
    BY <1>1, <2>6
<1> QED
  BY <1>3, <1>4, <1>5 DEF Chain

(* A new frame above the others is entered.                                *)
LEMMA ChainEntry ==
  ASSUME NEW msgs, NEW msgs2, Longer(msgs, msgs2), NEW t, NEW frames,
         NEW O, O \subseteq Nat, NEW at, Chain(msgs, t, frames, O, at),
         NEW top \in Nat, \A r \in O : r < top,
         msgs2[Len(msgs2)] = EntryMessage(t, frames[top]),
         NEW at2, at2[top] = Len(msgs2), \A p \in O : at2[p] = at[p]
  PROVE  Chain(msgs2, t, frames, O \cup {top}, at2)
<1>n. PICK n \in Nat : n = Len(msgs)
  BY DEF Longer
<1>o. PICK O2 : O2 = O \cup {top}
  OBVIOUS
<1>1. n \in Nat /\ Len(msgs2) = n + 1 /\ \A i \in 1 .. n : msgs2[i] = msgs[i]
  BY <1>n DEF Longer
<1>2. \A p \in O : at[p] \in 1 .. n /\ msgs[at[p]] = EntryMessage(t, frames[p])
  BY <1>n DEF Chain
<1>t. \A p \in O : p \in Nat /\ p # top /\ ~ (top <= p)
  OBVIOUS
<1>3. at2[top] = n + 1 /\ \A p \in O : at2[p] = at[p]
  BY <1>1
<1>4. ASSUME NEW p \in O2
      PROVE  at2[p] \in 1 .. Len(msgs2) /\ msgs2[at2[p]] = EntryMessage(t, frames[p])
  <2>1. CASE p = top
    BY <1>1, <1>3, <2>1
  <2>2. CASE p \in O
    <3>1. at2[p] = at[p] /\ at[p] \in 1 .. n /\ msgs[at[p]] = EntryMessage(t, frames[p])
      BY <1>2, <1>3, <2>2
    <3>2. msgs2[at[p]] = msgs[at[p]] /\ at[p] \in 1 .. n + 1
      BY <1>1, <3>1
    <3> QED
      BY <1>1, <3>1, <3>2
  <2> QED
    BY <1>o, <2>1, <2>2
<1>5. ASSUME NEW p \in O2, NEW q \in O2, Neighbours(O2, p, q)
      PROVE  at2[p] < at2[q] /\ Balanced(msgs2, t, at2[p] + 1, at2[q] - 1)
  <2>1. p \in O /\ p # top
    <3>1. p < q /\ p \in O2 /\ q \in O2
      BY <1>5 DEF Neighbours
    <3>2. p = top => FALSE
      <4> SUFFICES ASSUME p = top PROVE FALSE
        OBVIOUS
      <4>1. q = top \/ q \in O
        BY <1>o
      <4>2. CASE q = top
        BY <3>1, <4>2
      <4>3. CASE q \in O
        BY <1>t, <3>1, <4>3
      <4> QED
        BY <4>1, <4>2, <4>3
    <3> QED
      BY <1>o, <3>1, <3>2
  <2>2. CASE q = top
    <3>1. LastOf(O, p)
      <4>1. ASSUME NEW r \in O
            PROVE  r <= p
        <5>1. r <= p \/ q <= r
          BY <1>o, <1>5 DEF Neighbours
        <5>2. ~ (top <= r)
          BY <1>t
        <5> QED
          BY <2>2, <5>1, <5>2
      <4> QED
        BY <4>1 DEF LastOf
    <3>2. Balanced(msgs, t, at[p] + 1, n)
      BY <1>n, <2>1, <3>1 DEF Chain
    <3>0. at[p] \in 1 .. n
      BY <1>2, <2>1
    <3>3. at[p] + 1 \in Nat /\ \A i \in at[p] + 1 .. n : msgs2[i] = msgs[i]
      BY <1>1, <3>0
    <3>4. Balanced(msgs2, t, at[p] + 1, n)
      BY <1>1, <3>2, <3>3, BalancedSame
    <3>5. at2[p] = at[p] /\ at2[q] = n + 1 /\ at[p] \in 1 .. n /\ n + 1 - 1 = n
      BY <1>1, <1>2, <1>3, <2>1, <2>2
    <3>6. at[p] < n + 1
      BY <3>5
    <3> QED
      BY <3>4, <3>5, <3>6
  <2>3. CASE q # top
    <3>1. q \in O /\ Neighbours(O, p, q)
      BY <1>o, <1>5, <2>3 DEF Neighbours
    <3>2. at[p] < at[q] /\ Balanced(msgs, t, at[p] + 1, at[q] - 1)
      BY <2>1, <3>1 DEF Chain
    <3>3. at[p] + 1 \in Nat /\ at[q] - 1 \in Nat
      BY <1>2, <2>1, <3>1
    <3>4. \A i \in at[p] + 1 .. at[q] - 1 : msgs2[i] = msgs[i]
      BY <1>1, <1>2, <2>1, <3>1
    <3>5. Balanced(msgs2, t, at[p] + 1, at[q] - 1)
      BY <3>2, <3>3, <3>4, BalancedSame
    <3> QED
      BY <1>3, <2>1, <3>1, <3>2, <3>5
  <2> QED
    BY <2>2, <2>3
<1>6. ASSUME NEW p \in O2, LastOf(O2, p)
      PROVE  Balanced(msgs2, t, at2[p] + 1, Len(msgs2))
  <2>1. p = top
    <3>1. top <= p
      BY <1>o, <1>6 DEF LastOf
    <3> QED
      BY <1>o, <1>t, <3>1
  <2>2. n + 1 + 1 \in Nat /\ n + 1 \in Nat /\ n + 1 < n + 1 + 1
    BY <1>1
  <2>3. Balanced(msgs2, t, n + 1 + 1, n + 1)
    BY <2>2, BalancedNone
  <2> QED
    BY <1>1, <1>3, <2>1, <2>3
<1>7. Chain(msgs2, t, frames, O2, at2)
  BY <1>4, <1>5, <1>6 DEF Chain
<1> QED
  BY <1>7, <1>o

(* The frame entered last is left.                                         *)
LEMMA ChainExit ==
  ASSUME NEW msgs, NEW msgs2, Longer(msgs, msgs2), NEW t, NEW frames,
         NEW O, O \subseteq Nat, NEW at, Chain(msgs, t, frames, O, at),
         NEW top \in O, \A r \in O : r <= top,
         msgs2[Len(msgs2)].thread = t, msgs2[Len(msgs2)].what = "exit"
  PROVE  Chain(msgs2, t, frames, O \ {top}, at)
<1>n. PICK n \in Nat : n = Len(msgs)
  BY DEF Longer
<1>o. PICK O2 : O2 = O \ {top}
  OBVIOUS
<1>1. n \in Nat /\ Len(msgs2) = n + 1 /\ \A i \in 1 .. n : msgs2[i] = msgs[i]
  BY <1>n DEF Longer
<1>2. \A p \in O : at[p] \in 1 .. n /\ msgs[at[p]] = EntryMessage(t, frames[p])
  BY <1>n DEF Chain
<1>3. ASSUME NEW p \in O2
      PROVE  at[p] \in 1 .. Len(msgs2) /\ msgs2[at[p]] = EntryMessage(t, frames[p])
  BY <1>1, <1>2, <1>o
<1>4. ASSUME NEW p \in O, NEW q \in O, Neighbours(O, p, q)
      PROVE  at[p] < at[q] /\ Balanced(msgs2, t, at[p] + 1, at[q] - 1)
  <2>1. at[p] < at[q] /\ Balanced(msgs, t, at[p] + 1, at[q] - 1)
    BY <1>4 DEF Chain
  <2>2. at[p] + 1 \in Nat /\ at[q] - 1 \in Nat
    BY <1>2
  <2>3. \A i \in at[p] + 1 .. at[q] - 1 : msgs2[i] = msgs[i]
    BY <1>1, <1>2
  <2> QED
    BY <2>1, <2>2, <2>3, BalancedSame
<1>5. ASSUME NEW p \in O2, NEW q \in O2, Neighbours(O2, p, q)
      PROVE  at[p] < at[q] /\ Balanced(msgs2, t, at[p] + 1, at[q] - 1)
  <2>1. q <= top /\ p \in O /\ q \in O
    BY <1>o
  <2>2. Neighbours(O, p, q)
    BY <1>o, <1>5, <2>1 DEF Neighbours
  <2> QED
    BY <1>4, <2>1, <2>2
<1>6. ASSUME NEW p \in O2, LastOf(O2, p)
      PROVE  Balanced(msgs2, t, at[p] + 1, Len(msgs2))
  <2>1. Neighbours(O, p, top)
    <3>1. p \in Nat /\ top \in Nat /\ p <= top /\ p # top
      BY <1>o
    <3>2. p < top
      BY <3>1
    <3>3. \A r \in O : r <= p \/ top <= r
      <4> TAKE r \in O
      <4>1. CASE r = top
        BY <3>1, <4>1
      <4>2. CASE r # top
        BY <1>o, <1>6, <4>2 DEF LastOf
      <4> QED
        BY <4>1, <4>2
    <3> QED
      BY <3>2, <3>3 DEF Neighbours
  <2>2. at[p] < at[top] /\ Balanced(msgs2, t, at[p] + 1, at[top] - 1)
    BY <1>4, <1>o, <2>1
  <2>3. at[p] \in 1 .. n /\ at[top] \in 1 .. n
    BY <1>2, <1>o
  <2>4. msgs2[at[top]].thread = t /\ msgs2[at[top]].what = "enter"
    <3>1. msgs2[at[top]] = msgs[at[top]] /\ msgs[at[top]] = EntryMessage(t, frames[top])
      BY <1>1, <1>2
    <3> QED
      BY <3>1 DEF EntryMessage
  <2>5. Balanced(msgs2, t, at[top] + 1, n)
    <3>1. LastOf(O, top)
      BY DEF LastOf
    <3>2. Balanced(msgs, t, at[top] + 1, n)
      BY <1>n, <3>1 DEF Chain
    <3>3. at[top] + 1 \in Nat /\ \A i \in at[top] + 1 .. n : msgs2[i] = msgs[i]
      BY <1>1, <2>3
    <3> QED
      BY <1>1, <3>2, <3>3, BalancedSame
  <2> DEFINE j == at[top]
             k == n + 1
             m == at[top] - 1
  <2>6. Balanced(msgs2, t, j, k)
    <3>1. j \in Nat /\ k \in Nat /\ j < k /\ k - 1 = n
      BY <1>1, <2>3
    <3>2. msgs2[k].thread = t /\ msgs2[k].what = "exit" /\ Balanced(msgs2, t, j + 1, k - 1)
      BY <1>1, <2>5, <3>1
    <3>3. msgs2[j].thread = t /\ msgs2[j].what = "enter"
      BY <2>4
    <3> HIDE DEF j, k
    <3> QED
      BY <3>1, <3>2, <3>3, BalancedCall
  <2>7. /\ m \in Nat /\ m + 1 = j /\ k \in Nat /\ m <= k
        /\ at[p] + 1 \in Nat /\ at[p] + 1 <= m + 1
    BY <1>1, <2>2, <2>3
  <2>8. Balanced(msgs2, t, at[p] + 1, m) /\ Balanced(msgs2, t, m + 1, k)
    BY <2>2, <2>6, <2>7
  <2> HIDE DEF m, k, j
  <2>9. Balanced(msgs2, t, at[p] + 1, k)
    BY <2>7, <2>8, BalancedJoin
  <2> QED
    BY <1>1, <2>9 DEF k
<1>7. Chain(msgs2, t, frames, O2, at)
  BY <1>3, <1>5, <1>6 DEF Chain
<1> QED
  BY <1>7, <1>o

-----------------------------------------------------------------------------
USE JVMAgentAssumption DEF vars, classLoading, java, agent, table, switches

(* Before the switch is turned on, no message is under way, no thread but  *)
(* Main and the early ones has begun, and VMInit runs on an empty stack.   *)
DeathPCs == {"deathLock", "deathDisengage", "deathMark", "deathExit", "unload"}
Late     == Threads \ (EarlyThreads \cup {Main})
Rising   == vm \in {"onload", "primordial", "start"}
Awaiting == {"initLock", "initFind", "initRegister", "initEngage"}
WaitsInit(t) == pc[t] \in Awaiting \/ LoadsForInit(t)
Ahead == Rising \/ WaitsInit(Main)

AheadInv ==
  /\ Ahead => /\ engaged = 0 /\ ~threadEvents /\ ~m_vm_is_dead
              /\ \A t \in Threads : pc[t] \notin NativePCs \cup DeathPCs
              /\ \A t \in Late : pc[t] = "none" /\ stack[t] = <<>>
  /\ WaitsInit(Main) => stack[Main] = <<>>
  /\ Rising => ~InInit(Main)

(* VMDeath turns the switch off before it marks the VM as dead, both in    *)
(* the monitor: a native that finds the VM alive runs with the switch on.  *)
Disengaged == {"deathMark", "deathExit", "unload"}

SwitchInv ==
  /\ m_vm_is_dead => engaged = 0
  /\ \A t \in Threads :
       /\ pc[t] \in Disengaged => engaged = 0
       /\ pc[t] \in NativePCs =>
            engaged # 0 \/ m_vm_is_dead \/ \E u \in Threads : pc[u] = "deathMark"
       /\ pc[t] = "enqueue" => engaged # 0 /\ Top(t) \in Reported

LEMMA PhaseQuiet ==
  ASSUME PcTyped, AheadInv, SwitchInv, NEW t \in Threads, NEW from, NEW to,
         Goes(t, from, to), vm' = vm \/ ~Rising',
         UNCHANGED <<m_vm_is_dead, engaged, threadEvents>>,
         \A u \in Threads \ {t} : ret'[u] = ret[u] /\ stack'[u] = stack[u],
         from \notin {"none", "deathMark"}, to # "enqueue",
         to \in NativePCs => from \in NativePCs \/ engaged # 0,
         to \in DeathPCs => from \in DeathPCs, to \in Disengaged => from \in Disengaged,
         InInit(t)' => InInit(t),
         WaitsInit(t)' => WaitsInit(t) /\ stack'[t] = stack[t]
  PROVE  AheadInv' /\ SwitchInv'
<1>1. /\ pc[t] = from /\ pc'[t] = to
      /\ \A u \in Threads \ {t} : pc'[u] = pc[u]
  BY GoesOnly
<1>2. ASSUME NEW u \in Threads \ {t}
      PROVE  (WaitsInit(u)' <=> WaitsInit(u)) /\ (InInit(u)' <=> InInit(u)) /\ Top(u)' = Top(u)
  BY <1>1 DEF WaitsInit, InInit, LoadsForInit, Top
<1>3. /\ WaitsInit(Main)' => WaitsInit(Main) /\ stack'[Main] = stack[Main]
      /\ InInit(Main)' => InInit(Main)
  BY <1>2
<1>4. /\ Rising' => Rising
      /\ Ahead' => Ahead
  BY <1>3 DEF Ahead, Rising
<1>5. ASSUME Ahead'
      PROVE  /\ engaged' = 0 /\ ~threadEvents' /\ ~m_vm_is_dead'
             /\ \A u \in Threads : pc'[u] \notin NativePCs \cup DeathPCs
             /\ \A u \in Late : pc'[u] = "none" /\ stack'[u] = <<>>
  <2>1. /\ engaged = 0 /\ ~threadEvents /\ ~m_vm_is_dead
        /\ \A u \in Threads : pc[u] \notin NativePCs \cup DeathPCs
        /\ \A u \in Late : pc[u] = "none" /\ stack[u] = <<>>
    BY <1>4, <1>5 DEF AheadInv
  <2>2. t \notin Late
    BY <1>1, <2>1
  <2> QED
    BY <1>1, <2>1, <2>2 DEF Late
<1>6. AheadInv'
  <2>1. WaitsInit(Main)' => stack'[Main] = <<>>
    BY <1>3 DEF AheadInv
  <2>2. Rising' => ~InInit(Main)'
    BY <1>3, <1>4 DEF AheadInv
  <2> QED
    BY <1>5, <2>1, <2>2 DEF AheadInv, Late
<1>7. ASSUME NEW u \in Threads
      PROVE  /\ pc'[u] \in Disengaged => engaged = 0
             /\ pc'[u] \in NativePCs =>
                  engaged # 0 \/ m_vm_is_dead \/ \E v \in Threads : pc'[v] = "deathMark"
             /\ pc'[u] = "enqueue" => engaged # 0 /\ Top(u)' \in Reported
  <2>1. \A v \in Threads : pc[v] = "deathMark" => pc'[v] = "deathMark"
    BY <1>1
  <2>2. CASE u = t
    BY <1>1, <2>1, <2>2 DEF SwitchInv
  <2>3. CASE u # t
    BY <1>1, <1>2, <2>1, <2>3 DEF SwitchInv
  <2> QED
    BY <2>2, <2>3
<1>8. SwitchInv'
  BY <1>7 DEF SwitchInv
<1> QED
  BY <1>6, <1>8

LEMMA StackOnly ==
  ASSUME StackTyped, NEW t \in Threads, NEW s, stack' = [stack EXCEPT ![t] = s]
  PROVE  stack'[t] = s /\ \A u \in Threads \ {t} : stack'[u] = stack[u]
  BY DEF StackTyped

(* A step of one thread that changes no stack and no flag.                 *)
LEMMA PhaseGoes ==
  ASSUME PcTyped, AheadInv, SwitchInv, NEW t \in Threads, NEW from, NEW to,
         Goes(t, from, to), vm' = vm \/ vm' \in {"dead", "unloaded"},
         UNCHANGED <<m_vm_is_dead, engaged, threadEvents, ret, stack>>,
         from \notin {"none", "deathMark"}, to # "enqueue",
         to \in NativePCs => from \in NativePCs,
         to \in DeathPCs => from \in DeathPCs, to \in Disengaged => from \in Disengaged,
         to \in HookPCs => from \in HookPCs,
         to \in InitPCs => from \in InitPCs \/ (from \in HookPCs /\ ret[t] = "initFind"),
         to \in Awaiting => from \in Awaiting \/ (from \in HookPCs /\ ret[t] = "initFind")
  PROVE  AheadInv' /\ SwitchInv'
<1>1. pc[t] = from /\ pc'[t] = to
  BY GoesOnly
<1>2. (InInit(t)' => InInit(t)) /\ (WaitsInit(t)' => WaitsInit(t))
  BY <1>1 DEF InInit, WaitsInit, LoadsForInit
<1>3. vm' = vm \/ ~Rising'
  BY DEF Rising
<1> QED
  BY <1>2, <1>3, PhaseQuiet

LEMMA PhaseStep ==
  ASSUME IInv, AheadInv, SwitchInv, [Next]_vars
  PROVE  AheadInv' /\ SwitchInv'
<1> USE DEF HookPCs, HookInside, NativePCs, InitPCs, DeathPCs, Disengaged, Awaiting
<1>1. PcTyped /\ RetTyped /\ FlagsTyped /\ StackTyped /\ LockInv /\ FlagInv
  BY TypeParts DEF IInv
<1>2. ASSUME NEW t \in Threads, NEW from, NEW to, Goes(t, from, to),
             vm' = vm \/ vm' \in {"dead", "unloaded"},
             UNCHANGED <<m_vm_is_dead, engaged, threadEvents, ret, stack>>,
             from \notin {"none", "deathMark"}, to # "enqueue",
             to \in NativePCs => from \in NativePCs,
             to \in DeathPCs => from \in DeathPCs, to \in Disengaged => from \in Disengaged,
             to \in HookPCs => from \in HookPCs,
             to \in InitPCs => from \in InitPCs \/ (from \in HookPCs /\ ret[t] = "initFind"),
             to \in Awaiting => from \in Awaiting \/ (from \in HookPCs /\ ret[t] = "initFind")
      PROVE  AheadInv' /\ SwitchInv'
  <2> HIDE DEF HookPCs, HookInside, NativePCs, InitPCs, DeathPCs, Disengaged, Awaiting
  <2> QED
    BY <1>1, <1>2, PhaseGoes
(* ... when it leaves the bridge or a method.                              *)
<1>3. ASSUME NEW t \in Threads, NEW to, pc[t] \in {"java", "entry", "exit", "natExit"},
             Goes(t, pc[t], to), to \in {"java", "entry"},
             UNCHANGED <<vm, m_vm_is_dead, engaged, threadEvents, ret>>,
             \A u \in Threads \ {t} : stack'[u] = stack[u]
      PROVE  AheadInv' /\ SwitchInv'
  <2>1. ~InInit(t)' /\ ~WaitsInit(t)'
    <3>1. pc'[t] = to
      BY <1>1, <1>3, GoesOnly
    <3> QED
      BY <1>3, <3>1 DEF InInit, WaitsInit, LoadsForInit
  <2> QED
    BY <1>1, <1>3, <2>1, PhaseQuiet
<1>4. ASSUME UNCHANGED <<pc, ret, stack, m_vm_is_dead, engaged, threadEvents>>,
             vm' = vm \/ vm' = "aborted"
      PROVE  AheadInv' /\ SwitchInv'
  <2>1. /\ Rising' => Rising
        /\ \A t \in Threads : /\ WaitsInit(t)' <=> WaitsInit(t)
                              /\ InInit(t)' <=> InInit(t)
                              /\ Top(t)' = Top(t)
    BY <1>4 DEF Rising, WaitsInit, InInit, LoadsForInit, Top
  <2>2. Ahead' => Ahead
    BY <2>1 DEF Ahead
  <2> QED
    BY <1>4, <2>1, <2>2 DEF AheadInv, SwitchInv, Late
<1>5. ASSUME NEW why, Fatal(why), UNCHANGED pc
      PROVE  AheadInv' /\ SwitchInv'
  BY <1>4, <1>5 DEF Fatal
(* The JVM comes up.                                                       *)
<1>6. ASSUME Rising, \A u \in Threads \ {Main} : pc'[u] = pc[u],
             pc'[Main] \in {"java", "vmStart", "initLock"},
             UNCHANGED <<ret, stack, m_vm_is_dead, engaged, threadEvents>>,
             pc'[Main] = "initLock" => ~Rising' /\ stack[Main] = <<>>
      PROVE  AheadInv' /\ SwitchInv'
  <2>1. Ahead /\ (Ahead' => pc'[Main] = "initLock" \/ Rising')
    BY <1>6 DEF Ahead, WaitsInit, LoadsForInit
  <2>2. /\ engaged = 0 /\ ~threadEvents /\ ~m_vm_is_dead
        /\ \A u \in Threads : pc[u] \notin NativePCs \cup DeathPCs
        /\ \A u \in Late : pc[u] = "none" /\ stack[u] = <<>>
    BY <2>1 DEF AheadInv
  <2>3. \A u \in Threads : pc'[u] \notin NativePCs \cup DeathPCs
    BY <1>6, <2>2
  <2>4. \A u \in Late : pc'[u] = "none" /\ stack'[u] = <<>>
    BY <1>6, <2>2 DEF Late
  <2>5. WaitsInit(Main)' => stack'[Main] = <<>>
    BY <1>6 DEF WaitsInit, LoadsForInit
  <2>6. Rising' => ~InInit(Main)'
    BY <1>6 DEF InInit, LoadsForInit
  <2>7. AheadInv'
    BY <1>6, <2>2, <2>3, <2>4, <2>5, <2>6 DEF AheadInv, Late
  <2>8. SwitchInv'
    BY <1>6, <2>2, <2>3 DEF SwitchInv
  <2> QED
    BY <2>7, <2>8
<1>7. CASE OnLoad \/ PostVMStart \/ PostVMInit
  <2>1. /\ Rising /\ UNCHANGED <<ret, stack, m_vm_is_dead, engaged, threadEvents>>
        /\ \/ pc' = [pc EXCEPT ![Main] = "java"]
           \/ Goes(Main, "java", "vmStart")
           \/ Goes(Main, "java", "initLock") /\ vm' = "live" /\ stack[Main] = <<>>
    BY <1>7 DEF OnLoad, PostVMStart, PostVMInit, Rising
  <2>2. /\ \A u \in Threads \ {Main} : pc'[u] = pc[u]
        /\ pc'[Main] \in {"java", "vmStart", "initLock"}
        /\ pc'[Main] = "initLock" => vm' = "live" /\ stack[Main] = <<>>
    BY <1>1, <2>1 DEF Goes, PcTyped
  <2> QED
    BY <1>6, <2>1, <2>2 DEF Rising
<1>8. CASE OnLoadFails \/ VMInitFails \/ (\E t \in Threads : VMDeathFails(t))
  BY <1>5, <1>8 DEF OnLoadFails, VMInitFails, VMDeathFails
<1>9. CASE VMStart \/ VMInitLock \/ VMInitFind \/ VMInitRegister \/ VMInitUnlock
  BY <1>2, <1>9 DEF VMStart, VMInitLock, Enter, VMInitFind, VMInitRegister, VMInitUnlock, Leave
(* VMInit turns the switch on.                                             *)
<1>10. CASE VMInitEngage \/ VMInitEvents
  <2>1. /\ pc[Main] \in {"initEngage", "initEvents"} /\ pc'[Main] \in {"initEvents", "initExit"}
        /\ vm' = vm /\ UNCHANGED <<ret, stack, m_vm_is_dead>>
        /\ \A u \in Threads \ {Main} : pc'[u] = pc[u]
        /\ engaged' = engaged \/ (engaged' = 1 /\ pc[Main] = "initEngage")
    BY <1>1, <1>10, GoesOnly DEF VMInitEngage, VMInitEvents
  <2>2. ~Rising' /\ ~Ahead'
    BY <2>1 DEF AheadInv, InInit, Ahead, WaitsInit, LoadsForInit, Rising
  <2>3. pc[Main] = "initEngage" =>
          ~m_vm_is_dead /\ \A u \in Threads : pc[u] \notin NativePCs \cup DeathPCs
    BY DEF AheadInv, Ahead, WaitsInit
  <2>4. AheadInv'
    BY <2>2 DEF AheadInv, Ahead
  <2>5. SwitchInv'
    <3>1. \A u \in Threads : Top(u)' = Top(u)
      BY <2>1 DEF Top
    <3>2. CASE pc[Main] = "initEngage"
      BY <2>1, <2>3, <3>2 DEF SwitchInv
    <3>3. CASE pc[Main] # "initEngage"
      <4>1. engaged' = engaged /\ \A u \in Threads : pc[u] = "deathMark" => pc'[u] = "deathMark"
        BY <2>1, <3>3
      <4>2. \A u \in Threads : pc'[u] \in NativePCs \cup Disengaged => pc'[u] = pc[u]
        BY <2>1
      <4> QED
        BY <2>1, <3>1, <4>1, <4>2 DEF SwitchInv
    <3> QED
      BY <3>2, <3>3
  <2> QED
    BY <2>4, <2>5
<1>11. ASSUME NEW t \in Threads, Locks(t)
       PROVE  AheadInv' /\ SwitchInv'
  BY <1>2, <1>11 DEF Locks, HookLock, NativeLock, ThreadEventLock, VMDeathLock, Enter
(* The VM ends only when it is initialised.                                *)
<1>12. ASSUME NEW t \in Threads, PostVMDeath(t)
       PROVE  AheadInv' /\ SwitchInv'
  <2>1. /\ pc'[t] = "deathLock" /\ pc[t] = "java" /\ ~Rising' /\ threadEvents
        /\ UNCHANGED <<ret, stack, m_vm_is_dead, engaged, threadEvents>>
        /\ \A u \in Threads \ {t} : pc'[u] = pc[u]
    BY <1>1, <1>12, GoesOnly DEF PostVMDeath, Initialised, Rising
  <2>2. ~WaitsInit(Main) /\ ~WaitsInit(Main)'
    <3>1. ~WaitsInit(Main)
      BY <2>1 DEF AheadInv, Ahead
    <3> QED
      BY <2>1, <3>1 DEF WaitsInit, LoadsForInit
  <2>3. AheadInv'
    BY <2>1, <2>2 DEF AheadInv, Ahead
  <2>4. SwitchInv'
    <3>1. \A u \in Threads : Top(u)' = Top(u)
      BY <2>1 DEF Top
    <3>2. \A u \in Threads : pc[u] = "deathMark" => pc'[u] = "deathMark"
      BY <2>1
    <3>3. \A u \in Threads : pc'[u] \in NativePCs \cup Disengaged => pc'[u] = pc[u]
      BY <2>1
    <3> QED
      BY <2>1, <3>1, <3>2, <3>3 DEF SwitchInv
  <2> QED
    BY <2>3, <2>4
(* VMDeath turns the switch off: no native is at its checks or past them.  *)
<1>13. ASSUME NEW t \in Threads, VMDeathDisengage(t) \/ VMDeathMark(t)
       PROVE  AheadInv' /\ SwitchInv'
  <2>1. /\ vm' = vm /\ UNCHANGED <<ret, stack, threadEvents>>
        /\ \A u \in Threads \ {t} : pc'[u] = pc[u]
        /\ \/ pc[t] = "deathDisengage" /\ pc'[t] = "deathMark" /\ engaged' = 0 /\ m_vm_is_dead' = m_vm_is_dead
           \/ pc[t] = "deathMark" /\ pc'[t] = "deathExit" /\ engaged' = engaged /\ m_vm_is_dead'
    BY <1>1, <1>13, GoesOnly DEF VMDeathDisengage, VMDeathMark
  <2>2. ~Ahead
    BY <2>1 DEF AheadInv
  <2>3. ~Ahead'
    <3>1. WaitsInit(Main)' => WaitsInit(Main)
      BY <2>1 DEF WaitsInit, LoadsForInit
    <3> QED
      BY <2>1, <2>2, <3>1 DEF Ahead, Rising
  <2>4. AheadInv'
    BY <2>3 DEF AheadInv, Ahead
  <2>5. \A u \in Threads \ {t} : pc[u] # "enqueue"
    BY <1>1, <2>1, Exclusion DEF LockedPCs
  <2>6. SwitchInv'
    <3>1. \A u \in Threads : Top(u)' = Top(u)
      BY <2>1 DEF Top
    <3>2. engaged' = 0
      BY <2>1 DEF SwitchInv
    <3>3. m_vm_is_dead' \/ pc'[t] = "deathMark"
      BY <2>1
    <3>4. \A u \in Threads : pc'[u] # "enqueue"
      BY <2>1, <2>5
    <3> QED
      BY <3>1, <3>2, <3>3, <3>4 DEF SwitchInv
  <2> QED
    BY <2>4, <2>6
<1>14. ASSUME NEW t \in Threads, VMDeathUnlock(t) \/ OnUnload(t)
       PROVE  AheadInv' /\ SwitchInv'
  BY <1>2, <1>14 DEF VMDeathUnlock, Leave, OnUnload
<1>15. ASSUME NEW t \in Threads, BeginThread(t)
       PROVE  AheadInv' /\ SwitchInv'
  <2>1. /\ pc[t] = "none" /\ pc'[t] \in {"evLock", "java"} /\ vm # "onload" /\ vm' = vm
        /\ UNCHANGED <<stack, m_vm_is_dead, engaged, threadEvents>>
        /\ \A u \in Threads \ {t} : pc'[u] = pc[u] /\ ret'[u] = ret[u]
        /\ t \notin EarlyThreads => Initialised
    <3>1. Goes(t, "none", IF threadEvents /\ Posts THEN "evLock" ELSE "java")
      BY <1>15 DEF BeginThread
    <3>2. /\ pc[t] = "none" /\ pc'[t] \in {"evLock", "java"}
          /\ \A u \in Threads \ {t} : pc'[u] = pc[u]
      BY <1>1, <3>1, GoesOnly
    <3>3. ret' = [ret EXCEPT ![t] = "java"]
      BY <1>15 DEF BeginThread
    <3>4. \A u \in Threads \ {t} : ret'[u] = ret[u]
      BY <1>1, <3>3, RetOnly
    <3>5. t \notin EarlyThreads => Initialised
      BY <1>15 DEF BeginThread
    <3>6. vm # "onload"
      BY <1>1, <1>15, <3>5 DEF BeginThread, FlagInv, Initialised
    <3> QED
      BY <1>15, <3>2, <3>4, <3>5, <3>6 DEF BeginThread
  <2>2. ~InInit(t)' /\ ~WaitsInit(t)'
    BY <2>1 DEF InInit, WaitsInit, LoadsForInit
  <2>3. ASSUME NEW u \in Threads \ {t}
        PROVE  (WaitsInit(u)' <=> WaitsInit(u)) /\ (InInit(u)' <=> InInit(u))
    BY <2>1 DEF WaitsInit, InInit, LoadsForInit
  <2>4. Ahead' => Ahead
    BY <2>1, <2>2, <2>3 DEF Ahead, Rising
  <2>5. Ahead => t \notin Late
    BY <2>1 DEF AheadInv, Late, Initialised
  <2>6. AheadInv'
    <3>1. Ahead' => /\ engaged' = 0 /\ ~threadEvents' /\ ~m_vm_is_dead'
                    /\ \A u \in Threads : pc'[u] \notin NativePCs \cup DeathPCs
                    /\ \A u \in Late : pc'[u] = "none" /\ stack'[u] = <<>>
      <4> SUFFICES ASSUME Ahead'
                   PROVE  /\ engaged' = 0 /\ ~threadEvents' /\ ~m_vm_is_dead'
                          /\ \A u \in Threads : pc'[u] \notin NativePCs \cup DeathPCs
                          /\ \A u \in Late : pc'[u] = "none" /\ stack'[u] = <<>>
        OBVIOUS
      <4>1. /\ engaged = 0 /\ ~threadEvents /\ ~m_vm_is_dead /\ t \notin Late
            /\ \A u \in Threads : pc[u] \notin NativePCs \cup DeathPCs
            /\ \A u \in Late : pc[u] = "none" /\ stack[u] = <<>>
        BY <2>4, <2>5 DEF AheadInv
      <4> QED
        BY <2>1, <4>1 DEF Late
    <3>2. WaitsInit(Main)' => stack'[Main] = <<>>
      BY <2>1, <2>2, <2>3 DEF AheadInv
    <3>3. Rising' => ~InInit(Main)'
      BY <2>1, <2>2, <2>3 DEF AheadInv, Rising
    <3> QED
      BY <3>1, <3>2, <3>3 DEF AheadInv, Late
  <2>7. SwitchInv'
    <3>1. \A u \in Threads : Top(u)' = Top(u)
      BY <2>1 DEF Top
    <3>2. \A u \in Threads : pc[u] = "deathMark" => pc'[u] = "deathMark"
      BY <2>1
    <3>3. \A u \in Threads : pc'[u] \in NativePCs \cup Disengaged => pc'[u] = pc[u]
      BY <2>1
    <3> QED
      BY <2>1, <3>1, <3>2, <3>3 DEF SwitchInv
  <2> QED
    BY <2>6, <2>7
<1>16. ASSUME NEW t \in Threads, EndThread(t)
       PROVE  AheadInv' /\ SwitchInv'
  <2>1. PICK to \in {"evLock", "ended"} : Goes(t, "java", to)
    BY <1>16 DEF EndThread
  <2>2. ret' = [ret EXCEPT ![t] = "ended"] /\ UNCHANGED <<vm, stack, m_vm_is_dead, engaged, threadEvents>>
    BY <1>16 DEF EndThread
  <2>3. /\ pc'[t] \in {"evLock", "ended"}
        /\ \A u \in Threads \ {t} : ret'[u] = ret[u]
    BY <1>1, <2>1, <2>2, GoesOnly, RetOnly
  <2>4. ~InInit(t)' /\ ~WaitsInit(t)'
    BY <2>3 DEF InInit, WaitsInit, LoadsForInit
  <2> QED
    BY <1>1, <2>1, <2>2, <2>3, <2>4, PhaseQuiet
<1>17. ASSUME NEW t \in Threads,
              ThreadEvent(t) \/ GetThreadInfo(t) \/ Enqueue(t) \/ ReturnTraced(t)
       PROVE  AheadInv' /\ SwitchInv'
  BY <1>2, <1>17 DEF ThreadEvent, GetThreadInfo, Enqueue, ReturnTraced
<1>18. ASSUME NEW t \in Threads, ThreadEventUnlock(t)
       PROVE  AheadInv' /\ SwitchInv'
  <2>1. ret[t] \in {"java", "ended"}
    BY <1>1, <1>18 DEF ThreadEventUnlock, Leave, Goes, LockInv, RetFits, EventPCs
  <2> QED
    BY <1>2, <1>18, <2>1 DEF ThreadEventUnlock, Leave
<1>19. ASSUME NEW t \in Threads, NEW c \in Classes,
              LoadUnhooked(t, c) \/ HookSkips(t, c) \/ HookNumbers(t, c) \/ HookAppends(t, c)
       PROVE  AheadInv' /\ SwitchInv'
  BY <1>2, <1>19 DEF LoadUnhooked, HookSkips, HookNumbers, HookAppends
<1>20. ASSUME NEW t \in Threads, NEW c \in Classes, HookRewrites(t, c)
       PROVE  AheadInv' /\ SwitchInv'
  <2>1. \/ UNCHANGED pc /\ Fatal("classFile")
        \/ /\ Goes(t, "hookRewrite", "hookExit")
           /\ UNCHANGED <<vm, m_vm_is_dead, engaged, threadEvents, ret, stack>>
    BY <1>20 DEF HookRewrites
  <2> QED
    BY <1>2, <1>5, <2>1
<1>21. ASSUME NEW t \in Threads, NEW c \in Classes, HookUnlock(t, c)
       PROVE  AheadInv' /\ SwitchInv'
  <2>1. ret[t] \in {"java", "entry", "exit", "initFind"}
    BY <1>1, <1>21 DEF HookUnlock, Leave, Goes, LockInv, RetFits
  <2> QED
    BY <1>2, <1>21, <2>1 DEF HookUnlock, Leave
<1>22. ASSUME NEW t \in Threads, NEW c \in Classes, BeginLoad(t, c)
       PROVE  AheadInv' /\ SwitchInv'
  <2>1. /\ pc[t] \in {"java", "entry", "exit", "initFind"} /\ Goes(t, pc[t], "hookLock")
        /\ pc'[t] = "hookLock" /\ ret'[t] = pc[t]
        /\ UNCHANGED <<vm, stack, m_vm_is_dead, engaged, threadEvents>>
        /\ \A u \in Threads \ {t} : pc'[u] = pc[u] /\ ret'[u] = ret[u]
    BY <1>1, <1>22, GoesOnly, RetOnly DEF BeginLoad
  <2>2. (InInit(t)' => InInit(t)) /\ (WaitsInit(t)' => WaitsInit(t) /\ stack'[t] = stack[t])
    BY <2>1 DEF InInit, WaitsInit, LoadsForInit
  <2> QED
    BY <1>1, <2>1, <2>2, PhaseQuiet
<1>23. ASSUME NEW t \in Threads, BridgeCall(t)
       PROVE  AheadInv' /\ SwitchInv'
  <2>1. /\ pc[t] \in {"entry", "exit"} /\ UNCHANGED <<vm, m_vm_is_dead, engaged, threadEvents>>
        /\ \/ /\ Goes(t, pc[t], "java") /\ UNCHANGED ret
              /\ \/ UNCHANGED stack
                 \/ \E s : stack' = [stack EXCEPT ![t] = s]
           \/ /\ Goes(t, pc[t], "natLock") /\ ret' = [ret EXCEPT ![t] = pc[t]] /\ engaged # 0
              /\ UNCHANGED stack
    BY <1>23 DEF BridgeCall, After, Pop
  <2>2. CASE /\ Goes(t, pc[t], "java") /\ UNCHANGED ret
             /\ UNCHANGED stack \/ \E s : stack' = [stack EXCEPT ![t] = s]
    <3>1. \A u \in Threads \ {t} : stack'[u] = stack[u]
      BY <1>1, <2>2, StackOnly
    <3> QED
      BY <1>3, <2>1, <2>2, <3>1
  <2>3. CASE /\ Goes(t, pc[t], "natLock") /\ ret' = [ret EXCEPT ![t] = pc[t]] /\ engaged # 0
             /\ UNCHANGED stack
    <3>1. /\ pc'[t] = "natLock"
          /\ \A u \in Threads \ {t} : ret'[u] = ret[u] /\ stack'[u] = stack[u]
      BY <1>1, <2>3, GoesOnly, RetOnly
    <3>2. ~InInit(t)' /\ ~WaitsInit(t)'
      BY <3>1 DEF InInit, WaitsInit, LoadsForInit
    <3> QED
      BY <1>1, <2>1, <2>3, <3>1, <3>2, PhaseQuiet
  <2> QED
    BY <2>1, <2>2, <2>3
(* A native that gets past its checks runs with the switch on.             *)
<1>24. ASSUME NEW t \in Threads, NativeChecks(t)
       PROVE  AheadInv' /\ SwitchInv'
  <2>1. \/ UNCHANGED pc /\ Fatal("range")
        \/ /\ Goes(t, "natIn", "natExit")
           /\ UNCHANGED <<vm, m_vm_is_dead, engaged, threadEvents, ret, stack>>
        \/ /\ Goes(t, "natIn", "enqueue") /\ ~m_vm_is_dead /\ <<Name(t), Top(t)[2]>> \in Reported
           /\ UNCHANGED <<vm, m_vm_is_dead, engaged, threadEvents, ret, stack>>
    BY <1>24 DEF NativeChecks
  <2>2. CASE /\ Goes(t, "natIn", "enqueue") /\ ~m_vm_is_dead
             /\ <<Name(t), Top(t)[2]>> \in Reported
             /\ UNCHANGED <<vm, m_vm_is_dead, engaged, threadEvents, ret, stack>>
    <3>1. /\ pc[t] = "natIn" /\ pc'[t] = "enqueue"
          /\ \A u \in Threads \ {t} : pc'[u] = pc[u]
      BY <1>1, <2>2, GoesOnly
    <3>2. ~Ahead
      BY <3>1 DEF AheadInv
    <3>3. ~Ahead'
      <4>1. WaitsInit(Main)' => WaitsInit(Main)
        BY <2>2, <3>1 DEF WaitsInit, LoadsForInit
      <4> QED
        BY <2>2, <3>2, <4>1 DEF Ahead, Rising
    <3>4. AheadInv'
      BY <3>3 DEF AheadInv, Ahead
    <3>5. \A u \in Threads : pc[u] # "deathMark"
      <4>1. ASSUME NEW u \in Threads, pc[u] = "deathMark"
            PROVE  FALSE
        BY <1>1, <3>1, <4>1, Exclusion DEF LockedPCs
      <4> QED
        BY <4>1
    <3>6. engaged # 0
      BY <2>2, <3>1, <3>5 DEF SwitchInv
    <3>7. Top(t) \in Reported
      <4>1. Top(t) \in Classes \X Nat /\ Name(t) = Top(t)[1]
        BY <3>1, TypeParts, NameIsTop DEF IInv
      <4> QED
        BY <2>2, <4>1
    <3>8. SwitchInv'
      <4>1. \A u \in Threads : Top(u)' = Top(u)
        BY <2>2 DEF Top
      <4>2. \A u \in Threads : pc'[u] \in Disengaged => pc'[u] = pc[u]
        BY <3>1
      <4>3. \A u \in Threads : pc'[u] = "enqueue" => Top(u)' \in Reported
        BY <3>1, <3>7, <4>1 DEF SwitchInv
      <4> QED
        BY <2>2, <3>6, <4>2, <4>3 DEF SwitchInv
    <3> QED
      BY <3>4, <3>8
  <2> QED
    BY <1>2, <1>5, <2>1, <2>2
<1>25. ASSUME NEW t \in Threads, NativeUnlock(t)
       PROVE  AheadInv' /\ SwitchInv'
  <2>1. /\ Goes(t, "natExit", "java")
        /\ UNCHANGED <<vm, m_vm_is_dead, engaged, threadEvents, ret>>
        /\ UNCHANGED stack \/ \E s : stack' = [stack EXCEPT ![t] = s]
    BY <1>25 DEF NativeUnlock, Leave, After, Pop
  <2>2. /\ pc[t] = "natExit" /\ \A u \in Threads \ {t} : stack'[u] = stack[u]
    BY <1>1, <2>1, StackOnly, GoesOnly
  <2> QED
    BY <1>3, <2>1, <2>2
<1>26. ASSUME NEW t \in Threads, Calls(t) \/ ReturnUntraced(t) \/ Throw(t)
       PROVE  AheadInv' /\ SwitchInv'
  <2>1. /\ \E to \in {"java", "entry"} : Goes(t, "java", to)
        /\ UNCHANGED <<vm, m_vm_is_dead, engaged, threadEvents, ret>>
        /\ \E s : stack' = [stack EXCEPT ![t] = s]
    BY <1>26 DEF Calls, Call, ReturnUntraced, Throw, Pop
  <2>2. /\ pc[t] = "java" /\ \A u \in Threads \ {t} : stack'[u] = stack[u]
    BY <1>1, <2>1, StackOnly, GoesOnly
  <2> QED
    BY <1>3, <2>1, <2>2
<1>27. CASE UNCHANGED vars
  BY <1>4, <1>27
<1> HIDE DEF HookPCs, HookInside, NativePCs, InitPCs, DeathPCs, Disengaged, Awaiting
<1> QED
  BY <1>7, <1>8, <1>9, <1>10, <1>11, <1>12, <1>13, <1>14, <1>15, <1>16, <1>17, <1>18,
     <1>19, <1>20, <1>21, <1>22, <1>23, <1>24, <1>25, <1>26, <1>27
     DEF Next, MainStep, Works, CallsServer, JavaCode, Finished, Calls

LEMMA PhaseInit == Init => AheadInv /\ SwitchInv
  BY DEF Init, AheadInv, Ahead, Rising, WaitsInit, Awaiting, LoadsForInit, InInit, InitPCs,
         Late, SwitchInv, Disengaged, NativePCs, DeathPCs, HookPCs, HookInside

-----------------------------------------------------------------------------
(* Between the call and the message of its entry, and between the message  *)
(* of its exit and the return, the frame on top is not open.               *)
PendingAt(line, call) ==
  \/ line = "entry"
  \/ line \in HookPCs \cup {"natLock", "natIn", "enqueue"} /\ call = "entry"
  \/ line = "natExit" /\ call = "exit"
Pending(t) == PendingAt(pc[t], ret[t])

(* The frames that were reported as entered and not as left.               *)
Shown(f) == Traced(f) /\ f \in Reported
Open(t) ==
  {p \in 1 .. Len(stack[t]) : Shown(stack[t][p]) /\ ~ (p = Len(stack[t]) /\ Pending(t))}

NestInv ==
  \A t \in Threads \ EarlyThreads : t \notin threw /\ engaged # 0 =>
    \E at \in [Nat -> Nat] : Chain(sent, t, stack[t], Open(t), at)

NestIInv == IInv /\ AheadInv /\ SwitchInv /\ NestInv /\ WellNested

LEMMA OpenSame ==
  ASSUME IInv, [Next]_vars, NEW t \in Threads, stack'[t] = stack[t],
         stack[t] # <<>> /\ Shown(Top(t)) => (Pending(t)' <=> Pending(t))
  PROVE  Open(t)' = Open(t)
<1>1. StackTyped /\ FrameInv
  BY TypeParts DEF IInv
<1>2. ASSUME NEW p \in 1 .. Len(stack[t])
      PROVE  Shown(stack[t][p])' <=> Shown(stack[t][p])
  BY <1>1, <1>2, LoadedKept DEF FrameInv, Shown, Traced
<1>3. ASSUME NEW p \in 1 .. Len(stack[t]), p = Len(stack[t])
      PROVE  stack[t] # <<>> /\ Top(t) = stack[t][p]
  BY <1>1, <1>3 DEF Top, Last, StackTyped
<1> QED
  BY <1>2, <1>3 DEF Open

LEMMA OpenPush ==
  ASSUME IInv, [Next]_vars, NEW t \in Threads, NEW f, f \in Classes \X Nat, f[1] \in loaded,
         stack'[t] = Append(stack[t], f), ~Pending(t), Traced(f) => Pending(t)'
  PROVE  Open(t)' = Open(t) /\ \A p \in Open(t) : stack'[t][p] = stack[t][p]
<1>1. StackTyped /\ FrameInv
  BY TypeParts DEF IInv
<1>2. PICK s : s = stack[t]
  OBVIOUS
<1>3. PICK s2 : s2 = stack'[t]
  OBVIOUS
<1>4. s \in Seq(Classes \X Nat) /\ s2 = Append(s, f)
  BY <1>1, <1>2, <1>3 DEF StackTyped
<1>5. /\ Len(s) \in Nat /\ Len(s2) = Len(s) + 1
      /\ \A p \in 1 .. Len(s) : s2[p] = s[p]
      /\ s2[Len(s) + 1] = f
  BY <1>4, AppendProperties, LenProperties
<1>6. ASSUME NEW p \in 1 .. Len(s)
      PROVE  Shown(s[p])' <=> Shown(s[p])
  BY <1>1, <1>2, LoadedKept DEF FrameInv, Shown, Traced
<1>7. Shown(f)' => Pending(t)'
  BY LoadedKept DEF Shown, Traced
<1>8. Open(t) = {p \in 1 .. Len(s) : Shown(s[p])}
  BY <1>2 DEF Open
<1>9. Open(t)' = {p \in 1 .. Len(s2) : Shown(s2[p])' /\ ~ (p = Len(s2) /\ Pending(t)')}
  BY <1>3 DEF Open
<1>10. ASSUME NEW p \in 1 .. Len(s2)
       PROVE  Shown(s2[p])' /\ ~ (p = Len(s2) /\ Pending(t)')
                <=> p \in 1 .. Len(s) /\ Shown(s[p])
  <2>1. CASE p = Len(s) + 1
    BY <1>5, <1>7, <2>1
  <2>2. CASE p # Len(s) + 1
    <3>1. p \in 1 .. Len(s) /\ p # Len(s2)
      BY <1>5, <2>2
    <3> QED
      BY <1>5, <1>6, <3>1
  <2> QED
    BY <2>1, <2>2
<1>11. 1 .. Len(s) \subseteq 1 .. Len(s2)
  BY <1>5
<1> QED
  BY <1>2, <1>3, <1>5, <1>8, <1>9, <1>10, <1>11

LEMMA OpenPop ==
  ASSUME IInv, [Next]_vars, NEW t \in Threads, stack[t] # <<>>,
         stack'[t] = Front(stack[t]), ~Pending(t)', Shown(Top(t)) => Pending(t)
  PROVE  Open(t)' = Open(t) /\ \A p \in Open(t) : stack'[t][p] = stack[t][p]
<1>1. StackTyped /\ FrameInv
  BY TypeParts DEF IInv
<1>2. PICK s : s = stack[t]
  OBVIOUS
<1>3. PICK s2 : s2 = stack'[t]
  OBVIOUS
<1>5. /\ Len(s) \in Nat /\ Len(s2) = Len(s) - 1 /\ Len(s2) \in Nat
      /\ \A p \in 1 .. Len(s2) : s2[p] = s[p]
      /\ Top(t) = s[Len(s)]
  BY <1>1, <1>2, <1>3, PopTyped
<1>6. ASSUME NEW p \in 1 .. Len(s)
      PROVE  Shown(s[p])' <=> Shown(s[p])
  BY <1>1, <1>2, LoadedKept DEF FrameInv, Shown, Traced
<1>8. Open(t) = {p \in 1 .. Len(s) : Shown(s[p]) /\ ~ (p = Len(s) /\ Pending(t))}
  BY <1>2 DEF Open
<1>9. Open(t)' = {p \in 1 .. Len(s2) : Shown(s2[p])'}
  BY <1>3 DEF Open
<1>10. ASSUME NEW p \in 1 .. Len(s)
       PROVE  Shown(s[p]) /\ ~ (p = Len(s) /\ Pending(t))
                <=> p \in 1 .. Len(s2) /\ Shown(s2[p])'
  <2>1. CASE p = Len(s)
    BY <1>5, <2>1
  <2>2. CASE p # Len(s)
    <3>1. p \in 1 .. Len(s2)
      BY <1>5, <2>2
    <3> QED
      BY <1>5, <1>6, <2>2, <3>1
  <2> QED
    BY <2>1, <2>2
<1>11. 1 .. Len(s2) \subseteq 1 .. Len(s)
  BY <1>5
<1>12. Open(t)' = Open(t)
  BY <1>8, <1>9, <1>10, <1>11
<1> QED
  BY <1>2, <1>3, <1>5, <1>9, <1>12

(* What neither calls, returns nor sends moves no frame and keeps pending  *)
(* what is pending.                                                        *)
Steady ==
  /\ UNCHANGED <<stack, threw, sent>>
  /\ \A u \in Threads : Shown(Top(u)) => (Pending(u)' <=> Pending(u))

LEMMA SteadyStep ==
  ASSUME IInv, SwitchInv, engaged # 0, [Next]_vars
  PROVE  Steady \/ \E t \in Threads : Calls(t) \/ Unwinds(t) \/ Enqueue(t)
<1> USE DEF HookPCs, HookInside, NativePCs
<1>1. PcTyped /\ RetTyped /\ FlagsTyped /\ StackTyped /\ LockInv /\ FlagInv
  BY TypeParts DEF IInv
<1>2. ASSUME NEW t \in Threads, NEW from, NEW to, Goes(t, from, to),
             UNCHANGED <<java, sent, ret>>,
             PendingAt(to, ret[t]) <=> PendingAt(from, ret[t])
      PROVE  Steady
  <2>1. /\ pc[t] = from /\ pc'[t] = to
        /\ \A u \in Threads \ {t} : pc'[u] = pc[u]
    BY <1>1, <1>2, GoesOnly
  <2>2. \A u \in Threads : Pending(u)' <=> Pending(u)
    BY <1>2, <2>1 DEF Pending
  <2> QED
    BY <1>2, <2>2 DEF Steady
<1>3. ASSUME UNCHANGED <<java, sent, ret, pc>>
      PROVE  Steady
  BY <1>3 DEF Steady, Pending
<1>4. ASSUME NEW t \in Threads, UNCHANGED <<java, sent>>,
             \A u \in Threads \ {t} : pc'[u] = pc[u] /\ ret'[u] = ret[u],
             Pending(t)' <=> Pending(t)
      PROVE  Steady
  <2>1. \A u \in Threads : Pending(u)' <=> Pending(u)
    BY <1>4 DEF Pending
  <2> QED
    BY <1>4, <2>1 DEF Steady
<1>5. CASE OnLoad
  <2>1. UNCHANGED <<java, sent, ret>> /\ vm = "onload" /\ pc' = [pc EXCEPT ![Main] = "java"]
    BY <1>5 DEF OnLoad
  <2>2. /\ pc[Main] = "none" /\ pc'[Main] = "java"
        /\ \A u \in Threads \ {Main} : pc'[u] = pc[u]
    BY <1>1, <2>1 DEF FlagInv, PcTyped
  <2> QED
    BY <1>4, <2>1, <2>2 DEF Pending, PendingAt
<1>6. CASE OnLoadFails \/ VMInitFails \/ (\E t \in Threads : VMDeathFails(t)) \/ UNCHANGED vars
  BY <1>3, <1>6 DEF OnLoadFails, VMInitFails, VMDeathFails, Fatal
<1>7. CASE PostVMStart \/ PostVMInit \/ MainStep \/ VMInitLock
  BY <1>2, <1>7
     DEF PostVMStart, PostVMInit, MainStep, VMInitLock, Enter, VMStart, VMInitFind, VMInitRegister,
         VMInitEngage, VMInitEvents, VMInitUnlock, Leave, PendingAt
<1>8. ASSUME NEW t \in Threads, Locks(t)
      PROVE  Steady
  BY <1>2, <1>8
     DEF Locks, HookLock, NativeLock, ThreadEventLock, VMDeathLock, Enter, PendingAt
<1>9. ASSUME NEW t \in Threads,
             \/ PostVMDeath(t) \/ VMDeathDisengage(t) \/ VMDeathMark(t) \/ VMDeathUnlock(t)
             \/ OnUnload(t) \/ ThreadEvent(t) \/ GetThreadInfo(t) \/ ReturnTraced(t)
      PROVE  Steady
  BY <1>2, <1>9
     DEF PostVMDeath, VMDeathDisengage, VMDeathMark, VMDeathUnlock, Leave, OnUnload,
         ThreadEvent, GetThreadInfo, ReturnTraced, PendingAt
<1>10. ASSUME NEW t \in Threads, BeginThread(t) \/ EndThread(t)
       PROVE  Steady
  <2>1. PICK from \in {"none", "java"} : \E to \in {"evLock", "java", "ended"},
                                            r \in {"java", "ended"} :
          Goes(t, from, to) /\ ret' = [ret EXCEPT ![t] = r]
    BY <1>10 DEF BeginThread, EndThread
  <2>2. /\ pc[t] = from /\ pc'[t] \in {"evLock", "java", "ended"}
        /\ \A u \in Threads \ {t} : pc'[u] = pc[u] /\ ret'[u] = ret[u]
    BY <1>1, <2>1, GoesOnly, RetOnly
  <2>3. UNCHANGED <<java, sent>> /\ ~Pending(t) /\ ~Pending(t)'
    BY <1>10, <2>2 DEF BeginThread, EndThread, Pending, PendingAt
  <2> QED
    BY <1>4, <2>2, <2>3
<1>11. ASSUME NEW t \in Threads, ThreadEventUnlock(t)
       PROVE  Steady
  <2>1. ret[t] \in {"java", "ended"}
    BY <1>1, <1>11 DEF ThreadEventUnlock, Leave, Goes, LockInv, RetFits, EventPCs
  <2> QED
    BY <1>2, <1>11, <2>1 DEF ThreadEventUnlock, Leave, PendingAt
<1>12. ASSUME NEW t \in Threads, NEW c \in Classes,
              LoadUnhooked(t, c) \/ HookSkips(t, c) \/ HookNumbers(t, c) \/ HookAppends(t, c)
       PROVE  Steady
  BY <1>2, <1>12 DEF LoadUnhooked, HookSkips, HookNumbers, HookAppends, PendingAt
<1>13. ASSUME NEW t \in Threads, NEW c \in Classes, HookRewrites(t, c)
       PROVE  Steady
  <2>1. \/ UNCHANGED <<java, sent, ret, pc>>
        \/ Goes(t, "hookRewrite", "hookExit") /\ UNCHANGED <<java, sent, ret>>
    BY <1>13 DEF HookRewrites, Fatal
  <2> QED
    BY <1>2, <1>3, <2>1 DEF PendingAt
<1>14. ASSUME NEW t \in Threads, NEW c \in Classes, HookUnlock(t, c)
       PROVE  Steady
  <2>1. ret[t] \in {"java", "entry", "exit", "initFind"}
    BY <1>1, <1>14 DEF HookUnlock, Leave, Goes, LockInv, RetFits
  <2> QED
    BY <1>2, <1>14, <2>1 DEF HookUnlock, Leave, PendingAt
<1>15. ASSUME NEW t \in Threads, NEW c \in Classes, BeginLoad(t, c)
       PROVE  Steady
  <2>1. /\ pc[t] \in {"java", "entry", "exit", "initFind"} /\ pc'[t] = "hookLock"
        /\ ret'[t] = pc[t] /\ UNCHANGED <<java, sent>>
        /\ \A u \in Threads \ {t} : pc'[u] = pc[u] /\ ret'[u] = ret[u]
    BY <1>1, <1>15, GoesOnly, RetOnly DEF BeginLoad
  <2>2. Pending(t)' <=> Pending(t)
    BY <2>1 DEF Pending, PendingAt
  <2> QED
    BY <1>4, <2>1, <2>2
(* With the switch on, only a method that is not on the list goes by.      *)
<1>16. ASSUME NEW t \in Threads, NativeChecks(t)
       PROVE  Steady
  <2>1. \/ UNCHANGED <<java, sent, ret, pc>>
        \/ Goes(t, "natIn", "enqueue") /\ UNCHANGED <<java, sent, ret>>
        \/ /\ Goes(t, "natIn", "natExit") /\ UNCHANGED <<java, sent, ret>>
           /\ m_vm_is_dead \/ <<Name(t), Top(t)[2]>> \notin Reported
    BY <1>16 DEF NativeChecks, Fatal
  <2>2. CASE Goes(t, "natIn", "natExit") /\ UNCHANGED <<java, sent, ret>>
             /\ (m_vm_is_dead \/ <<Name(t), Top(t)[2]>> \notin Reported)
    <3>1. /\ pc[t] = "natIn" /\ \A u \in Threads \ {t} : pc'[u] = pc[u]
      BY <1>1, <2>2, GoesOnly
    <3>2. Top(t) \notin Reported
      <4>1. Top(t) \in Classes \X Nat /\ Name(t) = Top(t)[1]
        BY <3>1, TypeParts, NameIsTop DEF IInv
      <4> QED
        BY <2>2, <4>1 DEF SwitchInv
    <3> QED
      BY <2>2, <3>1, <3>2 DEF Steady, Shown, Pending
  <2> QED
    BY <1>2, <1>3, <2>1, <2>2 DEF PendingAt
<1> HIDE DEF HookPCs, HookInside, NativePCs, Steady
<1> QED
  BY <1>5, <1>6, <1>7, <1>8, <1>9, <1>10, <1>11, <1>12, <1>13, <1>14, <1>15, <1>16
     DEF Next, Works, CallsServer, JavaCode, Finished, Calls, Unwinds

LEMMA SwitchWriters ==
  ASSUME [Next]_vars
  PROVE  engaged' = engaged \/ VMInitEngage \/ engaged' = 0
<1>1. ASSUME NEW t \in Threads, Works(t) \/ CallsServer(t) \/ VMDeathFails(t) \/ Locks(t)
      PROVE  engaged' = engaged \/ engaged' = 0
  BY <1>1 DEF CallsServer, VMDeathFails, Locks, Enqueue, OnUnload, HookLock, NativeLock,
              ThreadEventLock, VMDeathLock, Fatal, Works, BeginLoad, HookSkips, HookNumbers,
              HookAppends, HookRewrites, HookUnlock, BridgeCall, NativeChecks, NativeUnlock,
              ThreadEvent, GetThreadInfo, ThreadEventUnlock, VMDeathDisengage, VMDeathMark,
              VMDeathUnlock
<1>2. ASSUME NEW t \in Threads, JavaCode(t)
      PROVE  engaged' = engaged
  BY <1>2 DEF JavaCode, BeginThread, EndThread, PostVMDeath, BeginLoad, LoadUnhooked, Call,
              ReturnTraced, ReturnUntraced, Throw
<1>3. CASE OnLoad \/ OnLoadFails \/ PostVMStart \/ PostVMInit \/ VMInitLock \/ VMInitFails
  BY <1>3 DEF OnLoad, OnLoadFails, PostVMStart, PostVMInit, VMInitLock, VMInitFails, Fatal
<1>4. CASE MainStep
  BY <1>4 DEF MainStep, VMStart, VMInitFind, VMInitRegister, VMInitEvents, VMInitUnlock
<1> QED
  BY <1>1, <1>2, <1>3, <1>4 DEF Next, Finished

LEMMA ChainFrames ==
  ASSUME NEW msgs, NEW t, NEW frames, NEW frames2, NEW O, NEW at,
         Chain(msgs, t, frames, O, at), \A p \in O : frames2[p] = frames[p]
  PROVE  Chain(msgs, t, frames2, O, at)
  BY DEF Chain, EntryMessage

(* A thread whose open frames stay, while nothing is sent.                 *)
LEMMA NestKept ==
  ASSUME NestInv, engaged # 0, NEW t \in Threads \ EarlyThreads, t \notin threw,
         sent' = sent, Open(t)' = Open(t), \A p \in Open(t) : stack'[t][p] = stack[t][p]
  PROVE  \E at \in [Nat -> Nat] : Chain(sent', t, stack'[t], Open(t)', at)
<1>1. PICK at \in [Nat -> Nat] : Chain(sent, t, stack[t], Open(t), at)
  BY DEF NestInv
<1>2. Chain(sent, t, stack'[t], Open(t), at)
  BY <1>1, ChainFrames
<1> QED
  BY <1>1, <1>2

(* Nobody but early threads runs a method when the switch is turned on.    *)
LEMMA NestEngage ==
  ASSUME IInv, AheadInv, VMInitEngage
  PROVE  NestInv'
<1>1. pc[Main] = "initEngage" /\ UNCHANGED <<stack, threw>>
  BY DEF VMInitEngage, Goes
<1>2. ASSUME NEW t \in Threads \ EarlyThreads
      PROVE  stack[t] = <<>>
  BY <1>1 DEF AheadInv, Ahead, WaitsInit, Awaiting, Late
<1>3. ASSUME NEW t \in Threads \ EarlyThreads
      PROVE  Open(t)' = {}
  BY <1>1, <1>2 DEF Open
<1>4. [i \in Nat |-> 0] \in [Nat -> Nat]
  OBVIOUS
<1>5. ASSUME NEW t \in Threads \ EarlyThreads, NEW at
      PROVE  Chain(sent', t, stack'[t], Open(t)', at)
  BY <1>3 DEF Chain
<1> QED
  BY <1>4, <1>5 DEF NestInv

(* Calls, and every way a method ends.                                     *)
LEMMA NestMoves ==
  ASSUME IInv, NestInv, engaged # 0, [Next]_vars, NEW t \in Threads, Calls(t) \/ Unwinds(t)
  PROVE  NestInv'
<1> USE DEF HookPCs, HookInside, NativePCs
<1>1. PcTyped /\ RetTyped /\ StackTyped /\ LoadTyped /\ FrameInv /\ LockInv
  BY TypeParts DEF IInv
<1>2. ASSUME NEW u \in Threads \ EarlyThreads, u \notin threw', engaged' # 0,
             sent' = sent, threw \subseteq threw', stack'[u] = stack[u],
             stack[u] # <<>> /\ Shown(Top(u)) => (Pending(u)' <=> Pending(u))
      PROVE  \E at \in [Nat -> Nat] : Chain(sent', u, stack'[u], Open(u)', at)
  BY <1>2, OpenSame, NestKept
<1>3. /\ sent' = sent /\ threw \subseteq threw'
      /\ \A u \in Threads \ {t} : /\ stack'[u] = stack[u]
                                  /\ Pending(u)' <=> Pending(u)
  <2>1. /\ sent' = sent /\ threw \subseteq threw'
        /\ UNCHANGED stack \/ \E s : stack' = [stack EXCEPT ![t] = s]
        /\ UNCHANGED ret \/ \E r : ret' = [ret EXCEPT ![t] = r]
        /\ \E from, to : Goes(t, from, to)
    BY DEF Calls, Call, Unwinds, ReturnUntraced, Throw, BridgeCall, NativeUnlock, Leave, After, Pop
  <2>2. \A u \in Threads \ {t} : stack'[u] = stack[u] /\ pc'[u] = pc[u] /\ ret'[u] = ret[u]
    BY <1>1, <2>1, StackOnly, GoesOnly, RetOnly
  <2> QED
    BY <2>1, <2>2 DEF Pending
<1>4. ASSUME t \notin EarlyThreads, t \notin threw', engaged' # 0
      PROVE  \E at \in [Nat -> Nat] : Chain(sent', t, stack'[t], Open(t)', at)
  <2>1. CASE Calls(t)
    <3>0. PICK c \in Classes : \E m \in Methods(c) : Call(t, c, m)
      BY <2>1 DEF Calls
    <3>m. PICK m \in Nat : Call(t, c, m)
      BY <3>0 DEF Methods
    <3>1. /\ Goes(t, "java", IF Traced(<<c, m>>) THEN "entry" ELSE "java")
          /\ stack' = [stack EXCEPT ![t] = Append(@, <<c, m>>)]
          /\ c \in loaded
      BY <3>m DEF Call
    <3>2. /\ pc[t] = "java" /\ pc'[t] = IF Traced(<<c, m>>) THEN "entry" ELSE "java"
          /\ stack'[t] = Append(stack[t], <<c, m>>)
      BY <1>1, <3>1, GoesOnly, StackOnly
    <3>3. ~Pending(t) /\ (Traced(<<c, m>>) => Pending(t)')
      BY <3>2 DEF Pending, PendingAt
    <3>4. <<c, m>> \in Classes \X Nat /\ <<c, m>>[1] \in loaded
      BY <3>1
    <3>5. Open(t)' = Open(t) /\ \A p \in Open(t) : stack'[t][p] = stack[t][p]
      BY <3>2, <3>3, <3>4, OpenPush
    <3> QED
      BY <1>3, <1>4, <3>5, NestKept
  <2>2. CASE ReturnUntraced(t)
    <3>1. /\ Goes(t, "java", "java") /\ stack[t] # <<>> /\ ~Traced(Top(t))
          /\ stack' = [stack EXCEPT ![t] = Front(@)]
      BY <2>2 DEF ReturnUntraced, Pop
    <3>2. pc'[t] = "java" /\ stack'[t] = Front(stack[t])
      BY <1>1, <3>1, GoesOnly, StackOnly
    <3>3. ~Pending(t)' /\ ~Shown(Top(t))
      BY <3>1, <3>2 DEF Pending, PendingAt, Shown
    <3>4. Open(t)' = Open(t) /\ \A p \in Open(t) : stack'[t][p] = stack[t][p]
      BY <3>1, <3>2, <3>3, OpenPop
    <3> QED
      BY <1>3, <1>4, <3>4, NestKept
  <2>3. CASE Throw(t)
    BY <1>4, <2>3 DEF Throw
  <2>4. CASE BridgeCall(t)
    <3>1. /\ pc[t] \in {"entry", "exit"} /\ stack' = stack
          /\ Goes(t, pc[t], "natLock") /\ ret' = [ret EXCEPT ![t] = pc[t]]
      BY <1>4, <2>4 DEF BridgeCall
    <3>2. pc'[t] = "natLock" /\ ret'[t] = pc[t]
      BY <1>1, <3>1, GoesOnly, RetOnly
    <3>3. Pending(t)' <=> Pending(t)
      BY <3>1, <3>2 DEF Pending, PendingAt
    <3> QED
      BY <1>2, <1>3, <1>4, <3>1, <3>3
  <2>5. CASE NativeUnlock(t)
    <3>1. /\ Goes(t, "natExit", "java") /\ ret' = ret
          /\ IF ret[t] = "exit" THEN stack' = [stack EXCEPT ![t] = Front(@)] ELSE stack' = stack
      BY <2>5 DEF NativeUnlock, Leave, After, Pop
    <3>2. pc[t] = "natExit" /\ pc'[t] = "java"
      BY <1>1, <3>1, GoesOnly
    <3>3. ~Pending(t)' /\ (Pending(t) <=> ret[t] = "exit")
      BY <3>2 DEF Pending, PendingAt
    <3>4. CASE ret[t] = "exit"
      <4>1. stack'[t] = Front(stack[t]) /\ stack[t] # <<>>
        BY <1>1, <3>1, <3>2, <3>4, StackOnly DEF FrameInv, InBridge
      <4>2. Open(t)' = Open(t) /\ \A p \in Open(t) : stack'[t][p] = stack[t][p]
        BY <3>3, <3>4, <4>1, OpenPop
      <4> QED
        BY <1>3, <1>4, <4>2, NestKept
    <3>5. CASE ret[t] # "exit"
      BY <1>2, <1>3, <1>4, <3>1, <3>3, <3>5
    <3> QED
      BY <3>4, <3>5
  <2> QED
    BY <2>1, <2>2, <2>3, <2>4, <2>5 DEF Unwinds
<1>5. ASSUME NEW u \in Threads \ EarlyThreads, u \notin threw', engaged' # 0
      PROVE  \E at \in [Nat -> Nat] : Chain(sent', u, stack'[u], Open(u)', at)
  <2>1. CASE u = t
    BY <1>4, <1>5, <2>1
  <2>2. CASE u # t
    BY <1>2, <1>3, <1>5, <2>2
  <2> QED
    BY <2>1, <2>2
<1> QED
  BY <1>5 DEF NestInv

(* What enqueue_for_sending() is given.                                    *)
LEMMA EnqueueSends ==
  ASSUME IInv, NEW t \in Threads, Enqueue(t)
  PROVE  /\ pc[t] = "enqueue" /\ pc'[t] = "natExit" /\ UNCHANGED <<stack, ret, threw, engaged>>
         /\ ret[t] \in {"entry", "exit"}
         /\ \A u \in Threads \ {t} : pc'[u] = pc[u]
         /\ Longer(sent, sent')
         /\ sent'[Len(sent')] = [EntryMessage(t, Top(t)) EXCEPT
                                   !.what = IF ret[t] = "entry" THEN "enter" ELSE "exit"]
         /\ sent'[Len(sent')].thread = t
         /\ sent'[Len(sent')].what = IF ret[t] = "entry" THEN "enter" ELSE "exit"
         /\ stack[t] # <<>> /\ Traced(Top(t)) /\ Top(t) = stack[t][Len(stack[t])]
<1>1. PcTyped /\ StackTyped /\ SentTyped /\ FrameInv /\ LockInv
  BY TypeParts DEF IInv
<1>2. /\ pc[t] = "enqueue" /\ pc'[t] = "natExit" /\ UNCHANGED <<stack, ret, threw, engaged>>
      /\ \A u \in Threads \ {t} : pc'[u] = pc[u]
  BY <1>1, GoesOnly DEF Enqueue
<1>3. ret[t] \in {"entry", "exit"}
  BY <1>1, <1>2 DEF LockInv, RetFits, NativePCs
<1>4. Name(t) = Top(t)[1]
  BY <1>1, <1>2, TypeParts, NameIsTop DEF IInv, NativePCs
<1>5. PICK msg : msg = [thread |-> t, class |-> Name(t), method |-> Top(t)[2],
                        what |-> IF ret[t] = "entry" THEN "enter" ELSE "exit"]
  OBVIOUS
<1>6. sent' = Append(sent, msg)
  BY <1>5 DEF Enqueue
<1>7. Longer(sent, sent') /\ sent'[Len(sent')] = msg
  BY <1>1, <1>6 DEF SentTyped, Longer
<1>8. stack[t] # <<>> /\ Traced(Top(t)) /\ Top(t) = stack[t][Len(stack[t])]
  BY <1>1, <1>2, PopTyped DEF FrameInv, InBridge, NativePCs
<1>9. /\ msg.thread = t
      /\ msg.what = IF ret[t] = "entry" THEN "enter" ELSE "exit"
      /\ msg = [EntryMessage(t, Top(t)) EXCEPT !.what = msg.what]
  BY <1>4, <1>5 DEF EntryMessage
<1> HIDE DEF EntryMessage
<1> QED
  BY <1>2, <1>3, <1>7, <1>8, <1>9

LEMMA NestEnqueue ==
  ASSUME IInv, SwitchInv, NestInv, [Next]_vars, NEW t \in Threads, Enqueue(t)
  PROVE  NestInv'
<1>1. StackTyped /\ engaged # 0 /\ Shown(Top(t))
  BY EnqueueSends, TypeParts DEF IInv, SwitchInv, Shown
<1>2. ASSUME NEW u \in Threads \ EarlyThreads, u # t, u \notin threw
      PROVE  \E at \in [Nat -> Nat] : Chain(sent', u, stack'[u], Open(u)', at)
  <2>1. PICK at \in [Nat -> Nat] : Chain(sent, u, stack[u], Open(u), at)
    BY <1>1, <1>2 DEF NestInv
  <2>2. Pending(u)' <=> Pending(u)
    <3>0. /\ \A v \in Threads \ {t} : pc'[v] = pc[v]
          /\ ret' = ret
      BY EnqueueSends
    <3>1. pc'[u] = pc[u] /\ ret' = ret
      BY <1>2, <3>0
    <3> QED
      BY <3>1 DEF Pending
  <2>3. stack'[u] = stack[u] /\ Open(u)' = Open(u)
    BY <2>2, EnqueueSends, OpenSame
  <2>4. sent'[Len(sent')].thread # u
    BY <1>2, EnqueueSends
  <2>5. Chain(sent', u, stack[u], Open(u), at)
    BY <2>1, <2>4, EnqueueSends, ChainOther
  <2> QED
    BY <2>1, <2>3, <2>5
<1>3. ASSUME t \notin EarlyThreads, t \notin threw
      PROVE  \E at \in [Nat -> Nat] : Chain(sent', t, stack'[t], Open(t)', at)
  <2>1. PICK at \in [Nat -> Nat] : Chain(sent, t, stack[t], Open(t), at)
    BY <1>1, <1>3 DEF NestInv
  <2>2. PICK top : top = Len(stack[t])
    OBVIOUS
  <2>3. top \in Nat \ {0} /\ Top(t) = stack[t][top] /\ stack'[t] = stack[t]
    BY <1>1, <2>2, EnqueueSends, PopTyped
  <2>4. \A p \in 1 .. top : Shown(stack[t][p])' <=> Shown(stack[t][p])
    <3>1. \A p \in 1 .. top : stack[t][p][1] \in loaded
      BY <2>2 DEF IInv, FrameInv
    <3> QED
      BY <2>3, <3>1, LoadedKept DEF Shown, Traced
  <2>5. /\ Open(t) = {p \in 1 .. top : Shown(stack[t][p]) /\ ~ (p = top /\ Pending(t))}
        /\ Open(t)' = {p \in 1 .. top : Shown(stack[t][p]) /\ ~ (p = top /\ Pending(t)')}
    BY <2>2, <2>3, <2>4 DEF Open
  <2>6. (Pending(t) <=> ret[t] = "entry") /\ (Pending(t)' <=> ret[t] = "exit")
    BY EnqueueSends DEF Pending, PendingAt, HookPCs, HookInside
  <2>7. top \in 1 .. top /\ Shown(stack[t][top])
    BY <1>1, <2>3
  <2>8. CASE ret[t] = "entry"
    <3>1. Open(t)' = Open(t) \cup {top} /\ Open(t) \subseteq Nat /\ \A r \in Open(t) : r < top
      BY <2>3, <2>5, <2>6, <2>7, <2>8
    <3>2. sent'[Len(sent')] = EntryMessage(t, stack[t][top])
      <4>1. sent'[Len(sent')] = [EntryMessage(t, Top(t)) EXCEPT !.what = "enter"]
        BY <2>8, EnqueueSends
      <4> QED
        BY <2>3, <4>1 DEF EntryMessage
    <3>3. PICK at2 : at2 = [at EXCEPT ![top] = Len(sent')]
      OBVIOUS
    <3>4. /\ at2 \in [Nat -> Nat] /\ at2[top] = Len(sent')
          /\ \A p \in Open(t) : at2[p] = at[p]
      <4>1. Len(sent') \in Nat
        BY EnqueueSends DEF Longer
      <4>2. \A p \in Open(t) : p \in Nat /\ p # top
        BY <3>1
      <4> QED
        BY <2>3, <3>3, <4>1, <4>2
    <3>5. top \in Nat /\ Longer(sent, sent')
      BY <2>3, EnqueueSends
    <3>6. Chain(sent', t, stack[t], Open(t) \cup {top}, at2)
      BY <2>1, <3>1, <3>2, <3>4, <3>5, ChainEntry
    <3> QED
      BY <2>3, <3>1, <3>4, <3>6
  <2>9. CASE ret[t] = "exit"
    <3>1. /\ Open(t)' = Open(t) \ {top} /\ Open(t) \subseteq Nat
          /\ top \in Open(t) /\ \A r \in Open(t) : r <= top
      BY <2>3, <2>5, <2>6, <2>7, <2>9
    <3>2. /\ sent'[Len(sent')].thread = t /\ sent'[Len(sent')].what = "exit"
          /\ Longer(sent, sent')
      BY <2>9, EnqueueSends
    <3>3. Chain(sent', t, stack[t], Open(t) \ {top}, at)
      BY <2>1, <3>1, <3>2, ChainExit
    <3> QED
      BY <2>1, <2>3, <3>1, <3>3
  <2> QED
    BY <2>8, <2>9, EnqueueSends
<1>4. ASSUME NEW u \in Threads \ EarlyThreads, u \notin threw'
      PROVE  \E at \in [Nat -> Nat] : Chain(sent', u, stack'[u], Open(u)', at)
  <2>1. u \notin threw
    BY <1>4, EnqueueSends
  <2> QED
    BY <1>2, <1>3, <1>4, <2>1
<1> QED
  BY <1>4 DEF NestInv

(* An exit leaves the open frame on top, whose entry is in the chain.      *)
LEMMA WellNestedStep ==
  ASSUME IInv, SwitchInv, NestInv, WellNested, [Next]_vars
  PROVE  WellNested'
<1>1. threw \subseteq threw'
  <2>1. ASSUME NEW t \in Threads, Calls(t) \/ Unwinds(t)
        PROVE  threw \subseteq threw'
    BY <2>1 DEF Calls, Call, Unwinds, ReturnUntraced, Throw, BridgeCall, NativeUnlock, After
  <2> QED
    BY <2>1, Writers
<1>2. CASE UNCHANGED sent
  BY <1>1, <1>2 DEF WellNested
<1>3. ASSUME NEW t \in Threads, Enqueue(t)
      PROVE  WellNested'
  <2>1. PICK n \in Nat : n = Len(sent) /\ Len(sent') = n + 1
    BY <1>3, EnqueueSends DEF Longer
  <2>2. \A i \in 1 .. n : sent'[i] = sent[i]
    BY <1>3, <2>1, EnqueueSends DEF Longer
  <2>3. ASSUME NEW u \in Threads \ (EarlyThreads \cup threw), NEW k \in 1 .. n,
               sent'[k].thread = u, sent'[k].what = "exit"
        PROVE  \E j \in 1 .. k - 1 : /\ sent'[j] = [sent'[k] EXCEPT !.what = "enter"]
                                     /\ Balanced(sent', u, j + 1, k - 1)
    <3>1. PICK j \in 1 .. k - 1 : /\ sent[j] = [sent[k] EXCEPT !.what = "enter"]
                                  /\ Balanced(sent, u, j + 1, k - 1)
      BY <2>1, <2>2, <2>3 DEF WellNested
    <3>2. j + 1 \in Nat /\ k - 1 \in Nat /\ \A i \in j + 1 .. k - 1 : sent'[i] = sent[i]
      BY <2>2
    <3>3. Balanced(sent', u, j + 1, k - 1)
      BY <3>1, <3>2, BalancedSame
    <3>4. sent'[j] = sent[j] /\ sent'[k] = sent[k]
      BY <2>2
    <3> QED
      BY <3>1, <3>3, <3>4
  <2>4. ASSUME t \notin EarlyThreads, t \notin threw, sent'[n + 1].what = "exit"
        PROVE  \E j \in 1 .. n : /\ sent'[j] = [sent'[n + 1] EXCEPT !.what = "enter"]
                                 /\ Balanced(sent', t, j + 1, n)
    <3>1. engaged # 0 /\ Top(t) \in Reported
      BY <1>3, EnqueueSends DEF SwitchInv
    <3>2. PICK at \in [Nat -> Nat] : Chain(sent, t, stack[t], Open(t), at)
      BY <2>4, <3>1 DEF NestInv
    <3>3. PICK top : top = Len(stack[t])
      OBVIOUS
    <3>4. StackTyped
      BY TypeParts DEF IInv
    <3>5. top \in Nat \ {0} /\ Top(t) = stack[t][top] /\ Shown(Top(t))
      BY <1>3, <3>1, <3>3, <3>4, EnqueueSends, PopTyped DEF Shown
    <3>6. ret[t] = "exit"
      BY <1>3, <2>1, <2>4, EnqueueSends
    <3>7. ~Pending(t)
      BY <1>3, <3>6, EnqueueSends DEF Pending, PendingAt, HookPCs, HookInside
    <3>a. Open(t) = {p \in 1 .. top : Shown(stack[t][p])}
      BY <3>3, <3>7 DEF Open
    <3>8. top \in Open(t) /\ LastOf(Open(t), top)
      BY <3>5, <3>a DEF LastOf
    <3>9. PICK j : j = at[top]
      OBVIOUS
    <3>10. /\ j \in 1 .. n /\ sent[j] = EntryMessage(t, Top(t))
           /\ Balanced(sent, t, j + 1, n)
      BY <2>1, <3>2, <3>5, <3>8, <3>9 DEF Chain
    <3>11. Balanced(sent', t, j + 1, n)
      <4>1. j + 1 \in Nat /\ \A i \in j + 1 .. n : sent'[i] = sent[i]
        BY <2>2, <3>10
      <4> QED
        BY <3>10, <4>1, BalancedSame
    <3>12. sent'[n + 1] = [EntryMessage(t, Top(t)) EXCEPT !.what = "exit"]
      <4>1. (IF ret[t] = "entry" THEN "enter" ELSE "exit") = "exit"
        BY <3>6
      <4>2. sent'[Len(sent')] = [EntryMessage(t, Top(t)) EXCEPT
                                  !.what = IF ret[t] = "entry" THEN "enter" ELSE "exit"]
        BY <1>3, EnqueueSends
      <4> QED
        BY <2>1, <4>1, <4>2
    <3>13. sent'[j] = [sent'[n + 1] EXCEPT !.what = "enter"]
      <4>1. sent'[j] = EntryMessage(t, Top(t))
        BY <2>2, <3>10
      <4>2. PICK f : f = Top(t)
        OBVIOUS
      <4>3. sent'[n + 1] = [thread |-> t, class |-> f[1], method |-> f[2], what |-> "exit"]
        BY <3>12, <4>2 DEF EntryMessage
      <4>4. sent'[j] = [thread |-> t, class |-> f[1], method |-> f[2], what |-> "enter"]
        BY <4>1, <4>2 DEF EntryMessage
      <4> QED
        BY <4>3, <4>4
    <3> QED
      BY <3>10, <3>11, <3>13
  <2>5. sent'[n + 1].thread = t
    BY <1>3, <2>1, EnqueueSends
  <2>6. ASSUME NEW u \in Threads \ (EarlyThreads \cup threw'), NEW k \in 1 .. Len(sent'),
               sent'[k].thread = u, sent'[k].what = "exit"
        PROVE  \E j \in 1 .. k - 1 : /\ sent'[j] = [sent'[k] EXCEPT !.what = "enter"]
                                     /\ Balanced(sent', u, j + 1, k - 1)
    <3>1. u \notin threw
      BY <1>1, <2>6
    <3>2. CASE k \in 1 .. n
      BY <2>3, <2>6, <3>1, <3>2
    <3>3. CASE k = n + 1
      <4>1. u = t /\ k - 1 = n
        BY <2>5, <2>6, <3>3
      <4> QED
        BY <2>4, <2>6, <3>1, <3>3, <4>1
    <3>4. k \in 1 .. n \/ k = n + 1
      BY <2>1, <2>6
    <3> QED
      BY <3>2, <3>3, <3>4
  <2> QED
    BY <2>6 DEF WellNested
<1> QED
  BY <1>2, <1>3, Writers

-----------------------------------------------------------------------------
(* The chains and the phases of the switch, with the invariant of the      *)
(* agent, are inductive.                                                   *)
THEOREM NestingInvariance == Spec => []NestIInv
<1>1. Init => NestIInv
  <2> SUFFICES ASSUME Init PROVE NestIInv
    OBVIOUS
  <2>1. IInv /\ AheadInv /\ SwitchInv
    BY Initially, PhaseInit
  <2>2. NestInv
    BY DEF Init, NestInv
  <2>3. Len(sent) = 0
    BY DEF Init
  <2>4. WellNested
    BY <2>3 DEF WellNested
  <2> QED
    BY <2>1, <2>2, <2>4 DEF NestIInv
<1>2. NestIInv /\ [Next]_vars => NestIInv'
  <2> SUFFICES ASSUME NestIInv, [Next]_vars PROVE NestIInv'
    OBVIOUS
  <2>1. IInv /\ AheadInv /\ SwitchInv /\ NestInv /\ WellNested
    BY DEF NestIInv
  <2>2. IInv'
    BY <2>1, TypeStep, LockStep, LoadStep, TableInvStep, FrameStep, FlagInvStep DEF IInv
  <2>3. AheadInv' /\ SwitchInv'
    BY <2>1, PhaseStep
  <2>4. NestInv'
    <3>1. CASE engaged = 0
      <4>1. CASE VMInitEngage
        BY <2>1, <4>1, NestEngage
      <4>2. CASE ~VMInitEngage
        <5>1. engaged' = 0
          BY <3>1, <4>2, SwitchWriters
        <5> QED
          BY <5>1 DEF NestInv
      <4> QED
        BY <4>1, <4>2
    <3>2. CASE engaged # 0
      <4>1. ASSUME NEW t \in Threads, Enqueue(t)
            PROVE  NestInv'
        BY <2>1, <4>1, NestEnqueue
      <4>2. ASSUME NEW t \in Threads, Calls(t) \/ Unwinds(t)
            PROVE  NestInv'
        BY <2>1, <3>2, <4>2, NestMoves
      <4>3. CASE Steady
        <5>1. \A u \in Threads \ EarlyThreads : stack'[u] = stack[u] /\ Open(u)' = Open(u)
          BY <2>1, <4>3, OpenSame DEF Steady
        <5>2. ASSUME NEW u \in Threads \ EarlyThreads, u \notin threw
              PROVE  \E at \in [Nat -> Nat] : Chain(sent', u, stack'[u], Open(u)', at)
          BY <2>1, <3>2, <4>3, <5>1, <5>2, NestKept DEF Steady
        <5>3. threw' = threw
          BY <4>3 DEF Steady
        <5> QED
          BY <5>2, <5>3 DEF NestInv
      <4> QED
        BY <2>1, <3>2, <4>1, <4>2, <4>3, SteadyStep
    <3> QED
      BY <3>1, <3>2
  <2>5. WellNested'
    BY <2>1, WellNestedStep
  <2> QED
    BY <2>2, <2>3, <2>4, <2>5 DEF NestIInv
<1> QED
  BY <1>1, <1>2, PTL DEF Spec

(* The trace of a thread that began after VMInit and ended no method by an *)
(* exception is well nested, whatever the other threads, their exceptions, *)
(* the class loader and the end of the VM do between its messages.         *)
THEOREM TraceIsNested == Spec => []WellNested
<1>1. NestIInv => WellNested
  BY DEF NestIInv
<1> QED
  BY <1>1, NestingInvariance, PTL

=============================================================================
