--------------------------- MODULE SequenceFacts ---------------------------
(***************************************************************************)
(* What the proofs need about the queues of the program, std::list and     *)
(* std::vector in the code, sequences in the models: erasing an element,   *)
(* appending, and taking the elements of a set in some order.              *)
(***************************************************************************)
EXTENDS Integers, Sequences, FiniteSets, SequencesExt, FiniteSetTheorems,
        SequenceTheorems, WellFoundedInduction, TLAPS

(* A search from the front finds the first of what it looks for.           *)
LEMMA LeastElement ==
  ASSUME NEW S \in SUBSET Nat, S # {}
  PROVE  \E i \in S : \A k \in S : i <= k
<1> DEFINE R == {ss \in Nat \X Nat : ss[1] < ss[2]}
<1>1. OpToRel(<, Nat) = R
  BY Zenon DEF OpToRel
<1>2. IsWellFoundedOn(R, Nat)
  BY <1>1, NatLessThanWellFounded, Zenon
<1> HIDE DEF R
<1>3. PICK x \in S : \A y \in S : ~ (<<y, x>> \in R)
  BY <1>2, WFMin
<1>4. \A y \in S : <<y, x>> \notin R <=> x <= y
  BY DEF R
<1> QED
  BY <1>3, <1>4

(* Where the other elements are when one has been erased. *)
LEMMA EraseAt ==
  ASSUME NEW S, NEW s \in Seq(S), NEW i \in DOMAIN s
  PROVE  /\ RemoveAt(s, i) \in Seq(S) /\ Len(RemoveAt(s, i)) = Len(s) - 1
         /\ \A j \in 1..(Len(s) - 1) : RemoveAt(s, i)[j] = IF j < i THEN s[j] ELSE s[j + 1]
<1>1. RemoveAt(s, i) = SubSeq(s, 1, i - 1) \o SubSeq(s, i + 1, Len(s))
  BY DEF RemoveAt
<1>2. i \in 1..Len(s)
  OBVIOUS
<1> DEFINE a == SubSeq(s, 1, i - 1)
           b == SubSeq(s, i + 1, Len(s))
<1>3. /\ a \in Seq(S) /\ Len(a) = i - 1
      /\ \A j \in 1..(i - 1) : a[j] = s[j]
  BY <1>2
<1>4. /\ b \in Seq(S) /\ Len(b) = Len(s) - i
      /\ \A j \in 1..(Len(s) - i) : b[j] = s[i + j]
  BY <1>2
<1>5. /\ a \o b \in Seq(S) /\ Len(a \o b) = Len(s) - 1
      /\ \A j \in 1..(Len(s) - 1) : (a \o b)[j] = IF j < i THEN s[j] ELSE s[j + 1]
  <2> HIDE DEF a, b
  <2>1. a \o b \in Seq(S) /\ Len(a \o b) = Len(s) - 1
    BY <1>2, <1>3, <1>4
  <2>2. \A j \in 1..(Len(s) - 1) : (a \o b)[j] = IF j < i THEN s[j] ELSE s[j + 1]
    <3> SUFFICES ASSUME NEW j \in 1..(Len(s) - 1)
                 PROVE (a \o b)[j] = IF j < i THEN s[j] ELSE s[j + 1]
      OBVIOUS
    <3>1. CASE j < i
      BY <3>1, <1>2, <1>3, <1>4
    <3>2. CASE ~(j < i)
      <4>1. (a \o b)[j] = b[j - (i - 1)]
        <5>1. j \in 1..(Len(a) + Len(b)) /\ ~(j <= Len(a))
          BY <3>2, <1>2, <1>3, <1>4
        <5> QED
          BY SMTT(60), <5>1, <1>3, <1>4, ConcatProperties
      <4>2. j - (i - 1) \in 1..(Len(s) - i)
        BY <3>2, <1>2
      <4>3. b[j - (i - 1)] = s[i + (j - (i - 1))]
        BY SMTT(60), <4>2, <1>4
      <4>4. i + (j - (i - 1)) = j + 1
        BY <1>2
      <4> QED
        BY <3>2, <4>1, <4>3, <4>4
    <3> QED
      BY <3>1, <3>2
  <2> QED
    BY <2>1, <2>2
<1> QED
  BY <1>1, <1>5

(***************************************************************************)
(* Erasing one element (tasks_.erase(cur) in Scheduler::take) leaves a     *)
(* sequence of the other ones.                                             *)
(***************************************************************************)
LEMMA EraseFacts ==
  ASSUME NEW S, NEW s \in Seq(S), NEW i \in DOMAIN s
  PROVE  /\ RemoveAt(s, i) \in Seq(S)
         /\ \A j \in DOMAIN RemoveAt(s, i) : \E k \in DOMAIN s : RemoveAt(s, i)[j] = s[k]
         /\ \A k \in DOMAIN s : k # i => \E j \in DOMAIN RemoveAt(s, i) : RemoveAt(s, i)[j] = s[k]
         /\ IsInjective(s) => /\ IsInjective(RemoveAt(s, i))
                              /\ \A j \in DOMAIN RemoveAt(s, i) : RemoveAt(s, i)[j] # s[i]
<1>1. RemoveAt(s, i) = SubSeq(s, 1, i - 1) \o SubSeq(s, i + 1, Len(s))
  BY DEF RemoveAt
<1>2. i \in 1..Len(s)
  OBVIOUS
<1> DEFINE a == SubSeq(s, 1, i - 1)
           b == SubSeq(s, i + 1, Len(s))
<1>3. /\ a \o b \in Seq(S) /\ Len(a \o b) = Len(s) - 1
      /\ \A j \in 1..(Len(s) - 1) : (a \o b)[j] = IF j < i THEN s[j] ELSE s[j + 1]
  BY <1>1, EraseAt
<1>4. DOMAIN (a \o b) = 1..(Len(s) - 1)
  <2> HIDE DEF a, b
  <2> QED BY <1>3
<1>5. \A k \in DOMAIN s : k # i => \E j \in DOMAIN (a \o b) : (a \o b)[j] = s[k]
  <2> HIDE DEF a, b
  <2>1. ASSUME NEW k \in 1..Len(s), k # i
        PROVE  \E j \in 1..(Len(s) - 1) : (a \o b)[j] = s[k]
    <3>1. k \in Int /\ i \in Int /\ Len(s) \in Nat
      BY <1>2
    <3>2. CASE k < i
      <4>1. k \in 1..(Len(s) - 1)
        BY <3>1, <3>2, <1>2
      <4>2. (a \o b)[k] = s[k]
        BY <4>1, <3>2, <1>3
      <4> QED BY <4>1, <4>2
    <3>3. CASE k > i
      <4>1. k - 1 \in 1..(Len(s) - 1) /\ ~(k - 1 < i) /\ (k - 1) + 1 = k
        BY <3>1, <3>3, <1>2, <2>1
      <4>2. (a \o b)[k - 1] = s[(k - 1) + 1]
        BY <4>1, <1>3
      <4> QED BY <4>1, <4>2
    <3>4. k < i \/ k > i
      BY <2>1, <3>1
    <3> QED
      BY <3>2, <3>3, <3>4
  <2>2. DOMAIN s = 1..Len(s)
    OBVIOUS
  <2> QED
    BY <2>1, <2>2, <1>4
<1>6. \A j \in DOMAIN (a \o b) : \E k \in DOMAIN s : (a \o b)[j] = s[k]
  <2> HIDE DEF a, b
  <2>a. DOMAIN s = 1..Len(s)
    OBVIOUS
  <2> SUFFICES ASSUME NEW j \in 1..(Len(s) - 1)
               PROVE \E k \in 1..Len(s) : (a \o b)[j] = s[k]
    BY <1>4, <2>a
  <2>1. j \in 1..Len(s) /\ j + 1 \in 1..Len(s)
    BY <1>2
  <2> QED
    BY <2>1, <1>3
<1>7. IsInjective(s) => IsInjective(a \o b) /\ \A j \in DOMAIN (a \o b) : (a \o b)[j] # s[i]
  <2> HIDE DEF a, b
  <2> SUFFICES ASSUME IsInjective(s)
               PROVE  /\ \A j, k \in 1..(Len(s) - 1) : (a \o b)[j] = (a \o b)[k] => j = k
                      /\ \A j \in 1..(Len(s) - 1) : (a \o b)[j] # s[i]
    BY <1>4 DEF IsInjective
  <2>1. \A j, k \in 1..Len(s) : s[j] = s[k] => j = k
    BY DEF IsInjective
  <2> DEFINE at(j) == IF j < i THEN j ELSE j + 1
  <2>2. \A j \in 1..(Len(s) - 1) : at(j) \in 1..Len(s) /\ at(j) # i /\ (a \o b)[j] = s[at(j)]
    BY <1>2, <1>3
  <2>3. \A j, k \in 1..(Len(s) - 1) : at(j) = at(k) => j = k
    BY <1>2
  <2> HIDE DEF at
  <2> QED
    BY <2>1, <2>2, <2>3, <1>2
<1>8. QED
  BY ZenonT(60), <1>1, <1>3, <1>4, <1>5, <1>6, <1>7

(***************************************************************************)
(* Appending (tasks_.emplace_back in Scheduler::schedule) keeps what is    *)
(* there, and adds nothing twice if the two had nothing in common.         *)
(***************************************************************************)
LEMMA ConcatFacts ==
  ASSUME NEW S, NEW s \in Seq(S), NEW u \in Seq(S)
  PROVE  /\ s \o u \in Seq(S)
         /\ Range(s \o u) = Range(s) \cup Range(u)
         /\ IsInjective(s) /\ IsInjective(u) /\ Range(s) \cap Range(u) = {}
              => IsInjective(s \o u)
<1>1. /\ s \o u \in Seq(S)
      /\ Len(s \o u) = Len(s) + Len(u) /\ Len(s) \in Nat /\ Len(u) \in Nat
      /\ \A j \in 1..(Len(s) + Len(u)) : (s \o u)[j] = IF j <= Len(s) THEN s[j] ELSE u[j - Len(s)]
  BY ConcatProperties
<1>2. DOMAIN s = 1..Len(s) /\ DOMAIN u = 1..Len(u) /\ DOMAIN (s \o u) = 1..(Len(s) + Len(u))
  BY <1>1
<1>3. /\ \A j \in DOMAIN s : j \in DOMAIN (s \o u) /\ (s \o u)[j] = s[j]
      /\ \A j \in DOMAIN u : j + Len(s) \in DOMAIN (s \o u) /\ (s \o u)[j + Len(s)] = u[j]
  BY <1>1, <1>2
<1>4. \A j \in DOMAIN (s \o u) :
        \/ j \in DOMAIN s /\ (s \o u)[j] = s[j]
        \/ ~(j <= Len(s)) /\ j - Len(s) \in DOMAIN u /\ (s \o u)[j] = u[j - Len(s)]
  BY <1>1, <1>2
<1>5. Range(s \o u) = Range(s) \cup Range(u)
  <2>1. ASSUME NEW x \in Range(s) \cup Range(u) PROVE x \in Range(s \o u)
    BY <1>3 DEF Range
  <2>2. ASSUME NEW x \in Range(s \o u) PROVE x \in Range(s) \cup Range(u)
    BY <1>4 DEF Range
  <2> QED
    BY <2>1, <2>2
<1>6. ASSUME IsInjective(s), IsInjective(u), Range(s) \cap Range(u) = {}
      PROVE  IsInjective(s \o u)
  <2> SUFFICES ASSUME NEW j \in DOMAIN (s \o u), NEW k \in DOMAIN (s \o u),
                      (s \o u)[j] = (s \o u)[k]
               PROVE  j = k
    BY DEF IsInjective
  <2>1. j \in Int /\ k \in Int /\ Len(s) \in Nat
    BY <1>1, <1>2
  <2>2. \A x \in DOMAIN s, y \in DOMAIN u : s[x] # u[y]
    BY <1>6 DEF Range
  <2>3. CASE j \in DOMAIN s /\ (s \o u)[j] = s[j]
    <3>1. k \in DOMAIN s /\ (s \o u)[k] = s[k]
      BY <1>4, <2>2, <2>3
    <3> QED
      BY <1>6, <2>3, <3>1 DEF IsInjective
  <2>4. CASE j - Len(s) \in DOMAIN u /\ (s \o u)[j] = u[j - Len(s)]
    <3>1. k - Len(s) \in DOMAIN u /\ (s \o u)[k] = u[k - Len(s)]
      BY <1>4, <2>2, <2>4
    <3>2. j - Len(s) = k - Len(s)
      BY <1>6, <2>4, <3>1 DEF IsInjective
    <3> QED
      BY <2>1, <3>2
  <2> QED
    BY <1>4, <2>3, <2>4
<1> QED
  BY <1>1, <1>5, <1>6

(***************************************************************************)
(* The elements of a finite set, each once, in some order (the callbacks   *)
(* that listExpiredCallback collects).                                     *)
(***************************************************************************)
LEMMA SetToSeqFacts ==
  ASSUME NEW S, IsFiniteSet(S)
  PROVE  SetToSeq(S) \in Seq(S) /\ IsInjective(SetToSeq(S)) /\ Range(SetToSeq(S)) = S
<1> DEFINE n == Cardinality(S)
           F == {f \in [1..n -> S] : IsInjective(f)}
<1>1. n \in Nat /\ ExistsBijection(1..n, S)
  BY FS_CardinalityType
<1>2. F # {}
  BY <1>1 DEF ExistsBijection, Bijection, Injection
<1>3. SetToSeq(S) \in F
  <2> HIDE DEF n
  <2>1. SetToSeq(S) = CHOOSE f \in [1..n -> S] : IsInjective(f)
    BY DEF SetToSeq, n
  <2> QED
    BY <1>2, <2>1
<1>4. SetToSeq(S) \in Injection(1..n, S)
  BY <1>3 DEF Injection
<1>5. Cardinality(1..n) = n
  <2> HIDE DEF n
  <2> QED
    BY <1>1, FS_Interval
<1>6. SetToSeq(S) \in Surjection(1..n, S)
  BY <1>4, <1>5, FS_Injection
<1>7. Range(SetToSeq(S)) = S
  BY <1>6 DEF Surjection, Range
<1>8. SetToSeq(S) \in Seq(S)
  <2> HIDE DEF n
  <2>1. SetToSeq(S) \in [1..n -> S]
    BY <1>3
  <2> QED
    BY <1>1, <2>1
<1> QED
  BY <1>3, <1>7, <1>8

(* A new element at the end of a sequence without repetitions. *)
LEMMA AppendFresh ==
  ASSUME NEW S, NEW s \in Seq(S), NEW c \in S, IsInjective(s), \A i \in DOMAIN s : s[i] # c
  PROVE  IsInjective(Append(s, c))
<1> DEFINE l == Append(s, c)
<1>1. DOMAIN s = 1..Len(s) /\ DOMAIN l = 1..(Len(s) + 1)
  OBVIOUS
<1>2. l[Len(s) + 1] = c /\ \A i \in 1..Len(s) : l[i] = s[i]
  OBVIOUS
<1>3. \A i \in 1..(Len(s) + 1) : i \in 1..Len(s) \/ i = Len(s) + 1
  OBVIOUS
<1>4. \A i, j \in DOMAIN s : s[i] = s[j] => i = j
  BY DEF IsInjective
<1> HIDE DEF l
<1>5. ASSUME NEW i \in DOMAIN l, NEW j \in DOMAIN l, l[i] = l[j] PROVE i = j
  <2>1. CASE i \in 1..Len(s) /\ j \in 1..Len(s)
    BY <1>1, <1>2, <1>4, <1>5, <2>1
  <2>2. CASE i \in 1..Len(s) /\ j = Len(s) + 1
    BY <1>1, <1>2, <1>5, <2>2
  <2>3. CASE i = Len(s) + 1 /\ j \in 1..Len(s)
    BY <1>1, <1>2, <1>5, <2>3
  <2>4. CASE i = Len(s) + 1 /\ j = Len(s) + 1
    BY <2>4
  <2> QED
    BY <1>1, <1>3, <2>1, <2>2, <2>3, <2>4
<1>6. IsInjective(l)
  BY <1>5 DEF IsInjective
<1> QED
  BY <1>6 DEF l

(* Taking the front of a queue. *)
LEMMA TailFacts ==
  ASSUME NEW S, NEW s \in Seq(S), s # <<>>
  PROVE  /\ Len(s) >= 1 /\ Head(s) = s[1] /\ Head(s) \in S
         /\ Tail(s) \in Seq(S) /\ Len(Tail(s)) = Len(s) - 1
         /\ \A i \in 1..(Len(s) - 1) : Tail(s)[i] = s[i + 1]
         /\ Tail(s) = <<>> <=> Len(s) = 1
<1>1. Len(s) >= 1 /\ Head(s) = s[1] /\ Head(s) \in S
  OBVIOUS
<1>2. /\ Tail(s) \in Seq(S) /\ Len(Tail(s)) = Len(s) - 1
      /\ \A i \in 1..(Len(s) - 1) : Tail(s)[i] = s[i + 1]
  BY <1>1
<1>3. \A q \in Seq(S) : q # <<>> => Len(q) # 0
  BY EmptySeq
<1>4. Tail(s) = <<>> <=> Len(s) = 1
  <2> DEFINE q == Tail(s)
  <2>1. q \in Seq(S) /\ Len(q) = Len(s) - 1 /\ Len(s) \in Nat
    BY <1>2
  <2>2. Len(<<>>) = 0
    BY EmptySeq
  <2> HIDE DEF q
  <2>3. q = <<>> <=> Len(s) = 1
    BY <1>1, <1>3, <2>1, <2>2
  <2> QED
    BY <2>3 DEF q
<1> QED
  BY <1>1, <1>2, <1>4

-----------------------------------------------------------------------------
(* Counting up: what holds at first and is kept by every step holds at last. *)
LEMMA CountingUp ==
  ASSUME NEW n \in Nat, NEW S, 0 \in S, \A i \in 1..n : i - 1 \in S => i \in S
  PROVE  \A i \in 0..n : i \in S
<1> DEFINE T == {i \in 0..n : i \notin S}
<1>1. SUFFICES ASSUME T # {} PROVE FALSE
  OBVIOUS
<1>2. T \in SUBSET Nat
  OBVIOUS
<1>3. PICK i \in T : \A k \in T : i <= k
  BY <1>1, <1>2, LeastElement
<1>4. i \in 1..n /\ i \notin S
  BY <1>3
<1>5. i - 1 \in 0..n /\ i - 1 \notin T
  BY <1>3, <1>4
<1> QED
  BY <1>4, <1>5

(* f is what a loop goes through that starts with b and does F[i] in round i. *)
Goes(f, n, b, F) == f[0] = b /\ \A i \in 1..n : f[i] = F[i][f[i - 1]]

LEMMA Loop ==
  ASSUME NEW n \in Nat, NEW X, NEW b \in X, NEW F \in [1..n -> [X -> X]]
  PROVE  \E f \in [0..n -> X] : Goes(f, n, b, F)
<1> DEFINE Runs(k) == {f \in [0..n -> X] : f[0] = b /\ \A i \in 1..k : f[i] = F[i][f[i - 1]]}
           S == {k \in 0..n : Runs(k) # {}}
<1>1. 0 \in S
  <2>1. [i \in 0..n |-> b] \in Runs(0)
    OBVIOUS
  <2> QED
    BY <2>1
<1>2. ASSUME NEW k \in 1..n, k - 1 \in S PROVE k \in S
  <2>1. PICK f \in [0..n -> X] : f[0] = b /\ \A i \in 1..(k - 1) : f[i] = F[i][f[i - 1]]
    BY <1>2
  <2>2. F[k][f[k - 1]] \in X
    <3>1. f[k - 1] \in X
      BY <2>1
    <3> QED
      BY <3>1
  <2> DEFINE g == [i \in 0..n |-> IF i = k THEN F[k][f[k - 1]] ELSE f[i]]
  <2>3. g \in [0..n -> X] /\ g[0] = b
    BY <2>1, <2>2
  <2>4. ASSUME NEW i \in 1..k PROVE g[i] = F[i][g[i - 1]]
    <3>1. g[i - 1] = f[i - 1]
      OBVIOUS
    <3>2. g[i] = F[i][f[i - 1]]
      BY <2>1
    <3> QED
      BY <3>1, <3>2
  <2>5. g \in Runs(k)
    BY <2>3, <2>4
  <2> QED
    BY SMTT(60), <2>5
<1>3. \A k \in 0..n : k \in S
  <2> HIDE DEF S
  <2> QED
    BY <1>1, <1>2, CountingUp
<1>4. n \in S
  BY SMTT(60), <1>3
<1>5. PICK f \in [0..n -> X] : f[0] = b /\ \A i \in 1..n : f[i] = F[i][f[i - 1]]
  BY <1>4
<1> QED
  BY <1>5 DEF Goes
=============================================================================
