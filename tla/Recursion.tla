----------------------------- MODULE Recursion -----------------------------
(***************************************************************************)
(* What the proofs about streams need of recursive functions: that the     *)
(* function a recursion over 0..n names exists, is unique and computes     *)
(* what its equation says.  The induction is over a set of numbers, since  *)
(* the provers cannot instantiate an induction theorem whose parameter is  *)
(* an operator; and a step is a function, for the same reason.             *)
(***************************************************************************)
EXTENDS Naturals, Sequences, SequencesExt, Filter, WellFoundedInduction, TLAPS

(* Induction up to a bound. *)
LEMMA Induction ==
  ASSUME NEW n \in Nat, NEW S, 0 \in S,
         \A i \in 0..n : i \in S /\ i < n => i + 1 \in S
  PROVE  \A i \in 0..n : i \in S
<1> DEFINE T == {i \in 0..n : i \notin S}
<1>1. SUFFICES ASSUME T # {} PROVE FALSE
  OBVIOUS
<1>2. T \subseteq Nat
  OBVIOUS
<1>3. PICK t \in T : \A y \in T : ~(<<y, t>> \in OpToRel(<, Nat))
  BY <1>1, <1>2, WFMin, NatLessThanWellFounded
<1>4. /\ t \in 0..n /\ t \notin S
      /\ t - 1 \in 0..n /\ t - 1 < n /\ (t - 1) + 1 = t
      /\ t - 1 \in Nat /\ t \in Nat /\ t - 1 < t
  <2>1. t \in 0..n /\ t \notin S
    OBVIOUS
  <2>2. t # 0
    BY <2>1
  <2>3. QED
    BY <2>1, <2>2
<1>5. t - 1 \in S
  <2>1. t - 1 \in T => <<t - 1, t>> \in OpToRel(<, Nat)
    BY <1>4 DEF OpToRel
  <2>2. QED
    BY <1>3, <1>4, <2>1
<1>6. QED
  BY <1>4, <1>5

(* f is computed from base by n steps that stay in S. *)
Recurs(f, n, S, base, step) ==
  /\ f \in [0..n -> S]
  /\ f[0] = base
  /\ \A i \in 1..n : f[i] = step[i][f[i - 1]]

(* Every recursion over 0..n has a solution. *)
LEMMA RecursionExists ==
  ASSUME NEW n \in Nat, NEW S, NEW base \in S, NEW step \in [1..n -> [S -> S]]
  PROVE  \E f : Recurs(f, n, S, base, step)
<1> DEFINE Solves(m, f) == f[0] = base /\ \A i \in 1..m : f[i] = step[i][f[i - 1]]
           T == {m \in 0..n : \E f \in [0..m -> S] : Solves(m, f)}
<1>1. 0 \in T
  <2> DEFINE f == [i \in 0..0 |-> base]
  <2>1. f \in [0..0 -> S] /\ f[0] = base /\ 1..0 = {} /\ 0 \in 0..n
    OBVIOUS
  <2> HIDE DEF f
  <2>2. QED
    BY <2>1
<1>2. ASSUME NEW m \in 0..n, m \in T, m < n
      PROVE  m + 1 \in T
  <2>1. PICK f \in [0..m -> S] : Solves(m, f)
    BY <1>2
  <2> DEFINE g == [i \in 0..m + 1 |-> IF i = m + 1 THEN step[m + 1][f[m]] ELSE f[i]]
  <2>2. m + 1 \in 1..n /\ m + 1 \in 0..n /\ m \in 0..m /\ m \in Nat
    BY <1>2
  <2>3. step[m + 1][f[m]] \in S
    BY <2>1, <2>2
  <2>4. g \in [0..m + 1 -> S]
    BY <2>3
  <2>5. g[0] = base
    BY <2>1, <2>2
  <2>6. ASSUME NEW i \in 1..m + 1
        PROVE  g[i] = step[i][g[i - 1]]
    <3>1. CASE i = m + 1
      <4>1. i - 1 = m /\ m \in 0..m + 1 /\ i \in 0..m + 1 /\ m # m + 1
        BY <3>1, <2>2
      <4>2. g[i - 1] = f[m] /\ g[i] = step[m + 1][f[m]]
        BY <3>1, <4>1
      <4>3. QED
        BY <3>1, <4>2
    <3>2. CASE i # m + 1
      <4>1. i \in 1..m /\ i \in 0..m + 1 /\ i - 1 \in 0..m + 1 /\ i - 1 # m + 1
        BY <3>2, <2>2
      <4>2. g[i - 1] = f[i - 1] /\ g[i] = f[i]
        BY <3>2, <4>1
      <4>3. f[i] = step[i][f[i - 1]]
        BY <2>1, <4>1
      <4>4. QED
        BY <4>2, <4>3
    <3>3. QED
      BY <3>1, <3>2
  <2> HIDE DEF g
  <2>7. QED
    BY <2>2, <2>4, <2>5, <2>6
<1> HIDE DEF T
<1>3. n \in T
  <2>1. \A m \in 0..n : m \in T
    BY <1>1, <1>2, Induction
  <2>2. QED
    BY <2>1
<1>4. QED
  BY <1>3 DEF T, Recurs

-----------------------------------------------------------------------------
(* Sequences are equal by their elements. *)
LEMMA SameSequence ==
  ASSUME NEW S, NEW s \in Seq(S), NEW t \in Seq(S), Len(s) = Len(t),
         \A i \in 1..Len(s) : s[i] = t[i]
  PROVE  s = t
OBVIOUS

(* A function on 1..n with values in S is a sequence. *)
LEMMA SequenceOf ==
  ASSUME NEW S, NEW n \in Nat, NEW s, s = [k \in 1..n |-> s[k]],
         \A k \in 1..n : s[k] \in S
  PROVE  s \in Seq(S) /\ Len(s) = n /\ DOMAIN s = 1..n
OBVIOUS

(* Flattening, by its partial results. *)
LEMMA FlattenSteps ==
  ASSUME NEW S, NEW ss \in Seq(Seq(S))
  PROVE  \E f \in [0..Len(ss) -> Seq(S)] :
           /\ f[0] = <<>>
           /\ \A i \in 1..Len(ss) : f[i] = f[i - 1] \o ss[i]
           /\ FlattenSeq(ss) = f[Len(ss)]
<1>1. PICK n \in Nat : n = Len(ss)
  OBVIOUS
<1>2. <<>> \in Seq(S) /\ \A i \in 1..n : ss[i] \in Seq(S)
  BY <1>1
<1>3. PICK step \in [1..n -> [Seq(S) -> Seq(S)]] :
        \A i \in 1..n : \A x \in Seq(S) : step[i][x] = x \o ss[i]
  <2> DEFINE F == [i \in 1..n |-> [x \in Seq(S) |-> x \o ss[i]]]
  <2>1. \A i \in 1..n : \A x \in Seq(S) : x \o ss[i] \in Seq(S)
    BY <1>2
  <2>2. F \in [1..n -> [Seq(S) -> Seq(S)]]
    BY <2>1
  <2>3. \A i \in 1..n : \A x \in Seq(S) : F[i][x] = x \o ss[i]
    OBVIOUS
  <2> HIDE DEF F
  <2>4. QED
    BY <2>2, <2>3
<1>4. PICK f \in [0..n -> Seq(S)] :
        f[0] = <<>> /\ \A i \in 1..n : f[i] = step[i][f[i - 1]]
  <2>1. <<>> \in Seq(S)
    OBVIOUS
  <2>2. \E f : Recurs(f, n, Seq(S), <<>>, step)
    BY <2>1, RecursionExists
  <2>3. QED
    BY <2>2 DEF Recurs
<1>5. f[0] = <<>> /\ \A i \in 1..n : f[i] = f[i - 1] \o ss[i]
  <2>1. f[0] = <<>>
    BY <1>4
  <2>2. ASSUME NEW i \in 1..n PROVE f[i] = f[i - 1] \o ss[i]
    <3>1. i \in 0..n /\ i # 0 /\ i - 1 \in 0..n
      BY <1>1
    <3>2. f[i] = step[i][f[i - 1]]
      BY <1>4, <3>1
    <3>3. f[i - 1] \in Seq(S)
      BY <3>1
    <3>4. QED
      BY <1>3, <3>2, <3>3
  <2>3. QED
    BY <2>1, <2>2
<1>6. FlattenSeq(ss) = f[n]
  <2>1. CASE n = 0
    <3>0. Len(ss) = 0
      BY <1>1, <2>1
    <3>1. ss = <<>>
      BY <3>0
    <3>2. FlattenSeq(ss) = ss
      BY <1>1, <2>1 DEF FlattenSeq
    <3>3. QED
      BY <1>5, <2>1, <3>1, <3>2
  <2>2. CASE n # 0
    <3> DEFINE Body(g) == [i \in 1..n |-> IF i = 1 THEN ss[i] ELSE g[i - 1] \o ss[i]]
               flatten == CHOOSE g : g = Body(g)
               h == [i \in 1..n |-> f[i]]
    <3>1. h = Body(h)
      <4>1. ASSUME NEW i \in 1..n
            PROVE  h[i] = IF i = 1 THEN ss[i] ELSE h[i - 1] \o ss[i]
        <5>1. CASE i = 1
          <6>1. 1 \in 1..n /\ 1 - 1 = 0
            BY <5>1
          <6>2. f[1] = f[0] \o ss[1] /\ ss[1] \in Seq(S)
            BY <1>2, <1>5, <6>1
          <6>3. f[1] = ss[1]
            BY <1>5, <6>2
          <6>4. QED
            BY <5>1, <6>3
        <5>2. CASE i # 1
          <6>1. i - 1 \in 1..n
            BY <5>2
          <6>2. QED
            BY <1>5, <5>2, <6>1
        <5>3. QED
          BY <5>1, <5>2
      <4>2. h = [i \in 1..n |-> h[i]]
        OBVIOUS
      <4> HIDE DEF h
      <4>3. QED
        BY <4>1, <4>2
    <3>2. flatten = Body(flatten)
      <4> HIDE DEF h, Body
      <4>1. QED
        BY <3>1
    <3>3. FlattenSeq(ss) = flatten[n]
      BY <1>1, <2>2 DEF FlattenSeq
    <3> HIDE DEF flatten
    <3>4. \A i \in 1..n : flatten[i] = IF i = 1 THEN ss[i] ELSE flatten[i - 1] \o ss[i]
      BY <3>2
    <3> DEFINE T == {i \in 0..n : i = 0 \/ flatten[i] = f[i]}
    <3>5. 0 \in T
      BY <1>1
    <3>6. ASSUME NEW i \in 0..n, i \in T, i < n PROVE i + 1 \in T
      <4>1. i + 1 \in 1..n /\ i + 1 \in 0..n /\ (i + 1) - 1 = i
        BY <1>1, <3>6
      <4>2. f[i + 1] = f[i] \o ss[i + 1]
        BY <1>5, <4>1
      <4>3. CASE i = 0
        <5>1. flatten[i + 1] = ss[i + 1]
          BY <3>4, <4>1, <4>3
        <5>2. f[i + 1] = ss[i + 1]
          <6>1. ss[i + 1] \in Seq(S) /\ f[i] = <<>>
            BY <1>2, <1>5, <4>1, <4>3
          <6>2. QED
            BY <4>2, <6>1
        <5>3. QED
          BY <4>1, <5>1, <5>2
      <4>4. CASE i # 0
        <5>1. flatten[i + 1] = flatten[i] \o ss[i + 1]
          <6>1. i + 1 # 1
            BY <4>4
          <6>2. QED
            BY <3>4, <4>1, <6>1
        <5>2. flatten[i] = f[i]
          BY <3>6, <4>4
        <5>3. QED
          BY <4>1, <4>2, <5>1, <5>2
      <4>5. QED
        BY <4>3, <4>4
    <3>7. \A i \in 0..n : i \in T
      <4> HIDE DEF T
      <4>1. QED
        BY <1>1, <3>5, <3>6, Induction
    <3>8. n \in 0..n
      BY <1>1
    <3>9. QED
      BY <2>2, <3>3, <3>7, <3>8
  <2>3. QED
    BY <2>1, <2>2
<1>7. QED
  BY <1>1, <1>5, <1>6

(* Flattening is a homomorphism: what was flattened first comes first. *)
LEMMA FlattenConcat ==
  ASSUME NEW S, NEW ss \in Seq(Seq(S)), NEW tt \in Seq(Seq(S))
  PROVE  /\ FlattenSeq(ss) \in Seq(S)
         /\ FlattenSeq(ss \o tt) = FlattenSeq(ss) \o FlattenSeq(tt)
<1>a. \A a \in Seq(S) : \A b \in Seq(S) : \A c \in Seq(S) :
        (a \o b) \o c = a \o (b \o c)
  <2>1. SUFFICES ASSUME NEW a \in Seq(S), NEW b \in Seq(S), NEW c \in Seq(S)
                 PROVE  (a \o b) \o c = a \o (b \o c)
    OBVIOUS
  <2>2. QED
    OBVIOUS
<1>0. PICK n \in Nat, m \in Nat : n = Len(ss) /\ m = Len(tt)
  OBVIOUS
<1>1. /\ ss \o tt \in Seq(Seq(S)) /\ Len(ss \o tt) = n + m
      /\ \A i \in 1..n : (ss \o tt)[i] = ss[i]
      /\ \A j \in 1..m : (ss \o tt)[n + j] = tt[j] /\ tt[j] \in Seq(S)
  BY <1>0
<1>2. PICK f \in [0..n -> Seq(S)] :
        /\ f[0] = <<>>
        /\ \A i \in 1..n : f[i] = f[i - 1] \o ss[i]
        /\ FlattenSeq(ss) = f[n]
  BY <1>0, FlattenSteps
<1>3. PICK g \in [0..m -> Seq(S)] :
        /\ g[0] = <<>>
        /\ \A i \in 1..m : g[i] = g[i - 1] \o tt[i]
        /\ FlattenSeq(tt) = g[m]
  BY <1>0, FlattenSteps
<1>4. PICK h \in [0..n + m -> Seq(S)] :
        /\ h[0] = <<>>
        /\ \A i \in 1..n + m : h[i] = h[i - 1] \o (ss \o tt)[i]
        /\ FlattenSeq(ss \o tt) = h[n + m]
  <2> DEFINE uu == ss \o tt
  <2>1. PICK k \in Nat : k = Len(uu)
    BY <1>1
  <2>2. uu \in Seq(Seq(S)) /\ k = n + m /\ k \in Nat
    BY <1>1, <2>1
  <2> HIDE DEF uu
  <2>3. \E h \in [0..Len(uu) -> Seq(S)] :
          /\ h[0] = <<>>
          /\ \A i \in 1..Len(uu) : h[i] = h[i - 1] \o uu[i]
          /\ FlattenSeq(uu) = h[Len(uu)]
    BY <2>2, FlattenSteps
  <2>4. QED
    BY <2>1, <2>2, <2>3 DEF uu
<1>5. \A i \in 0..n : h[i] = f[i]
  <2> DEFINE T == {i \in 0..n : h[i] = f[i]}
  <2>1. 0 \in T
    BY <1>1, <1>2, <1>4
  <2>2. ASSUME NEW i \in 0..n, i \in T, i < n PROVE i + 1 \in T
    <3>1. i + 1 \in 1..n /\ i + 1 \in 0..n /\ i + 1 \in 1..n + m /\ (i + 1) - 1 = i
      BY <1>1, <2>2
    <3>2. h[i + 1] = h[i] \o ss[i + 1] /\ f[i + 1] = f[i] \o ss[i + 1]
      BY <1>1, <1>2, <1>4, <3>1
    <3>3. QED
      BY <2>2, <3>1, <3>2
  <2>3. \A i \in 0..n : i \in T
    <3> HIDE DEF T
    <3>1. QED
      BY <1>1, <2>1, <2>2, Induction
  <2>4. QED
    BY <2>3
<1>6. \A j \in 0..m : h[n + j] = f[n] \o g[j]
  <2> DEFINE T == {j \in 0..m : h[n + j] = f[n] \o g[j]}
  <2>0. n \in 0..n /\ n + 0 = n /\ f[n] \in Seq(S)
    BY <1>1
  <2>1. 0 \in T
    <3>1. h[n + 0] = f[n] \o g[0]
      BY <1>3, <1>5, <2>0
    <3>2. QED
      BY <1>1, <3>1
  <2>2. ASSUME NEW j \in 0..m, j \in T, j < m PROVE j + 1 \in T
    <3>1. /\ j + 1 \in 1..m /\ j + 1 \in 0..m /\ (j + 1) - 1 = j
          /\ n + (j + 1) \in 1..n + m /\ (n + (j + 1)) - 1 = n + j
      BY <1>1, <2>2
    <3>2. /\ h[n + (j + 1)] = h[n + j] \o tt[j + 1]
          /\ g[j + 1] = g[j] \o tt[j + 1]
      BY <1>1, <1>3, <1>4, <3>1
    <3>3. g[j] \in Seq(S) /\ tt[j + 1] \in Seq(S)
      BY <1>1, <3>1
    <3>4. (f[n] \o g[j]) \o tt[j + 1] = f[n] \o (g[j] \o tt[j + 1])
      BY <1>a, <2>0, <3>3
    <3>5. h[n + (j + 1)] = f[n] \o g[j + 1]
      BY <2>2, <3>2, <3>4
    <3>6. QED
      BY <3>1, <3>5
  <2>3. \A j \in 0..m : j \in T
    <3> HIDE DEF T
    <3>1. QED
      BY <1>1, <2>1, <2>2, Induction
  <2>4. QED
    BY <2>3
<1>7. n \in 0..n /\ m \in 0..m
  BY <1>1
<1>8. QED
  BY <1>2, <1>3, <1>4, <1>6, <1>7

(* Flattening one sequence, and none. *)
LEMMA FlattenOne ==
  ASSUME NEW S, NEW s \in Seq(S)
  PROVE  /\ FlattenSeq(<<s>>) = s
         /\ FlattenSeq(<<>>) = <<>>
<1>1. <<s>> \in Seq(Seq(S)) /\ Len(<<s>>) = 1 /\ <<s>>[1] = s
  OBVIOUS
<1>2. PICK f \in [0..1 -> Seq(S)] : /\ f[0] = <<>>
                                    /\ \A i \in 1..1 : f[i] = f[i - 1] \o <<s>>[i]
                                    /\ FlattenSeq(<<s>>) = f[1]
  BY <1>1, FlattenSteps
<1>3. f[1] = f[0] \o s
  <2>1. 1 \in 1..1 /\ 1 - 1 = 0
    OBVIOUS
  <2>2. QED
    BY <1>1, <1>2, <2>1
<1>4. f[1] = s
  BY <1>2, <1>3
<1>5. FlattenSeq(<<>>) = <<>>
  BY DEF FlattenSeq
<1>6. QED
  BY <1>2, <1>4, <1>5

(* A sequence is the flattening of its elements. *)
LEMMA FlattenSingles ==
  ASSUME NEW S, NEW s \in Seq(S)
  PROVE  FlattenSeq([i \in DOMAIN s |-> <<s[i]>>]) = s
<1> DEFINE ss == [i \in DOMAIN s |-> <<s[i]>>]
<1>1. PICK n \in Nat : n = Len(s) /\ DOMAIN s = 1..n
  OBVIOUS
<1>2. ss \in Seq(Seq(S)) /\ Len(ss) = n /\ \A i \in 1..n : ss[i] = <<s[i]>>
  <2>1. \A i \in 1..n : <<s[i]>> \in Seq(S)
    BY <1>1
  <2>2. ss = [i \in 1..n |-> ss[i]] /\ \A i \in 1..n : ss[i] = <<s[i]>>
    BY <1>1
  <2> HIDE DEF ss
  <2>3. QED
    <3> DEFINE U == Seq(S)
    <3>1. n \in Nat /\ ss = [i \in 1..n |-> ss[i]] /\ \A i \in 1..n : ss[i] \in U
      BY <1>1, <2>1, <2>2
    <3> HIDE DEF U
    <3>2. ss \in Seq(U) /\ Len(ss) = n
      BY <3>1, SequenceOf
    <3>3. QED
      BY <2>2, <3>2 DEF U
<1> HIDE DEF ss
<1>3. PICK f \in [0..n -> Seq(S)] : /\ f[0] = <<>>
                                    /\ \A i \in 1..n : f[i] = f[i - 1] \o ss[i]
                                    /\ FlattenSeq(ss) = f[n]
  BY <1>2, FlattenSteps
<1> DEFINE T == {i \in 0..n : Len(f[i]) = i /\ \A j \in 1..i : f[i][j] = s[j]}
<1>4. 0 \in T
  BY <1>1, <1>3
<1>5. ASSUME NEW i \in 0..n, i \in T, i < n PROVE i + 1 \in T
  <2>1. i + 1 \in 0..n /\ i + 1 \in 1..n /\ (i + 1) - 1 = i /\ i \in Nat
    BY <1>1, <1>5
  <2>2. PICK a \in Seq(S), e \in S : a = f[i] /\ e = s[i + 1]
    BY <1>1, <2>1
  <2>3. f[i + 1] = a \o <<e>> /\ Len(a) = i /\ \A j \in 1..i : a[j] = s[j]
    BY <1>2, <1>3, <1>5, <2>1, <2>2
  <2>4. /\ Len(a \o <<e>>) = i + 1 /\ (a \o <<e>>)[i + 1] = e
        /\ \A j \in 1..i : (a \o <<e>>)[j] = a[j]
    <3>1. <<e>> \in Seq(S) /\ Len(<<e>>) = 1 /\ <<e>>[1] = e
      OBVIOUS
    <3>2. PICK b \in Seq(S) : b = <<e>>
      BY <3>1
    <3>3. /\ Len(a \o b) = Len(a) + Len(b)
          /\ \A j \in 1..Len(a) : (a \o b)[j] = a[j]
          /\ \A j \in 1..Len(b) : (a \o b)[Len(a) + j] = b[j]
      OBVIOUS
    <3>4. Len(a) = i /\ Len(b) = 1 /\ 1 \in 1..1
      BY <2>3, <3>1, <3>2
    <3>5. QED
      BY <3>1, <3>2, <3>3, <3>4
  <2>5. \A j \in 1..(i + 1) : j \in 1..i \/ j = i + 1
    BY <2>1
  <2>6. \A j \in 1..(i + 1) : (a \o <<e>>)[j] = s[j]
    BY <2>2, <2>3, <2>4, <2>5
  <2>7. QED
    BY <2>1, <2>3, <2>4, <2>6
<1>6. \A i \in 0..n : i \in T
  <2> HIDE DEF T
  <2>1. QED
    BY <1>1, <1>4, <1>5, Induction
<1>7. n \in T
  BY <1>1, <1>6
<1>8. f[n] \in Seq(S) /\ Len(f[n]) = Len(s) /\ \A j \in 1..Len(s) : s[j] = f[n][j]
  BY <1>1, <1>7
<1>9. f[n] = s
  BY <1>8, SameSequence
<1>10. QED
  BY <1>3, <1>9 DEF ss

-----------------------------------------------------------------------------
(* What the elements of a sequence stand for, one after the other. *)
Maps(g, S, T) == g \in [S -> Seq(T)]
Mapped(g, s) == [k \in DOMAIN s |-> g[s[k]]]
FlatMap(g, s) == FlattenSeq(Mapped(g, s))

(* It is a sequence of such things. *)
LEMMA FlatMapType ==
  ASSUME NEW S, NEW T, NEW g, Maps(g, S, T), NEW s \in Seq(S)
  PROVE  /\ Mapped(g, s) \in Seq(Seq(T)) /\ Len(Mapped(g, s)) = Len(s)
         /\ FlatMap(g, s) \in Seq(T)
<1> DEFINE U == Seq(T)
           m == [k \in DOMAIN s |-> g[s[k]]]
<1>1. PICK n \in Nat : n = Len(s) /\ DOMAIN s = 1..n
  OBVIOUS
<1>2. m = [k \in 1..n |-> m[k]] /\ \A k \in 1..n : m[k] \in U
  <2>1. \A k \in 1..n : s[k] \in S /\ m[k] = g[s[k]]
    BY <1>1
  <2>2. \A x \in S : g[x] \in U
    BY DEF Maps
  <2>3. QED
    BY <1>1, <2>1, <2>2
<1> HIDE DEF U, m
<1>3. m \in Seq(U) /\ Len(m) = n
  BY <1>2, SequenceOf
<1>4. <<>> \in Seq(U)
  OBVIOUS
<1>5. FlattenSeq(m) \in Seq(T)
  BY <1>3, <1>4, FlattenConcat DEF U
<1>6. QED
  BY <1>1, <1>3, <1>5 DEF U, m, FlatMap, Mapped

(* The rest of a sequence stands for the rest. *)
LEMMA FlatMapBoth ==
  ASSUME NEW S, NEW T, NEW g, Maps(g, S, T), NEW a \in Seq(S), NEW b \in Seq(S)
  PROVE  FlatMap(g, a \o b) = FlatMap(g, a) \o FlatMap(g, b)
<1> DEFINE U == Seq(T)
<1>1. ASSUME NEW s \in Seq(S)
      PROVE  Mapped(g, s) \in Seq(U) /\ Len(Mapped(g, s)) = Len(s)
  BY FlatMapType
<1>2. PICK x \in Seq(U), y \in Seq(U), z \in Seq(U) :
        /\ x = Mapped(g, a) /\ y = Mapped(g, b) /\ z = Mapped(g, a \o b)
        /\ Len(x) = Len(a) /\ Len(y) = Len(b) /\ Len(z) = Len(a \o b)
  <2>1. a \o b \in Seq(S)
    OBVIOUS
  <2>2. QED
    BY <1>1, <2>1
<1>3. x \o y \in Seq(U) /\ Len(x \o y) = Len(x) + Len(y) /\ Len(a \o b) = Len(a) + Len(b)
  OBVIOUS
<1>4. ASSUME NEW k \in 1..Len(z) PROVE z[k] = (x \o y)[k]
  <2>0. Len(a) \in Nat /\ Len(b) \in Nat /\ k \in 1..(Len(a) + Len(b)) /\ k \in DOMAIN (a \o b)
    BY <1>2, <1>3
  <2>1. CASE k <= Len(a)
    <3>1. k \in DOMAIN a /\ (a \o b)[k] = a[k] /\ (x \o y)[k] = x[k]
      BY <1>2, <2>0, <2>1
    <3>2. QED
      BY <1>2, <2>0, <3>1 DEF Mapped
  <2>2. CASE ~(k <= Len(a))
    <3>1. /\ k - Len(a) \in DOMAIN b /\ (a \o b)[k] = b[k - Len(a)]
          /\ (x \o y)[k] = y[k - Len(a)]
      <4>1. PICK j \in 1..Len(b) : k = Len(a) + j /\ j = k - Len(a)
        <5>1. k - Len(a) \in 1..Len(b) /\ Len(a) + (k - Len(a)) = k
          BY <2>0, <2>2
        <5>2. QED
          BY <5>1
      <4>2. (a \o b)[Len(a) + j] = b[j] /\ j \in DOMAIN b
        OBVIOUS
      <4>3. (x \o y)[Len(x) + j] = y[j]
        <5> HIDE DEF U
        <5>1. \A l \in 1..Len(y) : (x \o y)[Len(x) + l] = y[l]
          OBVIOUS
        <5>2. QED
          BY <1>2, <5>1
      <4>4. QED
        BY <1>2, <4>1, <4>2, <4>3
    <3>2. QED
      BY <1>2, <2>0, <3>1 DEF Mapped
  <2>3. QED
    BY <2>1, <2>2
<1>5. z = x \o y
  <2> HIDE DEF U
  <2>1. PICK w \in Seq(U) : w = x \o y
    BY <1>3
  <2>2. Len(z) = Len(w) /\ \A k \in 1..Len(z) : z[k] = w[k]
    BY <1>2, <1>3, <1>4, <2>1
  <2>3. QED
    BY <2>1, <2>2, SameSequence
<1>6. x \in Seq(Seq(T)) /\ y \in Seq(Seq(T))
  OBVIOUS
<1>7. FlattenSeq(x \o y) = FlattenSeq(x) \o FlattenSeq(y)
  BY <1>6, FlattenConcat
<1>8. QED
  BY <1>2, <1>5, <1>7 DEF FlatMap

(* One element, and none. *)
LEMMA FlatMapOne ==
  ASSUME NEW S, NEW T, NEW g, Maps(g, S, T), NEW x \in S
  PROVE  FlatMap(g, <<x>>) = g[x] /\ FlatMap(g, <<>>) = <<>>
<1>1. [k \in DOMAIN <<x>> |-> g[<<x>>[k]]] = <<g[x]>>
  OBVIOUS
<1>2. PICK s \in Seq(T) : s = g[x]
  BY DEF Maps
<1>3. FlattenSeq(<<s>>) = s
  BY FlattenOne
<1>4. FlatMap(g, <<>>) = <<>>
  <2>1. [k \in DOMAIN <<>> |-> g[<<>>[k]]] = <<>>
    OBVIOUS
  <2>2. FlattenSeq(<<>>) = <<>>
    BY DEF FlattenSeq
  <2>3. QED
    BY <2>1, <2>2 DEF FlatMap, Mapped
<1>5. QED
  BY <1>1, <1>2, <1>3, <1>4 DEF FlatMap, Mapped

(* Elements that stand for nothing leave nothing. *)
LEMMA FlatMapNothing ==
  ASSUME NEW S, NEW T, NEW g, Maps(g, S, T), NEW s \in Seq(S),
         \A k \in 1..Len(s) : g[s[k]] = <<>>
  PROVE  FlatMap(g, s) = <<>>
<1>1. PICK n \in Nat : n = Len(s) /\ DOMAIN s = 1..n
  OBVIOUS
<1>2. PICK m \in Seq(Seq(T)) : m = Mapped(g, s) /\ Len(m) = Len(s)
  <2>1. Mapped(g, s) \in Seq(Seq(T)) /\ Len(Mapped(g, s)) = Len(s)
    BY FlatMapType
  <2>2. QED
    BY <2>1
<1>3. PICK f \in [0..n -> Seq(T)] :
        /\ f[0] = <<>>
        /\ \A i \in 1..n : f[i] = f[i - 1] \o m[i]
        /\ FlattenSeq(m) = f[n]
  <2>1. \E f \in [0..Len(m) -> Seq(T)] :
          /\ f[0] = <<>>
          /\ \A i \in 1..Len(m) : f[i] = f[i - 1] \o m[i]
          /\ FlattenSeq(m) = f[Len(m)]
    BY FlattenSteps
  <2>2. QED
    BY <1>1, <1>2, <2>1
<1> DEFINE P == {i \in 0..n : f[i] = <<>>}
<1>4. 0 \in P
  BY <1>1, <1>3
<1>5. ASSUME NEW i \in 0..n, i \in P, i < n PROVE i + 1 \in P
  <2>1. i + 1 \in 1..n /\ i + 1 \in 0..n /\ (i + 1) - 1 = i
    BY <1>1, <1>5
  <2>2. f[i + 1] = f[i] \o m[i + 1] /\ m[i + 1] = <<>> /\ f[i] = <<>>
    BY <1>1, <1>2, <1>3, <1>5, <2>1 DEF Mapped
  <2>3. QED
    BY <2>1, <2>2
<1>6. \A i \in 0..n : i \in P
  <2> HIDE DEF P
  <2>1. QED
    BY <1>1, <1>4, <1>5, Induction
<1>7. f[n] = <<>>
  BY <1>1, <1>6
<1>8. QED
  BY <1>2, <1>3, <1>7 DEF FlatMap

-----------------------------------------------------------------------------
(* What holds of <<>> and stays true when an element is appended holds of  *)
(* every sequence.                                                         *)
LEMMA SequenceInduction ==
  ASSUME NEW S, NEW T, <<>> \in T,
         \A s \in Seq(S), x \in S : s \in T => s \o <<x>> \in T
  PROVE  \A s \in Seq(S) : s \in T
<1> SUFFICES ASSUME NEW s \in Seq(S) PROVE s \in T
  OBVIOUS
<1>1. PICK n \in Nat : n = Len(s) /\ DOMAIN s = 1..n
  OBVIOUS
<1> DEFINE front(i) == SubSeq(s, 1, i)
           P == {i \in 0..n : front(i) \in T}
<1>2. ASSUME NEW i \in 0..n
      PROVE  front(i) \in Seq(S) /\ Len(front(i)) = i /\ \A j \in 1..i : front(i)[j] = s[j]
  BY <1>1
<1>3. 0 \in P
  <2>1. front(0) = <<>> /\ 0 \in 0..n
    BY <1>1
  <2> HIDE DEF front
  <2>2. QED
    BY <2>1
<1>4. ASSUME NEW i \in 0..n, i \in P, i < n PROVE i + 1 \in P
  <2>1. i + 1 \in 1..n /\ i + 1 \in 0..n /\ s[i + 1] \in S
    BY <1>1, <1>4
  <2>2. PICK a \in Seq(S), b \in Seq(S), x \in S :
          a = front(i) /\ b = front(i + 1) /\ x = s[i + 1]
    BY <1>2, <2>1
  <2>3. Len(a) = i /\ Len(b) = i + 1
        /\ (\A j \in 1..i : a[j] = s[j]) /\ (\A j \in 1..(i + 1) : b[j] = s[j])
    BY <1>2, <2>1, <2>2
  <2> HIDE DEF front, P
  <2>4. a \o <<x>> \in Seq(S) /\ Len(a \o <<x>>) = i + 1
        /\ (\A j \in 1..i : (a \o <<x>>)[j] = a[j]) /\ (a \o <<x>>)[i + 1] = x
    BY <2>3
  <2>5. \A j \in 1..(i + 1) : b[j] = (a \o <<x>>)[j]
    <3> SUFFICES ASSUME NEW j \in 1..(i + 1) PROVE b[j] = (a \o <<x>>)[j]
      OBVIOUS
    <3>1. CASE j = i + 1
      BY <2>2, <2>3, <2>4, <3>1
    <3>2. CASE j # i + 1
      <4>1. j \in 1..i
        BY <3>2
      <4>2. QED
        BY <2>3, <2>4, <4>1
    <3>3. QED
      BY <3>1, <3>2
  <2>6. b = a \o <<x>>
    <3>1. PICK c \in Seq(S) : c = a \o <<x>>
      BY <2>4
    <3>2. QED
      BY <2>3, <2>4, <2>5, <3>1, SameSequence
  <2>7. QED
    BY <1>4, <2>1, <2>2, <2>6 DEF P
<1>5. n \in P
  <2> HIDE DEF P
  <2>1. QED
    BY <1>1, <1>3, <1>4, Induction
<1>6. front(n) = s
  BY <1>1
<1>7. QED
  BY <1>5, <1>6

(* Filtering stands for each element by itself, or by nothing. *)
Chooses(S, keep) == [x \in S |-> IF x \in keep THEN <<x>> ELSE <<>>]

LEMMA KeptMaps ==
  ASSUME NEW S, NEW keep, NEW s \in Seq(S)
  PROVE  /\ Maps(Chooses(S, keep), S, S \cap keep) /\ Maps(Chooses(S, keep), S, S)
         /\ Kept(s, keep) = FlatMap(Chooses(S, keep), s)
<1>1. ASSUME NEW x \in S
      PROVE  Chooses(S, keep)[x] \in Seq(S \cap keep) /\ Chooses(S, keep)[x] \in Seq(S)
  <2>1. CASE x \in keep
    <3>1. Chooses(S, keep)[x] = <<x>> /\ x \in S \cap keep
      BY <2>1 DEF Chooses
    <3>2. QED
      BY <3>1
  <2>2. CASE x \notin keep
    <3>1. Chooses(S, keep)[x] = <<>>
      BY <2>2 DEF Chooses
    <3>2. QED
      BY <3>1
  <2>3. QED
    BY <2>1, <2>2
<1>2. Maps(Chooses(S, keep), S, S \cap keep) /\ Maps(Chooses(S, keep), S, S)
  BY <1>1 DEF Maps, Chooses
<1>3. [i \in DOMAIN s |-> IF s[i] \in keep THEN <<s[i]>> ELSE <<>>]
        = [i \in DOMAIN s |-> Chooses(S, keep)[s[i]]]
  <2>1. \A i \in DOMAIN s : s[i] \in S
    OBVIOUS
  <2>2. QED
    BY <2>1 DEF Chooses
<1>4. QED
  BY <1>2, <1>3 DEF Kept, FlatMap, Mapped

(* What is kept is a sequence of kept elements. *)
LEMMA KeptType ==
  ASSUME NEW S, NEW keep, NEW s \in Seq(S)
  PROVE  Kept(s, keep) \in Seq(S \cap keep) /\ Kept(s, keep) \in Seq(S)
<1>1. PICK g : g = Chooses(S, keep)
  OBVIOUS
<1>2. Maps(g, S, S \cap keep) /\ Maps(g, S, S) /\ Kept(s, keep) = FlatMap(g, s)
  BY <1>1, KeptMaps
<1>3. FlatMap(g, s) \in Seq(S \cap keep)
  BY <1>2, FlatMapType
<1>4. FlatMap(g, s) \in Seq(S)
  BY <1>2, FlatMapType
<1>5. QED
  BY <1>2, <1>3, <1>4

(* Filtering is done part by part. *)
LEMMA KeptBoth ==
  ASSUME NEW S, NEW keep, NEW s \in Seq(S), NEW t \in Seq(S)
  PROVE  Kept(s \o t, keep) = Kept(s, keep) \o Kept(t, keep)
<1>1. PICK g : g = Chooses(S, keep)
  OBVIOUS
<1>2. s \o t \in Seq(S)
  OBVIOUS
<1>3. /\ Maps(g, S, S) /\ Kept(s, keep) = FlatMap(g, s) /\ Kept(t, keep) = FlatMap(g, t)
      /\ Kept(s \o t, keep) = FlatMap(g, s \o t)
  BY <1>1, <1>2, KeptMaps
<1>4. FlatMap(g, s \o t) = FlatMap(g, s) \o FlatMap(g, t)
  BY <1>3, FlatMapBoth
<1>5. QED
  BY <1>3, <1>4

(* Nothing of nothing. *)
LEMMA KeptEmpty == \A keep : Kept(<<>>, keep) = <<>>
<1> SUFFICES ASSUME NEW keep PROVE Kept(<<>>, keep) = <<>>
  OBVIOUS
<1>1. PICK e : e = <<>>
  OBVIOUS
<1>2. e \in Seq({1}) /\ 1 \in {1}
  BY <1>1
<1>3. PICK g : g = Chooses({1}, keep)
  OBVIOUS
<1>4. Maps(g, {1}, {1}) /\ Kept(e, keep) = FlatMap(g, e)
  BY <1>2, <1>3, KeptMaps
<1>5. FlatMap(g, <<>>) = <<>>
  BY <1>2, <1>4, FlatMapOne
<1>6. QED
  BY <1>1, <1>4, <1>5

(* An element by itself. *)
LEMMA KeptOne ==
  ASSUME NEW keep, NEW x
  PROVE  Kept(<<x>>, keep) = IF x \in keep THEN <<x>> ELSE <<>>
<1>1. PICK one : one = <<x>>
  OBVIOUS
<1>2. one \in Seq({x}) /\ x \in {x}
  BY <1>1
<1>3. PICK g : g = Chooses({x}, keep)
  OBVIOUS
<1>4. Maps(g, {x}, {x}) /\ Kept(one, keep) = FlatMap(g, one)
  BY <1>2, <1>3, KeptMaps
<1>5. FlatMap(g, <<x>>) = g[x]
  BY <1>2, <1>4, FlatMapOne
<1>6. g[x] = IF x \in keep THEN <<x>> ELSE <<>>
  BY <1>3 DEF Chooses
<1>7. QED
  BY <1>1, <1>4, <1>5, <1>6

(* Only the elements that are there matter. *)
LEMMA KeptSame ==
  ASSUME NEW keep, NEW also, NEW s, \A i \in DOMAIN s : s[i] \in keep <=> s[i] \in also
  PROVE  Kept(s, keep) = Kept(s, also)
BY DEF Kept

LEMMA KeptNone ==
  ASSUME NEW S, NEW keep, NEW s \in Seq(S), \A i \in 1..Len(s) : s[i] \notin keep
  PROVE  Kept(s, keep) = <<>>
<1>1. PICK g : g = Chooses(S, keep)
  OBVIOUS
<1>2. Maps(g, S, S) /\ Kept(s, keep) = FlatMap(g, s)
  BY <1>1, KeptMaps
<1>3. \A i \in 1..Len(s) : g[s[i]] = <<>>
  BY <1>1 DEF Chooses
<1>4. FlatMap(g, s) = <<>>
  BY <1>2, <1>3, FlatMapNothing
<1>5. QED
  BY <1>2, <1>4

LEMMA KeptWhole ==
  ASSUME NEW S, NEW keep, NEW s \in Seq(S), \A i \in 1..Len(s) : s[i] \in keep
  PROVE  Kept(s, keep) = s
<1>1. [i \in DOMAIN s |-> IF s[i] \in keep THEN <<s[i]>> ELSE <<>>]
        = [i \in DOMAIN s |-> <<s[i]>>]
  OBVIOUS
<1>2. QED
  BY <1>1, FlattenSingles DEF Kept

(* Filtering twice is filtering once. *)
LEMMA KeptTwice ==
  ASSUME NEW S, NEW keep, NEW also, NEW s \in Seq(S)
  PROVE  Kept(Kept(s, keep), also) = Kept(s, keep \cap also)
<1> DEFINE T == {t \in Seq(S) : Kept(Kept(t, keep), also) = Kept(t, keep \cap also)}
<1>1. <<>> \in T
  <2>1. PICK e \in Seq(S) : e = <<>>
    <3>1. <<>> \in Seq(S) /\ Len(<<>>) = 0
      OBVIOUS
    <3>2. QED
      BY <3>1
  <2>2. \A k : Kept(e, k) = e
    BY <2>1, KeptEmpty
  <2>3. Kept(Kept(e, keep), also) = Kept(e, keep \cap also)
    BY <2>2
  <2>4. QED
    BY <2>1, <2>3
<1>2. ASSUME NEW t \in Seq(S), NEW x \in S, t \in T PROVE t \o <<x>> \in T
  <2>1. <<x>> \in Seq(S) /\ t \o <<x>> \in Seq(S)
    OBVIOUS
  <2>2. PICK one \in Seq(S) : one = Kept(<<x>>, keep)
    BY <2>1, KeptType
  <2>3. Kept(t, keep) \in Seq(S)
    BY KeptType
  <2>4. Kept(one, also) = Kept(<<x>>, keep \cap also)
    <3>1. CASE x \in keep
      <4>1. one = <<x>>
        BY <2>2, <3>1, KeptOne
      <4>2. Kept(<<x>>, also) = Kept(<<x>>, keep \cap also)
        BY <3>1, KeptOne
      <4>3. QED
        BY <4>1, <4>2
    <3>2. CASE x \notin keep
      <4>1. one = <<>> /\ Kept(<<x>>, keep \cap also) = <<>>
        BY <2>2, <3>2, KeptOne
      <4>2. QED
        BY <4>1, KeptEmpty
    <3>3. QED
      BY <3>1, <3>2
  <2>5. Kept(t \o <<x>>, keep) = Kept(t, keep) \o one
    BY <2>1, <2>2, KeptBoth
  <2>6. Kept(Kept(t, keep) \o one, also) = Kept(Kept(t, keep), also) \o Kept(one, also)
    BY <2>2, <2>3, KeptBoth
  <2>7. Kept(t \o <<x>>, keep \cap also) = Kept(t, keep \cap also) \o Kept(<<x>>, keep \cap also)
    <3>1. PICK both : both = keep \cap also
      OBVIOUS
    <3>2. Kept(t \o <<x>>, both) = Kept(t, both) \o Kept(<<x>>, both)
      BY <2>1, KeptBoth
    <3>3. QED
      BY <3>1, <3>2
  <2>8. QED
    BY <1>2, <2>1, <2>4, <2>5, <2>6, <2>7
<1>3. \A t \in Seq(S) : t \in T
  <2> HIDE DEF T
  <2>1. QED
    BY <1>1, <1>2, SequenceInduction
<1>4. QED
  BY <1>3

(* The elements that are kept are those of the sequence. *)
LEMMA KeptElements ==
  ASSUME NEW S, NEW keep, NEW s \in Seq(S), NEW x \in S
  PROVE  (\E i \in 1..Len(Kept(s, keep)) : Kept(s, keep)[i] = x)
           <=> x \in keep /\ \E i \in 1..Len(s) : s[i] = x
<1> DEFINE has(t) == \E i \in 1..Len(t) : t[i] = x
<1> DEFINE T == {t \in Seq(S) : has(Kept(t, keep)) <=> x \in keep /\ has(t)}
<1>1. <<>> \in T
  <2>1. PICK e \in Seq(S) : e = <<>> /\ Len(e) = 0
    <3>1. <<>> \in Seq(S) /\ Len(<<>>) = 0
      OBVIOUS
    <3>2. QED
      BY <3>1
  <2>2. Kept(e, keep) = e
    BY <2>1, KeptEmpty
  <2>3. ~has(e)
    BY <2>1
  <2> HIDE DEF has
  <2>4. e \in T
    BY <2>2, <2>3
  <2>5. QED
    BY <2>1, <2>4
<1>2. ASSUME NEW t \in Seq(S), NEW y \in S, t \in T PROVE t \o <<y>> \in T
  <2>1. <<y>> \in Seq(S) /\ t \o <<y>> \in Seq(S)
    OBVIOUS
  <2>2. ASSUME NEW u \in Seq(S) PROVE has(u \o <<y>>) <=> has(u) \/ x = y
    <3>1. PICK n \in Nat : n = Len(u)
      OBVIOUS
    <3>2. /\ Len(u \o <<y>>) = n + 1 /\ (u \o <<y>>)[n + 1] = y
          /\ \A i \in 1..n : (u \o <<y>>)[i] = u[i]
      BY <3>1
    <3>3. n + 1 \in 1..(n + 1) /\ \A i \in 1..(n + 1) : i \in 1..n \/ i = n + 1
      BY <3>1
    <3>4. \A i \in 1..n : i \in 1..(n + 1)
      BY <3>1
    <3>5. QED
      BY <3>1, <3>2, <3>3, <3>4
  <2>3. Kept(t \o <<y>>, keep) = Kept(t, keep) \o Kept(<<y>>, keep)
    BY <2>1, KeptBoth
  <2>4. Kept(t, keep) \in Seq(S)
    BY KeptType
  <2>5. CASE y \in keep
    <3>1. Kept(t \o <<y>>, keep) = Kept(t, keep) \o <<y>>
      BY <2>3, <2>5, KeptOne
    <3>2. has(Kept(t \o <<y>>, keep)) <=> has(Kept(t, keep)) \/ x = y
      BY <2>2, <2>4, <3>1
    <3>3. has(t \o <<y>>) <=> has(t) \/ x = y
      BY <2>2
    <3>4. has(Kept(t, keep)) <=> x \in keep /\ has(t)
      BY <1>2
    <3> HIDE DEF has
    <3>5. QED
      BY <2>1, <2>5, <3>2, <3>3, <3>4
  <2>6. CASE y \notin keep
    <3>1. Kept(t \o <<y>>, keep) = Kept(t, keep)
      <4>1. PICK u \in Seq(S) : u = Kept(t, keep)
        BY <2>4
      <4>2. Kept(<<y>>, keep) = <<>> /\ u \o <<>> = u
        BY <2>6, KeptOne
      <4>3. QED
        BY <2>3, <4>1, <4>2
    <3>3. has(t \o <<y>>) <=> has(t) \/ x = y
      BY <2>2
    <3>4. has(Kept(t, keep)) <=> x \in keep /\ has(t)
      BY <1>2
    <3> HIDE DEF has
    <3>5. QED
      BY <2>1, <2>6, <3>1, <3>3, <3>4
  <2>7. QED
    BY <2>5, <2>6
<1>3. \A t \in Seq(S) : t \in T
  <2> HIDE DEF T
  <2>1. QED
    BY <1>1, <1>2, SequenceInduction
<1>4. QED
  BY <1>3

(* What is kept stays in order. *)
LEMMA KeptOrdered ==
  ASSUME NEW S, NEW keep, NEW R, NEW s \in Seq(S),
         \A i, j \in 1..Len(s) : i < j => <<s[i], s[j]>> \in R
  PROVE  \A i, j \in 1..Len(Kept(s, keep)) :
           i < j => <<Kept(s, keep)[i], Kept(s, keep)[j]>> \in R
<1> DEFINE ordered(t) == \A i, j \in 1..Len(t) : i < j => <<t[i], t[j]>> \in R
           T == {t \in Seq(S) : ordered(t) => ordered(Kept(t, keep))}
<1>1. <<>> \in T
  <2>1. PICK e \in Seq(S) : e = <<>> /\ Len(e) = 0
    <3>1. <<>> \in Seq(S) /\ Len(<<>>) = 0
      OBVIOUS
    <3>2. QED
      BY <3>1
  <2>2. Kept(e, keep) = e
    BY <2>1, KeptEmpty
  <2> HIDE DEF ordered
  <2>3. e \in T
    BY <2>2
  <2>4. QED
    BY <2>1, <2>3
<1>2. ASSUME NEW t \in Seq(S), NEW x \in S, t \in T PROVE t \o <<x>> \in T
  <2>1. <<x>> \in Seq(S) /\ t \o <<x>> \in Seq(S)
    OBVIOUS
  <2>2. ASSUME NEW u \in Seq(S)
        PROVE  ordered(u \o <<x>>) <=> ordered(u) /\ \A i \in 1..Len(u) : <<u[i], x>> \in R
    <3>1. PICK n \in Nat : n = Len(u)
      OBVIOUS
    <3>2. PICK v : v = u \o <<x>>
      OBVIOUS
    <3>3. Len(v) = n + 1 /\ v[n + 1] = x /\ \A i \in 1..n : v[i] = u[i]
      BY <3>1, <3>2
    <3>4. ASSUME ordered(v) PROVE ordered(u) /\ \A i \in 1..n : <<u[i], x>> \in R
      <4>1. ASSUME NEW i \in 1..n, NEW j \in 1..n, i < j PROVE <<u[i], u[j]>> \in R
        <5>1. i \in 1..(n + 1) /\ j \in 1..(n + 1) /\ v[i] = u[i] /\ v[j] = u[j]
          BY <3>1, <3>3
        <5>2. QED
          BY <3>3, <3>4, <4>1, <5>1
      <4>2. ASSUME NEW i \in 1..n PROVE <<u[i], x>> \in R
        <5>1. i \in 1..(n + 1) /\ n + 1 \in 1..(n + 1) /\ i < n + 1 /\ v[i] = u[i]
          BY <3>1, <3>3
        <5>2. QED
          BY <3>3, <3>4, <5>1
      <4>3. QED
        BY <3>1, <4>1, <4>2
    <3>5. ASSUME ordered(u), \A i \in 1..n : <<u[i], x>> \in R PROVE ordered(v)
      <4> SUFFICES ASSUME NEW i \in 1..(n + 1), NEW j \in 1..(n + 1), i < j
                   PROVE  <<v[i], v[j]>> \in R
        BY <3>3
      <4>1. i \in 1..n /\ v[i] = u[i]
        BY <3>3
      <4>2. CASE j = n + 1
        BY <3>3, <3>5, <4>1, <4>2
      <4>3. CASE j # n + 1
        <5>1. j \in 1..n /\ v[j] = u[j]
          BY <3>3, <4>3
        <5>2. QED
          BY <3>1, <3>5, <4>1, <5>1
      <4>4. QED
        BY <4>2, <4>3
    <3> HIDE DEF ordered
    <3>6. QED
      BY <3>1, <3>2, <3>4, <3>5
  <2>3. PICK u \in Seq(S) : u = Kept(t, keep)
    BY KeptType
  <2>4. Kept(t \o <<x>>, keep) = u \o Kept(<<x>>, keep)
    BY <2>1, <2>3, KeptBoth
  <2>5. ASSUME ordered(t \o <<x>>) PROVE ordered(Kept(t \o <<x>>, keep))
    <3>1. ordered(t) /\ \A i \in 1..Len(t) : <<t[i], x>> \in R
      BY <2>2, <2>5
    <3>2. ordered(u)
      BY <1>2, <2>3, <3>1
    <3>3. CASE x \in keep
      <4>1. \A i \in 1..Len(u) : <<u[i], x>> \in R
        <5> SUFFICES ASSUME NEW i \in 1..Len(u) PROVE <<u[i], x>> \in R
          OBVIOUS
        <5>1. u[i] \in S
          OBVIOUS
        <5>2. PICK y \in S : y = u[i]
          BY <5>1
        <5>3. \E l \in 1..Len(t) : t[l] = y
          <6>1. \E l \in 1..Len(Kept(t, keep)) : Kept(t, keep)[l] = y
            BY <2>3, <5>2
          <6>2. QED
            BY <6>1, KeptElements
        <5>4. QED
          BY <3>1, <5>2, <5>3
      <4>2. Kept(t \o <<x>>, keep) = u \o <<x>>
        BY <2>4, <3>3, KeptOne
      <4> HIDE DEF ordered
      <4>3. QED
        BY <2>2, <3>2, <4>1, <4>2
    <3>4. CASE x \notin keep
      <4>1. Kept(<<x>>, keep) = <<>> /\ u \o <<>> = u
        BY <3>4, KeptOne
      <4> HIDE DEF ordered
      <4>2. QED
        BY <2>4, <3>2, <4>1
    <3>5. QED
      BY <3>3, <3>4
  <2> HIDE DEF ordered
  <2>6. QED
    BY <2>1, <2>5
<1>3. \A t \in Seq(S) : t \in T
  <2> HIDE DEF T
  <2>1. QED
    BY <1>1, <1>2, SequenceInduction
<1>4. QED
  BY <1>3
=============================================================================
