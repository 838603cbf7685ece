----------------------------- MODULE NaturalSets ----------------------------
(* Induction over the natural numbers, for sets: what the recursive          *)
(* functions of the models compute is proved with it, and here what the      *)
(* library's FlattenSeq does.                                                *)
EXTENDS Integers, Sequences, SequencesExt, WellFoundedInduction, TLAPS

(* A set of natural numbers that has any has a least one.                    *)
LEMMA LeastNumber ==
  ASSUME NEW T \in SUBSET Nat, T # {}
  PROVE  \E x \in T : \A y \in T : x <= y
<1>1. PICK x \in T : \A y \in T : ~(<<y, x>> \in OpToRel(<, Nat))
  BY WFMin, NatLessThanWellFounded
<1>2. ASSUME NEW y \in T PROVE x <= y
  <2>1. x \in Nat /\ y \in Nat
    OBVIOUS
  <2>2. y < x => <<y, x>> \in OpToRel(<, Nat)
    BY <2>1 DEF OpToRel
  <2>3. ~(y < x)
    BY <1>1, <2>2
  <2> QED BY <2>1, <2>3
<1> QED BY <1>2

(* A set that has 0, and with every number its successor, has all of them.   *)
LEMMA SetInduction ==
  ASSUME NEW S, 0 \in S, \A n \in Nat : n \in S => n + 1 \in S
  PROVE  \A n \in Nat : n \in S
<1> DEFINE T == Nat \ S
<1>1. SUFFICES ASSUME T # {}
               PROVE  FALSE
  OBVIOUS
<1>2. PICK x \in T : \A y \in T : x <= y
  <2>1. T \in SUBSET Nat
    OBVIOUS
  <2> HIDE DEF T
  <2> QED BY <1>1, <2>1, LeastNumber
<1>3. x \in Nat /\ x # 0 /\ x - 1 \in Nat
  OBVIOUS
<1>4. x - 1 \in S => x \in S
  BY <1>3
<1>5. x - 1 \in T /\ x - 1 < x
  BY <1>3, <1>4
<1> QED BY <1>2, <1>3, <1>5

(* FlattenSeq appends one sequence after the other: the sequences before     *)
(* each step are a function of the step.                                     *)
LEMMA FlattenSteps ==
  ASSUME NEW B, NEW n \in Nat, NEW seqs \in [1..n -> Seq(B)]
  PROVE  \E before \in [0..n -> Seq(B)] :
           /\ before[0] = << >>
           /\ \A i \in 1..n : before[i] = before[i - 1] \o seqs[i]
           /\ FlattenSeq(seqs) = before[n]
<1> DEFINE From(f, i) == IF i = 1 THEN seqs[i] ELSE f[i - 1] \o seqs[i]
           F(f) == [i \in 1..n |-> From(f, i)]
           flat == CHOOSE f : f = F(f)
           Built(k) == \E f \in [1..k -> Seq(B)] : \A i \in 1..k : f[i] = From(f, i)
           S == {k \in Nat : k <= n => Built(k)}
<1>1. Len(seqs) = n
  OBVIOUS
<1>2. CASE n = 0
  <2> DEFINE before == [i \in 0..n |-> << >>]
  <2>1. before \in [0..n -> Seq(B)] /\ before[0] = << >> /\ before[n] = << >>
    BY <1>2
  <2>2. FlattenSeq(seqs) = << >>
    BY <1>1, <1>2 DEF FlattenSeq
  <2>3. \A i \in 1..n : before[i] = before[i - 1] \o seqs[i]
    BY <1>2
  <2> HIDE DEF before
  <2> QED BY <2>1, <2>2, <2>3
<1>3. CASE n > 0
  <2>1. 0 \in S
    <3> DEFINE f == [i \in 1..0 |-> << >>]
    <3>1. f \in [1..0 -> Seq(B)] /\ \A i \in 1..0 : f[i] = From(f, i)
      OBVIOUS
    <3> HIDE DEF From, f
    <3> QED BY <3>1
  <2>2. ASSUME NEW k \in Nat, k \in S PROVE k + 1 \in S
    <3>1. SUFFICES ASSUME k + 1 <= n PROVE Built(k + 1)
      <4> HIDE DEF Built
      <4> QED OBVIOUS
    <3>8. Built(k)
      <4> HIDE DEF Built
      <4> QED BY <2>2, <3>1
    <3>2. PICK g \in [1..k -> Seq(B)] : \A i \in 1..k : g[i] = From(g, i)
      <4> HIDE DEF From
      <4> QED BY <3>8
    <3> DEFINE f == [i \in 1..(k + 1) |-> IF i = k + 1 THEN From(g, i) ELSE g[i]]
    <3>3. From(g, k + 1) \in Seq(B)
      <4>1. k + 1 \in 1..n
        BY <3>1
      <4>2. seqs[k + 1] \in Seq(B)
        BY <4>1
      <4>3. k + 1 # 1 => g[k] \in Seq(B) /\ k + 1 - 1 = k
        BY <3>2
      <4> QED BY <4>2, <4>3
    <3> HIDE DEF From
    <3>4. f \in [1..(k + 1) -> Seq(B)]
      BY <3>2, <3>3
    <3>5. \A i \in 1..k : f[i] = g[i] /\ i # k + 1
      OBVIOUS
    <3>6. f[k + 1] = From(g, k + 1)
      OBVIOUS
    <3> HIDE DEF f
    <3>7. ASSUME NEW i \in 1..(k + 1) PROVE f[i] = From(f, i)
      <4>1. From(f, i) = From(g, i)
        <5>1. i # 1 => i - 1 \in 1..k
          OBVIOUS
        <5>2. i # 1 => f[i - 1] = g[i - 1]
          BY <3>5, <5>1
        <5> QED BY <5>2 DEF From
      <4>2. CASE i = k + 1
        BY <3>6, <4>1, <4>2
      <4>3. CASE i # k + 1
        <5>1. i \in 1..k
          BY <4>3
        <5> QED BY <3>2, <3>5, <4>1, <5>1
      <4> QED BY <4>2, <4>3
    <3> QED BY <3>4, <3>7
  <2>3. n \in S
    <3> HIDE DEF S
    <3> QED BY <2>1, <2>2, SetInduction
  <2>4. PICK f \in [1..n -> Seq(B)] : \A i \in 1..n : f[i] = From(f, i)
    <3>1. Built(n)
      <4> HIDE DEF Built
      <4> QED BY <2>3
    <3> HIDE DEF From
    <3> QED BY <3>1
  <2>5. f = F(f)
    <3> HIDE DEF From
    <3> QED BY <2>4
  <2>6. flat = F(flat)
    <3> HIDE DEF F
    <3> QED BY <2>5
  <2>7. FlattenSeq(seqs) = flat[n]
    BY <1>1, <1>3 DEF FlattenSeq
  <2>8. \A i \in 1..n : flat[i] = From(flat, i)
    <3> HIDE DEF From
    <3> QED BY <2>6
  <2> HIDE DEF flat
  <2> DEFINE U == {k \in Nat : k + 1 <= n => flat[k + 1] \in Seq(B)}
  <2>9. 0 \in U
    <3>1. flat[1] = seqs[1]
      BY <1>3, <2>8
    <3> QED BY <1>3, <3>1
  <2>10. ASSUME NEW k \in Nat, k \in U PROVE k + 1 \in U
    <3>1. SUFFICES ASSUME k + 1 + 1 <= n PROVE flat[k + 1 + 1] \in Seq(B)
      OBVIOUS
    <3>2. PICK m \in 1..n : m = k + 1 + 1 /\ m # 1 /\ m - 1 = k + 1
      BY <3>1
    <3>3. flat[m] = flat[m - 1] \o seqs[m]
      BY <2>8, <3>2
    <3>4. flat[m - 1] \in Seq(B) /\ seqs[m] \in Seq(B)
      BY <2>10, <3>1, <3>2
    <3>5. flat[m] \in Seq(B)
      BY <3>3, <3>4
    <3> QED BY <3>2, <3>5
  <2>11. \A k \in Nat : k \in U
    <3> HIDE DEF U
    <3> QED BY <2>9, <2>10, SetInduction
  <2>12. \A i \in 1..n : flat[i] \in Seq(B)
    <3> SUFFICES ASSUME NEW i \in 1..n PROVE flat[i] \in Seq(B)
      OBVIOUS
    <3>1. i - 1 \in Nat /\ i - 1 + 1 = i
      OBVIOUS
    <3>2. i - 1 \in U
      BY <2>11, <3>1
    <3> QED BY <3>1, <3>2
  <2> HIDE DEF U
  <2> DEFINE before == [i \in 0..n |-> IF i = 0 THEN << >> ELSE flat[i]]
  <2>13. before \in [0..n -> Seq(B)]
    BY <2>12
  <2>14. before[0] = << >> /\ before[n] = flat[n]
    BY <1>3
  <2>15. ASSUME NEW i \in 1..n PROVE before[i] = before[i - 1] \o seqs[i]
    <3>1. before[i] = flat[i] /\ i - 1 \in 0..n
      OBVIOUS
    <3>2. CASE i = 1
      <4>1. before[i - 1] = << >> /\ flat[i] = seqs[1] /\ seqs[1] \in Seq(B)
        BY <2>8, <3>2
      <4>2. << >> \o seqs[1] = seqs[1]
        BY <4>1
      <4> QED BY <3>1, <3>2, <4>1, <4>2
    <3>3. CASE i # 1
      <4>1. before[i - 1] = flat[i - 1]
        BY <3>1, <3>3
      <4>2. From(flat, i) = flat[i - 1] \o seqs[i]
        BY <3>3
      <4>3. flat[i] = From(flat, i)
        <5> HIDE DEF From
        <5> QED BY <2>8
      <4> HIDE DEF From, before
      <4> QED BY <3>1, <4>1, <4>2, <4>3
    <3> QED BY <3>2, <3>3
  <2> HIDE DEF before
  <2> QED BY <2>7, <2>13, <2>14, <2>15
<1>4. n = 0 \/ n > 0
  OBVIOUS
<1> QED BY <1>2, <1>3, <1>4, Zenon

(* Two sequences joined.                                                     *)
LEMMA JoinedSequences ==
  ASSUME NEW B, NEW s \in Seq(B), NEW t \in Seq(B)
  PROVE  /\ s \o t \in Seq(B)
         /\ Len(s) \in Nat /\ Len(t) \in Nat /\ Len(s \o t) = Len(s) + Len(t)
         /\ \A j \in 1..Len(s) : (s \o t)[j] = s[j]
         /\ \A j \in 1..Len(t) : (s \o t)[Len(s) + j] = t[j]
  OBVIOUS

(* Of n sequences, number i lies in flat from at[i - 1] to at[i].            *)
LieIn(flat, n, seqs, at) ==
  /\ at[0] = 0 /\ at[n] = Len(flat)
  /\ \A i \in 1..n :
       /\ at[i] = at[i - 1] + Len(seqs[i])
       /\ at[i] <= at[n]
       /\ \A j \in 1..Len(seqs[i]) : flat[at[i - 1] + j] = seqs[i][j]

(* FlattenSeq puts sequences one behind the other.                           *)
THEOREM FlattenIs ==
  ASSUME NEW B, NEW n \in Nat, NEW seqs \in [1..n -> Seq(B)]
  PROVE  /\ FlattenSeq(seqs) \in Seq(B)
         /\ \E at \in [0..n -> Nat] : LieIn(FlattenSeq(seqs), n, seqs, at)
<1>1. PICK before \in [0..n -> Seq(B)] :
        /\ before[0] = << >>
        /\ \A i \in 1..n : before[i] = before[i - 1] \o seqs[i]
        /\ FlattenSeq(seqs) = before[n]
  BY FlattenSteps
<1>2. \A i \in 0..n : before[i] \in Seq(B) /\ Len(before[i]) \in Nat
  BY <1>1
(* What is before a step stays there.                                        *)
<1> DEFINE Kept(i) == /\ Len(before[i]) <= Len(before[n])
                      /\ \A j \in 1..Len(before[i]) : before[n][j] = before[i][j]
           S == {k \in Nat : k <= n => Kept(n - k)}
<1>3. 0 \in S
  <2>1. n - 0 = n
    OBVIOUS
  <2>2. Kept(n)
    BY <1>2
  <2> HIDE DEF Kept
  <2> QED BY <2>1, <2>2
<1>4. ASSUME NEW k \in Nat, k \in S PROVE k + 1 \in S
  <2>1. SUFFICES ASSUME k + 1 <= n PROVE Kept(n - (k + 1))
    <3> HIDE DEF Kept
    <3> QED OBVIOUS
  <2>2. PICK i \in 1..n : i = n - k /\ i - 1 = n - (k + 1)
    BY <2>1
  <2>3. Kept(i)
    <3> HIDE DEF Kept
    <3> QED BY <1>4, <2>1, <2>2
  <2>4. before[i] = before[i - 1] \o seqs[i] /\ seqs[i] \in Seq(B)
    BY <1>1
  <2>5. before[i - 1] \in Seq(B)
    BY <1>2
  <2>6. /\ Len(before[i - 1]) \in Nat /\ Len(before[n]) \in Nat
        /\ Len(seqs[i]) \in Nat /\ Len(before[i]) = Len(before[i - 1]) + Len(seqs[i])
        /\ \A j \in 1..Len(before[i - 1]) : before[i][j] = before[i - 1][j]
    BY <1>2, <2>4, <2>5, JoinedSequences
  <2>7. /\ Len(before[i - 1]) <= Len(before[i])
        /\ \A j \in 1..Len(before[i - 1]) : j \in 1..Len(before[i])
    BY <2>6
  <2>8. Kept(i - 1)
    <3>1. Len(before[i - 1]) <= Len(before[n])
      <4>1. Len(before[i]) \in Nat /\ Len(before[i]) <= Len(before[n])
        BY <1>2, <2>3
      <4> QED BY <2>6, <2>7, <4>1
    <3>2. \A j \in 1..Len(before[i - 1]) : before[n][j] = before[i - 1][j]
      BY <2>3, <2>6, <2>7
    <3> QED BY <3>1, <3>2
  <2> HIDE DEF Kept
  <2> QED BY <2>2, <2>8
<1>5. \A k \in Nat : k \in S
  <2> HIDE DEF S
  <2> QED BY <1>3, <1>4, SetInduction
<1>6. \A i \in 0..n : Kept(i)
  <2> SUFFICES ASSUME NEW i \in 0..n PROVE Kept(i)
    OBVIOUS
  <2>1. n - i \in Nat /\ n - i <= n /\ n - (n - i) = i
    OBVIOUS
  <2>2. n - i \in S
    BY <1>5, <2>1
  <2> HIDE DEF Kept
  <2> QED BY <2>1, <2>2
<1> HIDE DEF S
<1> DEFINE at == [i \in 0..n |-> Len(before[i])]
<1>7. at \in [0..n -> Nat]
  BY <1>2
<1>8. at[0] = 0 /\ at[n] = Len(FlattenSeq(seqs))
  BY <1>1
<1>9. ASSUME NEW i \in 1..n
      PROVE  /\ at[i] = at[i - 1] + Len(seqs[i])
             /\ at[i] <= at[n]
             /\ \A j \in 1..Len(seqs[i]) : FlattenSeq(seqs)[at[i - 1] + j] = seqs[i][j]
  <2>1. i \in 0..n /\ i - 1 \in 0..n /\ n \in 0..n
    OBVIOUS
  <2>2. PICK from \in Nat : from = at[i - 1] /\ from = Len(before[i - 1])
    BY <1>2, <2>1
  <2>3. PICK to \in Nat : to = at[i] /\ to = Len(before[i])
    BY <1>2, <2>1
  <2>4. at[n] = Len(before[n])
    BY <2>1
  <2> HIDE DEF at
  <2>5. before[i - 1] \in Seq(B) /\ seqs[i] \in Seq(B) /\ before[i] = before[i - 1] \o seqs[i]
    BY <1>1, <1>2, <2>1
  <2>6. PICK len \in Nat : len = Len(seqs[i])
    BY <2>5
  <2>7. /\ Len(before[i]) = Len(before[i - 1]) + Len(seqs[i])
        /\ \A j \in 1..Len(seqs[i]) : before[i][Len(before[i - 1]) + j] = seqs[i][j]
    BY <2>5, JoinedSequences
  <2>8. to = from + len
    BY <2>2, <2>3, <2>6, <2>7, Zenon
  <2>9. \A j \in 1..len : before[i][from + j] = seqs[i][j]
    BY <2>2, <2>6, <2>7, Zenon
  <2>10. to <= Len(before[n]) /\ \A j \in 1..to : before[n][j] = before[i][j]
    BY <1>6, <2>1, <2>3
  <2>11. \A j \in 1..len : from + j \in 1..to
    BY <2>8
  <2>12. \A j \in 1..len : before[n][from + j] = seqs[i][j]
    BY <2>9, <2>10, <2>11
  <2> QED BY <1>1, <2>2, <2>3, <2>4, <2>6, <2>8, <2>10, <2>12
<1> HIDE DEF at
<1>10. FlattenSeq(seqs) \in Seq(B)
  BY <1>1, <1>2
<1>11. LieIn(FlattenSeq(seqs), n, seqs, at)
  BY <1>8, <1>9 DEF LieIn
<1> QED BY <1>7, <1>10, <1>11
=============================================================================
