-------------------------- MODULE FlattenTheorems --------------------------
(***************************************************************************)
(* FlattenSeq of SequencesExt joins what out_daap.rb pushes for each item  *)
(* of a batch, and what stdout_parser.c finds in each column of a row.     *)
(* Here: what it returns, for sequences of any length.  Induction on the   *)
(* length is stated on sets, as a least counterexample.                    *)
(***************************************************************************)
EXTENDS Integers, Sequences, SequencesExt, SequenceTheorems, WellFoundedInduction, TLAPS

(* A set of natural numbers that is not empty has a least element.         *)
LEMMA LeastNat ==
    ASSUME NEW T, T \subseteq Nat, T # {}
    PROVE  \E x \in T : \A y \in T : x <= y
<1> DEFINE R == OpToRel(<, Nat)
<1>1. \A x, y \in Nat : y < x => <<y, x>> \in R
  BY DEF OpToRel
<1>2. IsWellFoundedOn(R, Nat)
  BY NatLessThanWellFounded
<1> HIDE DEF R
<1>3. PICK x \in T : \A y \in T : <<y, x>> \notin R
  BY <1>2, WFMin
<1>4. \A y \in T : ~(y < x)
  BY <1>1, <1>3
<1>5. QED
  BY <1>4

(* Induction: a set that holds 0 and, with every number, the next one,     *)
(* holds all numbers.                                                      *)
LEMMA SetInduction ==
    ASSUME NEW S, 0 \in S, \A n \in Nat : n \in S => n + 1 \in S
    PROVE  \A n \in Nat : n \in S
<1> SUFFICES ASSUME Nat \ S # {} PROVE FALSE
  OBVIOUS
<1>1. PICK x \in Nat \ S : \A y \in Nat \ S : x <= y
  BY LeastNat
<1>2. x # 0 /\ x - 1 \in Nat
  BY <1>1
<1>3. x - 1 \notin S
  BY <1>2
<1>4. QED
  BY <1>1, <1>2, <1>3

(* The recursive function in the definition of FlattenSeq, on n elements.  *)
Joins(f, s, n) == f = [i \in 1 .. n |-> IF i = 1 THEN s[i] ELSE f[i - 1] \o s[i]]

(* A function that joins n elements is extended to one more.               *)
LEMMA JoinsNext ==
    ASSUME NEW s, NEW n \in Nat, NEW f, Joins(f, s, n)
    PROVE  \E g : Joins(g, s, n + 1)
<1> DEFINE last == IF n + 1 = 1 THEN s[n + 1] ELSE f[n] \o s[n + 1]
           g == [i \in 1 .. n + 1 |-> IF i = n + 1 THEN last ELSE f[i]]
<1>1. ASSUME NEW i \in 1 .. n + 1 PROVE g[i] = IF i = 1 THEN s[i] ELSE g[i - 1] \o s[i]
  <2>1. CASE i = n + 1
    BY <2>1
  <2>2. CASE i # n + 1
    <3>1. i \in 1 .. n /\ g[i] = f[i]
      BY <2>2
    <3>2. f[i] = IF i = 1 THEN s[i] ELSE f[i - 1] \o s[i]
      BY <3>1 DEF Joins
    <3>3. i # 1 => i - 1 \in 1 .. n + 1 /\ i - 1 # n + 1
      BY <3>1
    <3>4. i # 1 => g[i - 1] = f[i - 1]
      BY <3>3
    <3>5. QED
      BY <3>1, <3>2, <3>4
  <2>3. QED
    BY <2>1, <2>2
<1>2. g = [i \in 1 .. n + 1 |-> g[i]]
  OBVIOUS
<1> HIDE DEF g
<1>3. Joins(g, s, n + 1)
  BY <1>1, <1>2 DEF Joins
<1>4. QED
  BY <1>3

(* There is such a function for every number of elements.                  *)
LEMMA JoinsExists ==
    ASSUME NEW s, NEW n \in Nat
    PROVE  \E f : Joins(f, s, n)
<1> DEFINE S == {m \in Nat : \E f : Joins(f, s, m)}
<1>1. 0 \in S
  <2>1. Joins([i \in 1 .. 0 |-> 0], s, 0)
    BY DEF Joins
  <2>2. QED
    BY <2>1
<1>2. ASSUME NEW m \in Nat, m \in S PROVE m + 1 \in S
  BY <1>2, JoinsNext
<1> HIDE DEF S
<1>3. n \in S
  BY <1>1, <1>2, SetInduction
<1>4. QED
  BY <1>3 DEF S

(* Two sequences, or two such functions, begin alike.                      *)
Alike(s, t, m) == \A i \in 1 .. m : s[i] = t[i]

(* Two of them, on sequences that begin alike, agree on the beginning.     *)
LEMMA JoinsAgree ==
    ASSUME NEW s, NEW t, NEW m \in Nat, NEW n \in Nat, m <= n, NEW f, NEW g,
           Joins(f, s, m), Joins(g, t, n), Alike(s, t, m)
    PROVE  Alike(f, g, m)
<1> DEFINE S == {k \in Nat : k \in 1 .. m => f[k] = g[k]}
<1>1. 0 \in S
  OBVIOUS
<1>2. ASSUME NEW k \in Nat, k \in S PROVE k + 1 \in S
  <2> SUFFICES ASSUME k + 1 \in 1 .. m PROVE f[k + 1] = g[k + 1]
    OBVIOUS
  <2>1. /\ f[k + 1] = IF k + 1 = 1 THEN s[k + 1] ELSE f[k] \o s[k + 1]
        /\ g[k + 1] = IF k + 1 = 1 THEN t[k + 1] ELSE g[k] \o t[k + 1]
    <3>1. k + 1 \in 1 .. m /\ k + 1 \in 1 .. n /\ (k + 1) - 1 = k
      OBVIOUS
    <3>2. /\ f[k + 1] = IF k + 1 = 1 THEN s[k + 1] ELSE f[(k + 1) - 1] \o s[k + 1]
          /\ g[k + 1] = IF k + 1 = 1 THEN t[k + 1] ELSE g[(k + 1) - 1] \o t[k + 1]
      BY <3>1, Zenon DEF Joins
    <3>3. QED
      BY <3>1, <3>2
  <2>2. k + 1 # 1 => f[k] = g[k]
    BY <1>2
  <2>3. QED
    BY <2>1, <2>2 DEF Alike
<1> HIDE DEF S
<1>3. \A k \in Nat : k \in S
  BY <1>1, <1>2, SetInduction
<1>4. QED
  BY <1>3 DEF S, Alike

(* FlattenSeq of a sequence that is not empty is the last value of it.     *)
LEMMA FlattenIsJoin ==
    ASSUME NEW s, Len(s) \in Nat, Len(s) # 0
    PROVE  \E f : Joins(f, s, Len(s)) /\ FlattenSeq(s) = f[Len(s)]
<1> DEFINE f == CHOOSE g : Joins(g, s, Len(s))
<1>1. Joins(f, s, Len(s))
  BY JoinsExists
<1>2. FlattenSeq(s) = f[Len(s)]
  BY DEF FlattenSeq, Joins
<1>3. QED
  BY <1>1, <1>2

(* Flattening nothing gives nothing.                                       *)
LEMMA FlattenEmpty ==
    ASSUME NEW s, Len(s) = 0
    PROVE  FlattenSeq(s) = s
BY DEF FlattenSeq

(* Flattening a sequence without its last element, and appending that      *)
(* element, flattens the sequence: handling items one at a time and        *)
(* pushing what each gives is flattening what all of them give.            *)
THEOREM FlattenAppend ==
    ASSUME NEW S, NEW s \in Seq(Seq(S)), NEW x \in Seq(S), FlattenSeq(s) \in Seq(S)
    PROVE  FlattenSeq(Append(s, x)) = FlattenSeq(s) \o x
<1> DEFINE t == Append(s, x)
           n == Len(s)
<1>1. /\ n \in Nat /\ t \in Seq(Seq(S)) /\ Len(t) = n + 1
      /\ t[n + 1] = x /\ \A i \in 1 .. n : t[i] = s[i]
  OBVIOUS
<1>2. PICK g : Joins(g, t, n + 1) /\ FlattenSeq(t) = g[n + 1]
  <2>1. n + 1 # 0
    BY <1>1
  <2> HIDE DEF t
  <2>2. QED
    BY <1>1, <2>1, FlattenIsJoin
<1>3. g[n + 1] = IF n + 1 = 1 THEN t[n + 1] ELSE g[n] \o t[n + 1]
  <2>1. n + 1 \in 1 .. n + 1 /\ (n + 1) - 1 = n
    BY <1>1
  <2> HIDE DEF t, n
  <2>2. QED
    BY <1>2, <2>1 DEF Joins
<1>4. CASE n = 0
  <2>1. FlattenSeq(s) = <<>>
    BY <1>4, FlattenEmpty
  <2>2. <<>> \o x = x
    OBVIOUS
  <2>3. QED
    BY <1>1, <1>2, <1>3, <1>4, <2>1, <2>2
<1>5. CASE n # 0
  <2>1. PICK f : Joins(f, s, n) /\ FlattenSeq(s) = f[n]
    BY <1>1, <1>5, FlattenIsJoin
  <2>2. f[n] = g[n]
    <3>1. n \in 1 .. n /\ n <= n + 1 /\ n + 1 \in Nat
      BY <1>1, <1>5
    <3> HIDE DEF t, n
    <3>2. Alike(s, t, n)
      BY <1>1 DEF Alike
    <3>3. Alike(f, g, n)
      BY <1>1, <1>2, <2>1, <3>1, <3>2, JoinsAgree
    <3>4. QED
      BY <3>1, <3>3 DEF Alike
  <2>3. n + 1 # 1
    BY <1>1, <1>5
  <2>4. QED
    BY <1>1, <1>2, <1>3, <2>1, <2>2, <2>3
<1>6. QED
  BY <1>4, <1>5

(* What sequences of S are flattened to is a sequence of S.                *)
THEOREM FlattenType ==
    ASSUME NEW S, NEW s \in Seq(Seq(S))
    PROVE  FlattenSeq(s) \in Seq(S)
<1> DEFINE P(n) == \A t \in Seq(Seq(S)) : Len(t) = n => FlattenSeq(t) \in Seq(S)
           N == {n \in Nat : P(n)}
<1>1. 0 \in N
  BY FlattenEmpty
<1>2. ASSUME NEW n \in Nat, n \in N PROVE n + 1 \in N
  <2> SUFFICES ASSUME NEW t \in Seq(Seq(S)), Len(t) = n + 1 PROVE FlattenSeq(t) \in Seq(S)
    OBVIOUS
  <2>1. Front(t) \in Seq(Seq(S)) /\ Len(Front(t)) = n /\ t[n + 1] \in Seq(S)
    BY DEF Front
  <2>2. t = Append(Front(t), t[n + 1])
    BY DEF Front
  <2>3. FlattenSeq(Front(t)) \in Seq(S)
    BY <1>2, <2>1
  <2>4. FlattenSeq(t) = FlattenSeq(Front(t)) \o t[n + 1]
    <3> DEFINE fr == Front(t)
    <3> HIDE DEF fr
    <3>1. FlattenSeq(Append(fr, t[n + 1])) = FlattenSeq(fr) \o t[n + 1]
      BY <2>1, <2>3, FlattenAppend DEF fr
    <3>2. QED
      BY <2>2, <3>1 DEF fr
  <2>5. QED
    BY <2>1, <2>3, <2>4
<1> HIDE DEF N
<1>3. Len(s) \in N
  <2>1. Len(s) \in Nat
    OBVIOUS
  <2>2. QED
    BY <1>1, <1>2, <2>1, SetInduction
<1>4. QED
  BY <1>3 DEF N

(* An element of what is flattened comes from one of the sequences.        *)
THEOREM FlattenElements ==
    ASSUME NEW S, NEW s \in Seq(Seq(S)), NEW m \in ToSet(FlattenSeq(s))
    PROVE  \E j \in 1 .. Len(s) : m \in ToSet(s[j])
<1> DEFINE P(t) == \A e \in ToSet(FlattenSeq(t)) : \E j \in 1 .. Len(t) : e \in ToSet(t[j])
           N == {n \in Nat : \A t \in Seq(Seq(S)) : Len(t) = n => P(t)}
<1>1. 0 \in N
  BY FlattenEmpty DEF ToSet
<1>2. ASSUME NEW n \in Nat, n \in N PROVE n + 1 \in N
  <2> SUFFICES ASSUME NEW t \in Seq(Seq(S)), Len(t) = n + 1 PROVE P(t)
    OBVIOUS
  <2> DEFINE fr == Front(t)
             x == t[n + 1]
  <2>1. fr \in Seq(Seq(S)) /\ Len(fr) = n /\ x \in Seq(S) /\ \A j \in 1 .. n : fr[j] = t[j]
    BY DEF Front
  <2>2. t = Append(fr, x)
    BY DEF Front
  <2>3. P(fr)
    BY <1>2, <2>1
  <2> HIDE DEF fr, x
  <2>4. FlattenSeq(fr) \in Seq(S)
    BY <2>1, FlattenType
  <2>5. FlattenSeq(t) = FlattenSeq(fr) \o x
    BY <2>1, <2>2, <2>4, FlattenAppend
  <2>6. ASSUME NEW e \in ToSet(FlattenSeq(t)) PROVE \E j \in 1 .. Len(t) : e \in ToSet(t[j])
    <3>1. e \in ToSet(FlattenSeq(fr)) \/ e \in ToSet(x)
      <4> DEFINE g == FlattenSeq(fr)
      <4> HIDE DEF g
      <4>1. g \in Seq(S) /\ e \in ToSet(g \o x)
        BY <2>4, <2>5, <2>6 DEF g
      <4>2. QED
        BY <2>1, <4>1 DEF g, ToSet
    <3>2. CASE e \in ToSet(x)
      BY <3>2 DEF x
    <3>3. CASE e \in ToSet(FlattenSeq(fr))
      <4>1. PICK j \in 1 .. n : e \in ToSet(fr[j])
        BY <2>1, <2>3, <3>3
      <4>2. QED
        BY <2>1, <4>1
    <3>4. QED
      BY <3>1, <3>2, <3>3
  <2>7. QED
    BY <2>6
<1> HIDE DEF N
<1>3. Len(s) \in N
  <2>1. Len(s) \in Nat
    OBVIOUS
  <2>2. QED
    BY <1>1, <1>2, <2>1, SetInduction
<1>4. QED
  BY <1>3 DEF N

(* A sequence that is not empty is flattened from its front.               *)
LEMMA FlattenFront ==
    ASSUME NEW S, NEW t \in Seq(Seq(S)), NEW n \in Nat, Len(t) = n + 1
    PROVE  \E fr \in Seq(Seq(S)) :
             /\ Len(fr) = n /\ (\A j \in 1 .. n : fr[j] = t[j]) /\ t[n + 1] \in Seq(S)
             /\ FlattenSeq(fr) \in Seq(S) /\ FlattenSeq(t) = FlattenSeq(fr) \o t[n + 1]
<1> DEFINE fr == Front(t)
           x == t[n + 1]
<1>1. fr \in Seq(Seq(S)) /\ Len(fr) = n /\ x \in Seq(S) /\ \A j \in 1 .. n : fr[j] = t[j]
  BY DEF Front
<1>2. t = Append(fr, x)
  BY DEF Front
<1> HIDE DEF fr, x
<1>3. FlattenSeq(fr) \in Seq(S)
  BY <1>1, FlattenType
<1>4. FlattenSeq(t) = FlattenSeq(fr) \o x
  BY <1>1, <1>2, <1>3, FlattenAppend
<1>5. QED
  BY <1>1, <1>3, <1>4 DEF x

(* Fewer sequences, none longer than its partner, flatten to no more: what *)
(* is found in some columns of a row, without the columns passed over, is  *)
(* no more than the row has.                                               *)
THEOREM FlattenShorter ==
    ASSUME NEW S, NEW T, NEW s \in Seq(Seq(S)), NEW t \in Seq(Seq(T)), Len(s) <= Len(t),
           \A i \in 1 .. Len(s) : Len(s[i]) <= Len(t[i])
    PROVE  Len(FlattenSeq(s)) <= Len(FlattenSeq(t))
<1> DEFINE Under(u, v) == Len(u) <= Len(v) /\ \A i \in 1 .. Len(u) : Len(u[i]) <= Len(v[i])
           P(n) == \A u \in Seq(Seq(S)), v \in Seq(Seq(T)) :
                     Len(v) = n /\ Under(u, v) => Len(FlattenSeq(u)) <= Len(FlattenSeq(v))
           N == {n \in Nat : P(n)}
<1>1. 0 \in N
  <2> SUFFICES ASSUME NEW u \in Seq(Seq(S)), NEW v \in Seq(Seq(T)), Len(v) = 0, Len(u) <= Len(v)
               PROVE  Len(FlattenSeq(u)) <= Len(FlattenSeq(v))
    OBVIOUS
  <2>1. Len(u) = 0
    OBVIOUS
  <2>2. FlattenSeq(u) = u /\ FlattenSeq(v) = v
    BY <2>1, FlattenEmpty
  <2>3. QED
    BY <2>1, <2>2
<1>2. ASSUME NEW n \in Nat, n \in N PROVE n + 1 \in N
  <2> SUFFICES ASSUME NEW u \in Seq(Seq(S)), NEW v \in Seq(Seq(T)), Len(v) = n + 1, Under(u, v)
               PROVE  Len(FlattenSeq(u)) <= Len(FlattenSeq(v))
    OBVIOUS
  <2>1. PICK fv \in Seq(Seq(T)) :
          /\ Len(fv) = n /\ (\A j \in 1 .. n : fv[j] = v[j]) /\ v[n + 1] \in Seq(T)
          /\ FlattenSeq(fv) \in Seq(T) /\ FlattenSeq(v) = FlattenSeq(fv) \o v[n + 1]
    BY FlattenFront
  <2>2. /\ Len(FlattenSeq(fv)) \in Nat /\ Len(v[n + 1]) \in Nat
        /\ Len(FlattenSeq(v)) = Len(FlattenSeq(fv)) + Len(v[n + 1])
    <3>1. \A a, b \in Seq(T) : Len(a) \in Nat /\ Len(a \o b) = Len(a) + Len(b)
      OBVIOUS
    <3>2. QED
      BY <2>1, <3>1
  <2>3. FlattenSeq(u) \in Seq(S) /\ Len(FlattenSeq(u)) \in Nat
    BY FlattenType
  <2>4. CASE Len(u) <= n
    <3>1. Under(u, fv)
      BY <2>1, <2>4
    <3>2. Len(FlattenSeq(u)) <= Len(FlattenSeq(fv))
      BY <1>2, <2>1, <3>1
    <3>3. QED
      BY <2>2, <2>3, <3>2
  <2>5. CASE Len(u) = n + 1
    <3>1. PICK fu \in Seq(Seq(S)) :
            /\ Len(fu) = n /\ (\A j \in 1 .. n : fu[j] = u[j]) /\ u[n + 1] \in Seq(S)
            /\ FlattenSeq(fu) \in Seq(S) /\ FlattenSeq(u) = FlattenSeq(fu) \o u[n + 1]
      BY <2>5, FlattenFront
    <3>2. /\ Len(FlattenSeq(fu)) \in Nat /\ Len(u[n + 1]) \in Nat
          /\ Len(FlattenSeq(u)) = Len(FlattenSeq(fu)) + Len(u[n + 1])
      <4>1. \A a, b \in Seq(S) : Len(a) \in Nat /\ Len(a \o b) = Len(a) + Len(b)
        OBVIOUS
      <4>2. QED
        BY <3>1, <4>1
    <3>3. Under(fu, fv) /\ Len(u[n + 1]) <= Len(v[n + 1])
      BY <2>1, <2>5, <3>1
    <3>4. Len(FlattenSeq(fu)) <= Len(FlattenSeq(fv))
      BY <1>2, <2>1, <3>1, <3>3
    <3>5. QED
      BY <2>2, <3>2, <3>3, <3>4
  <2>6. Len(u) <= n \/ Len(u) = n + 1
    OBVIOUS
  <2>7. QED
    BY <2>4, <2>5, <2>6
<1> HIDE DEF N
<1>3. Len(t) \in N
  <2>1. Len(t) \in Nat
    OBVIOUS
  <2>2. QED
    BY <1>1, <1>2, <2>1, SetInduction
<1>4. QED
  BY <1>3 DEF N

(* Sequences that are related element by element, and their concatenations.*)
Pairwise(s, t, R) == Len(s) = Len(t) /\ \A k \in 1 .. Len(s) : <<s[k], t[k]>> \in R
LEMMA PairwiseConcat ==
    ASSUME NEW S, NEW T, NEW R, NEW a \in Seq(S), NEW b \in Seq(S),
           NEW c \in Seq(T), NEW d \in Seq(T), Pairwise(a, c, R), Pairwise(b, d, R)
    PROVE  Pairwise(a \o b, c \o d, R)
<1> DEFINE m == Len(a)
           n == Len(b)
           ab == a \o b
           cd == c \o d
<1>1. m \in Nat /\ n \in Nat
  OBVIOUS
<1>2. Len(c) = m /\ Len(d) = n
  BY DEF Pairwise
<1>3. Len(ab) = m + n /\ \A k \in 1 .. m + n : ab[k] = IF k <= m THEN a[k] ELSE b[k - m]
  BY ConcatProperties
<1>4. Len(cd) = m + n /\ \A k \in 1 .. m + n : cd[k] = IF k <= m THEN c[k] ELSE d[k - m]
  <2>1. /\ Len(cd) = Len(c) + Len(d)
        /\ \A k \in 1 .. Len(c) + Len(d) : cd[k] = IF k <= Len(c) THEN c[k] ELSE d[k - Len(c)]
    BY ConcatProperties
  <2> HIDE DEF m, n, cd
  <2>2. QED
    BY <1>2, <2>1
<1>5. (\A k \in 1 .. m : <<a[k], c[k]>> \in R) /\ \A k \in 1 .. n : <<b[k], d[k]>> \in R
  BY DEF Pairwise
<1> HIDE DEF m, n, ab, cd
<1>6. ASSUME NEW k \in 1 .. m + n PROVE <<ab[k], cd[k]>> \in R
  <2>1. CASE k <= m
    <3>1. k \in 1 .. m
      BY <1>1, <2>1
    <3>2. QED
      BY <1>3, <1>4, <1>5, <2>1, <3>1
  <2>2. CASE ~(k <= m)
    <3>1. k - m \in 1 .. n
      BY <1>1, <2>2
    <3>2. ab[k] = b[k - m] /\ cd[k] = d[k - m]
      BY <1>3, <1>4, <2>2
    <3>3. QED
      BY <1>5, <3>1, <3>2
  <2>3. QED
    BY <2>1, <2>2
<1>7. Pairwise(ab, cd, R)
  BY <1>3, <1>4, <1>6 DEF Pairwise
<1>8. QED
  BY <1>7 DEF ab, cd

(* Sequences related element by element flatten to sequences that are: a   *)
(* row copied value by value flattens to the copies of the row's values.   *)
THEOREM FlattenPairwise ==
    ASSUME NEW S, NEW T, NEW R, NEW s \in Seq(Seq(S)), NEW t \in Seq(Seq(T)), Len(s) = Len(t),
           \A i \in 1 .. Len(s) : Pairwise(s[i], t[i], R)
    PROVE  Pairwise(FlattenSeq(s), FlattenSeq(t), R)
<1> DEFINE P(n) == \A u \in Seq(Seq(S)), v \in Seq(Seq(T)) :
                     /\ Len(u) = n /\ Len(v) = n
                     /\ \A i \in 1 .. n : Pairwise(u[i], v[i], R)
                     => Pairwise(FlattenSeq(u), FlattenSeq(v), R)
           N == {n \in Nat : P(n)}
<1>1. 0 \in N
  BY FlattenEmpty DEF Pairwise
<1>2. ASSUME NEW n \in Nat, n \in N PROVE n + 1 \in N
  <2> SUFFICES ASSUME NEW u \in Seq(Seq(S)), NEW v \in Seq(Seq(T)), Len(u) = n + 1, Len(v) = n + 1,
                      \A i \in 1 .. n + 1 : Pairwise(u[i], v[i], R)
               PROVE  Pairwise(FlattenSeq(u), FlattenSeq(v), R)
    OBVIOUS
  <2>1. PICK fv \in Seq(Seq(T)) :
          /\ Len(fv) = n /\ (\A j \in 1 .. n : fv[j] = v[j]) /\ v[n + 1] \in Seq(T)
          /\ FlattenSeq(fv) \in Seq(T) /\ FlattenSeq(v) = FlattenSeq(fv) \o v[n + 1]
    BY FlattenFront
  <2>2. PICK fu \in Seq(Seq(S)) :
          /\ Len(fu) = n /\ (\A j \in 1 .. n : fu[j] = u[j]) /\ u[n + 1] \in Seq(S)
          /\ FlattenSeq(fu) \in Seq(S) /\ FlattenSeq(u) = FlattenSeq(fu) \o u[n + 1]
    BY FlattenFront
  <2>3. Pairwise(FlattenSeq(fu), FlattenSeq(fv), R)
    <3>1. \A i \in 1 .. n : Pairwise(fu[i], fv[i], R)
      BY <2>1, <2>2
    <3>2. QED
      BY <1>2, <2>1, <2>2, <3>1
  <2>4. Pairwise(u[n + 1], v[n + 1], R)
    OBVIOUS
  <2>5. QED
    BY <2>1, <2>2, <2>3, <2>4, PairwiseConcat
<1> HIDE DEF N
<1>3. Len(t) \in N
  <2>1. Len(t) \in Nat
    OBVIOUS
  <2>2. QED
    BY <1>1, <1>2, <2>1, SetInduction
<1>4. QED
  BY <1>3 DEF N
=============================================================================
