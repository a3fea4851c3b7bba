----------------------------- MODULE TextsProofs -----------------------------
(***************************************************************************)
(* What the operators of Texts, and FlattenSeq, do to every sequence.  They   *)
(* are recursive functions, so that the proofs need induction.  The theorems  *)
(* of the library that state it take an operator; here it is derived, for     *)
(* sets, from the fact that < on the natural numbers is well-founded.         *)
(***************************************************************************)
EXTENDS Texts, SequenceTheorems, TLAPS, FiniteSetTheorems

W == INSTANCE WellFoundedInduction

LEMMA LessThan == W!OpToRel(<, Nat) = {p \in Nat \X Nat : p[1] < p[2]}
  BY Zenon DEF W!OpToRel

\* A set of natural numbers that holds 0 and, with a number, the next one holds all:
\* there is no least number that it lacks.
LEMMA Induction ==
  ASSUME NEW P, 0 \in P, \A n \in Nat : n \in P => n + 1 \in P
  PROVE  Nat \subseteq P
<1> DEFINE R == W!OpToRel(<, Nat)
           Q == Nat \ P
<1>1. W!IsWellFoundedOn(R, Nat)  BY W!NatLessThanWellFounded
<1>2. R = {p \in Nat \X Nat : p[1] < p[2]}  BY LessThan
<1> HIDE DEF R
<1> SUFFICES ASSUME Q # {}
             PROVE  FALSE
  OBVIOUS
<1>3. PICK n \in Q : \A m \in Q : <<m, n>> \notin R  BY <1>1, W!WFMin
<1>4. n \in Nat /\ n - 1 \in Q  OBVIOUS
<1>5. <<n - 1, n>> \in R  BY <1>2, <1>4
<1> QED  BY <1>3, <1>4, <1>5

\* The same for the sequences over a set, which are built by Append.
LEMMA SeqInduction ==
  ASSUME NEW S, NEW P, <<>> \in P,
         \A s \in Seq(S), x \in S : s \in P => Append(s, x) \in P
  PROVE  Seq(S) \subseteq P
<1> DEFINE T == {n \in Nat : \A s \in Seq(S) : Len(s) = n => s \in P}
<1>1. 0 \in T  OBVIOUS
<1>2. ASSUME NEW n \in Nat, n \in T
      PROVE  n + 1 \in T
  <2> SUFFICES ASSUME NEW s \in Seq(S), Len(s) = n + 1
               PROVE  s \in P
    OBVIOUS
  <2>1. s = Append(SubSeq(s, 1, n), s[n + 1])  OBVIOUS
  <2>2. SubSeq(s, 1, n) \in Seq(S) /\ Len(SubSeq(s, 1, n)) = n /\ s[n + 1] \in S  OBVIOUS
  <2> QED  BY <1>2, <2>1, <2>2
<1>3. Nat \subseteq T
  <2> HIDE DEF T
  <2> QED  BY <1>1, <1>2, Induction
<1> QED  BY <1>3

\* What \o and Append do to each other.
LEMMA Associates ==
  ASSUME NEW S
  PROVE  \A a, b, c \in Seq(S) : (a \o b) \o c = a \o (b \o c)
BY ConcatAssociative, SMTT(30)

LEMMA AppendToConcat ==
  ASSUME NEW S, NEW s \in Seq(S), NEW t \in Seq(S), NEW x \in S
  PROVE  s \o Append(t, x) = Append(s \o t, x)
OBVIOUS

LEMMA LastElement ==
  ASSUME NEW S, NEW s \in Seq(S), s # <<>>
  PROVE  \E t \in Seq(S), x \in S : s = Append(t, x)
<1> WITNESS SubSeq(s, 1, Len(s) - 1) \in Seq(S), s[Len(s)] \in S
<1> QED  OBVIOUS

LEMMA ReplaceLast ==
  ASSUME NEW S, NEW s \in Seq(S), NEW x \in S, NEW y \in S
  PROVE  [Append(s, x) EXCEPT ![Len(Append(s, x))] = y] = Append(s, y)
<1> DEFINE t == Append(s, x)
           u == Append(s, y)
           n == Len(t)
<1>1. t \in Seq(S) /\ u \in Seq(S) /\ n \in 1..Len(t) /\ Len(u) = n  OBVIOUS
<1>2. \A i \in 1..n : u[i] = IF i = n THEN y ELSE t[i]  OBVIOUS
<1> HIDE DEF t, u
<1>3. /\ [t EXCEPT ![n] = y] \in Seq(S)
      /\ Len([t EXCEPT ![n] = y]) = n
      /\ \A i \in 1..n : [t EXCEPT ![n] = y][i] = IF i = n THEN y ELSE t[i]
  BY <1>1, ExceptSeq
<1>4. [t EXCEPT ![n] = y] = u  BY <1>1, <1>2, <1>3, SeqEqual
<1> QED  BY <1>4 DEF t, u

\* Where a sequence is cut, and what a cut leaves of two joined ones.
LEMMA TwoParts ==
  ASSUME NEW S, NEW s \in Seq(S), NEW n \in 0..Len(s)
  PROVE  /\ SubSeq(s, 1, n) \in Seq(S) /\ Len(SubSeq(s, 1, n)) = n
         /\ SubSeq(s, n + 1, Len(s)) \in Seq(S)
         /\ s = SubSeq(s, 1, n) \o SubSeq(s, n + 1, Len(s))
<1>1. /\ SubSeq(s, 1, n) \in Seq(S) /\ Len(SubSeq(s, 1, n)) = n
      /\ SubSeq(s, n + 1, Len(s)) \in Seq(S)
  OBVIOUS
<1>2. SubSeq(s, 1, n) \o SubSeq(s, n + 1, Len(s)) = SubSeq(s, 1, Len(s))
  <2>1. 1 \in 1..Len(s) + 1 /\ n \in 1 - 1..Len(s) /\ Len(s) \in n..Len(s)  OBVIOUS
  <2> QED  BY <2>1, ConcatAdjacentSubSeq
<1> QED  BY <1>1, <1>2, SubSeqFull

LEMMA TakeFirst ==
  ASSUME NEW S, NEW s \in Seq(S), NEW t \in Seq(S), NEW k \in 0..Len(s)
  PROVE  SubSeq(s \o t, 1, k) = SubSeq(s, 1, k)
OBVIOUS

LEMMA TakeMore ==
  ASSUME NEW S, NEW s \in Seq(S), NEW t \in Seq(S), NEW k \in 0..Len(t)
  PROVE  SubSeq(s \o t, 1, Len(s) + k) = s \o SubSeq(t, 1, k)
OBVIOUS

LEMMA PrefixOfConcat ==
  ASSUME NEW S, NEW s \in Seq(S), NEW t \in Seq(S)
  PROVE  IsPrefix(s, s \o t)
BY DEF IsPrefix

LEMMA RestAfterPrefix ==
  ASSUME NEW S, NEW s \in Seq(S), NEW t \in Seq(S), IsPrefix(s, t)
  PROVE  \E w \in Seq(S) : t = s \o w
<1>1. Len(s) \in 0..Len(t)  BY DEF IsPrefix
<1>2. SubSeq(t, 1, Len(s)) = s  BY SubSeqFull DEF IsPrefix
<1>3. SubSeq(t, Len(s) + 1, Len(t)) \in Seq(S)  BY <1>1, TwoParts
<1>4. t = s \o SubSeq(t, Len(s) + 1, Len(t))  BY <1>1, <1>2, TwoParts
<1> QED  BY <1>3, <1>4

-----------------------------------------------------------------------------
(* FlattenSeq.                                                              *)

\* The function that FlattenSeq defines, on the first n elements.
Unrolled(s, f, n) == f = [i \in 1..n |-> IF i = 1 THEN s[i] ELSE f[i - 1] \o s[i]]

LEMMA UnrolledAt ==
  ASSUME NEW s, NEW f, NEW n, Unrolled(s, f, n), NEW i \in 1..n
  PROVE  f[i] = IF i = 1 THEN s[i] ELSE f[i - 1] \o s[i]
<1>1. f = [j \in 1..n |-> IF j = 1 THEN s[j] ELSE f[j - 1] \o s[j]]  BY DEF Unrolled
<1> QED  BY ONLY <1>1, i \in 1..n

LEMMA UnrolledExists ==
  ASSUME NEW s, NEW n \in Nat
  PROVE  \E f : Unrolled(s, f, n)
<1> DEFINE T == {k \in Nat : \E f : Unrolled(s, f, k)}
<1>1. 0 \in T
  <2>1. Unrolled(s, [i \in 1..0 |-> <<>>], 0)  BY DEF Unrolled
  <2> QED  BY <2>1
<1>2. ASSUME NEW k \in Nat, k \in T
      PROVE  k + 1 \in T
  <2>1. PICK f : Unrolled(s, f, k)  BY <1>2
  <2> DEFINE g == [i \in 1..(k + 1) |-> IF i = 1 THEN s[i] ELSE f[i - 1] \o s[i]]
  <2>2. ASSUME NEW i \in 1..k
        PROVE  g[i] = f[i]
    <3>1. f[i] = IF i = 1 THEN s[i] ELSE f[i - 1] \o s[i]  BY <2>1, UnrolledAt
    <3>2. i \in 1..(k + 1)  OBVIOUS
    <3> QED  BY <3>1, <3>2
  <2>3. \A i \in 1..(k + 1) : i # 1 => f[i - 1] = g[i - 1]
    <3>1. \A i \in 1..(k + 1) : i # 1 => i - 1 \in 1..k  OBVIOUS
    <3> HIDE DEF g
    <3> QED  BY <2>2, <3>1
  <2>4. g = [i \in 1..(k + 1) |-> IF i = 1 THEN s[i] ELSE g[i - 1] \o s[i]]
    <3> HIDE DEF g
    <3>1. g = [i \in 1..(k + 1) |-> IF i = 1 THEN s[i] ELSE f[i - 1] \o s[i]]  BY DEF g
    <3> QED  BY <2>3, <3>1
  <2>5. Unrolled(s, g, k + 1)  BY <2>4 DEF Unrolled
  <2> QED  BY <2>5
<1>3. Nat \subseteq T
  <2> HIDE DEF T
  <2> QED  BY <1>1, <1>2, Induction
<1> QED  BY <1>3

LEMMA FlattenUnrolled ==
  ASSUME NEW s, Len(s) \in Nat \ {0}
  PROVE  \E f : Unrolled(s, f, Len(s)) /\ FlattenSeq(s) = f[Len(s)]
<1> DEFINE f == CHOOSE f : Unrolled(s, f, Len(s))
<1>1. \E g : Unrolled(s, g, Len(s))  BY UnrolledExists
<1>2. Unrolled(s, f, Len(s))  BY <1>1
<1>3. FlattenSeq(s) = f[Len(s)]  BY DEF FlattenSeq, Unrolled
<1> QED  BY <1>2, <1>3

\* It depends on these elements only.
LEMMA UnrolledAgree ==
  ASSUME NEW s, NEW f, NEW m \in Nat, Unrolled(s, f, m),
         NEW t, NEW g, NEW n \in Nat, Unrolled(t, g, n),
         m <= n, \A i \in 1..m : s[i] = t[i]
  PROVE  \A i \in 1..m : f[i] = g[i]
<1> DEFINE T == {k \in Nat : k \in 1..m => f[k] = g[k]}
<1>1. 0 \in T  OBVIOUS
<1>2. ASSUME NEW k \in Nat, k \in T
      PROVE  k + 1 \in T
  <2> SUFFICES ASSUME k + 1 \in 1..m
               PROVE  f[k + 1] = g[k + 1]
    OBVIOUS
  <2>1. f[k + 1] = IF k + 1 = 1 THEN s[k + 1] ELSE f[k + 1 - 1] \o s[k + 1]  BY UnrolledAt
  <2>2. k + 1 \in 1..n  OBVIOUS
  <2>3. g[k + 1] = IF k + 1 = 1 THEN t[k + 1] ELSE g[k + 1 - 1] \o t[k + 1]
    BY <2>2, UnrolledAt
  <2>4. k + 1 # 1 => k \in 1..m  OBVIOUS
  <2>5. k + 1 - 1 = k  OBVIOUS
  <2> QED  BY <1>2, <2>1, <2>3, <2>4, <2>5
<1>3. Nat \subseteq T
  <2> HIDE DEF T
  <2> QED  BY <1>1, <1>2, Induction
<1> QED  BY <1>3

LEMMA FlattenEmpty == FlattenSeq(<<>>) = <<>>
  BY DEF FlattenSeq

LEMMA FlattenAppend ==
  ASSUME NEW S, NEW s \in Seq(Seq(S)), NEW x \in Seq(S)
  PROVE  FlattenSeq(Append(s, x)) = FlattenSeq(s) \o x
<1> DEFINE t == Append(s, x)
           m == Len(s)
           n == Len(t)
<1>1. /\ m \in Nat /\ n \in Nat \ {0} /\ m <= n /\ n \in 1..n
      /\ n - 1 = m /\ (n = 1 <=> m = 0)
      /\ t[n] = x /\ \A i \in 1..m : s[i] = t[i]
  OBVIOUS
<1>2. m = 0 => s = <<>>  OBVIOUS
<1> HIDE DEF t, m, n
<1>3. PICK g : Unrolled(t, g, n) /\ FlattenSeq(t) = g[n]  BY <1>1, FlattenUnrolled DEF n
<1>4. g[n] = IF n = 1 THEN x ELSE g[m] \o x
  <2>1. g[n] = IF n = 1 THEN t[n] ELSE g[n - 1] \o t[n]  BY <1>1, <1>3, UnrolledAt
  <2> QED  BY <1>1, <2>1
<1>5. CASE m = 0
  <2>1. FlattenSeq(s) = <<>>  BY <1>2, <1>5, FlattenEmpty
  <2>2. FlattenSeq(t) = x  BY <1>1, <1>3, <1>4, <1>5
  <2> QED  BY <2>1, <2>2 DEF t
<1>6. CASE m # 0
  <2>1. PICK f : Unrolled(s, f, m) /\ FlattenSeq(s) = f[m]
    BY <1>1, <1>6, FlattenUnrolled DEF m
  <2>2. \A i \in 1..m : f[i] = g[i]  BY <1>1, <1>3, <2>1, UnrolledAgree
  <2>3. f[m] = g[m]  BY <1>1, <1>6, <2>2
  <2> QED  BY <1>1, <1>3, <1>4, <1>6, <2>1, <2>3 DEF t
<1> QED  BY <1>5, <1>6

LEMMA FlattenType ==
  ASSUME NEW S, NEW s \in Seq(Seq(S))
  PROVE  FlattenSeq(s) \in Seq(S)
<1> DEFINE P == {t \in Seq(Seq(S)) : FlattenSeq(t) \in Seq(S)}
<1>1. <<>> \in P
  <2>1. <<>> \in Seq(Seq(S)) /\ <<>> \in Seq(S)  OBVIOUS
  <2> QED  BY <2>1, FlattenEmpty
<1>2. ASSUME NEW t \in Seq(Seq(S)), NEW x \in Seq(S), t \in P
      PROVE  Append(t, x) \in P
  <2>1. FlattenSeq(Append(t, x)) = FlattenSeq(t) \o x  BY FlattenAppend
  <2>2. FlattenSeq(t) \o x \in Seq(S)  BY <1>2, ConcatProperties
  <2>3. Append(t, x) \in Seq(Seq(S))  OBVIOUS
  <2> QED  BY <2>1, <2>2, <2>3
<1>3. Seq(Seq(S)) \subseteq P
  <2> HIDE DEF P
  <2> QED  BY <1>1, <1>2, SeqInduction
<1> QED  BY <1>3

\* Putting together distributes over \o.
LEMMA FlattenConcat ==
  ASSUME NEW S, NEW s \in Seq(Seq(S)), NEW t \in Seq(Seq(S))
  PROVE  FlattenSeq(s \o t) = FlattenSeq(s) \o FlattenSeq(t)
<1> DEFINE P == {u \in Seq(Seq(S)) : FlattenSeq(s \o u) = FlattenSeq(s) \o FlattenSeq(u)}
<1>1. <<>> \in P
  <2>1. s \o <<>> = s /\ <<>> \in Seq(Seq(S))  OBVIOUS
  <2>2. FlattenSeq(s) \o <<>> = FlattenSeq(s)  BY FlattenType, ConcatEmptySeq
  <2> QED  BY <2>1, <2>2, FlattenEmpty
<1>2. ASSUME NEW u \in Seq(Seq(S)), NEW x \in Seq(S), u \in P
      PROVE  Append(u, x) \in P
  <2>1. s \o Append(u, x) = Append(s \o u, x)  OBVIOUS
  <2>2. s \o u \in Seq(Seq(S)) /\ Append(u, x) \in Seq(Seq(S))  OBVIOUS
  <2>3. FlattenSeq(Append(s \o u, x)) = FlattenSeq(s \o u) \o x  BY <2>2, FlattenAppend
  <2>4. FlattenSeq(Append(u, x)) = FlattenSeq(u) \o x  BY FlattenAppend
  <2>5. FlattenSeq(s) \in Seq(S) /\ FlattenSeq(u) \in Seq(S)  BY FlattenType
  <2>6. (FlattenSeq(s) \o FlattenSeq(u)) \o x = FlattenSeq(s) \o (FlattenSeq(u) \o x)
    <3> DEFINE Regroups(a, b, c) == (a \o b) \o c = a \o (b \o c)
    <3>1. \A a, b, c \in Seq(S) : Regroups(a, b, c)  BY ConcatAssociative, SMTT(30)
    <3> HIDE DEF Regroups
    <3>2. Regroups(FlattenSeq(s), FlattenSeq(u), x)  BY <2>5, <3>1
    <3> QED  BY <3>2 DEF Regroups
  <2> QED  BY <1>2, <2>1, <2>2, <2>3, <2>4, <2>6
<1>3. Seq(Seq(S)) \subseteq P
  <2> HIDE DEF P
  <2> QED  BY <1>1, <1>2, SeqInduction
<1> QED  BY <1>3

-----------------------------------------------------------------------------
(* Without.                                                                 *)

Kept(s, c) == [i \in DOMAIN s |-> IF s[i] = c THEN <<>> ELSE <<s[i]>>]

LEMMA KeptType ==
  ASSUME NEW S, NEW s \in Seq(S), NEW c
  PROVE  Kept(s, c) \in Seq(Seq(S))
<1>1. \A i \in 1..Len(s) : (IF s[i] = c THEN <<>> ELSE <<s[i]>>) \in Seq(S)  OBVIOUS
<1>2. DOMAIN s = 1..Len(s) /\ Len(s) \in Nat  OBVIOUS
<1>3. Kept(s, c) \in [1..Len(s) -> Seq(S)]  BY <1>1, <1>2 DEF Kept
<1> QED  BY <1>2, <1>3

LEMMA WithoutKept == \A s, c : Without(s, c) = FlattenSeq(Kept(s, c))
  BY DEF Without, Kept

LEMMA WithoutEmpty == \A c : Without(<<>>, c) = <<>>
  BY FlattenEmpty DEF Without

LEMMA WithoutType ==
  ASSUME NEW S, NEW s \in Seq(S), NEW c
  PROVE  Without(s, c) \in Seq(S)
BY WithoutKept, KeptType, FlattenType

LEMMA WithoutAppend ==
  ASSUME NEW S, NEW s \in Seq(S), NEW x \in S, NEW c
  PROVE  Without(Append(s, x), c) =
           IF x = c THEN Without(s, c) ELSE Append(Without(s, c), x)
<1> DEFINE y == IF x = c THEN <<>> ELSE <<x>>
<1>1. Kept(Append(s, x), c) = Append(Kept(s, c), y)  BY DEF Kept
<1>2. y \in Seq(S) /\ Kept(s, c) \in Seq(Seq(S))  BY KeptType
<1>3. Without(s, c) \o y = IF x = c THEN Without(s, c) ELSE Append(Without(s, c), x)
  BY WithoutType
<1> HIDE DEF y
<1>4. FlattenSeq(Append(Kept(s, c), y)) = FlattenSeq(Kept(s, c)) \o y  BY <1>2, FlattenAppend
<1>5. Without(Append(s, x), c) = Without(s, c) \o y  BY <1>1, <1>4, WithoutKept
<1> QED  BY <1>3, <1>5

\* Leaving out distributes over \o, and changes nothing where there is nothing to
\* leave out.
LEMMA WithoutConcat ==
  ASSUME NEW S, NEW s \in Seq(S), NEW t \in Seq(S), NEW c
  PROVE  Without(s \o t, c) = Without(s, c) \o Without(t, c)
<1> DEFINE P == {u \in Seq(S) : Without(s \o u, c) = Without(s, c) \o Without(u, c)}
<1>1. <<>> \in P
  <2>1. s \o <<>> = s /\ <<>> \in Seq(S)  OBVIOUS
  <2>2. Without(s, c) \o <<>> = Without(s, c)  BY WithoutType, ConcatEmptySeq
  <2> QED  BY <2>1, <2>2, WithoutEmpty
<1>2. ASSUME NEW u \in Seq(S), NEW x \in S, u \in P
      PROVE  Append(u, x) \in P
  <2>1. s \o Append(u, x) = Append(s \o u, x)  BY AppendToConcat
  <2>2. s \o u \in Seq(S) /\ Append(u, x) \in Seq(S)  OBVIOUS
  <2>3. Without(s, c) \in Seq(S) /\ Without(u, c) \in Seq(S)  BY WithoutType
  <2>4. Without(Append(u, x), c) = IF x = c THEN Without(u, c) ELSE Append(Without(u, c), x)
    BY WithoutAppend
  <2>5. Without(Append(s \o u, x), c) =
          IF x = c THEN Without(s \o u, c) ELSE Append(Without(s \o u, c), x)
    <3> DEFINE w == s \o u
    <3> HIDE DEF w
    <3>1. w \in Seq(S)  BY <2>2 DEF w
    <3>2. Without(Append(w, x), c) = IF x = c THEN Without(w, c) ELSE Append(Without(w, c), x)
      BY <3>1, WithoutAppend
    <3> QED  BY <3>2, Zenon DEF w
  <2>6. Without(s, c) \o Append(Without(u, c), x) = Append(Without(s, c) \o Without(u, c), x)
    BY <2>3, AppendToConcat
  <2> QED  BY <1>2, <2>1, <2>2, <2>4, <2>5, <2>6
<1>3. Seq(S) \subseteq P
  <2> HIDE DEF P
  <2> QED  BY <1>1, <1>2, SeqInduction
<1> QED  BY <1>3

LEMMA WithoutNone ==
  ASSUME NEW S, NEW c, NEW s \in Seq(S \ {c})
  PROVE  Without(s, c) = s
<1> DEFINE P == {t \in Seq(S \ {c}) : Without(t, c) = t}
<1>1. <<>> \in P  BY WithoutEmpty
<1>2. ASSUME NEW t \in Seq(S \ {c}), NEW x \in S \ {c}, t \in P
      PROVE  Append(t, x) \in P
  <2>1. Without(Append(t, x), c) = Append(Without(t, c), x)  BY WithoutAppend
  <2> QED  BY <1>2, <2>1
<1>3. Seq(S \ {c}) \subseteq P
  <2> HIDE DEF P
  <2> QED  BY <1>1, <1>2, SeqInduction
<1> QED  BY <1>3

\* Putting pieces together does not notice the empty ones.
LEMMA FlattenPieces ==
  ASSUME NEW S, NEW s \in Seq(Seq(S))
  PROVE  FlattenSeq(Without(s, <<>>)) = FlattenSeq(s)
<1> DEFINE P == {t \in Seq(Seq(S)) : FlattenSeq(Without(t, <<>>)) = FlattenSeq(t)}
<1>1. <<>> \in P  BY WithoutEmpty
<1>2. ASSUME NEW t \in Seq(Seq(S)), NEW x \in Seq(S), t \in P
      PROVE  Append(t, x) \in P
  <2>1. Without(t, <<>>) \in Seq(Seq(S)) /\ Append(t, x) \in Seq(Seq(S))  BY WithoutType
  <2>2. FlattenSeq(Append(t, x)) = FlattenSeq(t) \o x  BY FlattenAppend
  <2>3. CASE x = <<>>
    <3>1. Without(Append(t, x), <<>>) = Without(t, <<>>)  BY <2>3, WithoutAppend
    <3>2. FlattenSeq(t) \o x = FlattenSeq(t)  BY <2>3, FlattenType, ConcatEmptySeq
    <3> QED  BY <1>2, <2>1, <2>2, <3>1, <3>2
  <2>4. CASE x # <<>>
    <3>1. Without(Append(t, x), <<>>) = Append(Without(t, <<>>), x)
      BY <2>4, WithoutAppend
    <3>2. FlattenSeq(Append(Without(t, <<>>), x)) = FlattenSeq(Without(t, <<>>)) \o x
      BY <2>1, FlattenAppend
    <3> QED  BY <1>2, <2>1, <2>2, <3>1, <3>2
  <2> QED  BY <2>3, <2>4
<1>3. Seq(Seq(S)) \subseteq P
  <2> HIDE DEF P
  <2> QED  BY <1>1, <1>2, SeqInduction
<1> QED  BY <1>3

-----------------------------------------------------------------------------
(* Split.                                                                   *)

\* The pieces when one more character is read.
Further(pieces, x, sep) ==
  IF x = sep THEN Append(pieces, <<>>)
  ELSE [pieces EXCEPT ![Len(pieces)] = Append(@, x)]

\* The function that Split defines, on the first n characters.
Cut(text, sep, f, n) ==
  f = [i \in 0..n |-> IF i = 0 THEN << <<>> >> ELSE Further(f[i - 1], text[i], sep)]

LEMMA CutAt ==
  ASSUME NEW text, NEW sep, NEW f, NEW n, Cut(text, sep, f, n), NEW i \in 0..n
  PROVE  f[i] = IF i = 0 THEN << <<>> >> ELSE Further(f[i - 1], text[i], sep)
<1>1. f = [j \in 0..n |-> IF j = 0 THEN << <<>> >> ELSE Further(f[j - 1], text[j], sep)]
  BY DEF Cut
<1> QED  BY ONLY <1>1, i \in 0..n

LEMMA CutExists ==
  ASSUME NEW text, NEW sep, NEW n \in Nat
  PROVE  \E f : Cut(text, sep, f, n)
<1> DEFINE T == {k \in Nat : \E f : Cut(text, sep, f, k)}
<1>1. 0 \in T
  <2>1. Cut(text, sep, [i \in 0..0 |-> << <<>> >>], 0)  BY DEF Cut
  <2> QED  BY <2>1
<1>2. ASSUME NEW k \in Nat, k \in T
      PROVE  k + 1 \in T
  <2>1. PICK f : Cut(text, sep, f, k)  BY <1>2
  <2> DEFINE g == [i \in 0..(k + 1) |->
                     IF i = 0 THEN << <<>> >> ELSE Further(f[i - 1], text[i], sep)]
  <2>2. ASSUME NEW i \in 0..k
        PROVE  g[i] = f[i]
    <3>1. f[i] = IF i = 0 THEN << <<>> >> ELSE Further(f[i - 1], text[i], sep)
      BY <2>1, CutAt
    <3>2. i \in 0..(k + 1)  OBVIOUS
    <3> QED  BY <3>1, <3>2
  <2>3. \A i \in 0..(k + 1) : i # 0 => f[i - 1] = g[i - 1]
    <3>1. \A i \in 0..(k + 1) : i # 0 => i - 1 \in 0..k  OBVIOUS
    <3> HIDE DEF g
    <3> QED  BY <2>2, <3>1
  <2>4. g = [i \in 0..(k + 1) |->
               IF i = 0 THEN << <<>> >> ELSE Further(g[i - 1], text[i], sep)]
    <3> HIDE DEF g
    <3>1. g = [i \in 0..(k + 1) |->
                 IF i = 0 THEN << <<>> >> ELSE Further(f[i - 1], text[i], sep)]
      BY DEF g
    <3> QED  BY <2>3, <3>1
  <2>5. Cut(text, sep, g, k + 1)  BY <2>4 DEF Cut
  <2> QED  BY <2>5
<1>3. Nat \subseteq T
  <2> HIDE DEF T
  <2> QED  BY <1>1, <1>2, Induction
<1> QED  BY <1>3

LEMMA SplitCut ==
  ASSUME NEW text, NEW sep, Len(text) \in Nat
  PROVE  \E f : Cut(text, sep, f, Len(text)) /\ Split(text, sep) = f[Len(text)]
<1> DEFINE f == CHOOSE f : Cut(text, sep, f, Len(text))
<1>1. \E g : Cut(text, sep, g, Len(text))  BY CutExists
<1>2. Cut(text, sep, f, Len(text))  BY <1>1
<1>3. Split(text, sep) = f[Len(text)]  BY DEF Split, Cut, Further
<1> QED  BY <1>2, <1>3

LEMMA CutAgree ==
  ASSUME NEW sep, NEW s, NEW f, NEW m \in Nat, Cut(s, sep, f, m),
         NEW t, NEW g, NEW n \in Nat, Cut(t, sep, g, n),
         m <= n, \A i \in 1..m : s[i] = t[i]
  PROVE  \A i \in 0..m : f[i] = g[i]
<1> DEFINE T == {k \in Nat : k <= m => f[k] = g[k]}
<1>1. 0 \in T
  <2>1. f[0] = << <<>> >>  BY CutAt
  <2>2. g[0] = << <<>> >>  BY CutAt
  <2> QED  BY <2>1, <2>2
<1>2. ASSUME NEW k \in Nat, k \in T
      PROVE  k + 1 \in T
  <2> SUFFICES ASSUME k + 1 <= m
               PROVE  f[k + 1] = g[k + 1]
    OBVIOUS
  <2>1. k + 1 \in 0..m /\ k + 1 \in 0..n /\ k + 1 # 0 /\ k + 1 - 1 = k  OBVIOUS
  <2>2. f[k + 1] = Further(f[k + 1 - 1], s[k + 1], sep)  BY <2>1, CutAt
  <2>3. g[k + 1] = Further(g[k + 1 - 1], t[k + 1], sep)  BY <2>1, CutAt
  <2>4. f[k] = g[k] /\ s[k + 1] = t[k + 1]  BY <1>2
  <2> QED  BY <2>1, <2>2, <2>3, <2>4
<1>3. Nat \subseteq T
  <2> HIDE DEF T
  <2> QED  BY <1>1, <1>2, Induction
<1> QED  BY <1>3

LEMMA SplitEmpty == \A sep : Split(<<>>, sep) = << <<>> >>
<1> SUFFICES ASSUME NEW sep
             PROVE  Split(<<>>, sep) = << <<>> >>
  OBVIOUS
<1>1. Len(<<>>) = 0 /\ 0 \in 0..0  OBVIOUS
<1>2. PICK f : Cut(<<>>, sep, f, 0) /\ Split(<<>>, sep) = f[0]  BY <1>1, SplitCut
<1> QED  BY <1>1, <1>2, CutAt

\* One more character goes to the last piece, or begins a new one.
LEMMA SplitAppend ==
  ASSUME NEW S, NEW s \in Seq(S), NEW x \in S, NEW sep
  PROVE  Split(Append(s, x), sep) = Further(Split(s, sep), x, sep)
<1> DEFINE t == Append(s, x)
           m == Len(s)
           n == Len(t)
<1>1. /\ m \in Nat /\ n \in Nat /\ m <= n /\ n \in 0..n /\ m \in 0..m
      /\ n - 1 = m /\ n # 0
      /\ t[n] = x /\ \A i \in 1..m : s[i] = t[i]
  OBVIOUS
<1> HIDE DEF t, m, n
<1>2. PICK f : Cut(s, sep, f, m) /\ Split(s, sep) = f[m]  BY <1>1, SplitCut DEF m
<1>3. PICK g : Cut(t, sep, g, n) /\ Split(t, sep) = g[n]  BY <1>1, SplitCut DEF n
<1>4. f[m] = g[m]
  <2>1. \A i \in 0..m : f[i] = g[i]  BY <1>1, <1>2, <1>3, CutAgree
  <2> QED  BY <1>1, <2>1
<1>5. g[n] = Further(g[n - 1], t[n], sep)  BY <1>1, <1>3, CutAt
<1> QED  BY <1>1, <1>2, <1>3, <1>4, <1>5 DEF t

LEMMA FurtherType ==
  ASSUME NEW S, NEW p \in Seq(Seq(S)), p # <<>>, NEW x \in S, NEW sep
  PROVE  Further(p, x, sep) \in Seq(Seq(S)) /\ Further(p, x, sep) # <<>>
<1>1. CASE x = sep  BY <1>1 DEF Further
<1>2. CASE x # sep
  <2>1. Len(p) \in 1..Len(p) /\ p[Len(p)] \in Seq(S)  OBVIOUS
  <2>2. Append(p[Len(p)], x) \in Seq(S)  BY <2>1
  <2>3. [p EXCEPT ![Len(p)] = Append(@, x)] \in Seq(Seq(S))  BY <2>1, <2>2, ExceptSeq
  <2> QED  BY <1>2, <2>1, <2>3 DEF Further
<1> QED  BY <1>1, <1>2

LEMMA FurtherLast ==
  ASSUME NEW S, NEW q \in Seq(Seq(S)), NEW r \in Seq(S), NEW x \in S, NEW sep, x # sep
  PROVE  Further(Append(q, r), x, sep) = Append(q, Append(r, x))
<1> DEFINE p == Append(q, r)
           n == Len(p)
           y == Append(r, x)
<1>1. p[n] = r /\ y \in Seq(S)  OBVIOUS
<1>2. Further(p, x, sep) = [p EXCEPT ![n] = Append(p[n], x)]  BY DEF Further
<1> HIDE DEF y
<1>3. [p EXCEPT ![n] = y] = Append(q, y)  BY <1>1, ReplaceLast
<1> HIDE DEF p, n
<1> QED  BY <1>1, <1>2, <1>3 DEF p, y

\* What comes before the last piece does not matter, and stays.
LEMMA FurtherConcat ==
  ASSUME NEW S, NEW q \in Seq(Seq(S)), NEW w \in Seq(Seq(S)), w # <<>>, NEW x \in S, NEW sep
  PROVE  Further(q \o w, x, sep) = q \o Further(w, x, sep)
<1>1. CASE x = sep
  <2>1. <<>> \in Seq(S)  OBVIOUS
  <2>2. q \o Append(w, <<>>) = Append(q \o w, <<>>)  BY <2>1, AppendToConcat
  <2> QED  BY <1>1, <2>2 DEF Further
<1>2. CASE x # sep
  <2>1. PICK v \in Seq(Seq(S)), r \in Seq(S) : w = Append(v, r)  BY LastElement
  <2> DEFINE y == Append(r, x)
             u == q \o v
  <2>2. u \in Seq(Seq(S)) /\ y \in Seq(S)  OBVIOUS
  <2>3. Further(w, x, sep) = Append(v, y)
    <3> DEFINE Extends(a, b) == Further(Append(a, b), x, sep) = Append(a, Append(b, x))
    <3>1. \A a \in Seq(Seq(S)), b \in Seq(S) : Extends(a, b)
      BY <1>2, FurtherLast
    <3> HIDE DEF Extends
    <3>2. Extends(v, r)  BY <3>1
    <3>3. Further(Append(v, r), x, sep) = Append(v, y)  BY <3>2 DEF Extends
    <3> QED  BY <2>1, <3>3
  <2>4. q \o w = Append(u, r)  BY <2>1, AppendToConcat, SMTT(30)
  <2> HIDE DEF u
  <2>5. Further(Append(u, r), x, sep) = Append(u, y)  BY <1>2, <2>2, FurtherLast
  <2> HIDE DEF y
  <2>6. q \o Append(v, y) = Append(u, y)
    <3>1. \A z \in Seq(S) : q \o Append(v, z) = Append(q \o v, z)
      BY AppendToConcat, SMTT(30)
    <3> QED  BY <2>2, <3>1 DEF u
  <2> QED  BY <2>3, <2>4, <2>5, <2>6
<1> QED  BY <1>1, <1>2

LEMMA FurtherFlattens ==
  ASSUME NEW S, NEW p \in Seq(Seq(S)), p # <<>>, NEW x \in S, NEW sep
  PROVE  FlattenSeq(Further(p, x, sep)) =
           IF x = sep THEN FlattenSeq(p) ELSE Append(FlattenSeq(p), x)
<1>1. PICK q \in Seq(Seq(S)), r \in Seq(S) : p = Append(q, r)  BY LastElement
<1>2. FlattenSeq(p) = FlattenSeq(q) \o r  BY <1>1, FlattenAppend
<1>3. FlattenSeq(p) \in Seq(S) /\ FlattenSeq(q) \in Seq(S)  BY FlattenType
<1>4. CASE x = sep
  <2>1. FlattenSeq(Append(p, <<>>)) = FlattenSeq(p) \o <<>>
    <3>1. <<>> \in Seq(S)  OBVIOUS
    <3> QED  BY <3>1, FlattenAppend
  <2> QED  BY <1>3, <1>4, <2>1, ConcatEmptySeq DEF Further
<1>5. CASE x # sep
  <2>1. Further(p, x, sep) = Append(q, Append(r, x))  BY <1>1, <1>5, FurtherLast
  <2>2. Append(r, x) \in Seq(S)  OBVIOUS
  <2>3. FlattenSeq(Append(q, Append(r, x))) = FlattenSeq(q) \o Append(r, x)
    BY <2>2, FlattenAppend
  <2>4. FlattenSeq(q) \o Append(r, x) = Append(FlattenSeq(q) \o r, x)
    BY <1>3, AppendToConcat
  <2> QED  BY <1>2, <1>5, <2>1, <2>3, <2>4
<1> QED  BY <1>4, <1>5

LEMMA SplitType ==
  ASSUME NEW S, NEW s \in Seq(S), NEW sep
  PROVE  Split(s, sep) \in Seq(Seq(S)) /\ Split(s, sep) # <<>>
<1> DEFINE P == {t \in Seq(S) : Split(t, sep) \in Seq(Seq(S)) /\ Split(t, sep) # <<>>}
<1>1. <<>> \in P
  <2>1. << <<>> >> \in Seq(Seq(S)) /\ << <<>> >> # <<>> /\ <<>> \in Seq(S)  OBVIOUS
  <2> QED  BY <2>1, SplitEmpty
<1>2. ASSUME NEW t \in Seq(S), NEW x \in S, t \in P
      PROVE  Append(t, x) \in P
  <2>1. Split(Append(t, x), sep) = Further(Split(t, sep), x, sep)  BY SplitAppend
  <2>2. Split(t, sep) \in Seq(Seq(S)) /\ Split(t, sep) # <<>>  BY <1>2
  <2>3. Append(t, x) \in Seq(S)  OBVIOUS
  <2> QED  BY <2>1, <2>2, <2>3, FurtherType
<1>3. Seq(S) \subseteq P
  <2> HIDE DEF P
  <2> QED  BY <1>1, <1>2, SeqInduction
<1> QED  BY <1>3

\* The pieces hold all the text but the separators.
LEMMA SplitFlattens ==
  ASSUME NEW S, NEW s \in Seq(S), NEW sep
  PROVE  FlattenSeq(Split(s, sep)) = Without(s, sep)
<1> DEFINE P == {t \in Seq(S) : FlattenSeq(Split(t, sep)) = Without(t, sep)}
<1>1. <<>> \in P
  <2>1. FlattenSeq(<< <<>> >>) = <<>>
    <3>1. <<>> \in Seq(Seq({})) /\ <<>> \in Seq({})  OBVIOUS
    <3>2. FlattenSeq(Append(<<>>, <<>>)) = FlattenSeq(<<>>) \o <<>>  BY <3>1, FlattenAppend
    <3>3. Append(<<>>, <<>>) = << <<>> >> /\ <<>> \o <<>> = <<>>  OBVIOUS
    <3> QED  BY <3>2, <3>3, FlattenEmpty
  <2>2. <<>> \in Seq(S)  OBVIOUS
  <2> QED  BY <2>1, <2>2, SplitEmpty, WithoutEmpty
<1>2. ASSUME NEW t \in Seq(S), NEW x \in S, t \in P
      PROVE  Append(t, x) \in P
  <2>1. Split(Append(t, x), sep) = Further(Split(t, sep), x, sep)  BY SplitAppend
  <2>2. Split(t, sep) \in Seq(Seq(S)) /\ Split(t, sep) # <<>>  BY SplitType
  <2>3. FlattenSeq(Further(Split(t, sep), x, sep)) =
          IF x = sep THEN FlattenSeq(Split(t, sep)) ELSE Append(FlattenSeq(Split(t, sep)), x)
    BY <2>2, FurtherFlattens
  <2>4. Without(Append(t, x), sep) =
          IF x = sep THEN Without(t, sep) ELSE Append(Without(t, sep), x)
    BY WithoutAppend
  <2>5. Append(t, x) \in Seq(S)  OBVIOUS
  <2> QED  BY <1>2, <2>1, <2>3, <2>4, <2>5
<1>3. Seq(S) \subseteq P
  <2> HIDE DEF P
  <2> QED  BY <1>1, <1>2, SeqInduction
<1> QED  BY <1>3

\* All pieces but the last are pieces of any longer text.
LEMMA SplitPrefix ==
  ASSUME NEW S, NEW sep, NEW s \in Seq(S), NEW t \in Seq(S),
         NEW q \in Seq(Seq(S)), NEW r \in Seq(S), Split(s, sep) = Append(q, r)
  PROVE  IsPrefix(q, Split(s \o t, sep))
<1> DEFINE P == {u \in Seq(S) : \E w \in Seq(Seq(S)) : w # <<>> /\ Split(s \o u, sep) = q \o w}
<1>1. <<>> \in P
  <2>1. s \o <<>> = s /\ <<>> \in Seq(S)  OBVIOUS
  <2>2. <<r>> \in Seq(Seq(S)) /\ <<r>> # <<>>  OBVIOUS
  <2>3. Append(q, r) = q \o <<r>>  BY AppendIsConcat
  <2> QED  BY <2>1, <2>2, <2>3
<1>2. ASSUME NEW u \in Seq(S), NEW x \in S, u \in P
      PROVE  Append(u, x) \in P
  <2>1. PICK w \in Seq(Seq(S)) : w # <<>> /\ Split(s \o u, sep) = q \o w  BY <1>2
  <2>2. s \o Append(u, x) = Append(s \o u, x)  BY AppendToConcat
  <2>3. Split(Append(s \o u, x), sep) = Further(Split(s \o u, sep), x, sep)
    <3> DEFINE v == s \o u
    <3>1. v \in Seq(S)  OBVIOUS
    <3> HIDE DEF v
    <3>2. Split(Append(v, x), sep) = Further(Split(v, sep), x, sep)  BY <3>1, SplitAppend
    <3> QED  BY <3>2, Zenon DEF v
  <2>4. Further(q \o w, x, sep) = q \o Further(w, x, sep)  BY <2>1, FurtherConcat
  <2>5. Further(w, x, sep) \in Seq(Seq(S)) /\ Further(w, x, sep) # <<>>
    BY <2>1, FurtherType
  <2>6. Append(u, x) \in Seq(S)  OBVIOUS
  <2>7. Split(s \o Append(u, x), sep) = q \o Further(w, x, sep)
    BY <2>1, <2>2, <2>3, <2>4
  <2> QED  BY <2>5, <2>6, <2>7
<1>3. Seq(S) \subseteq P
  <2> HIDE DEF P
  <2> QED  BY <1>1, <1>2, SeqInduction
<1>4. PICK w \in Seq(Seq(S)) : Split(s \o t, sep) = q \o w  BY <1>3
<1> QED  BY <1>4, PrefixOfConcat

\* Where a separator stands, a piece ends: the pieces up to there, also when the empty
\* ones are left out, hold what comes before it.
LEMMA PieceEndsAtSeparator ==
  ASSUME NEW S, NEW s \in Seq(S), NEW sep, NEW j \in 1..Len(s), s[j] = sep
  PROVE  \E i \in 0..Len(Without(Split(s, sep), <<>>)) :
           FlattenSeq(SubSeq(Without(Split(s, sep), <<>>), 1, i)) = Without(SubSeq(s, 1, j), sep)
<1> DEFINE before == SubSeq(s, 1, j - 1)
           upto == SubSeq(s, 1, j)
           after == SubSeq(s, j + 1, Len(s))
           q == Split(before, sep)
<1>1. before \in Seq(S) /\ s[j] \in S /\ upto = Append(before, s[j])
  <2>1. j - 1 \in 0..Len(s) /\ s[j] \in S  OBVIOUS
  <2>2. before \in Seq(S)  BY <2>1, TwoParts
  <2>3. upto = Append(before, s[j])  OBVIOUS
  <2> QED  BY <2>1, <2>2, <2>3
<1>2. upto \in Seq(S) /\ after \in Seq(S) /\ s = upto \o after  BY TwoParts
<1> HIDE DEF before, upto, after
<1>3. q \in Seq(Seq(S)) /\ <<>> \in Seq(S)  BY <1>1, SplitType
<1>4. Split(upto, sep) = Append(q, <<>>)  BY <1>1, SplitAppend DEF Further
<1> HIDE DEF q
<1>5. PICK w \in Seq(Seq(S)) : Split(s, sep) = q \o w
  <2>1. IsPrefix(q, Split(upto \o after, sep))
    <3>1. PICK r \in Seq(S) : Split(upto, sep) = Append(q, r)  BY <1>3, <1>4
    <3> QED  BY <1>2, <1>3, <3>1, SplitPrefix
  <2>2. IsPrefix(q, Split(s, sep))  BY <1>2, <2>1
  <2>3. Split(s, sep) \in Seq(Seq(S))  BY SplitType
  <2> QED  BY <1>3, <2>2, <2>3, RestAfterPrefix
<1> DEFINE first == Without(q, <<>>)
           rest == Without(w, <<>>)
<1>6. first \in Seq(Seq(S)) /\ rest \in Seq(Seq(S))  BY <1>3, WithoutType
<1>7. Without(Split(s, sep), <<>>) = first \o rest  BY <1>3, <1>5, WithoutConcat
<1>8. FlattenSeq(first) = Without(upto, sep)
  <2>1. FlattenSeq(first) = FlattenSeq(q)  BY <1>3, FlattenPieces
  <2>2. FlattenSeq(q) = Without(before, sep)  BY <1>1, SplitFlattens DEF q
  <2>3. Without(upto, sep) = Without(before, sep)  BY <1>1, WithoutAppend
  <2> QED  BY <2>1, <2>2, <2>3
<1> HIDE DEF first, rest
<1>9. /\ Len(first) \in 0..Len(first \o rest)
      /\ SubSeq(first \o rest, 1, Len(first)) = first
  BY <1>6
<1> QED  BY <1>7, <1>8, <1>9 DEF upto

-----------------------------------------------------------------------------
(* Positions and numbers in a text.                                         *)

\* A set of positions that is not empty has a least and a greatest one.
LEMMA Ends ==
  ASSUME NEW n \in Nat, NEW S \in SUBSET (1..n), S # {}
  PROVE  /\ \E i \in S : \A j \in S : i <= j
         /\ \E i \in S : \A j \in S : j <= i
<1> DEFINE P == {m \in Nat : \A i \in S : m <= i}
           Q == {m \in Nat : \A i \in S : i <= n - m}
<1>1. 0 \in P /\ 0 \in Q  OBVIOUS
<1>2. n + 1 \notin P /\ n \notin Q
  <2>1. PICK i \in S : TRUE  OBVIOUS
  <2>2. i \in 1..n /\ ~(n + 1 <= i) /\ ~(i <= n - n)  OBVIOUS
  <2> QED  BY <2>2
<1>3. ASSUME \A i \in S : \E j \in S : j < i
      PROVE  FALSE
  <2>1. ASSUME NEW m \in Nat, m \in P
        PROVE  m + 1 \in P
    BY <1>3, <2>1
  <2>2. Nat \subseteq P
    <3> HIDE DEF P
    <3> QED  BY <1>1, <2>1, Induction
  <2> QED  BY <1>2, <2>2
<1>4. ASSUME \A i \in S : \E j \in S : i < j
      PROVE  FALSE
  <2>1. ASSUME NEW m \in Nat, m \in Q
        PROVE  m + 1 \in Q
    BY <1>4, <2>1
  <2>2. Nat \subseteq Q
    <3> HIDE DEF Q
    <3> QED  BY <1>1, <2>1, Induction
  <2> QED  BY <1>2, <2>2
<1> QED  BY <1>3, <1>4

LEMMA FiniteWithin ==
  ASSUME NEW n \in Nat, NEW S \in SUBSET (1..n)
  PROVE  IsFiniteSet(S)
<1>1. IsFiniteSet(1..n)  BY FS_Interval
<1> QED  BY <1>1, FS_Subset

LEMMA NthFirst ==
  ASSUME NEW n \in Nat, NEW S \in SUBSET (1..n), S # {}
  PROVE  Nth(S, 0) \in S /\ \A j \in S : Nth(S, 0) <= j
<1> DEFINE Below(i) == {j \in S : j < i}
<1>1. \A i : IsFiniteSet(Below(i))
  <2> SUFFICES ASSUME NEW i
               PROVE  IsFiniteSet(Below(i))
    OBVIOUS
  <2>1. Below(i) \in SUBSET (1..n)  OBVIOUS
  <2> QED  BY <2>1, FiniteWithin
<1>2. \A i \in S : Cardinality(Below(i)) = 0 <=> \A j \in S : i <= j
  <2> SUFFICES ASSUME NEW i \in S
               PROVE  Cardinality(Below(i)) = 0 <=> \A j \in S : i <= j
    OBVIOUS
  <2>1. Cardinality(Below(i)) = 0 <=> Below(i) = {}  BY <1>1, FS_EmptySet
  <2>2. Below(i) = {} <=> \A j \in S : ~(j < i)  OBVIOUS
  <2>3. \A j \in S : ~(j < i) <=> i <= j  OBVIOUS
  <2> QED  BY <2>1, <2>2, <2>3
<1>3. PICK i \in S : \A j \in S : i <= j  BY Ends
<1>4. Cardinality(Below(i)) = 0  BY <1>2, <1>3
<1>5. Nth(S, 0) = CHOOSE k \in S : Cardinality(Below(k)) = 0  BY DEF Nth
<1>6. Nth(S, 0) \in S /\ Cardinality(Below(Nth(S, 0))) = 0
  <2> HIDE DEF Below
  <2> QED  BY <1>4, <1>5
<1> QED  BY <1>2, <1>6

LEMMA NthLast ==
  ASSUME NEW n \in Nat, NEW S \in SUBSET (1..n), S # {}
  PROVE  LET k == Nth(S, Cardinality(S) - 1)
         IN  k \in S /\ \A j \in S : j <= k
<1> DEFINE Below(i) == {j \in S : j < i}
           k == Nth(S, Cardinality(S) - 1)
<1>1. IsFiniteSet(S)  BY FiniteWithin
<1>2. \A i \in S : IsFiniteSet(S \ {i}) /\ Cardinality(S \ {i}) = Cardinality(S) - 1
  BY <1>1, FS_RemoveElement
<1>3. \A i \in S : Below(i) \subseteq S \ {i}  OBVIOUS
<1>4. \A i \in S : Cardinality(Below(i)) = Cardinality(S) - 1 => Below(i) = S \ {i}
  <2> SUFFICES ASSUME NEW i \in S, Cardinality(Below(i)) = Cardinality(S) - 1
               PROVE  Below(i) = S \ {i}
    OBVIOUS
  <2> DEFINE T == S \ {i}
             B == Below(i)
  <2>1. B \in SUBSET T  BY <1>3
  <2>2. IsFiniteSet(T) /\ Cardinality(T) = Cardinality(B)  BY <1>2
  <2> HIDE DEF B, T
  <2>3. B = T  BY <2>1, <2>2, FS_Subset
  <2> QED  BY <2>3 DEF B, T
<1>5. PICK i \in S : \A j \in S : j <= i  BY Ends
<1>6. Below(i) = S \ {i}
  <2>1. \A j \in S : j < i <=> j # i  BY <1>5
  <2> QED  BY <2>1, Zenon
<1>7. k = CHOOSE l \in S : Cardinality(Below(l)) = Cardinality(S) - 1  BY DEF Nth
<1>8. k \in S /\ Cardinality(Below(k)) = Cardinality(S) - 1
  <2> HIDE DEF Below
  <2> QED  BY <1>2, <1>6, <1>7
<1>9. Below(k) = S \ {k}  BY <1>4, <1>8
<1>10. \A j \in S : j <= k
  <2> SUFFICES ASSUME NEW j \in S, j # k
               PROVE  j <= k
    BY <1>8
  <2>1. j \in Below(k)  BY <1>9
  <2> HIDE DEF k
  <2> QED  BY <1>8, <2>1
<1> QED  BY <1>8, <1>10

\* The only position there is.
LEMMA NthOnly ==
  ASSUME NEW n \in Nat, NEW i \in 1..n
  PROVE  Nth({i}, 0) = i /\ Nth({i}, Cardinality({i}) - 1) = i
BY NthFirst, NthLast

\* What std::stoi and the trimming of loadConfig read of a text is part of it.
LEMMA SpanType ==
  ASSUME NEW S, NEW s \in Seq(S), NEW A
  PROVE  Span(s, A) \in Seq(S)
<1> DEFINE at == {i \in DOMAIN s : s[i] \in A}
<1>1. at \in SUBSET (1..Len(s)) /\ Len(s) \in Nat  OBVIOUS
<1>2. CASE at = {}  BY <1>2 DEF Span
<1>3. CASE at # {}
  <2> DEFINE a == Nth(at, 0)
             b == Nth(at, Cardinality(at) - 1)
  <2>1. a \in 1..Len(s) /\ b \in 1..Len(s)
    <3> HIDE DEF at
    <3> QED  BY <1>1, <1>3, NthFirst, NthLast
  <2>2. Span(s, A) = SubSeq(s, a, b)  BY <1>3 DEF Span
  <2> HIDE DEF a, b
  <2> QED  BY <2>1, <2>2
<1> QED  BY <1>2, <1>3

LEMMA SpanAll ==
  ASSUME NEW S, NEW s \in Seq(S), NEW A, \A i \in DOMAIN s : s[i] \in A
  PROVE  Span(s, A) = s
<1> DEFINE at == {i \in DOMAIN s : s[i] \in A}
<1>1. at = 1..Len(s) /\ Len(s) \in Nat  OBVIOUS
<1>2. CASE at = {}
  <2>1. Span(s, A) = <<>>  BY <1>2 DEF Span
  <2>2. s = <<>>  BY <1>1, <1>2
  <2> QED  BY <2>1, <2>2
<1>3. CASE at # {}
  <2> DEFINE a == Nth(at, 0)
             b == Nth(at, Cardinality(at) - 1)
  <2>1. /\ a \in 1..Len(s) /\ \A j \in 1..Len(s) : a <= j
        /\ b \in 1..Len(s) /\ \A j \in 1..Len(s) : j <= b
    <3> HIDE DEF at
    <3>1. at \in SUBSET (1..Len(s))  BY <1>1
    <3>2. a \in at /\ (\A j \in at : a <= j)  BY <1>1, <1>3, <3>1, NthFirst
    <3>3. b \in at /\ (\A j \in at : j <= b)  BY <1>1, <1>3, <3>1, NthLast
    <3> QED  BY <1>1, <3>2, <3>3
  <2>2. Span(s, A) = SubSeq(s, a, b)  BY <1>3 DEF Span
  <2> HIDE DEF a, b
  <2>3. a = 1 /\ b = Len(s)  BY <1>1, <2>1
  <2> QED  BY <2>2, <2>3
<1> QED  BY <1>2, <1>3

LEMMA TrimType ==
  ASSUME NEW S, NEW s \in Seq(S)
  PROVE  Trim(s) \in Seq(S)
BY SpanType DEF Trim

\* What Number does, once it is trimmed.
LEMMA NumberOf ==
  ASSUME NEW S, NEW s \in Seq(S)
  PROVE  LET t == Trim(s)
             f == FirstDigit(t)
         IN \E n \in Nat :
              /\ n \in f..(Len(t) + 1) /\ \A i \in f..(n - 1) : t[i] \in Digits
              /\ n = Len(t) + 1 \/ t[n] \notin Digits
              /\ Number(s) = IF n = f THEN <<>> ELSE SubSeq(t, 1, n - 1)
<1> DEFINE t == Trim(s)
           f == FirstDigit(t)
           stop == {i \in f..(Len(t) + 1) : i = Len(t) + 1 \/ t[i] \notin Digits}
           n == Nth(stop, 0)
<1>1. t \in Seq(S)  BY TrimType
<1> HIDE DEF t
<1>2. f \in 1..(Len(t) + 1)
  <2>1. t = <<>> => f = 1  BY DEF FirstDigit
  <2>2. t # <<>> => Len(t) > 0  BY <1>1
  <2> QED  BY <1>1, <2>1, <2>2 DEF FirstDigit
<1> HIDE DEF f
<1>3. /\ Len(t) + 1 \in Nat /\ Len(t) + 1 \in stop
      /\ stop \in SUBSET (1..(Len(t) + 1))
  BY <1>1, <1>2
<1>4. n \in stop /\ \A j \in stop : n <= j
  <2> HIDE DEF stop
  <2> QED  BY <1>3, NthFirst
<1>5. Number(s) = IF n = f THEN <<>> ELSE SubSeq(t, 1, n - 1)  BY DEF Number, t, f
<1>6. n \in f..(Len(t) + 1) /\ (n = Len(t) + 1 \/ t[n] \notin Digits)  BY <1>4
<1>7. \A i \in f..(n - 1) : t[i] \in Digits
  <2>1. \A i \in f..(n - 1) : i \in f..(Len(t) + 1) /\ i \notin stop
    BY <1>1, <1>2, <1>4, <1>6
  <2> QED  BY <2>1
<1>8. n \in Nat  BY <1>2, <1>6
<1> HIDE DEF n, stop
<1> QED  BY <1>5, <1>6, <1>7, <1>8 DEF t, f

\* What is read as a number is part of the text.
LEMMA NumberType ==
  ASSUME NEW S, NEW s \in Seq(S)
  PROVE  Number(s) \in Seq(S)
<1> DEFINE t == Trim(s)
           f == FirstDigit(t)
<1>1. t \in Seq(S) /\ f \in {1, 2}  BY TrimType DEF FirstDigit
<1>2. PICK n \in Nat : /\ n \in f..(Len(t) + 1)
                       /\ Number(s) = IF n = f THEN <<>> ELSE SubSeq(t, 1, n - 1)
  BY NumberOf
<1> HIDE DEF t, f
<1>3. SubSeq(t, 1, n - 1) \in Seq(S)  BY <1>1, <1>2
<1> QED  BY <1>2, <1>3

\* A sign or none, and digits, are read as they are.
LEMMA NumberOfDigits ==
  ASSUME NEW S, NEW s \in Seq(S), FirstDigit(s) <= Len(s),
         \A i \in FirstDigit(s)..Len(s) : s[i] \in Digits
  PROVE  Number(s) = s
<1> DEFINE f == FirstDigit(s)
<1>1. f = 1 \/ (f = 2 /\ s[1] = Minus)  BY DEF FirstDigit
<1>2. Blank \notin Digits /\ Minus # Blank  BY DEF Blank, Digits, Minus
<1>3. Trim(s) = s
  <2>1. \A i \in DOMAIN s : i \in f..Len(s) \/ (i = 1 /\ s[1] = Minus)  BY <1>1
  <2>2. \A i \in DOMAIN s : s[i] \in {s[j] : j \in DOMAIN s} \ {Blank}  BY <1>2, <2>1
  <2> QED  BY <2>2, SpanAll DEF Trim
<1>4. PICK n \in Nat : /\ n \in f..(Len(s) + 1)
                       /\ n = Len(s) + 1 \/ s[n] \notin Digits
                       /\ Number(s) = IF n = f THEN <<>> ELSE SubSeq(s, 1, n - 1)
  BY <1>3, NumberOf
<1>5. n = Len(s) + 1  BY <1>1, <1>4
<1>6. Number(s) = SubSeq(s, 1, Len(s))  BY <1>1, <1>4, <1>5
<1> QED  BY <1>6, SubSeqFull

\* A number is read as itself, and none as none.
LEMMA NumberOfNumeral ==
  ASSUME NEW s \in Seq(Digits)
  PROVE  Number(s) = s
<1>1. Minus \notin Digits  BY DEF Minus, Digits
<1>2. FirstDigit(s) = 1  BY <1>1 DEF FirstDigit
<1>3. CASE s # <<>>
  <2>1. Len(s) >= 1 /\ \A i \in 1..Len(s) : s[i] \in Digits  BY <1>3
  <2> QED  BY <1>2, <2>1, NumberOfDigits
<1>4. CASE s = <<>>
  <2>1. Trim(s) = s
    <3>1. \A i \in DOMAIN s : s[i] \in {s[j] : j \in DOMAIN s} \ {Blank}  BY <1>4
    <3> QED  BY <3>1, SpanAll DEF Trim
  <2>2. PICK n \in Nat : /\ n \in 1..(Len(s) + 1)
                         /\ Number(s) = IF n = 1 THEN <<>> ELSE SubSeq(s, 1, n - 1)
    BY <1>2, <2>1, NumberOf
  <2> QED  BY <1>4, <2>2
<1> QED  BY <1>3, <1>4

LEMMA NumberOfNothing == Number(<<>>) = <<>>
<1>1. <<>> \in Seq(Digits)  OBVIOUS
<1> QED  BY <1>1, NumberOfNumeral

LEMMA NumberTwice ==
  ASSUME NEW S, NEW s \in Seq(S)
  PROVE  Number(Number(s)) = Number(s)
<1> DEFINE t == Trim(s)
           f == FirstDigit(t)
<1>1. t \in Seq(S) /\ (f = 1 \/ f = 2)  BY TrimType DEF FirstDigit
<1>2. PICK n \in Nat : /\ n \in f..(Len(t) + 1) /\ \A i \in f..(n - 1) : t[i] \in Digits
                       /\ Number(s) = IF n = f THEN <<>> ELSE SubSeq(t, 1, n - 1)
  BY NumberOf
<1>3. CASE n = f  BY <1>2, <1>3, NumberOfNothing
<1>4. CASE n # f
  <2> DEFINE u == SubSeq(t, 1, n - 1)
  <2> HIDE DEF t
  <2>1. f = FirstDigit(t)  OBVIOUS
  <2> HIDE DEF f
  <2>2. u \in Seq(S) /\ Len(u) = n - 1 /\ Len(u) >= f /\ \A i \in 1..(n - 1) : u[i] = t[i]
    BY <1>1, <1>2, <1>4
  <2>3. t # <<>> /\ u # <<>> /\ u[1] = t[1]  BY <1>1, <1>2, <1>4, <2>2
  <2> HIDE DEF u
  <2>4. FirstDigit(u) = f  BY <2>1, <2>3 DEF FirstDigit
  <2>5. \A i \in f..Len(u) : u[i] \in Digits  BY <1>1, <1>2, <2>2
  <2>6. Number(u) = u  BY <2>2, <2>4, <2>5, NumberOfDigits
  <2> QED  BY <1>2, <1>4, <2>6 DEF u
<1> QED  BY <1>3, <1>4

\* A text without digits is not a number.
LEMMA NumberHasDigit ==
  ASSUME NEW S, NEW s \in Seq(S), Number(s) # <<>>
  PROVE  S \cap Digits # {}
<1> DEFINE t == Trim(s)
           f == FirstDigit(t)
<1>1. t \in Seq(S) /\ (f = 1 \/ f = 2)  BY TrimType DEF FirstDigit
<1>2. PICK n \in Nat : /\ n \in f..(Len(t) + 1) /\ \A i \in f..(n - 1) : t[i] \in Digits
                       /\ Number(s) = IF n = f THEN <<>> ELSE SubSeq(t, 1, n - 1)
  BY NumberOf
<1> HIDE DEF t, f
<1>3. f \in 1..Len(t) /\ t[f] \in Digits  BY <1>1, <1>2
<1> QED  BY <1>1, <1>3

-----------------------------------------------------------------------------
(* The pieces of texts that are put together.                               *)

LEMMA TwoElements == \A a, b : Append(<<a>>, b) = <<a, b>> /\ <<a>> \o <<>> = <<a>>
<1> SUFFICES ASSUME NEW a, NEW b
             PROVE  Append(<<a>>, b) = <<a, b>> /\ <<a>> \o <<>> = <<a>>
  OBVIOUS
<1>1. <<a>> \in Seq({a, b}) /\ <<a, b>> \in Seq({a, b})  OBVIOUS
<1>2. <<a>> \o <<>> = <<a>>  BY <1>1, ConcatEmptySeq
<1>3. Append(<<a>>, b) \in Seq({a, b}) /\ Len(Append(<<a>>, b)) = 2
      /\ Append(<<a>>, b)[1] = a /\ Append(<<a>>, b)[2] = b
  BY <1>1
<1>4. Append(<<a>>, b) = <<a, b>>
  <2> DEFINE s == Append(<<a>>, b)
             t == <<a, b>>
  <2>1. s \in Seq({a, b}) /\ t \in Seq({a, b}) /\ Len(s) = Len(t)
        /\ \A i \in 1..Len(s) : s[i] = t[i]
    BY <1>1, <1>3
  <2> HIDE DEF s, t
  <2>2. s = t  BY <2>1, SeqEqual
  <2> QED  BY <2>2 DEF s, t
<1> QED  BY <1>2, <1>4

LEMMA FurtherOne ==
  ASSUME NEW y, NEW x, NEW sep
  PROVE  Further(<<y>>, x, sep) = IF x = sep THEN <<y, <<>> >> ELSE <<Append(y, x)>>
<1>1. Len(<<y>>) = 1 /\ <<y>>[1] = y  OBVIOUS
<1>2. Append(<<y>>, <<>>) = <<y, <<>> >>  BY TwoElements
<1> DEFINE z == Append(y, x)
<1>3. [<<y>> EXCEPT ![1] = z] = <<z>>
  <2> HIDE DEF z
  <2> QED  OBVIOUS
<1> QED  BY <1>1, <1>2, <1>3 DEF Further

\* A text without the separator is one piece.
LEMMA SplitNone ==
  ASSUME NEW S, NEW sep, NEW s \in Seq(S \ {sep})
  PROVE  Split(s, sep) = <<s>>
<1> DEFINE P == {t \in Seq(S \ {sep}) : Split(t, sep) = <<t>>}
<1>1. <<>> \in P  BY SplitEmpty
<1>2. ASSUME NEW t \in Seq(S \ {sep}), NEW x \in S \ {sep}, t \in P
      PROVE  Append(t, x) \in P
  <2>1. Split(Append(t, x), sep) = Further(Split(t, sep), x, sep)  BY SplitAppend
  <2>2. Append(t, x) \in Seq(S \ {sep})  OBVIOUS
  <2> QED  BY <1>2, <2>1, <2>2, FurtherOne
<1>3. Seq(S \ {sep}) \subseteq P
  <2> HIDE DEF P
  <2> QED  BY <1>1, <1>2, SeqInduction
<1> QED  BY <1>3

\* The last piece of one text and the first piece of the next become one.
SplitJoins(S, s, t, sep, q, r) ==
  \E x \in Seq(S), w \in Seq(Seq(S)) :
    /\ Split(t, sep) = <<x>> \o w
    /\ Split(s \o t, sep) = q \o (<<r \o x>> \o w)

LEMMA SplitConcat ==
  ASSUME NEW S, NEW sep, NEW s \in Seq(S), NEW t \in Seq(S),
         NEW q \in Seq(Seq(S)), NEW r \in Seq(S), Split(s, sep) = Append(q, r)
  PROVE  SplitJoins(S, s, t, sep, q, r)
<1> DEFINE Joins(u) == \E x \in Seq(S), w \in Seq(Seq(S)) :
                         /\ Split(u, sep) = <<x>> \o w
                         /\ Split(s \o u, sep) = q \o (<<r \o x>> \o w)
           P == {u \in Seq(S) : Joins(u)}
<1>1. <<>> \in P
  <2>1. Split(<<>>, sep) = << <<>> >> /\ s \o <<>> = s  BY SplitEmpty
  <2>2. <<>> \in Seq(S) /\ <<>> \in Seq(Seq(S)) /\ r \o <<>> = r
        /\ << <<>> >> = << <<>> >> \o <<>> /\ <<r>> \o <<>> = <<r>>
    OBVIOUS
  <2>3. Append(q, r) = q \o <<r>>  BY AppendIsConcat
  <2>4. Joins(<<>>)
    <3> WITNESS <<>> \in Seq(S), <<>> \in Seq(Seq(S))
    <3> QED  BY <2>1, <2>2, <2>3
  <2> QED  BY <2>2, <2>4
<1>2. ASSUME NEW u \in Seq(S), NEW c \in S, u \in P
      PROVE  Append(u, c) \in P
  <2>1. PICK x \in Seq(S), w \in Seq(Seq(S)) :
          Split(u, sep) = <<x>> \o w /\ Split(s \o u, sep) = q \o (<<r \o x>> \o w)
    BY <1>2
  <2>2. /\ Split(Append(u, c), sep) = Further(<<x>> \o w, c, sep)
        /\ Split(Append(s \o u, c), sep) = Further(q \o (<<r \o x>> \o w), c, sep)
    <3>1. s \o u \in Seq(S)  OBVIOUS
    <3> QED  BY <2>1, <3>1, SplitAppend
  <2>3. s \o Append(u, c) = Append(s \o u, c) /\ Append(u, c) \in Seq(S)  OBVIOUS
  <2> DEFINE rx == r \o x
             v == <<rx>> \o w
  <2>4. rx \in Seq(S) /\ v \in Seq(Seq(S)) /\ v # <<>>
    <3>1. rx \in Seq(S)  OBVIOUS
    <3> HIDE DEF rx
    <3> QED  BY <3>1
  <2>5. Further(q \o v, c, sep) = q \o Further(v, c, sep)
    <3> HIDE DEF v
    <3>1. q \in Seq(Seq(S)) /\ v \in Seq(Seq(S)) /\ v # <<>>  BY <2>4
    <3> QED  BY <3>1, FurtherConcat, SMTT(30)
  <2>6. CASE w # <<>>
    <3> DEFINE z == Further(w, c, sep)
    <3>1. z \in Seq(Seq(S))  BY <2>6, FurtherType
    <3>2. <<x>> \in Seq(Seq(S)) /\ <<rx>> \in Seq(Seq(S))  OBVIOUS
    <3>3. Further(<<x>> \o w, c, sep) = <<x>> \o z /\ Further(<<rx>> \o w, c, sep) = <<rx>> \o z
      <4>1. \A a \in Seq(Seq(S)) : Further(a \o w, c, sep) = a \o z
        BY <2>6, FurtherConcat
      <4> HIDE DEF rx, z
      <4> QED  BY <3>2, <4>1
    <3> HIDE DEF z
    <3>4. Joins(Append(u, c))
      <4> WITNESS x \in Seq(S), z \in Seq(Seq(S))
      <4> QED  BY <2>2, <2>3, <2>5, <3>3
    <3> QED  BY <2>3, <3>4
  <2>7. CASE w = <<>> /\ c = sep
    <3>1. << <<>> >> \in Seq(Seq(S))  OBVIOUS
    <3>2. \A y \in Seq(S) : Further(<<y>> \o <<>>, c, sep) = <<y>> \o << <<>> >>
      BY <2>7 DEF Further
    <3>3. Joins(Append(u, c))
      <4> WITNESS x \in Seq(S), << <<>> >> \in Seq(Seq(S))
      <4> QED  BY <2>2, <2>3, <2>4, <2>5, <2>7, <3>2
    <3> QED  BY <2>3, <3>3
  <2>8. CASE w = <<>> /\ c # sep
    <3>1. \A y \in Seq(S) : Further(<<y>> \o <<>>, c, sep) = <<Append(y, c)>> \o <<>>
      <4> SUFFICES ASSUME NEW y \in Seq(S)
                   PROVE  Further(<<y>> \o <<>>, c, sep) = <<Append(y, c)>> \o <<>>
        OBVIOUS
      <4>1. <<y>> \o <<>> = <<y>>  BY TwoElements
      <4>2. Further(<<y>>, c, sep) = <<Append(y, c)>>  BY <2>8, FurtherOne
      <4> DEFINE yc == Append(y, c)
      <4> HIDE DEF yc
      <4>3. <<yc>> \o <<>> = <<yc>>  BY TwoElements
      <4> QED  BY <4>1, <4>2, <4>3 DEF yc
    <3>2. r \o Append(x, c) = Append(rx, c) /\ Append(x, c) \in Seq(S) /\ <<>> \in Seq(Seq(S))
      OBVIOUS
    <3>3. Joins(Append(u, c))
      <4> WITNESS Append(x, c) \in Seq(S), <<>> \in Seq(Seq(S))
      <4> HIDE DEF rx
      <4> QED  BY <2>2, <2>3, <2>4, <2>5, <2>8, <3>1, <3>2 DEF rx
    <3> QED  BY <2>3, <3>3
  <2> QED  BY <2>6, <2>7, <2>8
<1>3. Seq(S) \subseteq P
  <2> HIDE DEF P
  <2> QED  BY <1>1, <1>2, SeqInduction
<1>4. t \in P  BY <1>3
<1> QED  BY <1>4 DEF SplitJoins

\* A field, a separator, and what follows.
LEMMA SplitField ==
  ASSUME NEW S, NEW sep \in S, NEW f \in Seq(S \ {sep}), NEW t \in Seq(S)
  PROVE  Split((f \o <<sep>>) \o t, sep) = <<f>> \o Split(t, sep)
<1>1. f \in Seq(S) /\ Split(f, sep) = <<f>>
  <2>1. S \ {sep} \subseteq S  OBVIOUS
  <2> QED  BY <2>1, SplitNone, SeqMonotonic
<1>2. f \o <<sep>> = Append(f, sep) /\ f \o <<sep>> \in Seq(S)  BY <1>1
<1>3. Split(f \o <<sep>>, sep) = Append(<<f>>, <<>>)
  <2>1. Split(Append(f, sep), sep) = Further(<<f>>, sep, sep)  BY <1>1, SplitAppend
  <2>2. Append(<<f>>, <<>>) = <<f, <<>> >>  BY TwoElements
  <2> QED  BY <1>2, <2>1, <2>2, FurtherOne
<1>4. <<f>> \in Seq(Seq(S)) /\ <<>> \in Seq(S)  BY <1>1
<1> DEFINE g == f \o <<sep>>
<1> HIDE DEF g
<1>5. PICK x \in Seq(S), w \in Seq(Seq(S)) :
        Split(t, sep) = <<x>> \o w /\ Split(g \o t, sep) = <<f>> \o (<<<<>> \o x>> \o w)
  <2>1. SplitJoins(S, g, t, sep, <<f>>, <<>>)
    BY <1>2, <1>3, <1>4, SplitConcat DEF g
  <2> QED  BY <2>1 DEF SplitJoins
<1>6. <<>> \o x = x  OBVIOUS
<1> QED  BY <1>5, <1>6 DEF g
=============================================================================
