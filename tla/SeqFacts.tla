------------------------------ MODULE SeqFacts ------------------------------
(***************************************************************************)
(* Facts about sequences and the operators of SequencesExt that the proofs *)
(* about queues and tapes cite.                                            *)
(***************************************************************************)
EXTENDS Integers, Sequences, SequencesExt, Selection, SequenceTheorems,
        WellFoundedInduction, TLAPS

LEMMA LenZero ==
  ASSUME NEW S, NEW q \in Seq(S)
  PROVE  Len(q) \in Nat /\ (q = <<>> <=> Len(q) = 0)
<1>1. Len(q) = 0 => q = <<>>
  OBVIOUS
<1>2. q = <<>> => Len(q) = 0
  OBVIOUS
<1>3. QED
  BY <1>1, <1>2

LEMMA TailFacts ==
  ASSUME NEW S, NEW q \in Seq(S), q # <<>>
  PROVE  /\ Len(q) \in Nat \ {0}
         /\ Head(q) = q[1] /\ Head(q) \in S
         /\ Tail(q) \in Seq(S) /\ Len(Tail(q)) = Len(q) - 1
         /\ \A i \in 1 .. Len(q) - 1 : Tail(q)[i] = q[i + 1]
         /\ Tail(q) = <<>> <=> Len(q) = 1
<1>1. Len(q) \in Nat \ {0}
  <2>1. Len(q) \in Nat /\ (q = <<>> <=> Len(q) = 0)
    BY LenZero, Zenon
  <2>2. QED
    BY <2>1
<1>2. /\ Head(q) = q[1] /\ Head(q) \in S
      /\ Tail(q) \in Seq(S) /\ Len(Tail(q)) = Len(q) - 1
      /\ \A i \in 1 .. Len(q) - 1 : Tail(q)[i] = q[i + 1]
  BY <1>1
<1>3. Tail(q) = <<>> <=> Len(Tail(q)) = 0
  BY <1>2, LenZero, Zenon
<1>4. QED
  BY <1>1, <1>2, <1>3

LEMMA FrontFacts ==
  ASSUME NEW S, NEW T, NEW q \in Seq(T), q # <<>>,
         \A i \in 1 .. Len(q) - 1 : q[i] \in S
  PROVE  /\ Front(q) \in Seq(S) /\ Len(Front(q)) = Len(q) - 1
         /\ \A i \in 1 .. Len(q) - 1 : Front(q)[i] = q[i]
<1>1. PICK n \in Nat : n = Len(q) - 1
  BY TailFacts
<1>2. SubSeq(q, 1, n) = [i \in 1 .. n |-> q[i]]
  BY <1>1
<1>3. \A i \in 1 .. n : q[i] \in S
  BY <1>1
<1>4. [i \in 1 .. n |-> q[i]] \in Seq(S) /\ Len([i \in 1 .. n |-> q[i]]) = n
  BY <1>3
<1>5. QED
  BY <1>1, <1>2, <1>4 DEF Front

LEMMA AppendFacts ==
  ASSUME NEW S, NEW q \in Seq(S), NEW x \in S
  PROVE  /\ Append(q, x) \in Seq(S) /\ Len(Append(q, x)) = Len(q) + 1
         /\ Append(q, x) # <<>>
         /\ \A i \in 1 .. Len(q) : Append(q, x)[i] = q[i]
         /\ Append(q, x)[Len(q) + 1] = x
         /\ Last(Append(q, x)) = x /\ Front(Append(q, x)) = q
<1>1. /\ Append(q, x) \in Seq(S) /\ Len(Append(q, x)) = Len(q) + 1
      /\ Append(q, x) # <<>>
      /\ \A i \in 1 .. Len(q) : Append(q, x)[i] = q[i]
      /\ Append(q, x)[Len(q) + 1] = x
  BY AppendProperties
<1>2. Len(q) \in Nat
  OBVIOUS
<1>3. Last(Append(q, x)) = x
  BY <1>1, <1>2 DEF Last
<1>4. Front(Append(q, x)) = q
  <2>1. PICK r \in Seq(S) :
           /\ r = Append(q, x) /\ r # <<>> /\ Len(r) = Len(q) + 1
           /\ \A i \in 1 .. Len(q) : r[i] = q[i]
    BY <1>1
  <2>2. \A i \in 1 .. Len(r) - 1 : r[i] \in S /\ r[i] = q[i]
    BY <1>2, <2>1
  <2>3. /\ Front(r) \in Seq(S) /\ Len(Front(r)) = Len(r) - 1
        /\ \A i \in 1 .. Len(r) - 1 : Front(r)[i] = r[i]
    <3>1. PICK n \in Nat : n = Len(r) - 1
      BY <1>2, <2>1
    <3>2. \A i \in 1 .. n : r[i] \in S
      BY <2>2, <3>1
    <3>3. /\ SubSeq(r, 1, n) \in Seq(S) /\ Len(SubSeq(r, 1, n)) = n
          /\ \A i \in 1 .. n : SubSeq(r, 1, n)[i] = r[i]
      BY <3>2
    <3>4. QED
      BY <3>1, <3>3 DEF Front
  <2>4. Len(Front(r)) = Len(q) /\ \A i \in 1 .. Len(q) : Front(r)[i] = q[i]
    BY <1>2, <2>1, <2>2, <2>3
  <2>5. Front(r) = q
    BY <2>3, <2>4, SeqEqual
  <2>6. QED
    BY <2>1, <2>5
<1>5. QED
  BY <1>1, <1>3, <1>4

(* What has been appended to keeps what it was for a prefix.               *)
LEMMA PrefixFacts ==
  ASSUME NEW S, NEW q \in Seq(S)
  PROVE  /\ IsPrefix(q, q)
         /\ \A x \in S : IsPrefix(q, Append(q, x))
<1>1. IsPrefix(q, q)
  BY DEF IsPrefix
<1>2. ASSUME NEW x \in S PROVE IsPrefix(q, Append(q, x))
  <2>1. /\ Len(Append(q, x)) = Len(q) + 1 /\ Len(q) \in Nat
        /\ \A i \in 1 .. Len(q) : Append(q, x)[i] = q[i]
    BY AppendFacts
  <2>2. SubSeq(q, 1, Len(q)) = SubSeq(Append(q, x), 1, Len(q))
    BY <2>1
  <2>3. QED
    BY <2>1, <2>2 DEF IsPrefix
<1>3. QED
  BY <1>1, <1>2

(* Taking the first element of the right part of a concatenation away.     *)
LEMMA RemoveFacts ==
  ASSUME NEW S, NEW w \in Seq(S), NEW q \in Seq(S), q # <<>>
  PROVE  /\ Len(w) + 1 \in DOMAIN (w \o q)
         /\ RemoveAt(w \o q, Len(w) + 1) = w \o Tail(q)
<1>1. /\ w \o q \in Seq(S) /\ Len(w \o q) = Len(w) + Len(q)
      /\ \A i \in 1 .. Len(w) + Len(q) :
           (w \o q)[i] = IF i <= Len(w) THEN w[i] ELSE q[i - Len(w)]
      /\ DOMAIN (w \o q) = 1 .. Len(w) + Len(q)
  BY ConcatProperties
<1>2. Len(w) \in Nat /\ Len(q) \in Nat \ {0}
  BY TailFacts
<1> DEFINE a == SubSeq(w \o q, 1, Len(w))
           b == SubSeq(w \o q, Len(w) + 2, Len(w) + Len(q))
<1>3. a = w
  <2>1. \A i \in 1 .. Len(w) : (w \o q)[i] = w[i]
    BY <1>1, <1>2
  <2>2. QED
    BY <1>2, <2>1
<1>4. b = Tail(q)
  <2>1. /\ Tail(q) \in Seq(S) /\ Len(Tail(q)) = Len(q) - 1
        /\ \A i \in 1 .. Len(q) - 1 : Tail(q)[i] = q[i + 1]
    BY TailFacts
  <2>2. \A i \in 1 .. Len(q) - 1 : (w \o q)[Len(w) + 1 + i] = q[i + 1] /\ q[i + 1] \in S
    BY <1>1, <1>2
  <2>3. PICK n \in Nat : n = Len(q) - 1
    BY <1>2
  <2>4. b = [i \in 1 .. n |-> (w \o q)[Len(w) + 1 + i]]
    BY <1>2, <2>3
  <2>5. b \in Seq(S) /\ Len(b) = n /\ \A i \in 1 .. n : b[i] = q[i + 1]
    <3> HIDE DEF b
    <3>1. \A i \in 1 .. n : (w \o q)[Len(w) + 1 + i] \in S
      BY <2>2, <2>3
    <3>2. QED
      BY <2>2, <2>3, <2>4, <3>1
  <2> HIDE DEF b
  <2>6. QED
    BY <2>1, <2>3, <2>5, SeqEqual
<1>5. RemoveAt(w \o q, Len(w) + 1) = a \o b
  <2>1. /\ (Len(w) + 1) - 1 = Len(w) /\ (Len(w) + 1) + 1 = Len(w) + 2
        /\ Len(w \o q) = Len(w) + Len(q)
    BY <1>1, <1>2
  <2>2. QED
    BY <2>1, Zenon DEF RemoveAt
<1> HIDE DEF a, b
<1>6. Len(w) + 1 \in 1 .. Len(w) + Len(q)
  BY <1>2
<1>7. QED
  BY <1>1, <1>3, <1>4, <1>5, <1>6, Zenon

(* A concatenation can be appended to on its right, and its left part can  *)
(* take over the first element of the right one.                           *)
LEMMA ConcatFacts ==
  ASSUME NEW S, NEW w \in Seq(S), NEW q \in Seq(S)
  PROVE  /\ w \o q \in Seq(S)
         /\ \A x \in S : w \o Append(q, x) = Append(w \o q, x)
         /\ q # <<>> => Append(w, Head(q)) \o Tail(q) = w \o q
<1>1. w \o q \in Seq(S)
  BY ConcatProperties
<1>2. \A x \in S : <<x>> \in Seq(S)
  OBVIOUS
<1>3. ASSUME NEW x \in S PROVE w \o Append(q, x) = Append(w \o q, x)
  <2>1. w \o Append(q, x) = w \o (q \o <<x>>)
    BY AppendIsConcat
  <2>2. Append(w \o q, x) = (w \o q) \o <<x>>
    BY <1>1, AppendIsConcat
  <2>3. (w \o q) \o <<x>> = w \o (q \o <<x>>)
    BY <1>2, ConcatAssociative
  <2>4. QED
    BY <2>1, <2>2, <2>3
<1>4. ASSUME q # <<>> PROVE Append(w, Head(q)) \o Tail(q) = w \o q
  <2>1. /\ Head(q) = q[1] /\ Head(q) \in S /\ Len(q) \in Nat \ {0}
        /\ Tail(q) \in Seq(S) /\ Len(Tail(q)) = Len(q) - 1
        /\ \A i \in 1 .. Len(q) - 1 : Tail(q)[i] = q[i + 1]
    BY <1>4, TailFacts
  <2> DEFINE h == <<Head(q)>>
             r == Tail(q)
  <2>2. h \in Seq(S) /\ Len(h) = 1 /\ h[1] = q[1]
    BY <2>1
  <2>3. Append(w, Head(q)) = w \o h
    BY <2>1, AppendIsConcat
  <2> HIDE DEF h, r
  <2>4. h \o r = q
    <3>1. /\ h \o r \in Seq(S) /\ Len(h \o r) = Len(h) + Len(r)
          /\ \A i \in 1 .. Len(h) + Len(r) :
               (h \o r)[i] = IF i <= Len(h) THEN h[i] ELSE r[i - Len(h)]
      BY <2>1, <2>2, ConcatProperties DEF r
    <3>2. Len(r) = Len(q) - 1 /\ \A i \in 1 .. Len(q) - 1 : r[i] = q[i + 1]
      BY <2>1 DEF r
    <3>3. Len(h \o r) = Len(q)
      BY <2>1, <2>2, <3>1, <3>2
    <3>4. ASSUME NEW i \in 1 .. Len(q) PROVE (h \o r)[i] = q[i]
      <4>1. CASE i = 1
        BY <2>1, <2>2, <3>1, <3>2, <4>1
      <4>2. CASE i # 1
        <5>1. i - 1 \in 1 .. Len(q) - 1 /\ (i - 1) + 1 = i /\ ~(i <= 1)
              /\ i \in 1 .. 1 + (Len(q) - 1)
          BY <2>1, <4>2
        <5>2. (h \o r)[i] = r[i - 1]
          BY <2>2, <3>1, <3>2, <5>1
        <5>3. QED
          BY <3>2, <5>1, <5>2
      <4>3. QED
        BY <4>1, <4>2
    <3>5. QED
      BY <3>1, <3>3, <3>4, SeqEqual
  <2>5. (w \o h) \o r = w \o (h \o r)
    <3>1. h \in Seq(S) /\ r \in Seq(S)
      BY <2>1, <2>2 DEF r
    <3>2. QED
      BY <3>1, ConcatAssociative
  <2>6. QED
    BY <2>3, <2>4, <2>5 DEF r
<1>5. QED
  BY <1>1, <1>3, <1>4

(* The elements of what is appended to and of what is taken from.          *)
LEMMA ContainsFacts ==
  ASSUME NEW S, NEW q \in Seq(S), NEW x
  PROVE  /\ \A m \in S : Contains(Append(q, m), x) <=> Contains(q, x) \/ m = x
         /\ q # <<>> => (Contains(q, x) <=> Head(q) = x \/ Contains(Tail(q), x))
<1>1. ASSUME NEW m \in S
      PROVE  Contains(Append(q, m), x) <=> Contains(q, x) \/ m = x
  <2>1. /\ Len(Append(q, m)) = Len(q) + 1 /\ Len(q) \in Nat
        /\ \A i \in 1 .. Len(q) : Append(q, m)[i] = q[i]
        /\ Append(q, m)[Len(q) + 1] = m
    BY AppendFacts
  <2>2. QED
    BY <2>1 DEF Contains
<1>2. ASSUME q # <<>>
      PROVE  Contains(q, x) <=> Head(q) = x \/ Contains(Tail(q), x)
  <2>1. /\ Len(q) \in Nat \ {0} /\ Head(q) = q[1] /\ Len(Tail(q)) = Len(q) - 1
        /\ \A i \in 1 .. Len(q) - 1 : Tail(q)[i] = q[i + 1]
    BY <1>2, TailFacts
  <2>2. ASSUME NEW i \in 1 .. Len(q), q[i] = x PROVE Head(q) = x \/ Contains(Tail(q), x)
    <3>1. CASE i = 1
      BY <2>1, <2>2, <3>1
    <3>2. CASE i # 1
      <4>1. i - 1 \in 1 .. Len(q) - 1 /\ (i - 1) + 1 = i
        BY <2>1, <3>2
      <4>2. i - 1 \in 1 .. Len(Tail(q)) /\ Tail(q)[i - 1] = x
        BY <2>1, <2>2, <4>1
      <4>3. QED
        BY <4>2 DEF Contains
    <3>3. QED
      BY <3>1, <3>2
  <2>3. ASSUME NEW i \in 1 .. Len(Tail(q)), Tail(q)[i] = x PROVE Contains(q, x)
    BY <2>1, <2>3 DEF Contains
  <2>4. ASSUME Head(q) = x PROVE Contains(q, x)
    BY <2>1, <2>4 DEF Contains
  <2>5. QED
    BY <2>2, <2>3, <2>4 DEF Contains
<1>3. QED
  BY <1>1, <1>2

(* The first element of what is appended to.                               *)
LEMMA HeadFacts ==
  ASSUME NEW S, NEW q \in Seq(S), NEW m \in S
  PROVE  /\ Append(q, m) # <<>>
         /\ q # <<>> => Head(Append(q, m)) = Head(q)
         /\ q = <<>> => Append(q, m) = <<m>>
<1>1. Append(q, m) # <<>> /\ (q # <<>> => Head(Append(q, m)) = Head(q))
  <2>1. Append(q, m) # <<>>
    BY AppendFacts, Zenon
  <2>2. q # <<>> => Head(Append(q, m)) = Head(q)
    BY HeadTailAppend, Zenon
  <2>3. QED
    BY <2>1, <2>2
<1>2. Append(<<>>, m) = <<m>>
  OBVIOUS
<1>3. QED
  BY <1>1, <1>2, Zenon

-----------------------------------------------------------------------------
(* Induction over the naturals, which are well-founded.                    *)

LEMMA LeastNat ==
  ASSUME NEW T, T \subseteq Nat, T # {}
  PROVE  \E m \in T : \A k \in T : m <= k
<1> DEFINE R == OpToRel(<, Nat)
<1>1. IsWellFoundedOn(R, Nat)
  BY NatLessThanWellFounded
<1>2. \A k, m \in Nat : <<k, m>> \in R <=> k < m
  BY DEF OpToRel
<1> HIDE DEF R
<1>3. PICK m \in T : \A k \in T : <<k, m>> \notin R
  BY <1>1, WFMin, Zenon
<1>4. \A k \in T : ~(k < m)
  BY <1>2, <1>3
<1>5. \A k \in T : k \in Int /\ m \in Int
  OBVIOUS
<1>6. \A k \in T : m <= k
  BY <1>4, <1>5
<1>7. QED
  BY <1>6

(* Induction up to n, over the set of what it holds for.                   *)
LEMMA Climb ==
  ASSUME NEW n \in Nat, NEW T, 0 \in T, \A i \in 1 .. n : i - 1 \in T => i \in T
  PROVE  0 .. n \subseteq T
<1> DEFINE Missing == {i \in 0 .. n : i \notin T}
<1>1. ASSUME Missing # {} PROVE FALSE
  <2>1. Missing \subseteq Nat
    OBVIOUS
  <2>2. PICK m \in Missing : \A k \in Missing : m <= k
    BY <1>1, <2>1, LeastNat
  <2>3. m \in 0 .. n /\ m \notin T /\ m # 0
    BY <2>2
  <2>4. m - 1 \in 0 .. n /\ m \in 1 .. n /\ ~(m <= m - 1)
    BY <2>3
  <2>5. m - 1 \in T
    BY <2>2, <2>4
  <2>6. QED
    BY <2>3, <2>4, <2>5
<1>2. QED
  BY <1>1

(* f gives a at 0 and then, from its value at i - 1, the step of i.        *)
Unfolds(f, n, A, a, step) ==
    /\ f \in [0 .. n -> A] /\ f[0] = a
    /\ \A i \in 1 .. n : f[i] = step[<<i, f[i - 1]>>]

LEMMA Unfold ==
  ASSUME NEW n \in Nat, NEW A, NEW a \in A, NEW step \in [(1 .. n) \X A -> A]
  PROVE  \E f : Unfolds(f, n, A, a, step)
<1> DEFINE Upto(m, f) ==
             f \in [0 .. m -> A] /\ f[0] = a /\ \A i \in 1 .. m : f[i] = step[<<i, f[i - 1]>>]
           T == {m \in 0 .. n : \E f : Upto(m, f)}
<1>1. 0 \in T
  <2> DEFINE g == [i \in 0 .. 0 |-> a]
  <2>1. Upto(0, g) /\ 0 \in 0 .. n
    OBVIOUS
  <2> HIDE DEF g
  <2>2. QED
    BY <2>1
<1>2. ASSUME NEW m \in 1 .. n, m - 1 \in T PROVE m \in T
  <2>1. PICK f : Upto(m - 1, f)
    BY <1>2
  <2> DEFINE x == step[<<m, f[m - 1]>>]
             g == [i \in 0 .. m |-> IF i = m THEN x ELSE f[i]]
  <2>2. f \in [0 .. m - 1 -> A] /\ m - 1 \in 0 .. m - 1
    BY <2>1
  <2>3. x \in A
    BY <2>2
  <2>4. \A i \in 0 .. m : i # m => i \in 0 .. m - 1
    OBVIOUS
  <2>5. g \in [0 .. m -> A]
    BY <2>2, <2>3, <2>4
  <2>6. g[0] = a /\ g[m] = x /\ g[m - 1] = f[m - 1]
    BY <2>1
  <2>7. ASSUME NEW i \in 1 .. m PROVE g[i] = step[<<i, g[i - 1]>>]
    <3>1. CASE i = m
      BY <2>6, <3>1
    <3>2. CASE i # m
      <4>1. i \in 1 .. m - 1 /\ i - 1 \in 0 .. m /\ i - 1 # m /\ i \in 0 .. m
        BY <3>2
      <4>2. g[i] = f[i] /\ g[i - 1] = f[i - 1]
        BY <3>2, <4>1
      <4>3. QED
        BY <2>1, <4>1, <4>2
    <3>3. QED
      BY <3>1, <3>2
  <2> HIDE DEF g
  <2>8. Upto(m, g)
    BY <2>5, <2>6, <2>7
  <2>9. QED
    BY <2>8
<1> HIDE DEF T
<1>3. n \in T
  <2>1. 0 .. n \subseteq T
    BY <1>1, <1>2, Climb
  <2>2. QED
    BY <2>1
<1>4. QED
  BY <1>3 DEF T, Unfolds

-----------------------------------------------------------------------------
(* Selecting elements of a sequence.                                       *)

(* What the i-th element does to the elements kept before it.              *)
KeepStep(A, s, S) ==
    [p \in (1 .. Len(s)) \X Seq(A) |-> IF s[p[1]] \in S THEN Append(p[2], s[p[1]]) ELSE p[2]]

LEMMA KeepUnfolds ==
  ASSUME NEW A, NEW s \in Seq(A), NEW S
  PROVE  \E f \in [0 .. Len(s) -> Seq(A)] :
           /\ f[0] = <<>> /\ Keep(s, S) = f[Len(s)]
           /\ \A i \in 1 .. Len(s) :
                f[i] = IF s[i] \in S THEN Append(f[i - 1], s[i]) ELSE f[i - 1]
<1> DEFINE n == Len(s)
           step == KeepStep(A, s, S)
           Body(f) == [i \in 0 .. n |->
                         IF i = 0 THEN <<>>
                         ELSE IF s[i] \in S THEN Append(f[i - 1], s[i]) ELSE f[i - 1]]
           kept == CHOOSE kept : kept = Body(kept)
<1>1. n \in Nat /\ <<>> \in Seq(A) /\ \A i \in 1 .. n : s[i] \in A
  OBVIOUS
<1>2. step \in [(1 .. n) \X Seq(A) -> Seq(A)]
  BY AppendFacts DEF KeepStep
<1>3. \A i \in 1 .. n, t \in Seq(A) :
        step[<<i, t>>] = IF s[i] \in S THEN Append(t, s[i]) ELSE t
  BY DEF KeepStep
<1> HIDE DEF step
<1>4. PICK f : Unfolds(f, n, Seq(A), <<>>, step)
  BY <1>1, <1>2, Unfold, Zenon
<1> f \in [0 .. n -> Seq(A)] /\ f[0] = <<>> /\ \A i \in 1 .. n : f[i] = step[<<i, f[i - 1]>>]
  BY <1>4 DEF Unfolds
<1>5. \A g : /\ Body(g) = [i \in 0 .. n |-> Body(g)[i]] /\ Body(g)[0] = <<>>
             /\ \A i \in 1 .. n :
                  Body(g)[i] = IF s[i] \in S THEN Append(g[i - 1], s[i]) ELSE g[i - 1]
  BY <1>1
<1>6. f = Body(f)
  <2>1. \A i \in 1 .. n : i - 1 \in 0 .. n
    BY <1>1
  <2>2. \A i \in 1 .. n : f[i] = IF s[i] \in S THEN Append(f[i - 1], s[i]) ELSE f[i - 1]
    BY <1>3, <1>4, <2>1
  <2>3. ASSUME NEW i \in 0 .. n
        PROVE  f[i] = IF i = 0 THEN <<>>
                      ELSE IF s[i] \in S THEN Append(f[i - 1], s[i]) ELSE f[i - 1]
    <3>1. i = 0 \/ i \in 1 .. n
      BY <1>1
    <3>2. CASE i = 0
      BY <1>4, <3>2
    <3>3. CASE i # 0 /\ i \in 1 .. n
      BY <2>2, <3>3, Zenon
    <3>4. QED
      BY <3>1, <3>2, <3>3
  <2>4. f = [i \in 0 .. n |-> f[i]]
    BY <1>4
  <2>5. QED
    BY <2>3, <2>4, Zenon
<1>7. kept = Body(kept)
  BY <1>6, Zenon
<1>8. Keep(s, S) = kept[n]
  BY DEF Keep
<1> HIDE DEF kept, Body
<1>9. kept \in [0 .. n -> Seq(A)]
  <2> DEFINE T == {i \in 0 .. n : kept[i] \in Seq(A)}
  <2>1. 0 \in T
    <3>1. kept[0] = <<>> /\ 0 \in 0 .. n
      BY <1>1, <1>5, <1>7
    <3>2. QED
      BY <1>1, <3>1
  <2>2. ASSUME NEW i \in 1 .. n, i - 1 \in T PROVE i \in T
    <3>1. kept[i - 1] \in Seq(A) /\ s[i] \in A /\ i \in 0 .. n
      BY <1>1, <2>2
    <3>2. Append(kept[i - 1], s[i]) \in Seq(A)
      BY <3>1, AppendFacts
    <3>3. kept[i] = IF s[i] \in S THEN Append(kept[i - 1], s[i]) ELSE kept[i - 1]
      BY <1>5, <1>7
    <3>4. QED
      BY <3>1, <3>2, <3>3
  <2> HIDE DEF T
  <2>3. 0 .. n \subseteq T
    BY <1>1, <2>1, <2>2, Climb
  <2>4. \A i \in 0 .. n : kept[i] \in Seq(A)
    BY <2>3 DEF T
  <2>5. kept = [i \in 0 .. n |-> kept[i]]
    BY <1>5, <1>7
  <2>6. QED
    BY <2>4, <2>5
<1>10. QED
  BY <1>5, <1>7, <1>8, <1>9

LEMMA KeepFacts ==
  ASSUME NEW A, NEW s \in Seq(A), NEW S
  PROVE  /\ Keep(s, S) \in Seq(A)
         /\ \A x : x \in ToSet(Keep(s, S)) <=> x \in ToSet(s) /\ x \in S
<1> DEFINE n == Len(s)
           Holds(t, i) == \A x : x \in ToSet(t) <=> x \in S /\ \E k \in 1 .. i : s[k] = x
<1>1. PICK f \in [0 .. n -> Seq(A)] :
           /\ f[0] = <<>> /\ Keep(s, S) = f[n]
           /\ \A i \in 1 .. n :
                f[i] = IF s[i] \in S THEN Append(f[i - 1], s[i]) ELSE f[i - 1]
  BY KeepUnfolds
<1>2. n \in Nat /\ \A i \in 1 .. n : s[i] \in A
  OBVIOUS
<1> DEFINE T == {i \in 0 .. n : Holds(f[i], i)}
<1>3. 0 \in T
  <2>1. ToSet(<<>>) = {}
    BY DEF ToSet
  <2>2. Holds(f[0], 0)
    BY <1>1, <2>1
  <2>3. QED
    BY <1>2, <2>2
<1>4. ASSUME NEW i \in 1 .. n, i - 1 \in T PROVE i \in T
  <2>1. /\ Holds(f[i - 1], i - 1) /\ f[i - 1] \in Seq(A) /\ s[i] \in A
        /\ f[i] = IF s[i] \in S THEN Append(f[i - 1], s[i]) ELSE f[i - 1]
    BY <1>1, <1>2, <1>4
  <2>2. ASSUME NEW t \in Seq(A), NEW a \in A, NEW x
        PROVE  x \in ToSet(Append(t, a)) <=> x \in ToSet(t) \/ x = a
    <3>1. ToSet(t) = {t[k] : k \in 1 .. Len(t)}
      BY DEF ToSet
    <3>2. /\ Append(t, a) \in Seq(A) /\ Len(Append(t, a)) = Len(t) + 1
          /\ \A k \in 1 .. Len(t) : Append(t, a)[k] = t[k]
          /\ Append(t, a)[Len(t) + 1] = a
      BY AppendFacts
    <3>3. ToSet(Append(t, a)) = {Append(t, a)[k] : k \in 1 .. Len(t) + 1}
      BY <3>2 DEF ToSet
    <3>4. Len(t) \in Nat
      OBVIOUS
    <3>5. QED
      BY <3>1, <3>2, <3>3, <3>4
  <2>3. \A x : (\E k \in 1 .. i : s[k] = x) <=> (\E k \in 1 .. i - 1 : s[k] = x) \/ s[i] = x
    BY <1>2
  <2>4. CASE s[i] \in S
    <3>1. \A x : x \in ToSet(f[i]) <=> x \in ToSet(f[i - 1]) \/ x = s[i]
      BY <2>1, <2>2, <2>4
    <3>2. Holds(f[i], i)
      BY <2>1, <2>3, <2>4, <3>1, Zenon
    <3>3. QED
      BY <1>2, <3>2
  <2>5. CASE s[i] \notin S
    <3>1. f[i] = f[i - 1]
      BY <2>1, <2>5
    <3>2. Holds(f[i], i)
      BY <2>1, <2>3, <2>5, <3>1, Zenon
    <3>3. QED
      BY <1>2, <3>2
  <2>6. QED
    BY <2>4, <2>5
<1> HIDE DEF T
<1>5. n \in T
  <2>1. 0 .. n \subseteq T
    BY <1>2, <1>3, <1>4, Climb
  <2>2. QED
    BY <1>2, <2>1
<1>6. Holds(f[n], n)
  BY <1>5 DEF T
<1>7. \A x : x \in ToSet(s) <=> \E k \in 1 .. n : s[k] = x
  BY DEF ToSet
<1>8. QED
  BY <1>1, <1>2, <1>6, <1>7

(* The elements of a sequence that is empty, extended, shortened, joined.  *)
LEMMA ElementFacts ==
  ASSUME NEW S, NEW q \in Seq(S)
  PROVE  /\ ToSet(q) \subseteq S /\ ToSet(<<>>) = {}
         /\ \A x \in S : ToSet(Append(q, x)) = ToSet(q) \cup {x}
         /\ q # <<>> => ToSet(q) = {Head(q)} \cup ToSet(Tail(q))
<1>1. ToSet(q) \subseteq S /\ ToSet(<<>>) = {}
  BY DEF ToSet
<1>2. ASSUME NEW x \in S PROVE ToSet(Append(q, x)) = ToSet(q) \cup {x}
  <2> DEFINE r == Append(q, x)
             n == Len(q)
  <2>1. /\ r \in Seq(S) /\ Len(r) = n + 1 /\ n \in Nat
        /\ \A i \in 1 .. n : r[i] = q[i]
        /\ r[n + 1] = x
    BY AppendFacts
  <2>2. DOMAIN r = 1 .. n + 1 /\ DOMAIN q = 1 .. n
    BY <2>1
  <2>3. 1 .. n + 1 = (1 .. n) \cup {n + 1}
    BY <2>1
  <2> HIDE DEF r, n
  <2>4. {r[i] : i \in 1 .. n + 1} = {q[i] : i \in 1 .. n} \cup {x}
    BY <2>1, <2>3
  <2>5. QED
    BY <2>2, <2>4 DEF ToSet, r
<1>3. ASSUME q # <<>> PROVE ToSet(q) = {Head(q)} \cup ToSet(Tail(q))
  <2> DEFINE r == Tail(q)
             n == Len(q)
  <2>1. /\ r \in Seq(S) /\ Len(r) = n - 1 /\ n \in Nat \ {0} /\ Head(q) = q[1]
        /\ \A i \in 1 .. n - 1 : r[i] = q[i + 1]
    BY <1>3, TailFacts
  <2>2. DOMAIN r = 1 .. n - 1 /\ DOMAIN q = 1 .. n
    BY <2>1
  <2> HIDE DEF r, n
  <2>3. ASSUME NEW i \in 1 .. n PROVE i = 1 \/ \E k \in 1 .. n - 1 : r[k] = q[i]
    <3>1. ASSUME i # 1 PROVE i - 1 \in 1 .. n - 1 /\ r[i - 1] = q[(i - 1) + 1] /\ (i - 1) + 1 = i
      BY <2>1, <3>1
    <3>2. QED
      BY <3>1
  <2>4. ASSUME NEW k \in 1 .. n - 1 PROVE k + 1 \in 1 .. n /\ r[k] = q[k + 1]
    BY <2>1
  <2>5. 1 \in 1 .. n
    BY <2>1
  <2>6. {q[i] : i \in 1 .. n} = {q[1]} \cup {r[i] : i \in 1 .. n - 1}
    BY <2>3, <2>4, <2>5
  <2>7. QED
    BY <2>1, <2>2, <2>6 DEF ToSet, r
<1>4. QED
  BY <1>1, <1>2, <1>3

LEMMA JoinedElements ==
  ASSUME NEW S, NEW w \in Seq(S), NEW q \in Seq(S)
  PROVE  w \o q \in Seq(S) /\ ToSet(w \o q) = ToSet(w) \cup ToSet(q)
<1> DEFINE r == w \o q
           m == Len(w)
           n == Len(q)
<1>1. /\ r \in Seq(S) /\ Len(r) = m + n /\ m \in Nat /\ n \in Nat
      /\ \A i \in 1 .. m + n : r[i] = IF i <= m THEN w[i] ELSE q[i - m]
  BY ConcatProperties
<1>2. DOMAIN r = 1 .. m + n /\ DOMAIN w = 1 .. m /\ DOMAIN q = 1 .. n
  BY <1>1
<1> HIDE DEF r, m, n
<1>3. ASSUME NEW i \in 1 .. m PROVE i \in 1 .. m + n /\ r[i] = w[i]
  BY <1>1
<1>4. ASSUME NEW i \in 1 .. n PROVE i + m \in 1 .. m + n /\ r[i + m] = q[i]
  <2>1. i + m \in 1 .. m + n /\ ~(i + m <= m) /\ (i + m) - m = i
    BY <1>1
  <2>2. QED
    BY <1>1, <2>1
<1>5. ASSUME NEW i \in 1 .. m + n
      PROVE  (i \in 1 .. m /\ r[i] = w[i]) \/ (i - m \in 1 .. n /\ r[i] = q[i - m])
  BY <1>1
<1>6. {r[i] : i \in 1 .. m + n} = {w[i] : i \in 1 .. m} \cup {q[i] : i \in 1 .. n}
  BY <1>3, <1>4, <1>5
<1>7. QED
  BY <1>1, <1>2, <1>6 DEF ToSet, r

(* A sequence is a prefix of itself with another one joined.               *)
LEMMA PrefixOfJoined ==
  ASSUME NEW S, NEW w \in Seq(S), NEW q \in Seq(S)
  PROVE  IsPrefix(w, w \o q)
<1> DEFINE r == w \o q
           m == Len(w)
<1>1. /\ r \in Seq(S) /\ Len(r) = m + Len(q) /\ m \in Nat /\ Len(q) \in Nat
      /\ \A i \in 1 .. m + Len(q) : r[i] = IF i <= m THEN w[i] ELSE q[i - m]
  BY ConcatProperties
<1> HIDE DEF r, m
<1>2. \A i \in 1 .. m : r[i] = w[i]
  BY <1>1
<1>3. SubSeq(w, 1, m) = SubSeq(r, 1, m)
  BY <1>1, <1>2 DEF m
<1>4. QED
  BY <1>1, <1>3 DEF IsPrefix, r, m

(* When the elements to keep are those from a to b, they are that stretch. *)
LEMMA KeepStretch ==
  ASSUME NEW A, NEW s \in Seq(A), NEW S,
         NEW a \in 1 .. Len(s) + 1, NEW b \in a - 1 .. Len(s),
         \A k \in 1 .. Len(s) : s[k] \in S <=> a <= k /\ k <= b
  PROVE  Keep(s, S) = SubSeq(s, a, b)
<1> DEFINE n == Len(s)
           Upto(i) == IF i < b THEN i ELSE b
<1>1. n \in Nat /\ a \in Int /\ b \in Int /\ a <= b + 1 /\ b <= n /\ 1 <= a
  OBVIOUS
<1>2. PICK f \in [0 .. n -> Seq(A)] :
           /\ f[0] = <<>> /\ Keep(s, S) = f[n]
           /\ \A i \in 1 .. n :
                f[i] = IF s[i] \in S THEN Append(f[i - 1], s[i]) ELSE f[i - 1]
  BY KeepUnfolds
<1> DEFINE T == {i \in 0 .. n : f[i] = SubSeq(s, a, Upto(i))}
<1>3. 0 \in T
  <2>1. Upto(0) \in Int /\ Upto(0) < a
    BY <1>1
  <2>2. SubSeq(s, a, Upto(0)) = <<>>
    BY <1>1, <2>1, SubSeqEmpty
  <2>3. QED
    BY <1>1, <1>2, <2>2
<1>4. ASSUME NEW i \in 1 .. n, i - 1 \in T PROVE i \in T
  <2>1. /\ f[i - 1] = SubSeq(s, a, Upto(i - 1)) /\ s[i] \in A
        /\ f[i] = IF s[i] \in S THEN Append(f[i - 1], s[i]) ELSE f[i - 1]
        /\ s[i] \in S <=> a <= i /\ i <= b
    BY <1>1, <1>2, <1>4
  <2>2. CASE a <= i /\ i <= b
    <3>1. Upto(i - 1) = i - 1 /\ Upto(i) = i /\ a \in 1 .. n /\ i \in a .. n
      BY <1>1, <2>2
    <3>2. SubSeq(s, a, i) = SubSeq(s, a, i - 1) \o <<s[i]>>
      BY <3>1, SubSeqRecursiveSecond
    <3>3. f[i - 1] \in Seq(A)
      BY <1>2
    <3>4. Append(f[i - 1], s[i]) = f[i - 1] \o <<s[i]>>
      BY <2>1, <3>3, AppendIsConcat
    <3>5. f[i] = SubSeq(s, a, Upto(i))
      BY <2>1, <2>2, <3>1, <3>2, <3>4, Zenon
    <3>6. QED
      BY <1>1, <3>5
  <2>3. CASE i < a
    <3>1. Upto(i) \in Int /\ Upto(i) < a /\ Upto(i - 1) \in Int /\ Upto(i - 1) < a
      BY <1>1, <2>3
    <3>2. SubSeq(s, a, Upto(i)) = <<>> /\ SubSeq(s, a, Upto(i - 1)) = <<>>
      BY <1>1, <3>1, SubSeqEmpty
    <3>3. f[i] = f[i - 1]
      BY <1>1, <2>1, <2>3
    <3>4. f[i] = SubSeq(s, a, Upto(i))
      BY <2>1, <3>2, <3>3, Zenon
    <3>5. QED
      BY <1>1, <3>4
  <2>4. CASE b < i
    <3>1. Upto(i) = b /\ Upto(i - 1) = b
      BY <1>1, <2>4
    <3>2. f[i] = f[i - 1]
      BY <1>1, <2>1, <2>4
    <3>3. QED
      BY <1>1, <2>1, <3>1, <3>2
  <2>5. QED
    BY <1>1, <2>2, <2>3, <2>4
<1> HIDE DEF T
<1>5. n \in T
  <2>1. 0 .. n \subseteq T
    BY <1>1, <1>3, <1>4, Climb
  <2>2. QED
    BY <1>1, <2>1
<1>6. f[n] = SubSeq(s, a, Upto(n)) /\ Upto(n) = b
  BY <1>1, <1>5 DEF T
<1>7. QED
  BY <1>2, <1>6
=============================================================================
