--------------------------- MODULE SequenceLemmas ---------------------------
(***************************************************************************)
(* Lemmas that the proofs about texts (PagingProofs) and about outlines    *)
(* (LibraryProofs) share: induction over numbers, what FlattenSeq of the   *)
(* community modules makes of a sequence of sequences of any length, a     *)
(* function of each element, and sequences without repetition.             *)
(***************************************************************************)
EXTENDS SequencesExt, FiniteSetTheorems, SequenceTheorems, WellFoundedInduction, TLAPS

\* A set of numbers has a least one.
LEMMA LeastNumber ==
    ASSUME NEW S, S \subseteq Nat, S # {}
    PROVE  \E x \in S : \A y \in S : x <= y
<1> DEFINE R == {ss \in Nat \X Nat : ss[1] < ss[2]}
<1>0. IsWellFoundedOn(R, Nat)
    BY NatLessThanWellFounded, Zenon DEF OpToRel
<1>1. PICK x \in S : \A y \in S : ~ (<<y, x>> \in R)
    <2> HIDE DEF R
    <2> QED BY <1>0, WFMin
<1>2. \A y \in S : ~ (y < x)
    BY <1>1
<1> QED BY <1>2

\* Induction over the numbers of a set.
LEMMA AllNumbers ==
    ASSUME NEW S, S \subseteq Nat, 0 \in S, \A n \in S : n + 1 \in S
    PROVE  S = Nat
<1>1. SUFFICES ASSUME Nat \ S # {} PROVE FALSE
    OBVIOUS
<1>2. PICK x \in Nat \ S : \A y \in Nat \ S : x <= y
    BY <1>1, LeastNumber
<1>3. x - 1 \in S
    BY <1>2
<1> QED BY <1>2, <1>3

\* The recursive function inside of FlattenSeq.
Steps(seqs, f) ==
  f = [i \in 1..Len(seqs) |-> IF i = 1 THEN seqs[i] ELSE f[i - 1] \o seqs[i]]

\* The recursion of FlattenSeq has a solution.
LEMMA StepsExist ==
    ASSUME NEW T, NEW seqs \in Seq(Seq(T))
    PROVE  \E f : Steps(seqs, f)
<1> DEFINE D(n, f) == f = [i \in 1..n |-> IF i = 1 THEN seqs[i] ELSE f[i - 1] \o seqs[i]]
           S == {n \in Nat : \E f : D(n, f)}
<1>1. 0 \in S
    <2> DEFINE e == [i \in 1..0 |-> <<>>]
    <2>1. e = [i \in 1..0 |-> IF i = 1 THEN seqs[i] ELSE e[i - 1] \o seqs[i]]
        OBVIOUS
    <2> QED BY <2>1
<1>2. ASSUME NEW n \in S PROVE n + 1 \in S
    <2>1. PICK f : D(n, f)
        OBVIOUS
    <2> DEFINE g == [i \in 1..(n + 1) |-> IF i <= n THEN f[i]
                       ELSE IF i = 1 THEN seqs[i] ELSE f[i - 1] \o seqs[i]]
    <2>2. \A i \in 1..n : f[i] = IF i = 1 THEN seqs[i] ELSE f[i - 1] \o seqs[i]
        BY <2>1
    <2>3. \A i \in 1..(n + 1) : g[i] = IF i = 1 THEN seqs[i] ELSE g[i - 1] \o seqs[i]
        <3> TAKE i \in 1..(n + 1)
        <3>1. CASE i <= n
            BY <3>1, <2>2
        <3>2. CASE i = n + 1
            BY <3>2
        <3> QED BY <3>1, <3>2
    <2>4. D(n + 1, g)
        <3>1. g = [i \in 1..(n + 1) |-> g[i]]
            OBVIOUS
        <3> HIDE DEF g
        <3> QED BY <3>1, <2>3
    <2>5. \E h : D(n + 1, h)
        <3> HIDE DEF D, g
        <3> QED BY <2>4
    <2>6. n + 1 \in Nat
        OBVIOUS
    <2> QED BY <2>5, <2>6, Zenon
<1>3. S = Nat
    <2> HIDE DEF S
    <2>1. S \subseteq Nat
        BY DEF S
    <2> QED BY <2>1, <1>1, <1>2, AllNumbers
<1>4. Len(seqs) \in S
    <2> HIDE DEF S
    <2> QED BY <1>3, LenProperties
<1> QED BY <1>4 DEF Steps

\* What a solution is, element by element.
LEMMA StepsType ==
    ASSUME NEW T, NEW seqs \in Seq(Seq(T)), NEW f, Steps(seqs, f)
    PROVE  \A i \in 1..Len(seqs) :
             /\ f[i] \in Seq(T)
             /\ f[i] = IF i = 1 THEN seqs[i] ELSE f[i - 1] \o seqs[i]
<1>1. \A i \in 1..Len(seqs) : f[i] = IF i = 1 THEN seqs[i] ELSE f[i - 1] \o seqs[i]
    BY DEF Steps
<1> DEFINE S == {n \in Nat : n \in 1..Len(seqs) => f[n] \in Seq(T)}
<1>2. S = Nat
    <2>1. 0 \in S
        OBVIOUS
    <2>2. ASSUME NEW n \in S PROVE n + 1 \in S
        <3>1. CASE n + 1 \in 1..Len(seqs) /\ n = 0
            BY <3>1, <1>1
        <3>2. CASE n + 1 \in 1..Len(seqs) /\ n # 0
            <4>1. f[n] \in Seq(T) /\ seqs[n + 1] \in Seq(T)
                BY <3>2
            <4>2. f[n + 1] = IF n + 1 = 1 THEN seqs[n + 1] ELSE f[(n + 1) - 1] \o seqs[n + 1]
                BY <1>1, <3>2, Zenon
            <4>3. (n + 1) - 1 = n /\ n + 1 # 1
                BY <3>2
            <4>4. f[n + 1] = f[n] \o seqs[n + 1]
                BY <4>2, <4>3, Zenon
            <4>5. f[n] \o seqs[n + 1] \in Seq(T)
                BY <4>1, ConcatProperties
            <4>6. n + 1 \in Nat /\ f[n + 1] \in Seq(T)
                BY <4>4, <4>5
            <4> QED BY <4>6, Zenon
        <3>3. CASE n + 1 \notin 1..Len(seqs)
            BY <3>3
        <3> QED BY <3>1, <3>2, <3>3
    <2> HIDE DEF S
    <2>3. S \subseteq Nat
        BY DEF S
    <2> QED BY <2>1, <2>2, <2>3, AllNumbers
<1>3. \A i \in 1..Len(seqs) : i \in S
    <2> HIDE DEF S
    <2> QED BY <1>2
<1>4. \A i \in 1..Len(seqs) : f[i] \in Seq(T)
    BY <1>3
<1> QED BY <1>1, <1>4, Zenon

\* FlattenSeq is the last element of a solution.
LEMMA FlattenFunction ==
    ASSUME NEW T, NEW seqs \in Seq(Seq(T)), seqs # <<>>
    PROVE  \E f : Steps(seqs, f) /\ FlattenSeq(seqs) = f[Len(seqs)]
<1> DEFINE c == CHOOSE f : Steps(seqs, f)
<1>1. Steps(seqs, c)
    BY StepsExist
<1>2. FlattenSeq(seqs) = c[Len(seqs)]
    BY DEF FlattenSeq, Steps
<1> QED BY <1>1, <1>2

\* Flattening element by element.
LEMMA FlattenAppend ==
    ASSUME NEW T, NEW a \in Seq(Seq(T)), NEW x \in Seq(T)
    PROVE  FlattenSeq(Append(a, x)) = FlattenSeq(a) \o x
<1> DEFINE b == Append(a, x)
<1>1. /\ b \in Seq(Seq(T)) /\ b # <<>> /\ Len(b) = Len(a) + 1 /\ Len(a) \in Nat
      /\ b[Len(a) + 1] = x /\ \A i \in 1..Len(a) : b[i] = a[i]
    BY AppendProperties
<1> HIDE DEF b
<1>2. PICK g : Steps(b, g) /\ FlattenSeq(b) = g[Len(b)]
    BY <1>1, FlattenFunction
<1>3. \A i \in 1..Len(b) :
        g[i] \in Seq(T) /\ g[i] = IF i = 1 THEN b[i] ELSE g[i - 1] \o b[i]
    <2>1. b \in Seq(Seq(T)) /\ Steps(b, g)
        BY <1>1, <1>2
    <2> QED BY ONLY <2>1, StepsType
<1>4. CASE a = <<>>
    <2>1. Len(a) = 0 /\ FlattenSeq(a) = <<>>
        BY <1>4 DEF FlattenSeq
    <2>2. 1 \in 1..Len(b)
        BY <2>1, <1>1
    <2>3. g[1] = x
        BY <2>1, <2>2, <1>1, <1>3
    <2>4. <<>> \o x = x
        BY ConcatEmptySeq
    <2> QED BY <2>1, <2>3, <2>4, <1>1, <1>2 DEF b
<1>5. CASE a # <<>>
    <2>1. PICK f : Steps(a, f) /\ FlattenSeq(a) = f[Len(a)]
        BY <1>5, FlattenFunction
    <2>2. \A i \in 1..Len(a) :
            f[i] \in Seq(T) /\ f[i] = IF i = 1 THEN a[i] ELSE f[i - 1] \o a[i]
        BY <2>1, StepsType
    <2> DEFINE S == {n \in Nat : n \in 1..Len(a) => f[n] = g[n]}
    <2>3. S = Nat
        <3>1. 0 \in S
            OBVIOUS
        <3>2. ASSUME NEW n \in S PROVE n + 1 \in S
            <4>1. CASE n + 1 \notin 1..Len(a)
                BY <4>1
            <4>2. CASE n + 1 \in 1..Len(a) /\ n = 0
                BY <4>2, <2>2, <1>3, <1>1
            <4>3. CASE n + 1 \in 1..Len(a) /\ n # 0
                <5>1. n + 1 # 1 /\ (n + 1) - 1 = n /\ n + 1 \in 1..Len(b) /\ n \in 1..Len(a)
                    BY <4>3, <1>1
                <5>2. f[n + 1] = f[n] \o a[n + 1]
                    BY <5>1, <4>3, <2>2, Zenon
                <5>3. g[n + 1] = g[n] \o b[n + 1]
                    BY <5>1, <1>3, Zenon
                <5>4. f[n] = g[n] /\ a[n + 1] = b[n + 1]
                    BY <5>1, <4>3, <1>1
                <5>5. f[n + 1] = g[n + 1] /\ n + 1 \in Nat
                    BY <5>2, <5>3, <5>4
                <5> QED BY <5>5, Zenon
            <4> QED BY <4>1, <4>2, <4>3
        <3> HIDE DEF S
        <3>3. S \subseteq Nat
            BY DEF S
        <3> QED BY <3>1, <3>2, <3>3, AllNumbers
    <2>4. Len(a) \in 1..Len(a)
        BY <1>5, <1>1, EmptySeq
    <2>5. f[Len(a)] = g[Len(a)]
        BY <2>3, <2>4
    <2>6. Len(b) # 1 /\ Len(b) - 1 = Len(a) /\ Len(b) \in 1..Len(b)
        BY <2>4, <1>1
    <2>7. g[Len(b)] = g[Len(a)] \o b[Len(b)]
        BY <2>6, <1>3, Zenon
    <2>8. b[Len(b)] = x
        BY <1>1
    <2>9. FlattenSeq(b) = FlattenSeq(a) \o x
        BY <1>2, <2>1, <2>5, <2>7, <2>8, Zenon
    <2> QED BY <2>9 DEF b
<1> QED BY <1>4, <1>5

\* Of nothing, nothing.
LEMMA FlattenEmpty == FlattenSeq(<<>>) = <<>>
BY EmptySeq DEF FlattenSeq

\* What flattening returns.
LEMMA FlattenType ==
    ASSUME NEW T, NEW a \in Seq(Seq(T))
    PROVE  FlattenSeq(a) \in Seq(T)
<1>1. CASE a = <<>>
    <2>1. FlattenSeq(a) = <<>>
        BY <1>1, FlattenEmpty, Zenon
    <2> QED BY <2>1, EmptySeq
<1>2. CASE a # <<>>
    <2>1. PICK f : Steps(a, f) /\ FlattenSeq(a) = f[Len(a)]
        BY <1>2, FlattenFunction
    <2>2. Len(a) \in 1..Len(a)
        BY <1>2, EmptySeq, LenProperties
    <2>3. \A i \in 1..Len(a) : f[i] \in Seq(T)
        BY <2>1, StepsType
    <2>4. f[Len(a)] \in Seq(T)
        BY <2>2, <2>3
    <2> QED BY <2>1, <2>4, Zenon
<1> QED BY <1>1, <1>2

\* Flattening takes a concatenation apart.
LEMMA FlattenConcat ==
    ASSUME NEW T, NEW a \in Seq(Seq(T)), NEW b \in Seq(Seq(T))
    PROVE  FlattenSeq(a \o b) = FlattenSeq(a) \o FlattenSeq(b)
<1> DEFINE S == {n \in Nat : \A c \in Seq(Seq(T)) : Len(c) = n =>
                   FlattenSeq(a \o c) = FlattenSeq(a) \o FlattenSeq(c)}
<1>1. 0 \in S
    <2> SUFFICES ASSUME NEW c \in Seq(Seq(T)), Len(c) = 0
                 PROVE  FlattenSeq(a \o c) = FlattenSeq(a) \o FlattenSeq(c)
        BY Zenon
    <2>1. c = <<>>
        BY EmptySeq
    <2>2. a \o c = a /\ FlattenSeq(c) = <<>>
        BY <2>1, FlattenEmpty, ConcatEmptySeq
    <2>3. FlattenSeq(a) \o <<>> = FlattenSeq(a)
        BY FlattenType, ConcatEmptySeq
    <2> QED BY <2>2, <2>3
<1>2. ASSUME NEW n \in S PROVE n + 1 \in S
    <2>1. SUFFICES ASSUME NEW c \in Seq(Seq(T)), Len(c) = n + 1
                   PROVE  FlattenSeq(a \o c) = FlattenSeq(a) \o FlattenSeq(c)
        <3>1. n + 1 \in Nat
            OBVIOUS
        <3> QED BY <3>1, Zenon
    <2> DEFINE d == SubSeq(c, 1, n)
               x == c[n + 1]
    <2>2. d \in Seq(Seq(T)) /\ Len(d) = n /\ x \in Seq(T) /\ c = Append(d, x)
        BY <2>1
    <2>3. FlattenSeq(a \o d) = FlattenSeq(a) \o FlattenSeq(d)
        BY <2>2
    <2> HIDE DEF d, x, S
    <2>4. a \o c = Append(a \o d, x) /\ a \o d \in Seq(Seq(T))
        BY <2>2
    <2>5. FlattenSeq(a \o c) = (FlattenSeq(a) \o FlattenSeq(d)) \o x
        BY <2>2, <2>3, <2>4, FlattenAppend
    <2>6. FlattenSeq(c) = FlattenSeq(d) \o x
        BY <2>2, FlattenAppend
    <2>7. FlattenSeq(a) \in Seq(T) /\ FlattenSeq(d) \in Seq(T)
        BY <2>2, FlattenType
    <2>8. (FlattenSeq(a) \o FlattenSeq(d)) \o x = FlattenSeq(a) \o (FlattenSeq(d) \o x)
        <3> DEFINE p == FlattenSeq(a)
                   q == FlattenSeq(d)
        <3>1. p \in Seq(T) /\ q \in Seq(T) /\ x \in Seq(T)
            BY <2>2, <2>7
        <3> DEFINE l == (p \o q) \o x
                   r == p \o (q \o x)
        <3> HIDE DEF p, q
        <3>2. /\ p \o q \in Seq(T) /\ Len(p \o q) = Len(p) + Len(q)
              /\ q \o x \in Seq(T) /\ Len(q \o x) = Len(q) + Len(x)
              /\ Len(p) \in Nat /\ Len(q) \in Nat /\ Len(x) \in Nat
            BY ONLY <3>1
        <3>3. l \in Seq(T) /\ Len(l) = Len(p) + Len(q) + Len(x)
            BY ONLY <3>1, <3>2
        <3>4. r \in Seq(T) /\ Len(r) = Len(p) + Len(q) + Len(x)
            BY ONLY <3>1, <3>2
        <3>5. ASSUME NEW i \in 1..(Len(p) + Len(q) + Len(x)) PROVE l[i] = r[i]
            BY ONLY <3>1, <3>2
        <3> HIDE DEF l, r
        <3>6. l = r
            BY ONLY <3>3, <3>4, <3>5, SeqEqual
        <3> QED BY <3>6 DEF l, r, p, q
    <2> QED BY <2>5, <2>6, <2>8
<1>3. S = Nat
    <2> HIDE DEF S
    <2>1. S \subseteq Nat
        BY DEF S
    <2> QED BY <2>1, <1>1, <1>2, AllNumbers
<1>4. Len(b) \in Nat /\ Len(b) \in S
    <2> HIDE DEF S
    <2> QED BY <1>3, LenProperties
<1> QED BY <1>4, Zenon

\* One element at a time is no change.
LEMMA FlattenSingletons ==
    ASSUME NEW T, NEW t \in Seq(T)
    PROVE  FlattenSeq([i \in 1..Len(t) |-> <<t[i]>>]) = t
<1> DEFINE C(u) == [i \in 1..Len(u) |-> <<u[i]>>]
           S == {n \in Nat : \A u \in Seq(T) : Len(u) = n => FlattenSeq(C(u)) = u}
<1>1. 0 \in S
    <2> SUFFICES ASSUME NEW u \in Seq(T), Len(u) = 0 PROVE FlattenSeq(C(u)) = u
        BY Zenon
    <2>1. u = <<>> /\ C(u) = <<>>
        BY EmptySeq
    <2> QED BY <2>1, FlattenEmpty
<1>2. ASSUME NEW n \in S PROVE n + 1 \in S
    <2>1. SUFFICES ASSUME NEW u \in Seq(T), Len(u) = n + 1 PROVE FlattenSeq(C(u)) = u
        <3>1. n + 1 \in Nat
            OBVIOUS
        <3> QED BY <3>1, Zenon
    <2> DEFINE d == SubSeq(u, 1, n)
               x == u[n + 1]
    <2>2. d \in Seq(T) /\ Len(d) = n /\ x \in T /\ u = Append(d, x)
        BY <2>1
    <2>3. C(u) = Append(C(d), <<x>>)
        BY <2>1
    <2>4. C(d) \in Seq(Seq(T)) /\ <<x>> \in Seq(T)
        BY <2>2
    <2>5. FlattenSeq(C(d)) = d
        BY <2>2
    <2> HIDE DEF C, d, x
    <2>6. FlattenSeq(C(u)) = d \o <<x>>
        BY <2>3, <2>4, <2>5, FlattenAppend
    <2> QED BY <2>2, <2>6
<1>3. S = Nat
    <2> HIDE DEF S
    <2>1. S \subseteq Nat
        BY DEF S
    <2> QED BY <2>1, <1>1, <1>2, AllNumbers
<1>4. Len(t) \in Nat /\ Len(t) \in S
    <2> HIDE DEF S
    <2> QED BY <1>3, LenProperties
<1> QED BY <1>4, Zenon

-----------------------------------------------------------------------------
(* A function of each element                                              *)

\* The function g of each element of s.
Each(g, s) == [i \in DOMAIN s |-> g[s[i]]]

\* What it is, as a sequence.
LEMMA EachIs ==
    ASSUME NEW S, NEW T, NEW g, \A x \in S : g[x] \in T, NEW s \in Seq(S)
    PROVE  /\ Each(g, s) \in Seq(T)
           /\ Len(Each(g, s)) = Len(s)
           /\ \A i \in 1..Len(s) : Each(g, s)[i] = g[s[i]]
BY DEF Each

\* And element by element.
LEMMA EachElement ==
    ASSUME NEW S, NEW g, NEW s \in Seq(S)
    PROVE  /\ Len(Each(g, s)) = Len(s)
           /\ \A i \in 1..Len(s) : Each(g, s)[i] = g[s[i]]
<1> DEFINE e == [i \in 1..Len(s) |-> g[s[i]]]
<1>1. e = Each(g, s)
    BY DEF Each
<1>2. Len(e) = Len(s) /\ \A i \in 1..Len(s) : e[i] = g[s[i]]
    OBVIOUS
<1> QED BY <1>1, <1>2

\* Part by part.
LEMMA EachConcat ==
    ASSUME NEW S, NEW g, NEW s \in Seq(S), NEW t \in Seq(S)
    PROVE  Each(g, s \o t) = Each(g, s) \o Each(g, t)
<1> DEFINE T == {g[x] : x \in S}
<1> \A x \in S : g[x] \in T
    OBVIOUS
<1> HIDE DEF T
<1>0. ASSUME NEW u \in Seq(S)
      PROVE  /\ Each(g, u) \in Seq(T) /\ Len(Each(g, u)) = Len(u)
             /\ \A i \in 1..Len(u) : Each(g, u)[i] = g[u[i]]
    BY DEF Each
<1>1. s \o t \in Seq(S) /\ Len(s \o t) = Len(s) + Len(t) /\ Len(s) \in Nat /\ Len(t) \in Nat
    OBVIOUS
<1> DEFINE p == Each(g, s)
           q == Each(g, t)
           r == Each(g, s \o t)
<1>2. /\ p \in Seq(T) /\ Len(p) = Len(s) /\ \A i \in 1..Len(s) : p[i] = g[s[i]]
      /\ q \in Seq(T) /\ Len(q) = Len(t) /\ \A i \in 1..Len(t) : q[i] = g[t[i]]
    BY <1>0
<1>3. /\ r \in Seq(T) /\ Len(r) = Len(s) + Len(t)
      /\ \A i \in 1..(Len(s) + Len(t)) : r[i] = g[(s \o t)[i]]
    BY <1>0, <1>1
<1> HIDE DEF p, q, r
<1>4. p \o q \in Seq(T) /\ Len(p \o q) = Len(s) + Len(t)
    <2>1. p \in Seq(T) /\ q \in Seq(T) /\ Len(p) = Len(s) /\ Len(q) = Len(t)
        BY <1>2
    <2>2. p \o q \in Seq(T)
        BY ONLY <2>1
    <2>3. Len(p \o q) = Len(p) + Len(q)
        BY ONLY <2>1
    <2> QED BY ONLY <2>1, <2>2, <2>3
<1>5. ASSUME NEW i \in 1..(Len(s) + Len(t)) PROVE r[i] = (p \o q)[i]
    <2>1. (s \o t)[i] = IF i <= Len(s) THEN s[i] ELSE t[i - Len(s)]
        BY <1>5
    <2>2. (p \o q)[i] = IF i <= Len(s) THEN p[i] ELSE q[i - Len(s)]
        BY <1>1, <1>2, <1>5
    <2>3. r[i] = g[(s \o t)[i]]
        BY <1>3
    <2>4. CASE i <= Len(s)
        BY <1>1, <1>2, <2>1, <2>2, <2>3, <2>4
    <2>5. CASE ~(i <= Len(s))
        <3>1. i - Len(s) \in 1..Len(t)
            BY <1>1, <2>5
        <3> QED BY <1>2, <2>1, <2>2, <2>3, <2>5, <3>1
    <2> QED BY <2>4, <2>5
<1>6. r = p \o q
    BY <1>3, <1>4, <1>5, SeqEqual
<1> QED BY <1>6 DEF p, q, r

\* Flattening a sequence and replacing each element by a sequence, and
\* flattening again, is the same as doing so part by part.
LEMMA FlattenEach ==
    ASSUME NEW S, NEW T, NEW g \in [S -> Seq(T)], NEW a \in Seq(Seq(S))
    PROVE  FlattenSeq(Each(g, FlattenSeq(a)))
             = FlattenSeq([i \in 1..Len(a) |-> FlattenSeq(Each(g, a[i]))])
<1> DEFINE P(b) == [i \in 1..Len(b) |-> FlattenSeq(Each(g, b[i]))]
           M == {n \in Nat : \A b \in Seq(Seq(S)) : Len(b) = n =>
                   FlattenSeq(Each(g, FlattenSeq(b))) = FlattenSeq(P(b))}
<1>1. \A s \in Seq(S) : Each(g, s) \in Seq(Seq(T)) /\ FlattenSeq(Each(g, s)) \in Seq(T)
    BY EachIs, FlattenType
<1>2. 0 \in M
    <2> SUFFICES ASSUME NEW b \in Seq(Seq(S)), Len(b) = 0
                 PROVE  FlattenSeq(Each(g, FlattenSeq(b))) = FlattenSeq(P(b))
        BY Zenon
    <2>1. b = <<>> /\ FlattenSeq(b) = <<>>
        BY FlattenEmpty, EmptySeq
    <2>2. Each(g, <<>>) = <<>> /\ P(b) = <<>>
        BY <2>1 DEF Each
    <2> QED BY <2>1, <2>2
<1>3. ASSUME NEW n \in M PROVE n + 1 \in M
    <2>1. SUFFICES ASSUME NEW b \in Seq(Seq(S)), Len(b) = n + 1
                   PROVE  FlattenSeq(Each(g, FlattenSeq(b))) = FlattenSeq(P(b))
        <3>1. n + 1 \in Nat
            OBVIOUS
        <3> QED BY <3>1, Zenon
    <2> DEFINE d == SubSeq(b, 1, n)
               x == b[n + 1]
    <2>2. d \in Seq(Seq(S)) /\ Len(d) = n /\ x \in Seq(S) /\ b = Append(d, x)
        BY <2>1
    <2>3. FlattenSeq(Each(g, FlattenSeq(d))) = FlattenSeq(P(d))
        BY <2>2
    <2>4. \A i \in 1..n : b[i] = d[i]
        BY <2>1
    <2>5. P(d) \in Seq(Seq(T)) /\ Len(P(d)) = n
        BY <1>1, <2>2
    <2>6. P(b) = Append(P(d), FlattenSeq(Each(g, x)))
        BY <2>1, <2>2, <2>4, <2>5
    <2> HIDE DEF P, d, x, M
    <2>7. FlattenSeq(P(b)) = FlattenSeq(P(d)) \o FlattenSeq(Each(g, x))
        BY <1>1, <2>2, <2>5, <2>6, FlattenAppend
    <2>8. FlattenSeq(b) = FlattenSeq(d) \o x /\ FlattenSeq(d) \in Seq(S)
        BY <2>2, FlattenAppend, FlattenType
    <2>9. Each(g, FlattenSeq(b)) = Each(g, FlattenSeq(d)) \o Each(g, x)
        <3>1. ASSUME NEW u \in Seq(S), NEW v \in Seq(S)
              PROVE  Each(g, u \o v) = Each(g, u) \o Each(g, v)
            BY EachConcat
        <3> QED BY <2>2, <2>8, <3>1
    <2>10. FlattenSeq(Each(g, FlattenSeq(b)))
             = FlattenSeq(Each(g, FlattenSeq(d))) \o FlattenSeq(Each(g, x))
        BY <1>1, <2>2, <2>8, <2>9, FlattenConcat
    <2> QED BY <2>3, <2>7, <2>10
<1>4. M = Nat
    <2> HIDE DEF M
    <2>1. M \subseteq Nat
        BY DEF M
    <2> QED BY <2>1, <1>2, <1>3, AllNumbers
<1>5. Len(a) \in Nat /\ Len(a) \in M
    <2> HIDE DEF M
    <2> QED BY <1>4, LenProperties
<1> QED BY <1>5, Zenon

-----------------------------------------------------------------------------
(* Sequences without repetition                                            *)

Distinct(s) == \A i, j \in 1..Len(s) : s[i] = s[j] => i = j

\* Two that share nothing make one.
LEMMA DistinctConcat ==
    ASSUME NEW T, NEW s \in Seq(T), NEW t \in Seq(T), Distinct(s), Distinct(t),
           ToSet(s) \cap ToSet(t) = {}
    PROVE  Distinct(s \o t)
<1>1. Len(s) \in Nat /\ Len(t) \in Nat /\ Len(s \o t) = Len(s) + Len(t)
    OBVIOUS
<1>2. \A i \in 1..Len(s \o t) :
        (s \o t)[i] = IF i <= Len(s) THEN s[i] ELSE t[i - Len(s)]
    OBVIOUS
<1>3. \A i \in 1..Len(s), j \in 1..Len(t) : s[i] # t[j]
    BY DEF ToSet
<1> HIDE DEF Distinct
<1>4. SUFFICES ASSUME NEW i \in 1..Len(s \o t), NEW j \in 1..Len(s \o t), (s \o t)[i] = (s \o t)[j]
               PROVE  i = j
    BY DEF Distinct
<1>5. CASE i <= Len(s) /\ j <= Len(s)
    <2>1. i \in 1..Len(s) /\ j \in 1..Len(s) /\ s[i] = s[j]
        BY <1>1, <1>2, <1>4, <1>5
    <2> QED BY <2>1 DEF Distinct
<1>6. CASE i > Len(s) /\ j > Len(s)
    <2>1. i - Len(s) \in 1..Len(t) /\ j - Len(s) \in 1..Len(t) /\ t[i - Len(s)] = t[j - Len(s)]
        BY <1>1, <1>2, <1>4, <1>6
    <2>2. i - Len(s) = j - Len(s)
        BY <2>1 DEF Distinct
    <2> QED BY <1>1, <2>2
<1>7. CASE i <= Len(s) /\ j > Len(s)
    <2>1. i \in 1..Len(s) /\ j - Len(s) \in 1..Len(t) /\ s[i] = t[j - Len(s)]
        BY <1>1, <1>2, <1>4, <1>7
    <2> QED BY <1>3, <2>1
<1>8. CASE i > Len(s) /\ j <= Len(s)
    <2>1. j \in 1..Len(s) /\ i - Len(s) \in 1..Len(t) /\ s[j] = t[i - Len(s)]
        BY <1>1, <1>2, <1>4, <1>8
    <2> QED BY <1>3, <2>1
<1> QED BY <1>1, <1>5, <1>6, <1>7, <1>8

\* The elements of a concatenation.
LEMMA ToSetConcat ==
    ASSUME NEW T, NEW s \in Seq(T), NEW t \in Seq(T)
    PROVE  ToSet(s \o t) = ToSet(s) \cup ToSet(t)
<1>1. Len(s) \in Nat /\ Len(t) \in Nat /\ s \o t \in Seq(T) /\ Len(s \o t) = Len(s) + Len(t)
    OBVIOUS
<1>2. \A i \in 1..Len(s \o t) :
        (s \o t)[i] = IF i <= Len(s) THEN s[i] ELSE t[i - Len(s)]
    OBVIOUS
<1>3. \A u \in Seq(T) : DOMAIN u = 1..Len(u)
    OBVIOUS
<1>4. ASSUME NEW x \in ToSet(s \o t) PROVE x \in ToSet(s) \cup ToSet(t)
    <2>1. PICK i \in 1..Len(s \o t) : x = (s \o t)[i]
        BY <1>1, <1>3 DEF ToSet
    <2>2. CASE i <= Len(s)
        BY <1>1, <1>2, <1>3, <2>1, <2>2 DEF ToSet
    <2>3. CASE i > Len(s)
        <3>1. i - Len(s) \in 1..Len(t) /\ x = t[i - Len(s)]
            BY <1>1, <1>2, <2>1, <2>3
        <3> QED BY <1>3, <3>1 DEF ToSet
    <2> QED BY <1>1, <2>2, <2>3
<1>5. ASSUME NEW x \in ToSet(s) PROVE x \in ToSet(s \o t)
    <2>1. PICK i \in 1..Len(s) : x = s[i]
        BY <1>3 DEF ToSet
    <2>2. i \in 1..Len(s \o t) /\ x = (s \o t)[i]
        BY <1>1, <1>2, <2>1
    <2> QED BY <1>1, <1>3, <2>2 DEF ToSet
<1>6. ASSUME NEW x \in ToSet(t) PROVE x \in ToSet(s \o t)
    <2>1. PICK i \in 1..Len(t) : x = t[i]
        BY <1>3 DEF ToSet
    <2>2. Len(s) + i \in 1..Len(s \o t) /\ x = (s \o t)[Len(s) + i]
        BY <1>1, <1>2, <2>1
    <2> QED BY <1>1, <1>3, <2>2 DEF ToSet
<1> QED BY <1>4, <1>5, <1>6

\* Parts without repetition that share nothing make a whole without repetition.
LEMMA FlattenDistinct ==
    ASSUME NEW T, NEW a \in Seq(Seq(T)), \A i \in 1..Len(a) : Distinct(a[i]),
           \A i, j \in 1..Len(a) : i # j => ToSet(a[i]) \cap ToSet(a[j]) = {}
    PROVE  /\ Distinct(FlattenSeq(a))
           /\ ToSet(FlattenSeq(a)) = UNION {ToSet(a[i]) : i \in 1..Len(a)}
<1> DEFINE f(n) == FlattenSeq(SubSeq(a, 1, n))
           U(n) == UNION {ToSet(a[i]) : i \in 1..n}
           M == {n \in Nat : n <= Len(a) => Distinct(f(n)) /\ ToSet(f(n)) = U(n)}
<1>0. Len(a) \in Nat
    OBVIOUS
<1>1. 0 \in M
    <2>1. SubSeq(a, 1, 0) = <<>>
        OBVIOUS
    <2>2. f(0) = <<>>
        BY <2>1, FlattenEmpty
    <2>3. Distinct(<<>>) /\ ToSet(<<>>) = {}
        BY DEF Distinct, ToSet
    <2>4. U(0) = {}
        OBVIOUS
    <2> QED BY <2>2, <2>3, <2>4
<1>2. ASSUME NEW n \in M PROVE n + 1 \in M
    <2>1. SUFFICES ASSUME n + 1 <= Len(a)
                   PROVE  Distinct(f(n + 1)) /\ ToSet(f(n + 1)) = U(n + 1)
        <3>1. n + 1 \in Nat
            OBVIOUS
        <3> QED BY <3>1, Zenon
    <2>2. n \in Nat /\ n <= Len(a) /\ Distinct(f(n)) /\ ToSet(f(n)) = U(n)
        BY <1>0, <2>1
    <2> DEFINE x == a[n + 1]
    <2>3. /\ SubSeq(a, 1, n) \in Seq(Seq(T)) /\ x \in Seq(T)
          /\ SubSeq(a, 1, n + 1) = Append(SubSeq(a, 1, n), x)
        <3> DEFINE z == Append(SubSeq(a, 1, n), x)
                   w == SubSeq(a, 1, n + 1)
        <3>1. SubSeq(a, 1, n) \in Seq(Seq(T)) /\ x \in Seq(T) /\ Len(SubSeq(a, 1, n)) = n
            BY <1>0, <2>1, <2>2
        <3>2. w \in Seq(Seq(T)) /\ Len(w) = n + 1 /\ \A i \in 1..(n + 1) : w[i] = a[i]
            BY <1>0, <2>1, <2>2
        <3>3. z \in Seq(Seq(T)) /\ Len(z) = n + 1
            BY <3>1, <2>2
        <3>4. \A i \in 1..(n + 1) : z[i] = a[i]
            BY <1>0, <2>1, <2>2
        <3> HIDE DEF z, w
        <3>5. w = z
            BY <2>2, <3>2, <3>3, <3>4, SeqEqual
        <3> QED BY <3>1, <3>5 DEF z, w
    <2>4. f(n) \in Seq(T) /\ f(n + 1) = f(n) \o x
        BY <2>3, FlattenType, FlattenAppend
    <2>5. \A i \in 1..n : i \in 1..Len(a) /\ n + 1 \in 1..Len(a) /\ i # n + 1
        BY <1>0, <2>1, <2>2
    <2>6. \A i \in 1..n : ToSet(a[i]) \cap ToSet(x) = {}
        BY <2>5
    <2>7. U(n) \cap ToSet(x) = {} /\ Distinct(x)
        BY <2>1, <2>2, <2>6, <1>0
    <2>8. 1..(n + 1) = (1..n) \cup {n + 1}
        BY <2>2
    <2>9. U(n + 1) = U(n) \cup ToSet(x)
        BY <2>8
    <2> DEFINE y == f(n)
    <2>10. y \in Seq(T) /\ Distinct(y) /\ ToSet(y) \cap ToSet(x) = {} /\ x \in Seq(T) /\ Distinct(x)
        BY <2>2, <2>3, <2>4, <2>7
    <2> HIDE DEF f, U, x, y, M
    <2>11. Distinct(y \o x) /\ ToSet(y \o x) = ToSet(y) \cup ToSet(x)
        <3>1. Distinct(y \o x)
            BY ONLY <2>10, DistinctConcat
        <3>2. ToSet(y \o x) = ToSet(y) \cup ToSet(x)
            BY ONLY <2>10, ToSetConcat
        <3> QED BY <3>1, <3>2
    <2> QED BY <2>2, <2>4, <2>9, <2>11 DEF y
<1>3. M = Nat
    <2> HIDE DEF M
    <2>1. M \subseteq Nat
        BY DEF M
    <2> QED BY <2>1, <1>1, <1>2, AllNumbers
<1>4. Len(a) \in M
    <2> HIDE DEF M
    <2> QED BY <1>0, <1>3
<1>5. SubSeq(a, 1, Len(a)) = a
    <2> DEFINE w == SubSeq(a, 1, Len(a))
    <2>1. w \in Seq(Seq(T)) /\ Len(w) = Len(a) /\ \A i \in 1..Len(a) : w[i] = a[i]
        BY <1>0
    <2> HIDE DEF w
    <2>2. w = a
        BY <2>1, SeqEqual
    <2> QED BY <2>2 DEF w
<1>6. Distinct(f(Len(a))) /\ ToSet(f(Len(a))) = U(Len(a))
    BY <1>0, <1>4
<1>7. f(Len(a)) = FlattenSeq(a)
    BY <1>5
<1> HIDE DEF f
<1> QED BY <1>6, <1>7

\* A set in some order: each of its elements once.
LEMMA SetToSeqIs ==
    ASSUME NEW S, IsFiniteSet(S)
    PROVE  /\ SetToSeq(S) \in Seq(S)
           /\ Distinct(SetToSeq(S))
           /\ ToSet(SetToSeq(S)) = S
           /\ Len(SetToSeq(S)) = Cardinality(S)
<1> DEFINE N == 1..Cardinality(S)
           q == SetToSeq(S)
<1>1. Cardinality(S) \in Nat /\ ExistsBijection(N, S)
    BY FS_CardinalityType
<1>2. PICK b : b \in Bijection(N, S)
    BY <1>1 DEF ExistsBijection
<1>3. b \in [N -> S] /\ IsInjective(b)
    BY <1>2 DEF Bijection, Injection
<1>4. q \in [N -> S] /\ IsInjective(q)
    BY <1>3 DEF SetToSeq
<1> HIDE DEF q
<1>5. IsFiniteSet(N) /\ Cardinality(N) = Cardinality(S)
    BY <1>1, FS_Interval
<1>6. q \in Injection(N, S)
    BY <1>4 DEF Injection
<1>7. q \in Surjection(N, S)
    <2> HIDE DEF N
    <2> QED BY <1>5, <1>6, FS_Injection
<1>8. ToSet(q) = S
    BY <1>4, <1>7 DEF Surjection, ToSet
<1>9. q \in Seq(S) /\ Len(q) = Cardinality(S)
    BY <1>1, <1>4
<1>10. Distinct(q)
    BY <1>4, <1>9 DEF Distinct, IsInjective
<1> QED BY <1>8, <1>9, <1>10 DEF q

\* A sequence without repetition is as long as the set of its elements.
LEMMA DistinctLen ==
    ASSUME NEW T, NEW s \in Seq(T), Distinct(s)
    PROVE  IsFiniteSet(ToSet(s)) /\ Cardinality(ToSet(s)) = Len(s)
<1> DEFINE N == 1..Len(s)
<1>1. Len(s) \in Nat /\ DOMAIN s = N
    OBVIOUS
<1>2. IsFiniteSet(N) /\ Cardinality(N) = Len(s)
    BY <1>1, FS_Interval
<1>3. s \in [N -> ToSet(s)]
    BY <1>1 DEF ToSet
<1>4. s \in Injection(N, ToSet(s)) /\ s \in Surjection(N, ToSet(s))
    BY <1>1, <1>3 DEF Distinct, Injection, IsInjective, Surjection, ToSet
<1>5. ExistsBijection(N, ToSet(s))
    BY <1>4 DEF ExistsBijection, Bijection
<1> HIDE DEF N
<1> QED BY <1>2, <1>5, FS_Bijection
=============================================================================
