------------------------- MODULE RecordingFile_proofs -------------------------
(***************************************************************************)
(* What is read from a file, whole or cut, for takes of any length.        *)
(*                                                                         *)
(* A file that exists is a beginning of what finish writes.  In it the     *)
(* blobs lie four cells apart, so that a pass of a reader's loop is at an  *)
(* offset that is known, and the loop ends where the file does.            *)
(***************************************************************************)
EXTENDS RecordingFile, SequenceTheorems, WellFoundedInduction, TLAPS

-----------------------------------------------------------------------------
(* Induction *)

\* A set of natural numbers that is not empty has a least element.
LEMMA Least ==
    ASSUME NEW T, T \subseteq Nat, T # {}
    PROVE  \E x \in T : \A y \in T : x <= y
<1> DEFINE R == {ss \in Nat \X Nat : ss[1] < ss[2]}
<1>1. IsWellFoundedOn(R, Nat)
    BY NatLessThanWellFounded, Zenon DEF OpToRel
<1>2. PICK x \in T : \A y \in T : ~ (<<y, x>> \in R)
    <2> HIDE DEF R
    <2> QED
        BY <1>1, WFMin
<1>3. ASSUME NEW y \in T PROVE x <= y
    <2>1. <<y, x>> \in Nat \X Nat /\ <<y, x>>[1] = y /\ <<y, x>>[2] = x
        OBVIOUS
    <2>2. ~ (y < x)
        BY <1>2, <2>1
    <2> QED
        BY <2>2
<1> QED
    BY <1>3

\* A set that has 0 and, with a number, the next one, up to a bound, has all of them.
LEMMA UpTo ==
    ASSUME NEW n \in Nat, NEW T, 0 \in T, \A k \in 0..(n - 1) : k \in T => k + 1 \in T
    PROVE  0..n \subseteq T
<1> DEFINE U == {k \in 0..n : k \notin T}
<1> SUFFICES ASSUME U # {} PROVE FALSE
    OBVIOUS
<1>1. PICK x \in U : \A y \in U : x <= y
    <2>1. U \subseteq Nat
        OBVIOUS
    <2> HIDE DEF U
    <2> QED
        BY <2>1, Least
<1>2. x # 0 /\ x - 1 \in 0..(n - 1)
    OBVIOUS
<1>3. x - 1 \in T
    BY <1>1, <1>2
<1> QED
    BY <1>2, <1>3

\* The loop's offsets obey the equation that defines them.
LEMMA OffsetDef ==
    ASSUME NEW file, NEW at, Len(file) \in Nat
    PROVE  /\ Offset(file, at, 0) = at
           /\ \A k \in 1..Len(file) : Offset(file, at, k) = BlobEnd(file, Offset(file, at, k - 1))
<1> DEFINE Obeys(f, m) == f = [n \in 0..m |-> IF n = 0 THEN at ELSE BlobEnd(file, f[n - 1])]
           T == {m \in 0..Len(file) : \E f : Obeys(f, m)}
<1>1. 0 \in T
    <2>1. Obeys([n \in 0..0 |-> at], 0)
        OBVIOUS
    <2> HIDE DEF Obeys
    <2> QED
        BY <2>1
<1>2. ASSUME NEW k \in 0..(Len(file) - 1), k \in T PROVE k + 1 \in T
    <2>1. PICK f : Obeys(f, k)
        BY <1>2
    <2> DEFINE g == [n \in 0..(k + 1) |-> IF n = k + 1 THEN BlobEnd(file, f[k]) ELSE f[n]]
               h == [n \in 0..(k + 1) |-> IF n = 0 THEN at ELSE BlobEnd(file, g[n - 1])]
    <2>2. ASSUME NEW n \in 0..(k + 1) PROVE g[n] = h[n]
        <3>1. CASE n = k + 1
            BY <3>1
        <3>2. CASE n # k + 1 /\ n # 0
            <4>1. n \in 0..k /\ n - 1 \in 0..k /\ n - 1 # k + 1
                BY <3>2
            <4>2. f[n] = BlobEnd(file, f[n - 1])
                BY <2>1, <3>2, <4>1
            <4> QED
                BY <3>2, <4>1, <4>2
        <3>3. CASE n = 0
            BY <2>1, <3>3
        <3> QED
            BY <3>1, <3>2, <3>3
    <2>3. Obeys(g, k + 1)
        BY <2>2
    <2> HIDE DEF Obeys, g
    <2> QED
        BY <2>3
<1>3. Len(file) \in T
    <2> HIDE DEF T
    <2>1. 0..Len(file) \subseteq T
        BY <1>1, <1>2, UpTo
    <2> QED
        BY <2>1
<1> DEFINE offset == CHOOSE f : Obeys(f, Len(file))
<1>4. Obeys(offset, Len(file))
    <2>1. \E f : Obeys(f, Len(file))
        BY <1>3
    <2> HIDE DEF Obeys
    <2> QED
        BY <2>1, Zenon
<1>5. \A k : Offset(file, at, k) = offset[k]
    BY Zenon DEF Offset
<1> HIDE DEF offset
<1>6. \A n \in 0..Len(file) : offset[n] = IF n = 0 THEN at ELSE BlobEnd(file, offset[n - 1])
    BY <1>4
<1> QED
    BY <1>5, <1>6

-----------------------------------------------------------------------------
(* Sequences laid end to end *)

\* The beginning of a sequence of sequences that FlattenSeq has come to after n of them.
Laid(s, n) == FlattenSeq(SubSeq(s, 1, n))

\* Concatenation, as an operator that a proof need not look into.
Then(u, v) == u \o v

\* FlattenSeq obeys the equation that defines it.
LEMMA FlattenDef ==
    ASSUME NEW s, Len(s) \in Nat \ {0}
    PROVE  \E f : /\ f[1] = s[1]
                  /\ \A i \in 2..Len(s) : f[i] = Then(f[i - 1], s[i])
                  /\ FlattenSeq(s) = f[Len(s)]
<1> DEFINE Obeys(f, m) == f = [i \in 1..m |-> IF i = 1 THEN s[i] ELSE Then(f[i - 1], s[i])]
           T == {m \in 0..Len(s) : \E f : Obeys(f, m)}
<1>1. 0 \in T
    <2>1. Obeys([i \in 1..0 |-> s[i]], 0)
        OBVIOUS
    <2> HIDE DEF Obeys
    <2> QED
        BY <2>1
<1>2. ASSUME NEW k \in 0..(Len(s) - 1), k \in T PROVE k + 1 \in T
    <2>1. PICK f : Obeys(f, k)
        BY <1>2
    <2> DEFINE g == [i \in 1..(k + 1) |-> IF i = 1 THEN s[i] ELSE IF i = k + 1 THEN Then(f[k], s[i]) ELSE f[i]]
               h == [i \in 1..(k + 1) |-> IF i = 1 THEN s[i] ELSE Then(g[i - 1], s[i])]
    <2>2. ASSUME NEW i \in 1..(k + 1) PROVE g[i] = h[i]
        <3>0. \A j \in 1..k : f[j] = IF j = 1 THEN s[j] ELSE Then(f[j - 1], s[j])
            BY <2>1
        <3>1. CASE i = 1
            BY <3>1
        <3>2. CASE i # 1
            <4>1. i - 1 \in 1..k /\ i - 1 \in 1..(k + 1) /\ i - 1 # k + 1
                BY <3>2
            <4>2. g[i - 1] = f[i - 1]
                BY <3>0, <4>1
            <4>3. g[i] = Then(f[i - 1], s[i])
                <5>1. CASE i = k + 1
                    BY <3>2, <5>1
                <5>2. CASE i # k + 1
                    <6>1. i \in 1..k /\ g[i] = f[i]
                        BY <3>2, <5>2
                    <6> QED
                        BY <3>0, <3>2, <6>1
                <5> QED
                    BY <5>1, <5>2
            <4> QED
                BY <3>2, <4>2, <4>3
        <3> QED
            BY <3>1, <3>2
    <2>3. Obeys(g, k + 1)
        BY <2>2
    <2> HIDE DEF Obeys, g
    <2> QED
        BY <2>3
<1>3. Len(s) \in T
    <2> HIDE DEF T
    <2>1. 0..Len(s) \subseteq T
        BY <1>1, <1>2, UpTo
    <2> QED
        BY <2>1
<1> DEFINE flatten == CHOOSE f : Obeys(f, Len(s))
<1>4. Obeys(flatten, Len(s))
    <2>1. \E f : Obeys(f, Len(s))
        BY <1>3
    <2> HIDE DEF Obeys
    <2> QED
        BY <2>1, Zenon
<1>5. FlattenSeq(s) = flatten[Len(s)]
    BY Zenon DEF FlattenSeq, Then
<1> HIDE DEF flatten
<1>6. \A i \in 1..Len(s) : flatten[i] = IF i = 1 THEN s[i] ELSE Then(flatten[i - 1], s[i])
    BY <1>4
<1>7. flatten[1] = s[1] /\ \A i \in 2..Len(s) : flatten[i] = Then(flatten[i - 1], s[i])
    BY <1>6
<1> QED
    BY <1>5, <1>7

\* It lays one sequence after the other.
LEMMA LaidStep ==
    ASSUME NEW S, NEW Q \in SUBSET Seq(S), NEW s \in Seq(Q), NEW n \in 1..Len(s)
    PROVE  Laid(s, n) = Then(Laid(s, n - 1), s[n])
<1> DEFINE b == SubSeq(s, 1, n)
           a == SubSeq(s, 1, n - 1)
<1>l. Len(s) \in Nat /\ n \in Nat /\ n >= 1 /\ n <= Len(s)
    BY LenProperties
<1>0. /\ b \in Seq(Q) /\ Len(b) = n /\ \A i \in 1..n : b[i] = s[i]
      /\ a \in Seq(Q) /\ Len(a) = n - 1 /\ \A i \in 1..(n - 1) : a[i] = s[i]
    <2>1. \A i \in 1..n : s[i] \in Q
        BY <1>l, ElementOfSeq
    <2>2. b \in Seq(Q) /\ Len(b) = n /\ \A i \in 1..n : b[i] = s[i]
        BY <1>l, <2>1, SubSeqProperties
    <2>3. a \in Seq(Q) /\ Len(a) = n - 1 /\ \A i \in 1..(n - 1) : a[i] = s[i]
        BY <1>l, <2>1, SubSeqProperties
    <2> QED
        BY <2>2, <2>3
<1>1. s[n] \in Seq(S)
    BY ElementOfSeq
<1> HIDE DEF a, b
<1>2. PICK f : /\ f[1] = b[1] /\ \A i \in 2..Len(b) : f[i] = Then(f[i - 1], b[i])
               /\ FlattenSeq(b) = f[Len(b)]
    <2>1. Len(b) \in Nat \ {0}
        BY <1>l, <1>0
    <2> QED
        BY <2>1, FlattenDef
<1>3. CASE n = 1
    <2>1. a = <<>> /\ FlattenSeq(a) = <<>>
        BY <1>0, <1>3, EmptySeq DEF FlattenSeq
    <2>2. FlattenSeq(b) = s[n]
        BY <1>0, <1>2, <1>3
    <2> QED
        BY <1>1, <1>3, <2>1, <2>2, ConcatEmptySeq DEF Laid, Then, a, b
<1>4. CASE n # 1
    <2>1. PICK g : /\ g[1] = a[1] /\ \A i \in 2..Len(a) : g[i] = Then(g[i - 1], a[i])
                   /\ FlattenSeq(a) = g[Len(a)]
        <3>1. Len(a) \in Nat \ {0}
            BY <1>l, <1>0, <1>4
        <3> QED
            BY <3>1, FlattenDef
    <2> DEFINE T == {k \in 0..(n - 1) : k = 0 \/ f[k] = g[k]}
    <2>2. ASSUME NEW k \in 0..((n - 1) - 1), k \in T PROVE k + 1 \in T
        <3>0. k \in Nat /\ k + 1 \in 0..(n - 1) /\ (k + 1) - 1 = k
            BY <1>l
        <3>1. CASE k = 0
            <4>1. f[1] = g[1]
                <5>1. 1 \in 1..n /\ 1 \in 1..(n - 1)
                    BY <1>l, <1>4
                <5>2. b[1] = s[1] /\ a[1] = s[1]
                    BY <1>0, <5>1
                <5> QED
                    BY <1>2, <2>1, <5>2
            <4> QED
                BY <3>0, <3>1, <4>1
        <3>2. CASE k # 0
            <4>1. k + 1 \in 2..Len(a) /\ k + 1 \in 2..Len(b) /\ (k + 1) - 1 = k /\ a[k + 1] = b[k + 1]
                <5>1. k + 1 \in 2..Len(a) /\ k + 1 \in 2..Len(b)
                    BY <1>l, <1>0, <3>0, <3>2
                <5>2. k + 1 \in 1..(n - 1) /\ k + 1 \in 1..n
                    BY <1>l, <3>0, <3>2
                <5> QED
                    BY <1>0, <3>0, <5>1, <5>2
            <4> QED
                BY <1>2, <2>1, <2>2, <3>0, <3>2, <4>1
        <3> QED
            BY <3>1, <3>2
    <2>3. n - 1 \in T
        <3>1. 0 \in T /\ n - 1 \in Nat
            BY <1>l
        <3> HIDE DEF T
        <3>2. 0..(n - 1) \subseteq T
            BY <2>2, <3>1, UpTo
        <3> QED
            BY <3>1, <3>2
    <2>4. n \in 2..Len(b) /\ Len(b) = n /\ Len(a) = n - 1 /\ b[n] = s[n] /\ f[n - 1] = g[n - 1]
        BY <1>l, <1>0, <1>4, <2>3
    <2>5. FlattenSeq(b) = Then(FlattenSeq(a), s[n])
        BY <1>2, <2>1, <2>4
    <2> QED
        BY <2>5, Zenon DEF Laid, a, b
<1> QED
    BY <1>3, <1>4

\* It begins with nothing and ends with all.
LEMMA LaidEnds ==
    ASSUME NEW S, NEW Q \in SUBSET Seq(S), NEW s \in Seq(Q)
    PROVE  /\ Laid(s, 0) = <<>>
           /\ Laid(s, Len(s)) = FlattenSeq(s)
           /\ \A n \in 0..Len(s) : Laid(s, n) \in Seq(S)
<1>1. Laid(s, 0) = <<>>
    BY EmptySeq, SubSeqEmpty DEF Laid, FlattenSeq
<1>2. Laid(s, Len(s)) = FlattenSeq(s)
    BY SubSeqFull DEF Laid
<1>l. Len(s) \in Nat
    BY LenProperties
<1> DEFINE T == {n \in 0..Len(s) : Laid(s, n) \in Seq(S)}
<1>3. 0 \in T
    <2>1. <<>> \in Seq(S)
        BY EmptySeq
    <2>2. Laid(s, 0) \in Seq(S)
        BY <1>1, <2>1, Zenon
    <2>3. 0 \in 0..Len(s)
        BY <1>l
    <2> QED
        BY <2>2, <2>3, Zenon
<1>4. ASSUME NEW k \in 0..(Len(s) - 1), k \in T PROVE k + 1 \in T
    <2>1. k + 1 \in 1..Len(s) /\ (k + 1) - 1 = k
        BY <1>l
    <2>2. Laid(s, k + 1) = Then(Laid(s, k), s[k + 1])
        BY <2>1, LaidStep
    <2>3. s[k + 1] \in Seq(S)
        BY <2>1, ElementOfSeq
    <2> QED
        <3>1. Laid(s, k) \in Seq(S)
            BY <1>4
        <3>2. Then(Laid(s, k), s[k + 1]) \in Seq(S)
            BY <2>3, <3>1, ConcatProperties DEF Then
        <3>3. k + 1 \in 0..Len(s)
            BY <2>1
        <3> QED
            BY <2>2, <3>2, <3>3
<1>5. 0..Len(s) \subseteq T
    <2> HIDE DEF T
    <2> QED
        BY <1>l, <1>3, <1>4, UpTo
<1> QED
    BY <1>1, <1>2, <1>5

\* Where the elements of a concatenation are.
LEMMA ThenAt ==
    ASSUME NEW S, NEW u \in Seq(S), NEW v \in Seq(S)
    PROVE  /\ Then(u, v) \in Seq(S)
           /\ Len(Then(u, v)) = Len(u) + Len(v)
           /\ Len(u) \in Nat /\ Len(v) \in Nat
           /\ \A i \in 1..Len(u) : Then(u, v)[i] = u[i]
<1>1. Len(u) \in Nat /\ Len(v) \in Nat
    BY LenProperties
<1>2. /\ u \o v \in Seq(S) /\ Len(u \o v) = Len(u) + Len(v)
      /\ \A i \in 1..(Len(u) + Len(v)) : (u \o v)[i] = IF i <= Len(u) THEN u[i] ELSE v[i - Len(u)]
    BY ConcatProperties
<1>3. ASSUME NEW i \in 1..Len(u) PROVE (u \o v)[i] = u[i]
    <2>1. i \in 1..(Len(u) + Len(v)) /\ i <= Len(u)
        BY <1>1
    <2> QED
        BY <1>2, <2>1
<1> QED
    BY <1>1, <1>2, <1>3 DEF Then

\* The second part of a concatenation.
LEMMA ThenAfter ==
    ASSUME NEW S, NEW u \in Seq(S), NEW v \in Seq(S), NEW w, w = Then(u, v), NEW i \in 1..Len(v)
    PROVE  w[Len(u) + i] = v[i]
<1>1. Len(u) \in Nat /\ Len(v) \in Nat
    BY LenProperties
<1>2. \A k \in 1..(Len(u) + Len(v)) : w[k] = IF k <= Len(u) THEN u[k] ELSE v[k - Len(u)]
    BY ConcatProperties DEF Then
<1>3. Len(u) + i \in 1..(Len(u) + Len(v)) /\ ~ (Len(u) + i <= Len(u)) /\ (Len(u) + i) - Len(u) = i
    BY <1>1
<1> QED
    BY <1>2, <1>3

\* The two parts of w, named so that a proof need not look into them.
Before(u, w) == \A i \in 1..Len(u) : w[i] = u[i]
After(u, v, w) == \A i \in 1..Len(v) : w[Len(u) + i] = v[i]

\* A concatenation has its first part before and its second part behind the seam.
LEMMA Joined ==
    ASSUME NEW S, NEW u \in Seq(S), NEW v \in Seq(S), NEW w, w = Then(u, v)
    PROVE  /\ w \in Seq(S) /\ Len(w) = Len(u) + Len(v)
           /\ Before(u, w) /\ After(u, v, w)
<1>1. w \in Seq(S) /\ Len(w) = Len(u) + Len(v)
    BY ThenAt
<1>2. Before(u, w)
    BY ThenAt DEF Before
<1>3. After(u, v, w)
    BY ThenAfter DEF After
<1> QED
    BY <1>1, <1>2, <1>3

\* v begins with u.
Begins(u, v) == Len(u) <= Len(v) /\ \A i \in 1..Len(u) : u[i] = v[i]

\* That is what IsPrefix says.
LEMMA BeginsIsPrefix ==
    ASSUME NEW S, NEW u \in Seq(S), NEW v \in Seq(S), Begins(u, v)
    PROVE  IsPrefix(u, v)
<1>1. Len(u) \in Nat /\ Len(v) \in Nat /\ Len(u) <= Len(v) /\ \A i \in 1..Len(u) : u[i] = v[i]
    BY LenProperties DEF Begins
<1>2. \A i \in 1..Len(u) : u[i] \in S /\ v[i] \in S
    <2>1. \A i \in 1..Len(u) : u[i] \in S
        BY ElementOfSeq
    <2> QED
        BY <1>1, <2>1
<1> DEFINE a == SubSeq(u, 1, Len(u))
           b == SubSeq(v, 1, Len(u))
<1>3. a \in Seq(S) /\ Len(a) = Len(u) /\ \A i \in 1..Len(u) : a[i] = u[i]
    BY <1>1, <1>2, SubSeqProperties
<1>4. b \in Seq(S) /\ Len(b) = Len(u) /\ \A i \in 1..Len(u) : b[i] = v[i]
    BY <1>1, <1>2, SubSeqProperties
<1>5. a = b
    <2>1. Len(a) = Len(b) /\ \A i \in 1..Len(a) : a[i] = b[i]
        BY <1>1, <1>3, <1>4
    <2> HIDE DEF a, b
    <2> QED
        BY <1>3, <1>4, <2>1, SeqEqual
<1> QED
    BY <1>1, <1>5 DEF IsPrefix

\* What is laid of the first j sequences is the beginning of what is laid of all.
LEMMA LaidPrefix ==
    ASSUME NEW S, NEW Q \in SUBSET Seq(S), NEW s \in Seq(Q), NEW j \in 0..Len(s)
    PROVE  IsPrefix(Laid(s, j), FlattenSeq(s))
<1>l. Len(s) \in Nat /\ j \in Nat /\ j <= Len(s) /\ Len(s) - j \in Nat
    BY LenProperties
<1>1. \A n \in 0..Len(s) : Laid(s, n) \in Seq(S)
    BY LaidEnds
<1> DEFINE T == {d \in 0..(Len(s) - j) : Begins(Laid(s, j), Laid(s, j + d))}
<1>2. 0 \in T
    <2>1. Begins(Laid(s, j), Laid(s, j)) /\ j + 0 = j
        <3>1. Len(Laid(s, j)) \in Nat
            BY <1>1, LenProperties
        <3> QED
            BY <1>l, <3>1 DEF Begins
    <2> QED
        BY <1>l, <2>1
<1>3. ASSUME NEW d \in 0..((Len(s) - j) - 1), d \in T PROVE d + 1 \in T
    <2>1. /\ j + d + 1 \in 1..Len(s) /\ j + d \in 0..Len(s) /\ (j + d + 1) - 1 = j + d
          /\ j + (d + 1) = j + d + 1 /\ d + 1 \in 0..(Len(s) - j)
        BY <1>l
    <2>2. Laid(s, j + d + 1) = Then(Laid(s, j + d), s[j + d + 1])
        BY <2>1, LaidStep
    <2>3. s[j + d + 1] \in Seq(S) /\ Laid(s, j + d) \in Seq(S) /\ Laid(s, j) \in Seq(S)
        BY <1>1, <2>1, ElementOfSeq
    <2>5. Begins(Laid(s, j), Laid(s, j + d))
        BY <1>3
    <2>6. Begins(Laid(s, j), Laid(s, j + d + 1))
        <3> DEFINE a == Laid(s, j)
                   u == Laid(s, j + d)
                   v == s[j + d + 1]
                   w == Laid(s, j + d + 1)
        <3>1. w = Then(u, v) /\ v \in Seq(S) /\ u \in Seq(S) /\ a \in Seq(S) /\ Begins(a, u)
            BY <2>2, <2>3, <2>5
        <3> HIDE DEF a, u, v, w
        <3>2. /\ Len(w) = Len(u) + Len(v) /\ Len(u) \in Nat /\ Len(v) \in Nat
              /\ \A i \in 1..Len(u) : w[i] = u[i]
            BY <3>1, ThenAt
        <3>3. Len(a) \in Nat
            BY <3>1, LenProperties
        <3>4. Begins(a, w)
            BY <3>1, <3>2, <3>3 DEF Begins
        <3> QED
            BY <3>4 DEF a, w
    <2> QED
        BY <2>1, <2>6
<1>4. Begins(Laid(s, j), Laid(s, Len(s)))
    <2>1. 0..(Len(s) - j) \subseteq T
        <3> HIDE DEF T
        <3> QED
            BY <1>l, <1>2, <1>3, UpTo
    <2>2. Len(s) - j \in 0..(Len(s) - j) /\ j + (Len(s) - j) = Len(s)
        BY <1>l
    <2>3. Begins(Laid(s, j), Laid(s, j + (Len(s) - j)))
        BY <2>1, <2>2
    <2> QED
        BY <2>2, <2>3, Zenon
<1>5. Laid(s, Len(s)) = FlattenSeq(s) /\ Laid(s, Len(s)) \in Seq(S) /\ Laid(s, j) \in Seq(S)
    <2>1. Laid(s, Len(s)) = FlattenSeq(s)
        BY LaidEnds
    <2>2. Len(s) \in 0..Len(s) /\ j \in 0..Len(s)
        BY <1>l
    <2> QED
        BY <1>1, <2>1, <2>2, Zenon
<1> QED
    BY <1>4, <1>5, BeginsIsPrefix

\* Sequences of four are laid four apart.
LEMMA LaidByFour ==
    ASSUME NEW S, NEW Q \in SUBSET Seq(S), NEW s \in Seq(Q), \A q \in Q : Len(q) = 4
    PROVE  /\ Len(FlattenSeq(s)) = 4 * Len(s)
           /\ \A k \in 1..Len(s), i \in 1..4 : FlattenSeq(s)[4 * (k - 1) + i] = s[k][i]
<1>l. Len(s) \in Nat
    BY LenProperties
<1>1. \A n \in 0..Len(s) : Laid(s, n) \in Seq(S)
    BY LaidEnds
<1> DEFINE Placed(n) == /\ Len(Laid(s, n)) = 4 * n
                        /\ \A k \in 1..n, i \in 1..4 : Laid(s, n)[4 * (k - 1) + i] = s[k][i]
           T == {n \in 0..Len(s) : Placed(n)}
<1>2. 0 \in T
    <2>1. Len(Laid(s, 0)) = 0
        BY LaidEnds, EmptySeq
    <2> QED
        BY <1>l, <2>1
<1>3. ASSUME NEW n \in 0..(Len(s) - 1), n \in T PROVE n + 1 \in T
    <2>1. n + 1 \in 1..Len(s) /\ (n + 1) - 1 = n /\ n \in 0..Len(s) /\ n + 1 \in 0..Len(s) /\ n \in Nat
        BY <1>l
    <2>2. Laid(s, n + 1) = Then(Laid(s, n), s[n + 1])
        BY <2>1, LaidStep
    <2>3. s[n + 1] \in Q /\ s[n + 1] \in Seq(S) /\ Laid(s, n) \in Seq(S)
        BY <1>1, <2>1, ElementOfSeq
    <2>4. Placed(n) /\ Len(s[n + 1]) = 4
        BY <1>3, <2>3
    <2>5. /\ Len(Laid(s, n + 1)) = Len(Laid(s, n)) + Len(s[n + 1])
          /\ \A i \in 1..Len(Laid(s, n)) : Laid(s, n + 1)[i] = Laid(s, n)[i]
          /\ \A i \in 1..Len(s[n + 1]) : Laid(s, n + 1)[Len(Laid(s, n)) + i] = s[n + 1][i]
        <3> DEFINE u == Laid(s, n)
                   v == s[n + 1]
                   w == Laid(s, n + 1)
        <3>1. w = Then(u, v) /\ v \in Seq(S) /\ u \in Seq(S)
            BY <2>2, <2>3
        <3> HIDE DEF u, v, w
        <3>2. /\ Len(w) = Len(u) + Len(v)
              /\ \A i \in 1..Len(u) : w[i] = u[i]
              /\ \A i \in 1..Len(v) : w[Len(u) + i] = v[i]
            <4>1. Len(w) = Len(u) + Len(v)
                BY <3>1, ThenAt
            <4>2. \A i \in 1..Len(u) : w[i] = u[i]
                BY <3>1, ThenAt
            <4>3. \A i \in 1..Len(v) : w[Len(u) + i] = v[i]
                BY <3>1, ThenAfter
            <4> QED
                BY <4>1, <4>2, <4>3
        <3> QED
            BY <3>2 DEF u, v, w
    <2>6. ASSUME NEW k \in 1..(n + 1), NEW i \in 1..4
          PROVE  Laid(s, n + 1)[4 * (k - 1) + i] = s[k][i]
        <3>1. CASE k = n + 1
            <4>1. 4 * (k - 1) + i = Len(Laid(s, n)) + i
                BY <2>1, <2>4, <3>1
            <4> QED
                BY <2>4, <2>5, <3>1, <4>1
        <3>2. CASE k # n + 1
            <4>1. k \in 1..n /\ 4 * (k - 1) + i \in 1..(4 * n)
                BY <2>1, <3>2
            <4> QED
                BY <2>4, <2>5, <4>1
        <3> QED
            BY <3>1, <3>2
    <2>7. Len(Laid(s, n + 1)) = 4 * (n + 1)
        <3>1. Len(Laid(s, n)) = 4 * n /\ Len(Laid(s, n + 1)) = Len(Laid(s, n)) + 4
            BY <2>4, <2>5
        <3> QED
            BY <2>1, <3>1
    <2> QED
        BY <2>1, <2>6, <2>7
<1>4. Placed(Len(s))
    <2>1. 0..Len(s) \subseteq T
        <3> HIDE DEF T
        <3> QED
            BY <1>l, <1>2, <1>3, UpTo
    <2> QED
        BY <1>l, <2>1
<1> QED
    BY <1>4, LaidEnds

-----------------------------------------------------------------------------
(* What finish writes *)

Manifest == [started: Nat, stopped: Nat, frame_count: Nat]
Take == [path: Path, version: {"V1", "V2"}, manifest: Manifest,
         markers: Seq(Marker), frames: Seq(Frame)]

Content == Manifest \cup Seq(Marker) \cup Frame
Cell == [piece: {"magic"}, version: {"V1", "V2"}]
            \cup [piece: {"length"}, value: {2}] \cup [piece: {"body"}, value: Content]

\* Where the first frame is.
FirstFrame(take) == IF take.version = "V2" THEN 10 ELSE 6

\* A piece is two cells.
LEMMA CellsAt ==
    ASSUME NEW piece \in Cell
    PROVE  Cells(piece) \in Seq(Cell) /\ Len(Cells(piece)) = 2 /\ Cells(piece)[1] = piece
BY DEF Cells

\* A blob is four cells: its length and its body.
LEMMA BlobCells ==
    ASSUME NEW content \in Content
    PROVE  /\ Blob(content) \in Seq(Cell) /\ Len(Blob(content)) = 4
           /\ Blob(content)[1].value = 2 /\ Blob(content)[3].value = content
<1> DEFINE length == [piece |-> "length", value |-> 2]
           body == [piece |-> "body", value |-> content]
           u == Cells(length)
           v == Cells(body)
           w == Blob(content)
<1>1. length \in Cell /\ body \in Cell /\ length.value = 2 /\ body.value = content
    BY DEF Cell
<1> HIDE DEF length, body
<1>2. u \in Seq(Cell) /\ Len(u) = 2 /\ u[1] = length /\ v \in Seq(Cell) /\ Len(v) = 2 /\ v[1] = body
    BY <1>1, CellsAt
<1>3. w = Then(u, v)
    BY DEF Blob, Then, length, body
<1> HIDE DEF u, v, w
<1>4. w \in Seq(Cell) /\ Len(w) = Len(u) + Len(v) /\ Before(u, w) /\ After(u, v, w)
    <2>1. u \in Seq(Cell) /\ v \in Seq(Cell)
        BY <1>2
    <2> QED
        BY <1>3, <2>1, Joined
<1>5. w[1] = length
    BY <1>2, <1>4 DEF Before
<1>6. w[2 + 1] = body
    BY <1>2, <1>4 DEF After
<1>7. Len(w) = 4
    BY <1>2, <1>4
<1> QED
    <2>1. w[1].value = 2 /\ w[3].value = content
        BY <1>1, <1>5, <1>6
    <2> QED
        BY <1>4, <1>7, <2>1 DEF w

\* The magic number, the manifest and, in V2, the markers.
Header(take) == Magic(take.version) \o Blob(take.manifest)
                    \o (IF take.version = "V2" THEN Blob(take.markers) ELSE <<>>)

\* The cells before the first frame: magic, length and manifest, then the markers.
LEMMA HeaderAt ==
    ASSUME NEW take \in Take
    PROVE  /\ Header(take) \in Seq(Cell) /\ Len(Header(take)) = FirstFrame(take)
           /\ Header(take)[1].version = take.version
           /\ Header(take)[3].value = 2 /\ Header(take)[5].value = take.manifest
           /\ take.version = "V2" =>
                 Header(take)[7].value = 2 /\ Header(take)[9].value = take.markers
<1> DEFINE m == [piece |-> "magic", version |-> take.version]
           a == Cells(m)
           b == Blob(take.manifest)
           c == IF take.version = "V2" THEN Blob(take.markers) ELSE <<>>
           d == Then(a, b)
           e == Header(take)
<1>1. m \in Cell /\ m.version = take.version
    BY DEF Cell, Take
<1>2. take.manifest \in Content /\ take.markers \in Content
    BY DEF Content, Take
<1>3. a \in Seq(Cell) /\ Len(a) = 2 /\ a[1] = m
    <2> HIDE DEF m
    <2> QED
        BY <1>1, CellsAt
<1>4. b \in Seq(Cell) /\ Len(b) = 4 /\ b[1].value = 2 /\ b[3].value = take.manifest
    BY <1>2, BlobCells
<1>5. /\ c \in Seq(Cell) /\ Len(c) = (IF take.version = "V2" THEN 4 ELSE 0)
      /\ take.version = "V2" => c[1].value = 2 /\ c[3].value = take.markers
    BY <1>2, BlobCells, EmptySeq
<1>6. e = Then(d, c)
    BY DEF Header, Then, Magic
<1> HIDE DEF m, a, b, c, d, e
<1>7. d \in Seq(Cell) /\ Len(d) = Len(a) + Len(b) /\ Before(a, d) /\ After(a, b, d)
    BY <1>3, <1>4, Joined DEF d
<1>8. Len(d) = 6
    BY <1>3, <1>4, <1>7
<1>9. e \in Seq(Cell) /\ Len(e) = Len(d) + Len(c) /\ Before(d, e) /\ After(d, c, e)
    <2>1. d \in Seq(Cell) /\ c \in Seq(Cell)
        BY <1>5, <1>7
    <2> QED
        BY <1>6, <2>1, Joined
<1>10. d[1] = a[1] /\ d[2 + 1] = b[1] /\ d[2 + 3] = b[3]
    <2>1. d[1] = a[1]
        BY <1>3, <1>7 DEF Before
    <2>2. d[2 + 1] = b[1] /\ d[2 + 3] = b[3]
        BY <1>3, <1>4, <1>7 DEF After
    <2> QED
        BY <2>1, <2>2
<1>11. e[1] = m /\ e[3] = b[1] /\ e[5] = b[3]
    <2>1. e[1] = d[1] /\ e[3] = d[3] /\ e[5] = d[5]
        BY <1>8, <1>9 DEF Before
    <2> QED
        BY <1>3, <1>10, <2>1
<1>12. ASSUME take.version = "V2" PROVE e[7] = c[1] /\ e[9] = c[3]
    <2>1. Len(c) = 4
        BY <1>5, <1>12
    <2>2. e[6 + 1] = c[1] /\ e[6 + 3] = c[3]
        BY <1>8, <1>9, <2>1 DEF After
    <2> QED
        BY <2>2
<1>13. Len(e) = FirstFrame(take)
    BY <1>5, <1>8, <1>9 DEF FirstFrame
<1> QED
    BY <1>1, <1>4, <1>5, <1>9, <1>11, <1>12, <1>13 DEF e

\* The header, and then a blob for each frame.
LEMMA EncodedAt ==
    ASSUME NEW take \in Take
    PROVE  /\ Encoded(take) \in Seq(Cell)
           /\ Len(Encoded(take)) = FirstFrame(take) + 4 * Len(take.frames)
           /\ \A i \in 1..FirstFrame(take) : Encoded(take)[i] = Header(take)[i]
           /\ \A k \in 1..Len(take.frames), i \in 1..4 :
                 Encoded(take)[FirstFrame(take) + (4 * (k - 1) + i)] = Blob(take.frames[k])[i]
<1> DEFINE s == [k \in DOMAIN take.frames |-> Blob(take.frames[k])]
           Q == {q \in Seq(Cell) : Len(q) = 4}
           h == Header(take)
           z == FlattenSeq(s)
           w == Encoded(take)
<1>1. take.frames \in Seq(Frame) /\ Len(take.frames) \in Nat /\ DOMAIN take.frames = 1..Len(take.frames)
    BY LenProperties DEF Take
<1>2. ASSUME NEW k \in 1..Len(take.frames) PROVE Blob(take.frames[k]) \in Q
    <2>1. take.frames[k] \in Content
        BY <1>1, ElementOfSeq DEF Content
    <2> QED
        BY <2>1, BlobCells
<1>3. s \in Seq(Q) /\ Len(s) = Len(take.frames) /\ \A k \in 1..Len(s) : s[k] = Blob(take.frames[k])
    BY <1>1, <1>2, IsASeq
<1>4. h \in Seq(Cell) /\ Len(h) = FirstFrame(take)
    BY HeaderAt
<1>5. w = Then(h, z)
    BY DEF Encoded, Header, Then
<1>6. Q \in SUBSET Seq(Cell) /\ \A q \in Q : Len(q) = 4
    OBVIOUS
<1> HIDE DEF s, h, w, Q
<1>7. /\ Len(z) = 4 * Len(s) 
      /\ \A k \in 1..Len(s), i \in 1..4 : z[4 * (k - 1) + i] = s[k][i]
    BY <1>3, <1>6, LaidByFour
<1>8. z \in Seq(Cell)
    <2>1. Len(s) \in 0..Len(s)
        BY <1>1, <1>3
    <2>2. Laid(s, Len(s)) = FlattenSeq(s) /\ \A n \in 0..Len(s) : Laid(s, n) \in Seq(Cell)
        BY <1>3, <1>6, LaidEnds
    <2> QED
        BY <2>1, <2>2
<1> HIDE DEF z
<1>9. w \in Seq(Cell) /\ Len(w) = Len(h) + Len(z) /\ Before(h, w) /\ After(h, z, w)
    <2>1. h \in Seq(Cell)
        BY <1>4
    <2> QED
        BY <1>5, <1>8, <2>1, Joined
<1>10. ASSUME NEW k \in 1..Len(take.frames), NEW i \in 1..4
       PROVE  w[FirstFrame(take) + (4 * (k - 1) + i)] = Blob(take.frames[k])[i]
    <2>1. 4 * (k - 1) + i \in 1..Len(z)
        BY <1>1, <1>3, <1>7
    <2>2. w[Len(h) + (4 * (k - 1) + i)] = z[4 * (k - 1) + i]
        BY <1>9, <2>1 DEF After
    <2>3. z[4 * (k - 1) + i] = Blob(take.frames[k])[i]
        BY <1>3, <1>7
    <2> QED
        BY <1>4, <2>2, <2>3
<1> QED
    <2>1. \A i \in 1..FirstFrame(take) : w[i] = h[i]
        BY <1>4, <1>9 DEF Before
    <2>2. Len(w) = FirstFrame(take) + 4 * Len(take.frames)
        BY <1>3, <1>4, <1>7, <1>9
    <2> QED
        BY <1>9, <1>10, <2>1, <2>2 DEF w, h

-----------------------------------------------------------------------------
(* A file that was cut *)

\* file holds the beginning of what finish writes for take, or all of it.
CutOf(file, take) == file \in Seq(Cell) /\ Begins(file, Encoded(take))

\* What its cells hold.
LEMMA CutCells ==
    ASSUME NEW take \in Take, NEW file, CutOf(file, take), NEW h, h = FirstFrame(take)
    PROVE  /\ Len(file) \in Nat /\ Len(take.frames) \in Nat
           /\ Len(file) <= h + 4 * Len(take.frames)
           /\ Len(file) >= 1 => file[1].version = take.version
           /\ Len(file) >= 3 => file[3].value = 2
           /\ Len(file) >= 5 => file[5].value = take.manifest
           /\ take.version = "V2" /\ Len(file) >= 7 => file[7].value = 2
           /\ take.version = "V2" /\ Len(file) >= 9 => file[9].value = take.markers
           /\ \A k \in 0..(Len(take.frames) - 1) :
                 /\ h + 4 * k + 1 <= Len(file) => file[h + 4 * k + 1].value = 2
                 /\ h + 4 * k + 3 <= Len(file) => file[h + 4 * k + 3].value = take.frames[k + 1]
<1> DEFINE e == Encoded(take)
           n == Len(take.frames)
<1>1. Len(file) \in Nat /\ n \in Nat /\ h \in {6, 10} /\ (take.version = "V2" => h = 10)
    BY LenProperties DEF CutOf, Take, FirstFrame
<1>2. Len(e) = h + 4 * n /\ \A i \in 1..h : e[i] = Header(take)[i]
    BY EncodedAt
<1>3. Len(file) <= Len(e) /\ \A i \in 1..Len(file) : file[i] = e[i]
    BY DEF CutOf, Begins
<1>4. \A k \in 1..n, i \in 1..4 : e[h + (4 * (k - 1) + i)] = Blob(take.frames[k])[i]
    BY EncodedAt
<1> HIDE DEF e
<1>5. \A i \in 1..h : i <= Len(file) => file[i] = Header(take)[i]
    BY <1>1, <1>2, <1>3
<1>6. /\ Len(file) >= 1 => file[1].version = take.version
      /\ Len(file) >= 3 => file[3].value = 2
      /\ Len(file) >= 5 => file[5].value = take.manifest
    <2>1. 1 \in 1..h /\ 3 \in 1..h /\ 5 \in 1..h
        BY <1>1
    <2>2. /\ Header(take)[1].version = take.version /\ Header(take)[3].value = 2
          /\ Header(take)[5].value = take.manifest
        BY HeaderAt
    <2> QED
        BY <1>1, <1>5, <2>1, <2>2
<1>7. ASSUME take.version = "V2"
      PROVE  /\ Len(file) >= 7 => file[7].value = 2
             /\ Len(file) >= 9 => file[9].value = take.markers
    <2>1. 7 \in 1..h /\ 9 \in 1..h
        BY <1>1, <1>7
    <2>2. Header(take)[7].value = 2 /\ Header(take)[9].value = take.markers
        BY <1>7, HeaderAt
    <2> QED
        BY <1>1, <1>5, <2>1, <2>2
<1>8. ASSUME NEW k \in 0..(n - 1)
      PROVE  /\ h + 4 * k + 1 <= Len(file) => file[h + 4 * k + 1].value = 2
             /\ h + 4 * k + 3 <= Len(file) => file[h + 4 * k + 3].value = take.frames[k + 1]
    <2>1. k + 1 \in 1..n /\ (k + 1) - 1 = k
        BY <1>1
    <2>2. \A i \in 1..4 : e[h + (4 * k + i)] = Blob(take.frames[k + 1])[i]
        BY <1>4, <2>1
    <2>3. h + (4 * k + 1) = h + 4 * k + 1 /\ h + (4 * k + 3) = h + 4 * k + 3
        BY <1>1, <2>1
    <2>4. e[h + 4 * k + 1] = Blob(take.frames[k + 1])[1] /\ e[h + 4 * k + 3] = Blob(take.frames[k + 1])[3]
        BY <2>2, <2>3
    <2>5. Blob(take.frames[k + 1])[1].value = 2 /\ Blob(take.frames[k + 1])[3].value = take.frames[k + 1]
        <3>1. take.frames[k + 1] \in Content
            BY <2>1, ElementOfSeq DEF Take, Content
        <3> QED
            BY <3>1, BlobCells
    <2>6. /\ h + 4 * k + 1 <= Len(file) => h + 4 * k + 1 \in 1..Len(file)
          /\ h + 4 * k + 3 <= Len(file) => h + 4 * k + 3 \in 1..Len(file)
        BY <1>1
    <2> QED
        BY <1>3, <2>4, <2>5, <2>6
<1> QED
    BY <1>1, <1>2, <1>3, <1>6, <1>7, <1>8

\* The number of frames that are there in full, and what is left over.
LEMMA FramesThere ==
    ASSUME NEW l \in Nat, NEW h \in Nat, h <= l
    PROVE  \E j \in Nat, r \in 0..3 : l = h + 4 * j + r
<1> DEFINE T == {d \in 0..(l - h) : \E j \in Nat, r \in 0..3 : d = 4 * j + r}
<1>1. 0 \in T
    <2>1. 0 = 4 * 0 + 0 /\ 0 \in 0..3
        OBVIOUS
    <2> QED
        BY <2>1
<1>2. ASSUME NEW d \in 0..((l - h) - 1), d \in T PROVE d + 1 \in T
    <2>1. PICK j \in Nat, r \in 0..3 : d = 4 * j + r
        BY <1>2
    <2>2. CASE r < 3
        <3>1. r + 1 \in 0..3 /\ d + 1 = 4 * j + (r + 1)
            BY <2>1, <2>2
        <3> QED
            BY <3>1
    <2>3. CASE r = 3
        <3>1. 0 \in 0..3 /\ j + 1 \in Nat /\ d + 1 = 4 * (j + 1) + 0
            BY <2>1, <2>3
        <3>2. \E i \in Nat, q \in 0..3 : d + 1 = 4 * i + q
            BY <3>1, Zenon
        <3> QED
            BY <3>2
    <2> QED
        BY <2>2, <2>3
<1>3. l - h \in T
    <2>1. l - h \in Nat
        OBVIOUS
    <2> HIDE DEF T
    <2>2. 0..(l - h) \subseteq T
        BY <1>1, <1>2, <2>1, UpTo
    <2> QED
        BY <2>1, <2>2
<1>4. PICK j \in Nat, r \in 0..3 : l - h = 4 * j + r
    BY <1>3
<1>5. l = h + 4 * j + r
    BY <1>4
<1> QED
    BY <1>5

\* The frames begin at h; j of them are there in full, and r cells of another one.
CutAt(file, take, h, j, r) ==
    /\ CutOf(file, take) /\ h = FirstFrame(take)
    /\ j \in Nat /\ r \in 0..3 /\ Len(file) = h + 4 * j + r

\* Where the passes of a reader's loop stand, as far as there are lengths to read.
Stand(file, take, h, j, r) ==
    /\ j <= Len(take.frames) /\ (r # 0 => j < Len(take.frames))
    /\ \A k \in 0..j : Offset(file, h, k) = h + 4 * k
    /\ r >= 2 => Offset(file, h, j + 1) = h + 4 * j + 4

\* Where every pass of the readers over a file that was cut stands.
LEMMA PassesAt ==
    ASSUME NEW take \in Take, NEW file, NEW h, NEW j \in Nat, NEW r \in 0..3, CutAt(file, take, h, j, r)
    PROVE  Stand(file, take, h, j, r)
<1>0. /\ CutOf(file, take) /\ h = FirstFrame(take)
      /\ j \in Nat /\ r \in 0..3 /\ Len(file) = h + 4 * j + r
    BY DEF CutAt
<1>1. h \in {6, 10} /\ Len(file) \in Nat /\ Len(take.frames) \in Nat
    BY <1>0, CutCells DEF FirstFrame
<1>2. j <= Len(take.frames) /\ (r # 0 => j < Len(take.frames))
    <2>1. Len(file) <= h + 4 * Len(take.frames)
        BY <1>0, CutCells
    <2> QED
        BY <1>0, <1>1, <2>1
<1>3. ASSUME NEW k \in Nat, k < Len(take.frames), h + 4 * k + 1 <= Len(file)
      PROVE  BlobEnd(file, h + 4 * k) = h + 4 * k + 4
    <2>1. k \in 0..(Len(take.frames) - 1)
        BY <1>0, <1>1, <1>3
    <2>2. file[h + 4 * k + 1].value = 2
        BY <1>0, <1>3, <2>1, CutCells
    <2> QED
        BY <1>0, <1>1, <2>2 DEF BlobEnd
<1>4. /\ Offset(file, h, 0) = h
      /\ \A k \in 1..Len(file) : Offset(file, h, k) = BlobEnd(file, Offset(file, h, k - 1))
    BY <1>1, OffsetDef
<1> DEFINE T == {k \in 0..j : Offset(file, h, k) = h + 4 * k}
<1>5. 0 \in T
    BY <1>0, <1>1, <1>4
<1>6. ASSUME NEW k \in 0..(j - 1), k \in T PROVE k + 1 \in T
    <2>1. /\ k + 1 \in 1..Len(file) /\ (k + 1) - 1 = k /\ k \in Nat
          /\ k < Len(take.frames) /\ h + 4 * k + 1 <= Len(file)
          /\ k + 1 \in 0..j /\ h + 4 * (k + 1) = h + 4 * k + 4
        BY <1>0, <1>1, <1>2
    <2>2. Offset(file, h, k + 1) = BlobEnd(file, Offset(file, h, k))
        BY <1>4, <2>1
    <2>3. Offset(file, h, k) = h + 4 * k
        BY <1>6
    <2>4. BlobEnd(file, h + 4 * k) = h + 4 * k + 4
        BY <1>3, <2>1
    <2>5. Offset(file, h, k + 1) = h + 4 * (k + 1)
        BY <2>1, <2>2, <2>3, <2>4
    <2> QED
        BY <2>1, <2>5
<1>7. \A k \in 0..j : Offset(file, h, k) = h + 4 * k
    <2>1. 0..j \subseteq T
        <3> HIDE DEF T
        <3> QED
            BY <1>5, <1>6, UpTo
    <2> QED
        BY <2>1
<1>8. ASSUME r >= 2 PROVE Offset(file, h, j + 1) = h + 4 * j + 4
    <2>1. /\ j + 1 \in 1..Len(file) /\ (j + 1) - 1 = j /\ j \in 0..j
          /\ j < Len(take.frames) /\ h + 4 * j + 1 <= Len(file)
        BY <1>0, <1>1, <1>2, <1>8
    <2>2. Offset(file, h, j + 1) = BlobEnd(file, Offset(file, h, j))
        BY <1>4, <2>1
    <2>3. Offset(file, h, j) = h + 4 * j
        BY <1>7, <2>1
    <2>4. BlobEnd(file, h + 4 * j) = h + 4 * j + 4
        BY <1>3, <2>1
    <2> QED
        BY <2>2, <2>3, <2>4
<1> QED
    BY <1>2, <1>7, <1>8 DEF Stand

\* The loop of read_recording ends where the first frame is missing or torn.
LEMMA FramesRead ==
    ASSUME NEW take \in Take, NEW file, NEW h, NEW j \in Nat, NEW r \in 0..3, CutAt(file, take, h, j, r)
    PROVE  FramesFrom(file, h) = [k \in 1..j |-> take.frames[k]]
<1>0. /\ CutOf(file, take) /\ h = FirstFrame(take)
      /\ j \in Nat /\ r \in 0..3 /\ Len(file) = h + 4 * j + r
    BY DEF CutAt
<1>1. h \in {6, 10} /\ Len(file) \in Nat /\ Len(take.frames) \in Nat
    BY <1>0, CutCells DEF FirstFrame
<1>2. /\ j <= Len(take.frames) /\ (r # 0 => j < Len(take.frames))
      /\ \A k \in 0..j : Offset(file, h, k) = h + 4 * k
    <2>1. Stand(file, take, h, j, r)
        BY PassesAt
    <2> QED
        BY <2>1 DEF Stand
<1> DEFINE There(k) == HasBlob(file, Offset(file, h, k))
           Ends(n) == ~ There(n) /\ \A k \in 0..(n - 1) : There(k)
           passes == CHOOSE n \in 0..Len(file) : Ends(n)
<1>3. ASSUME NEW k \in 0..(j - 1)
      PROVE  There(k) /\ BlobAt(file, Offset(file, h, k)) = take.frames[k + 1]
    <2>1. /\ k \in 0..j /\ k \in 0..(Len(take.frames) - 1) /\ k \in Nat
          /\ h + 4 * k + 1 <= Len(file) /\ h + 4 * k + 3 <= Len(file)
        <3>1. j <= Len(take.frames)
            BY <1>2
        <3> QED
            BY <1>0, <1>1, <3>1
    <2>2. Offset(file, h, k) = h + 4 * k
        BY <1>2, <2>1
    <2>3. file[h + 4 * k + 1].value = 2 /\ file[h + 4 * k + 3].value = take.frames[k + 1]
        <3>1. \A i \in 0..(Len(take.frames) - 1) :
                 /\ h + 4 * i + 1 <= Len(file) => file[h + 4 * i + 1].value = 2
                 /\ h + 4 * i + 3 <= Len(file) => file[h + 4 * i + 3].value = take.frames[i + 1]
            BY <1>0, CutCells
        <3> QED
            BY <2>1, <3>1
    <2>4. HasBlob(file, h + 4 * k)
        <3>1. BlobEnd(file, h + 4 * k) = h + 4 * k + 2 + 2
            BY <2>3 DEF BlobEnd
        <3>2. h + 4 * k + 2 <= Len(file) /\ 0 + (h + 4 * k + 2 + 2) <= Len(file)
            BY <1>0, <1>1
        <3> QED
            BY <3>1, <3>2 DEF HasBlob, HasLength, Available
    <2>5. BlobAt(file, h + 4 * k) = take.frames[k + 1]
        BY <2>3 DEF BlobAt
    <2> QED
        BY <2>2, <2>4, <2>5
<1>4. ~ There(j)
    <2>1. Offset(file, h, j) = h + 4 * j
        BY <1>2
    <2>2. ~ HasBlob(file, h + 4 * j)
        <3>1. CASE r < 2
            BY <1>0, <1>1, <3>1 DEF HasBlob, HasLength, Available
        <3>2. CASE r >= 2
            <4>1. j \in 0..(Len(take.frames) - 1) /\ h + 4 * j + 1 <= Len(file)
                BY <1>0, <1>1, <1>2, <3>2
            <4>2. file[h + 4 * j + 1].value = 2
                BY <1>0, <4>1, CutCells
            <4> QED
                BY <1>0, <1>1, <4>2 DEF HasBlob, Available, BlobEnd
        <3> QED
            BY <3>1, <3>2
    <2> QED
        BY <2>1, <2>2
<1> HIDE DEF There
<1>5. Ends(j) /\ j \in 0..Len(file)
    BY <1>0, <1>1, <1>3, <1>4
<1>6. \A n \in 0..Len(file) : Ends(n) => n = j
    BY <1>0, <1>1, <1>3, <1>4
<1>7. passes = j
    <2> HIDE DEF Ends
    <2> QED
        BY <1>5, <1>6
<1>8. FramesFrom(file, h) = [k \in 1..passes |-> BlobAt(file, Offset(file, h, k - 1))]
    BY Zenon DEF FramesFrom, Ends, There
<1>9. ASSUME NEW k \in 1..j PROVE BlobAt(file, Offset(file, h, k - 1)) = take.frames[k]
    <2>1. k - 1 \in 0..(j - 1) /\ (k - 1) + 1 = k
        OBVIOUS
    <2> QED
        BY <1>3, <2>1
<1> HIDE DEF passes
<1> QED
    BY <1>7, <1>8, <1>9

\* The loop of build_index ends where a length is missing: it may count a torn frame.
LEMMA OffsetsRead ==
    ASSUME NEW take \in Take, NEW file, NEW h, NEW j \in Nat, NEW r \in 0..3, CutAt(file, take, h, j, r)
    PROVE  OffsetsFrom(file, h) = [k \in 1..(IF r >= 2 THEN j + 1 ELSE j) |-> h + 4 * (k - 1)]
<1>0. /\ CutOf(file, take) /\ h = FirstFrame(take)
      /\ j \in Nat /\ r \in 0..3 /\ Len(file) = h + 4 * j + r
    BY DEF CutAt
<1>1. h \in {6, 10} /\ Len(file) \in Nat /\ Len(take.frames) \in Nat
    BY <1>0, CutCells DEF FirstFrame
<1>2. /\ \A k \in 0..j : Offset(file, h, k) = h + 4 * k
      /\ r >= 2 => Offset(file, h, j + 1) = h + 4 * j + 4
    <2>1. Stand(file, take, h, j, r)
        BY PassesAt
    <2> QED
        BY <2>1 DEF Stand
<1> DEFINE There(k) == HasLength(file, Offset(file, h, k))
           Ends(n) == ~ There(n) /\ \A k \in 0..(n - 1) : There(k)
           passes == CHOOSE n \in 0..Len(file) : Ends(n)
           i == IF r >= 2 THEN j + 1 ELSE j
<1>3. i \in Nat /\ i \in 0..Len(file) /\ \A k \in 0..i : Offset(file, h, k) = h + 4 * k
    <2>1. CASE r >= 2
        <3>1. i = j + 1 /\ i \in 0..Len(file)
            BY <1>0, <1>1, <2>1
        <3>2. ASSUME NEW k \in 0..(j + 1) PROVE Offset(file, h, k) = h + 4 * k
            <4>1. CASE k = j + 1
                BY <1>0, <1>1, <1>2, <2>1, <4>1
            <4>2. CASE k # j + 1
                BY <1>2, <4>2
            <4> QED
                BY <4>1, <4>2
        <3> QED
            BY <3>1, <3>2
    <2>2. CASE r < 2
        <3>1. i = j /\ i \in 0..Len(file)
            BY <1>0, <1>1, <2>2
        <3> QED
            BY <1>2, <3>1
    <2> QED
        BY <2>1, <2>2
<1>4. \A k \in 0..(i - 1) : There(k)
    <2>1. ASSUME NEW k \in 0..(i - 1) PROVE There(k)
        <3>1. Offset(file, h, k) = h + 4 * k
            BY <1>3
        <3>2. h + 4 * k + 2 <= Len(file)
            BY <1>0, <1>1, <1>3
        <3> QED
            BY <3>1, <3>2 DEF HasLength, Available
    <2> QED
        BY <2>1
<1>5. ~ There(i)
    <2>1. Offset(file, h, i) = h + 4 * i
        BY <1>3
    <2>2. ~ (h + 4 * i + 2 <= Len(file))
        BY <1>0, <1>1, <1>3
    <2> QED
        BY <2>1, <2>2 DEF HasLength, Available
<1>6. OffsetsFrom(file, h) = [k \in 1..passes |-> Offset(file, h, k - 1)]
    BY Zenon DEF OffsetsFrom
<1> HIDE DEF There, i
<1>7. Ends(i)
    BY <1>4, <1>5
<1>8. \A n \in 0..Len(file) : Ends(n) => n = i
    BY <1>0, <1>1, <1>3, <1>4, <1>5
<1>9. passes = i
    <2> HIDE DEF Ends
    <2> QED
        BY <1>3, <1>7, <1>8
<1>10. ASSUME NEW k \in 1..i PROVE Offset(file, h, k - 1) = h + 4 * (k - 1)
    <2>1. k - 1 \in 0..i
        BY <1>3
    <2> QED
        BY <1>3, <2>1
<1> HIDE DEF passes
<1>11. OffsetsFrom(file, h) = [k \in 1..i |-> h + 4 * (k - 1)]
    BY <1>6, <1>9, <1>10
<1> QED
    BY <1>11 DEF i

\* The blobs in front of the frames.
LEMMA HeaderRead ==
    ASSUME NEW take \in Take, NEW file, CutOf(file, take)
    PROVE  /\ Len(file) >= 4 => BlobEnd(file, FirstBlob) = 6
           /\ Len(file) >= 8 /\ take.version = "V2" => BlobEnd(file, 6) = 10
           /\ Len(file) >= 6 <=> Available(file, 0, 2) /\ HasBlob(file, FirstBlob)
           /\ take.version = "V2" => (Len(file) >= 10 <=> Len(file) >= 6 /\ HasBlob(file, 6))
<1>1. /\ Len(file) \in Nat /\ (Len(file) >= 3 => file[3].value = 2)
      /\ take.version = "V2" /\ Len(file) >= 7 => file[7].value = 2
    BY CutCells
<1>2. Len(file) >= 4 => BlobEnd(file, FirstBlob) = 6
    BY <1>1 DEF BlobEnd, FirstBlob
<1>3. Len(file) >= 8 /\ take.version = "V2" => BlobEnd(file, 6) = 10
    BY <1>1 DEF BlobEnd
<1>4. Len(file) >= 6 <=> Available(file, 0, 2) /\ HasBlob(file, FirstBlob)
    BY <1>1, <1>2 DEF Available, HasBlob, HasLength, FirstBlob
<1>5. take.version = "V2" => (Len(file) >= 10 <=> Len(file) >= 6 /\ HasBlob(file, 6))
    BY <1>1, <1>3 DEF Available, HasBlob, HasLength
<1> QED
    BY <1>2, <1>3, <1>4, <1>5

\* What read_recording returns: an error until the frames begin.
LEMMA ReadRefuses ==
    ASSUME NEW take \in Take, NEW file, CutOf(file, take), Len(file) < FirstFrame(take)
    PROVE  ReadRecording(file) = Invalid
<1>1. Len(file) \in Nat /\ take.version \in {"V1", "V2"}
    BY CutCells DEF Take
<1>2. CASE Len(file) < 6
    <2>1. ~ Available(file, 0, 2) \/ ~ HasBlob(file, FirstBlob)
        BY <1>1, <1>2, HeaderRead
    <2> QED
        BY <2>1 DEF ReadRecording
<1>3. CASE Len(file) >= 6
    <2>1. take.version = "V2" /\ Len(file) < 10 /\ Len(file) >= 4 /\ Len(file) >= 1
        BY <1>1, <1>3 DEF FirstFrame
    <2>2. file[1].version = "V2"
        BY <2>1, CutCells
    <2>3. BlobEnd(file, FirstBlob) = 6
        BY <2>1, HeaderRead
    <2>4. ~ HasBlob(file, 6)
        BY <1>1, <1>3, <2>1, HeaderRead
    <2> QED
        BY <2>2, <2>3, <2>4 DEF ReadRecording
<1> QED
    BY <1>1, <1>2, <1>3

\* From there on the take, with the frames that are there in full.
LEMMA ReadReturns ==
    ASSUME NEW take \in Take, take.version = "V1" => take.markers = <<>>,
           NEW file, NEW h, NEW j \in Nat, NEW r \in 0..3, CutAt(file, take, h, j, r)
    PROVE  ReadRecording(file) = [version |-> take.version, manifest |-> take.manifest,
                                  markers |-> take.markers,
                                  frames |-> [k \in 1..j |-> take.frames[k]]]
<1>0. CutOf(file, take) /\ h = FirstFrame(take) /\ Len(file) = h + 4 * j + r
    BY DEF CutAt
<1>1. h \in {6, 10} /\ Len(file) \in Nat /\ take.version \in {"V1", "V2"} /\ Len(file) >= h
    BY <1>0, CutCells DEF FirstFrame, Take
<1>2. /\ Len(file) >= 6 /\ Len(file) >= 4 /\ Len(file) >= 1 /\ Len(file) >= 5
      /\ take.version = "V2" => h = 10 /\ Len(file) >= 10 /\ Len(file) >= 8 /\ Len(file) >= 9
      /\ take.version = "V1" => h = 6
    BY <1>0, <1>1 DEF FirstFrame
<1>3. Available(file, 0, 2) /\ HasBlob(file, FirstBlob)
    BY <1>0, <1>2, HeaderRead
<1>4. BlobEnd(file, FirstBlob) = 6
    BY <1>0, <1>2, HeaderRead
<1>5. file[1].version = take.version
    BY <1>0, <1>2, CutCells
<1>6. BlobAt(file, FirstBlob) = take.manifest
    <2>1. file[5].value = take.manifest
        BY <1>0, <1>2, CutCells
    <2>2. FirstBlob + 3 = 5
        BY DEF FirstBlob
    <2> QED
        BY <2>1, <2>2 DEF BlobAt
<1>7. FramesFrom(file, h) = [k \in 1..j |-> take.frames[k]]
    BY FramesRead
<1>8. CASE take.version = "V1"
    <2>1. FramesFrom(file, 6) = [k \in 1..j |-> take.frames[k]]
        BY <1>2, <1>7, <1>8
    <2> QED
        BY <1>3, <1>4, <1>5, <1>6, <1>8, <2>1 DEF ReadRecording
<1>9. CASE take.version = "V2"
    <2>1. HasBlob(file, 6)
        BY <1>0, <1>2, <1>9, HeaderRead
    <2>2. BlobEnd(file, 6) = 10
        BY <1>0, <1>2, <1>9, HeaderRead
    <2>3. BlobAt(file, 6) = take.markers
        <3>1. file[9].value = take.markers
            BY <1>0, <1>2, <1>9, CutCells
        <3>2. 6 + 3 = 9
            OBVIOUS
        <3> QED
            BY <3>1, <3>2 DEF BlobAt
    <2>4. FramesFrom(file, 10) = [k \in 1..j |-> take.frames[k]]
        BY <1>2, <1>7, <1>9
    <2> QED
        BY <1>3, <1>4, <1>5, <1>6, <1>9, <2>1, <2>2, <2>3, <2>4 DEF ReadRecording
<1> QED
    BY <1>1, <1>8, <1>9

\* What build_index returns for a file that can be read.
LEMMA IndexReturns ==
    ASSUME NEW take \in Take, NEW file, NEW h, NEW j \in Nat, NEW r \in 0..3,
           CutAt(file, take, h, j, r)
    PROVE  BuildIndex(file) =
               [manifest_offset |-> FirstBlob,
                frame_offsets |-> [k \in 1..(IF r >= 2 THEN j + 1 ELSE j) |-> h + 4 * (k - 1)]]
<1>0. CutOf(file, take) /\ h = FirstFrame(take) /\ Len(file) = h + 4 * j + r
    BY DEF CutAt
<1>1. h \in {6, 10} /\ Len(file) \in Nat /\ take.version \in {"V1", "V2"} /\ Len(file) >= h
    BY <1>0, CutCells DEF FirstFrame, Take
<1>2. /\ Len(file) >= 6 /\ Len(file) >= 4 /\ Len(file) >= 1
      /\ take.version = "V2" => h = 10 /\ Len(file) >= 10 /\ Len(file) >= 8
      /\ take.version = "V1" => h = 6
    BY <1>0, <1>1 DEF FirstFrame
<1>3. Available(file, 0, 2) /\ HasLength(file, FirstBlob)
    BY <1>0, <1>2, HeaderRead DEF HasBlob
<1>4. BlobEnd(file, FirstBlob) = 6
    BY <1>0, <1>2, HeaderRead
<1>5. file[1].version = take.version
    BY <1>0, <1>2, CutCells
<1> DEFINE offsets == [k \in 1..(IF r >= 2 THEN j + 1 ELSE j) |-> h + 4 * (k - 1)]
<1>6. OffsetsFrom(file, h) = offsets
    BY OffsetsRead
<1> HIDE DEF offsets
<1>7. CASE take.version = "V1"
    <2>1. OffsetsFrom(file, 6) = offsets
        BY <1>2, <1>6, <1>7
    <2>2. BuildIndex(file) = [manifest_offset |-> FirstBlob, frame_offsets |-> offsets]
        BY <1>3, <1>4, <1>5, <1>7, <2>1 DEF BuildIndex
    <2> QED
        BY <2>2 DEF offsets
<1>8. CASE take.version = "V2"
    <2>1. HasLength(file, 6)
        BY <1>1, <1>2, <1>8 DEF HasLength, Available
    <2>2. BlobEnd(file, 6) = 10
        BY <1>0, <1>2, <1>8, HeaderRead
    <2>3. OffsetsFrom(file, 10) = offsets
        BY <1>2, <1>6, <1>8
    <2>4. BuildIndex(file) = [manifest_offset |-> FirstBlob, frame_offsets |-> offsets]
        BY <1>3, <1>4, <1>5, <1>8, <2>1, <2>2, <2>3 DEF BuildIndex
    <2> QED
        BY <2>4 DEF offsets
<1> QED
    BY <1>1, <1>7, <1>8

\* A file is cut somewhere: before the frames, or after j of them and r cells.
LEMMA CutSomewhere ==
    ASSUME NEW take \in Take, NEW file, CutOf(file, take), ~ (Len(file) < FirstFrame(take))
    PROVE  \E j \in Nat, r \in 0..3 : CutAt(file, take, FirstFrame(take), j, r)
<1>1. FirstFrame(take) \in Nat /\ Len(file) \in Nat
    BY CutCells DEF FirstFrame
<1>2. FirstFrame(take) <= Len(file)
    BY <1>1
<1>3. PICK j \in Nat, r \in 0..3 : Len(file) = FirstFrame(take) + 4 * j + r
    BY <1>1, <1>2, FramesThere, Zenon
<1>4. CutAt(file, take, FirstFrame(take), j, r)
    BY <1>3 DEF CutAt
<1> QED
    BY <1>4

\* All of the file is there when all of its frames are.
LEMMA WholeFile ==
    ASSUME NEW take \in Take, NEW file, NEW h, NEW j \in Nat, NEW r \in 0..3,
           CutAt(file, take, h, j, r)
    PROVE  /\ j <= Len(take.frames)
           /\ j = Len(take.frames) <=> file = Encoded(take)
<1>0. CutOf(file, take) /\ h = FirstFrame(take) /\ Len(file) = h + 4 * j + r
    BY DEF CutAt
<1>1. h \in {6, 10} /\ Len(file) \in Nat /\ Len(take.frames) \in Nat
    BY <1>0, CutCells DEF FirstFrame
<1>2. j <= Len(take.frames) /\ (r # 0 => j < Len(take.frames))
    BY PassesAt DEF Stand
<1>3. Encoded(take) \in Seq(Cell) /\ Len(Encoded(take)) = h + 4 * Len(take.frames)
    BY <1>0, EncodedAt
<1>4. ASSUME j = Len(take.frames) PROVE file = Encoded(take)
    <2>1. r = 0 /\ Len(file) = Len(Encoded(take))
        BY <1>0, <1>1, <1>2, <1>3, <1>4
    <2>2. file \in Seq(Cell) /\ \A i \in 1..Len(file) : file[i] = Encoded(take)[i]
        BY <1>0 DEF CutOf, Begins
    <2> QED
        BY <1>3, <2>1, <2>2, SeqEqual
<1>5. ASSUME file = Encoded(take) PROVE j = Len(take.frames)
    <2>1. h + 4 * j + r = h + 4 * Len(take.frames)
        BY <1>0, <1>3, <1>5
    <2> QED
        BY <1>1, <2>1
<1> QED
    BY <1>2, <1>4, <1>5

-----------------------------------------------------------------------------
(* The exports *)

\* A line of the CHAN export, and the lines of a frame.
Channel == {"tx", "ty", "tz", "qx", "qy", "qz", "qw", "value"}
Line == Nat \X STRING \X Channel
Lines(f) ==
    FlattenSeq([k \in DOMAIN f.attributes |->
        LET a == f.attributes[k] IN
        [c \in DOMAIN Channels(a) |-> <<f.timestamp, a.attribute, Channels(a)[c]>>]])

\* The lines that a frame is exported to.
LEMMA LinesType ==
    ASSUME NEW f \in Frame
    PROVE  Lines(f) \in Seq(Line)
<1>1. f.timestamp \in Nat /\ f.attributes \in Seq(Attribute)
    BY FileConstants
<1> DEFINE n == Len(f.attributes)
           L(a) == [c \in DOMAIN Channels(a) |-> <<f.timestamp, a.attribute, Channels(a)[c]>>]
           s == [k \in 1..n |-> L(f.attributes[k])]
<1>2. n \in Nat /\ DOMAIN f.attributes = 1..n
    BY <1>1, LenProperties
<1>3. ASSUME NEW a \in Attribute PROVE L(a) \in Seq(Line)
    <2> DEFINE m == Len(Channels(a))
    <2>1. Channels(a) \in Seq(Channel)
        <3>0. /\ "tx" \in Channel /\ "ty" \in Channel /\ "tz" \in Channel /\ "value" \in Channel
              /\ "qx" \in Channel /\ "qy" \in Channel /\ "qz" \in Channel /\ "qw" \in Channel
            BY DEF Channel
        <3>1. CASE a.type = "vec3f"
            <4>1. Channels(a) = <<"tx", "ty", "tz">>
                BY <3>1 DEF Channels
            <4>2. <<"tx", "ty", "tz">> \in Seq(Channel)
                BY <3>0
            <4> QED
                BY <4>1, <4>2, Zenon
        <3>2. CASE a.type = "quatf"
            <4>1. Channels(a) = <<"qx", "qy", "qz", "qw">>
                BY <3>2 DEF Channels
            <4>2. <<"qx", "qy", "qz", "qw">> \in Seq(Channel)
                BY <3>0
            <4> QED
                BY <4>1, <4>2, Zenon
        <3>3. CASE a.type # "vec3f" /\ a.type # "quatf"
            <4>1. Channels(a) = <<"value">>
                BY <3>3 DEF Channels
            <4>2. <<"value">> \in Seq(Channel)
                BY <3>0
            <4> QED
                BY <4>1, <4>2, Zenon
        <3> QED
            BY <3>1, <3>2, <3>3
    <2>2. m \in Nat /\ DOMAIN Channels(a) = 1..m /\ \A c \in 1..m : Channels(a)[c] \in Channel
        BY <2>1, LenProperties, ElementOfSeq
    <2>3. a.attribute \in STRING
        BY DEF Attribute
    <2> HIDE DEF m
    <2>4. \A c \in 1..m : <<f.timestamp, a.attribute, Channels(a)[c]>> \in Line
        BY <1>1, <2>2, <2>3 DEF Line
    <2>5. L(a) = [c \in 1..m |-> <<f.timestamp, a.attribute, Channels(a)[c]>>]
        BY <2>2
    <2> QED
        BY <2>2, <2>4, <2>5
<1>4. \A k \in 1..n : L(f.attributes[k]) \in Seq(Line)
    BY <1>1, <1>3, ElementOfSeq
<1> HIDE DEF L
<1>5. s \in Seq(Seq(Line)) /\ Len(s) = n
    BY <1>2, <1>4
<1>6. Lines(f) = FlattenSeq(s)
    BY <1>2, Zenon DEF Lines, L
<1> HIDE DEF s
<1>7. Laid(s, Len(s)) = FlattenSeq(s) /\ \A i \in 0..Len(s) : Laid(s, i) \in Seq(Line)
    BY <1>5, LaidEnds
<1>8. Len(s) \in 0..Len(s)
    BY <1>2, <1>5
<1> QED
    BY <1>6, <1>7, <1>8

\* The exports of a take's first frames are the beginnings of its exports.
LEMMA ExportsBegin ==
    ASSUME NEW take \in Take, NEW j \in Nat, j <= Len(take.frames),
           NEW read, read.frames = [k \in 1..j |-> take.frames[k]]
    PROVE  /\ IsPrefix(read.frames, take.frames)
           /\ IsPrefix(ChanLines(read), ChanLines(take))
           /\ IsPrefix(UsdScopes(read), UsdScopes(take))
<1> DEFINE frames == take.frames
           n == Len(frames)
<1>1. frames \in Seq(Frame) /\ n \in Nat /\ DOMAIN frames = 1..n /\ DOMAIN read.frames = 1..j
    BY LenProperties DEF Take
<1>2. \A k \in 1..n : frames[k] \in Frame
    BY <1>1, ElementOfSeq
<1>3. \A k \in 1..j : k \in 1..n /\ read.frames[k] = frames[k]
    BY <1>1
<1>4. IsPrefix(read.frames, frames)
    <2>1. read.frames \in Seq(Frame) /\ Len(read.frames) = j
        BY <1>2, <1>3
    <2>2. Begins(read.frames, frames)
        BY <1>3, <2>1 DEF Begins
    <2> QED
        BY <1>1, <2>1, <2>2, BeginsIsPrefix
<1>5. IsPrefix(ChanLines(read), ChanLines(take))
    <2> DEFINE s == [k \in 1..n |-> Lines(frames[k])]
               b == [k \in 1..j |-> Lines(frames[k])]
    <2>1. s \in Seq(Seq(Line)) /\ Len(s) = n
        <3>1. \A k \in 1..n : Lines(frames[k]) \in Seq(Line)
            BY <1>2, LinesType
        <3> QED
            BY <1>1, <3>1
    <2>2. ChanLines(take) = FlattenSeq(s)
        BY <1>1, Zenon DEF ChanLines, Lines
    <2>3. ChanLines(read) = FlattenSeq(b)
        <3>1. b = [k \in DOMAIN read.frames |-> Lines(read.frames[k])]
            BY <1>1, <1>3
        <3> HIDE DEF b
        <3> QED
            BY <3>1, Zenon DEF ChanLines, Lines
    <2>4. b = SubSeq(s, 1, j)
        BY <1>1, <1>3, <2>1
    <2>5. j \in 0..Len(s)
        BY <1>1, <2>1
    <2> HIDE DEF s, b
    <2>6. IsPrefix(Laid(s, j), FlattenSeq(s))
        BY <2>1, <2>5, LaidPrefix
    <2> QED
        BY <2>2, <2>3, <2>4, <2>6 DEF Laid
<1>6. IsPrefix(UsdScopes(read), UsdScopes(take))
    <2> DEFINE Scope(f) == <<f.timestamp, [k \in DOMAIN f.attributes |-> f.attributes[k].attribute]>>
               S == {Scope(f) : f \in Frame}
               u == [k \in 1..j |-> Scope(frames[k])]
               v == [k \in 1..n |-> Scope(frames[k])]
    <2>1. UsdScopes(take) = v
        BY <1>1, Zenon DEF UsdScopes
    <2>2. UsdScopes(read) = u
        <3>1. UsdScopes(read) = [k \in DOMAIN read.frames |-> Scope(read.frames[k])]
            BY Zenon DEF UsdScopes
        <3> HIDE DEF Scope
        <3> QED
            BY <1>1, <1>3, <3>1
    <2>3. u \in Seq(S) /\ v \in Seq(S) /\ Len(u) = j /\ Len(v) = n /\ Begins(u, v)
        <3> HIDE DEF Scope
        <3>1. \A k \in 1..n : Scope(frames[k]) \in S
            BY <1>2
        <3> HIDE DEF S
        <3>2. u \in Seq(S) /\ v \in Seq(S) /\ Len(u) = j /\ Len(v) = n
            BY <1>1, <1>3, <3>1
        <3>3. Begins(u, v)
            BY <1>1, <1>3, <3>2 DEF Begins
        <3> QED
            BY <3>2, <3>3
    <2> HIDE DEF u, v, S
    <2> QED
        BY <2>1, <2>2, <2>3, BeginsIsPrefix
<1> QED
    BY <1>4, <1>5, <1>6

-----------------------------------------------------------------------------
(* The properties of one file *)

\* A take as push_frame and push_marker leave it.
Kept(take) ==
    /\ take \in Take
    /\ take.version = "V1" => take.markers = <<>>
    /\ take.manifest.frame_count = Len(take.frames)

\* Whatever is cut off, what is read is the beginning of the take.
LEMMA CutReads ==
    ASSUME NEW take, Kept(take), NEW file, CutOf(file, take),
           NEW read, read = ReadRecording(file), read # Invalid
    PROVE  /\ read.manifest = take.manifest /\ read.markers = take.markers
           /\ IsPrefix(read.frames, take.frames)
           /\ IsPrefix(ChanLines(read), ChanLines(take))
           /\ IsPrefix(UsdScopes(read), UsdScopes(take))
           /\ Len(read.frames) = read.manifest.frame_count <=> file = Encoded(take)
<1>1. take \in Take /\ (take.version = "V1" => take.markers = <<>>)
    BY DEF Kept
<1>2. ~ (Len(file) < FirstFrame(take))
    BY <1>1, ReadRefuses
<1>3. PICK j \in Nat, r \in 0..3 : CutAt(file, take, FirstFrame(take), j, r)
    BY <1>1, <1>2, CutSomewhere
<1>4. read = [version |-> take.version, manifest |-> take.manifest,
              markers |-> take.markers, frames |-> [k \in 1..j |-> take.frames[k]]]
    BY <1>1, <1>3, ReadReturns
<1>5. /\ read.manifest = take.manifest /\ read.markers = take.markers
      /\ read.frames = [k \in 1..j |-> take.frames[k]]
    BY <1>4
<1>6. j <= Len(take.frames) /\ (j = Len(take.frames) <=> file = Encoded(take))
    BY <1>1, <1>3, WholeFile
<1>7. /\ IsPrefix(read.frames, take.frames)
      /\ IsPrefix(ChanLines(read), ChanLines(take))
      /\ IsPrefix(UsdScopes(read), UsdScopes(take))
    BY <1>1, <1>5, <1>6, ExportsBegin
<1>8. Len(read.frames) = j
    BY <1>5
<1>9. Len(read.frames) = read.manifest.frame_count <=> file = Encoded(take)
    BY <1>5, <1>6, <1>8 DEF Kept
<1> QED
    BY <1>5, <1>7, <1>9

\* The offset of a frame that is there is where its blob is.
LEMMA BlobOfFrame ==
    ASSUME NEW take \in Take, NEW file, NEW h, NEW j \in Nat, NEW r \in 0..3,
           CutAt(file, take, h, j, r), NEW k \in 1..j
    PROVE  BlobAt(file, h + 4 * (k - 1)) = take.frames[k]
<1>0. CutOf(file, take) /\ h = FirstFrame(take) /\ Len(file) = h + 4 * j + r
    BY DEF CutAt
<1>1. h \in {6, 10} /\ Len(take.frames) \in Nat /\ j <= Len(take.frames)
    BY <1>0, CutCells, WholeFile DEF FirstFrame
<1> DEFINE i == k - 1
<1>2. i \in 0..(Len(take.frames) - 1) /\ i + 1 = k /\ h + 4 * i + 3 <= Len(file)
    BY <1>0, <1>1
<1>3. \A m \in 0..(Len(take.frames) - 1) :
          h + 4 * m + 3 <= Len(file) => file[h + 4 * m + 3].value = take.frames[m + 1]
    BY <1>0, CutCells
<1> HIDE DEF i
<1>4. file[h + 4 * i + 3].value = take.frames[k]
    BY <1>2, <1>3
<1> QED
    BY <1>4 DEF BlobAt, i

\* The index of a file that can be read.
LEMMA CutIndexed ==
    ASSUME NEW take, Kept(take), NEW file, CutOf(file, take),
           ~ (Len(file) < FirstFrame(take)), NEW read, read = ReadRecording(file),
           NEW index, index = BuildIndex(file)
    PROVE  /\ index # Invalid
           /\ Len(index.frame_offsets) - Len(read.frames) \in {0, 1}
           /\ \A k \in DOMAIN read.frames : BlobAt(file, index.frame_offsets[k]) = read.frames[k]
           /\ file = Encoded(take) =>
                 /\ read = [version |-> take.version, manifest |-> take.manifest,
                            markers |-> take.markers, frames |-> take.frames]
                 /\ Len(index.frame_offsets) = Len(take.frames)
                 /\ \A k \in DOMAIN index.frame_offsets :
                       BlobAt(file, index.frame_offsets[k]) = take.frames[k]
<1>1. take \in Take /\ (take.version = "V1" => take.markers = <<>>)
    BY DEF Kept
<1> DEFINE h == FirstFrame(take)
<1>3. PICK j \in Nat, r \in 0..3 : CutAt(file, take, h, j, r)
    BY <1>1, CutSomewhere
<1> DEFINE i == IF r >= 2 THEN j + 1 ELSE j
<1>4. read = [version |-> take.version, manifest |-> take.manifest,
              markers |-> take.markers, frames |-> [k \in 1..j |-> take.frames[k]]]
    BY <1>1, <1>3, ReadReturns
<1>5. read.frames = [k \in 1..j |-> take.frames[k]] /\ Len(read.frames) = j
    BY <1>4
<1>6. h \in Nat /\ i \in Nat /\ i - j \in {0, 1} /\ (r = 0 => i = j)
    BY DEF FirstFrame
<1>7. index = [manifest_offset |-> FirstBlob, frame_offsets |-> [k \in 1..i |-> h + 4 * (k - 1)]]
    BY <1>1, <1>3, IndexReturns
<1> HIDE DEF i, h
<1>8. index.frame_offsets = [k \in 1..i |-> h + 4 * (k - 1)]
    BY <1>7
<1>9. index.frame_offsets \in Seq(Nat) /\ Len(index.frame_offsets) = i
    <2>1. \A k \in 1..i : h + 4 * (k - 1) \in Nat
        BY <1>6
    <2> QED
        BY <1>6, <1>8, <2>1
<1>10. index # Invalid
    <2>1. index \in [manifest_offset: Nat, frame_offsets: Seq(Nat)]
        BY <1>7, <1>8, <1>9 DEF FirstBlob
    <2> QED
        BY <2>1, FileConstants
<1>11. ASSUME NEW k \in 1..j PROVE BlobAt(file, index.frame_offsets[k]) = take.frames[k]
    <2>1. k \in 1..i
        BY <1>6
    <2>2. BlobAt(file, h + 4 * (k - 1)) = take.frames[k]
        BY <1>1, <1>3, BlobOfFrame
    <2> QED
        BY <1>8, <2>1, <2>2
<1>12. \A k \in DOMAIN read.frames : BlobAt(file, index.frame_offsets[k]) = read.frames[k]
    BY <1>5, <1>11
<1>13. ASSUME file = Encoded(take)
       PROVE  /\ read = [version |-> take.version, manifest |-> take.manifest,
                         markers |-> take.markers, frames |-> take.frames]
              /\ Len(index.frame_offsets) = Len(take.frames)
              /\ \A k \in DOMAIN index.frame_offsets :
                    BlobAt(file, index.frame_offsets[k]) = take.frames[k]
    <2>1. j = Len(take.frames)
        BY <1>1, <1>3, <1>13, WholeFile
    <2>2. r = 0
        <3>1. Stand(file, take, h, j, r)
            BY <1>1, <1>3, PassesAt
        <3> QED
            BY <2>1, <3>1 DEF Stand
    <2>3. take.frames = [k \in 1..j |-> take.frames[k]]
        BY <1>1, <2>1 DEF Take
    <2>4. i = j /\ DOMAIN index.frame_offsets = 1..j
        BY <1>6, <1>8, <2>2
    <2> QED
        BY <1>4, <1>9, <1>11, <2>1, <2>3, <2>4
<1> QED
    BY <1>5, <1>6, <1>9, <1>10, <1>12, <1>13

\* A whole file can be read.
LEMMA WholeReads ==
    ASSUME NEW take, Kept(take), NEW file, file = Encoded(take)
    PROVE  CutOf(file, take) /\ ~ (Len(file) < FirstFrame(take))
<1>1. take \in Take /\ (take.version = "V1" => take.markers = <<>>)
    BY DEF Kept
<1>2. /\ file \in Seq(Cell) /\ Len(file) \in Nat /\ Len(take.frames) \in Nat
      /\ Len(file) = FirstFrame(take) + 4 * Len(take.frames)
    BY <1>1, EncodedAt, LenProperties DEF Take
<1>3. CutOf(file, take)
    BY <1>2 DEF CutOf, Begins
<1>4. FirstFrame(take) \in Nat
    BY DEF FirstFrame
<1>5. ~ (Len(file) < FirstFrame(take))
    BY <1>2, <1>4
<1> QED
    BY <1>3, <1>5

-----------------------------------------------------------------------------
(* The inductive invariant *)

\* While finish writes, what is on disk and what is left to write make up the take.
WriterInv ==
    /\ writer # NoTake => Kept(writer)
    /\ todo \in Seq(Cell)
    /\ todo # <<>> => writer # NoTake
    /\ Writing => /\ source[writer.path] = writer /\ writer.path \notin finished
                  /\ disk[writer.path] \in Seq(Cell)
                  /\ Then(disk[writer.path], todo) = Encoded(writer)

\* A file is a beginning of the take that finish was writing, all of it once finish is done.
DiskInv ==
    /\ DOMAIN disk = Path /\ DOMAIN source = Path /\ finished \subseteq Path
    /\ \A p \in Path : disk[p] # NoFile => Kept(source[p]) /\ CutOf(disk[p], source[p])
    /\ \A p \in finished : Kept(source[p]) /\ disk[p] = Encoded(source[p])

FileInv == WriterInv /\ DiskInv

\* A concatenation begins with its first part.
LEMMA BeginsThen ==
    ASSUME NEW S, NEW u \in Seq(S), NEW v \in Seq(S)
    PROVE  Begins(u, Then(u, v))
<1>1. /\ Len(Then(u, v)) = Len(u) + Len(v) /\ Len(u) \in Nat /\ Len(v) \in Nat
      /\ \A i \in 1..Len(u) : Then(u, v)[i] = u[i]
    BY ThenAt
<1> QED
    BY <1>1 DEF Begins

\* The next cell goes from what is left to write to the end of the file.
LEMMA MoveCell ==
    ASSUME NEW S, NEW u \in Seq(S), NEW v \in Seq(S), v # <<>>
    PROVE  /\ Append(u, Head(v)) \in Seq(S) /\ Tail(v) \in Seq(S)
           /\ Then(Append(u, Head(v)), Tail(v)) = Then(u, v)
           /\ Len(v) = 1 => Append(u, Head(v)) = Then(u, v) /\ Tail(v) = <<>>
           /\ Len(v) # 1 => Tail(v) # <<>>
<1>1. Len(u) \in Nat /\ Len(v) \in Nat /\ Len(v) >= 1
    BY LenProperties, EmptySeq
<1>2. /\ Head(v) \in S /\ Tail(v) \in Seq(S) /\ Len(Tail(v)) = Len(v) - 1 /\ Head(v) = v[1]
      /\ \A i \in 1..(Len(v) - 1) : Tail(v)[i] = v[i + 1]
    BY <1>1, HeadTailProperties
<1>3. /\ Append(u, Head(v)) \in Seq(S) /\ Len(Append(u, Head(v))) = Len(u) + 1
      /\ Append(u, Head(v))[Len(u) + 1] = v[1]
      /\ \A i \in 1..Len(u) : Append(u, Head(v))[i] = u[i]
    BY <1>1, <1>2, AppendProperties
<1> DEFINE a == Append(u, Head(v))
           t == Tail(v)
<1>4. Then(a, t) = Then(u, v)
    BY <1>1, <1>2, <1>3 DEF Then
<1>5. t \in Seq(S) /\ Len(t) = Len(v) - 1 /\ (Len(t) = 0 <=> t = <<>>)
    <2>1. t \in Seq(S) /\ Len(t) = Len(v) - 1
        BY <1>2
    <2> HIDE DEF t
    <2> QED
        BY <2>1, EmptySeq
<1>6. ASSUME Len(v) = 1 PROVE a = Then(u, v) /\ t = <<>>
    <2>1. t = <<>>
        BY <1>1, <1>5, <1>6
    <2>2. Then(a, <<>>) = a
        BY <1>3, ConcatEmptySeq DEF Then
    <2> QED
        BY <1>4, <2>1, <2>2
<1>7. ASSUME Len(v) # 1 PROVE t # <<>>
    BY <1>1, <1>5, <1>7
<1> QED
    BY <1>2, <1>3, <1>4, <1>6, <1>7

\* What finish writes is a file's worth of cells.
LEMMA EncodedType ==
    ASSUME NEW take, Kept(take)
    PROVE  Encoded(take) \in Seq(Cell) /\ Encoded(take) # <<>>
<1>1. take \in Take /\ Len(take.frames) \in Nat /\ FirstFrame(take) \in {6, 10}
    BY LenProperties DEF Kept, Take, FirstFrame
<1>2. Encoded(take) \in Seq(Cell) /\ Len(Encoded(take)) = FirstFrame(take) + 4 * Len(take.frames)
    BY <1>1, EncodedAt
<1>3. Len(Encoded(take)) # 0
    BY <1>1, <1>2
<1> QED
    BY <1>2, <1>3, EmptySeq

\* The invariant holds initially.
LEMMA FileInvInit ==
    ASSUME Init
    PROVE  FileInv
<1>1. <<>> \in Seq(Cell)
    BY EmptySeq
<1> QED
    BY <1>1 DEF Init, FileInv, WriterInv, DiskInv, Writing

\* Nothing is being written outside of finish.
LEMMA NothingLeft ==
    ASSUME FileInv, ~ Writing
    PROVE  todo = <<>>
BY DEF FileInv, WriterInv, Writing

\* Steps before finish leave the disk alone, and the take as the invariant wants it.
LEMMA TakeChanges ==
    ASSUME FileInv, ~ Writing, UNCHANGED <<todo, disk, source, finished>>,
           writer' # NoTake => Kept(writer')
    PROVE  FileInv'
<1>1. todo' = <<>>
    BY NothingLeft
<1> QED
    BY <1>1 DEF FileInv, WriterInv, DiskInv, Writing

\* start_with_format opens no file and leaves those on disk alone.
LEMMA StartStep ==
    ASSUME FileInv, NEW path \in Path, NEW version \in {"V1", "V2"}, NEW now \in Stamp,
           Start(path, version, now)
    PROVE  FileInv'
<1>1. <<>> \in Seq(Marker) /\ <<>> \in Seq(Frame) /\ Len(<<>>) = 0 /\ now \in Nat
    BY EmptySeq, FileConstants
<1>2. writer' = [path |-> path, version |-> version,
                 manifest |-> [started |-> now, stopped |-> now, frame_count |-> 0],
                 markers |-> <<>>, frames |-> <<>>]
    BY DEF Start
<1>3. Kept(writer')
    BY <1>1, <1>2 DEF Kept, Take, Manifest
<1> QED
    BY <1>3, TakeChanges DEF Start

\* The manifest after push_frame.
Updated(man, s, n) == [man EXCEPT !.stopped = s, !.frame_count = n]

\* A manifest keeps its type when stopped_ns and frame_count change.
LEMMA ManifestUpdated ==
    ASSUME NEW man \in Manifest, NEW s \in Nat, NEW n \in Nat
    PROVE  Updated(man, s, n) \in Manifest /\ Updated(man, s, n).frame_count = n
<1>1. Updated(man, s, n) \in Manifest
    BY DEF Manifest, Updated
<1>2. Updated(man, s, n).frame_count = n
    BY DEF Manifest, Updated
<1> QED
    BY <1>1, <1>2

\* push_frame changes the take in memory only.
LEMMA PushFrameStep ==
    ASSUME FileInv, NEW f \in Frame, PushFrame(f)
    PROVE  FileInv'
<1>1. Kept(writer)
    BY DEF FileInv, WriterInv, PushFrame
<1>2. f.timestamp \in Nat /\ writer \in Take /\ writer.frames \in Seq(Frame) /\ Len(writer.frames) \in Nat
    BY <1>1, FileConstants, LenProperties DEF Kept, Take
<1> DEFINE fs == Append(writer.frames, f)
<1>3. fs \in Seq(Frame) /\ Len(fs) = Len(writer.frames) + 1
    BY <1>2, AppendProperties
<1>4. writer' = [writer EXCEPT !.manifest.stopped = f.timestamp, !.frames = fs,
                               !.manifest.frame_count = Len(writer.frames) + 1]
    BY DEF PushFrame
<1> HIDE DEF fs
<1>5. Kept(writer')
    <2>1. /\ writer.manifest \in Manifest /\ writer.path \in Path
          /\ writer.version \in {"V1", "V2"} /\ writer.markers \in Seq(Marker)
        BY <1>2 DEF Take
    <2> DEFINE mm == Updated(writer.manifest, f.timestamp, Len(writer.frames) + 1)
    <2>2. mm \in Manifest /\ mm.frame_count = Len(writer.frames) + 1
        <3>1. Len(writer.frames) + 1 \in Nat
            BY <1>2
        <3> QED
            BY <1>2, <2>1, <3>1, ManifestUpdated, Zenon
    <2>3. writer' = [path |-> writer.path, version |-> writer.version, manifest |-> mm,
                     markers |-> writer.markers, frames |-> fs]
        BY <1>2, <1>4, <2>1 DEF Take, Manifest, Updated
    <2> HIDE DEF mm
    <2> QED
        BY <1>1, <1>3, <2>1, <2>2, <2>3 DEF Kept, Take
<1> QED
    BY <1>5, TakeChanges DEF PushFrame

\* push_marker changes the take in memory only.
LEMMA PushMarkerStep ==
    ASSUME FileInv, NEW m \in Marker, PushMarker(m)
    PROVE  FileInv'
<1>1. Kept(writer)
    BY DEF FileInv, WriterInv, PushMarker
<1> DEFINE ms == Append(writer.markers, m)
<1>2. ms \in Seq(Marker)
    BY <1>1, AppendProperties DEF Kept, Take
<1>3. writer' = IF writer.version = "V2" THEN [writer EXCEPT !.markers = ms] ELSE writer
    BY DEF PushMarker
<1> HIDE DEF ms
<1>4. Kept(writer')
    <2>1. CASE writer.version = "V2"
        BY <1>1, <1>2, <1>3, <2>1 DEF Kept, Take
    <2>2. CASE writer.version # "V2"
        BY <1>1, <1>3, <2>2
    <2> QED
        BY <2>1, <2>2
<1> QED
    BY <1>4, TakeChanges DEF PushMarker

\* File::create leaves an empty file, the beginning of any encoding.
LEMMA FinishCreateStep ==
    ASSUME FileInv, FinishCreate
    PROVE  FileInv'
<1> DEFINE path == writer.path
<1>1. /\ Kept(writer) /\ path \in Path /\ writer' = writer /\ writer # NoTake
      /\ todo' = Encoded(writer) /\ finished' = finished \ {path}
      /\ disk' = [disk EXCEPT ![path] = <<>>] /\ source' = [source EXCEPT ![path] = writer]
    BY DEF FileInv, WriterInv, FinishCreate, Kept, Take
<1>2. todo' \in Seq(Cell) /\ todo' # <<>>
    BY <1>1, EncodedType
<1>3. DOMAIN disk = Path /\ DOMAIN source = Path /\ finished \subseteq Path
    BY DEF FileInv, DiskInv
<1>4. <<>> \in Seq(Cell) /\ Len(<<>>) = 0
    BY EmptySeq
<1>5. disk'[path] = <<>> /\ source'[path] = writer
    BY <1>1, <1>3
<1>6. CutOf(<<>>, writer) /\ Then(<<>>, Encoded(writer)) = Encoded(writer)
    <2>1. Encoded(writer) \in Seq(Cell)
        BY <1>1, EncodedType
    <2>2. Then(<<>>, Encoded(writer)) = Encoded(writer)
        BY <2>1, ConcatEmptySeq DEF Then
    <2>3. Begins(<<>>, Encoded(writer))
        BY <1>4, <2>1, <2>2, BeginsThen
    <2> QED
        BY <1>4, <2>2, <2>3 DEF CutOf
<1>7. WriterInv'
    <2>1. Writing' => /\ source'[path] = writer /\ path \notin finished'
                      /\ disk'[path] \in Seq(Cell)
                      /\ Then(disk'[path], todo') = Encoded(writer)
        BY <1>1, <1>4, <1>5, <1>6
    <2> QED
        BY <1>1, <1>2, <2>1 DEF WriterInv, Writing
<1>8. DiskInv'
    <2>1. DOMAIN disk' = Path /\ DOMAIN source' = Path /\ finished' \subseteq Path
        BY <1>1, <1>3
    <2>2. ASSUME NEW p \in Path, disk'[p] # NoFile PROVE Kept(source'[p]) /\ CutOf(disk'[p], source'[p])
        <3>1. CASE p = path
            BY <1>1, <1>5, <1>6, <3>1
        <3>2. CASE p # path
            <4>1. disk'[p] = disk[p] /\ source'[p] = source[p]
                BY <1>1, <1>3, <3>2
            <4> QED
                BY <2>2, <4>1 DEF FileInv, DiskInv
        <3> QED
            BY <3>1, <3>2
    <2>3. ASSUME NEW p \in finished' PROVE Kept(source'[p]) /\ disk'[p] = Encoded(source'[p])
        <3>1. p \in finished /\ p # path /\ p \in Path
            BY <1>1, <1>3, <2>3
        <3>2. disk'[p] = disk[p] /\ source'[p] = source[p]
            BY <1>1, <1>3, <3>1
        <3> QED
            BY <3>1, <3>2 DEF FileInv, DiskInv
    <2> QED
        BY <2>1, <2>2, <2>3 DEF DiskInv
<1> QED
    BY <1>7, <1>8 DEF FileInv

\* A write moves the next cell to the file, and the last one finishes it.
LEMMA FinishWriteStep ==
    ASSUME FileInv, FinishWrite
    PROVE  FileInv'
<1> DEFINE path == writer.path
           u == disk[path]
           w == Append(u, Head(todo))
<1>1. /\ writer # NoTake /\ todo # <<>> /\ todo' = Tail(todo) /\ source' = source
      /\ disk' = [disk EXCEPT ![path] = w]
      /\ Len(todo) = 1 => writer' = NoTake /\ finished' = finished \cup {path}
      /\ Len(todo) # 1 => writer' = writer /\ finished' = finished
    BY DEF FinishWrite, Writing
<1>2. /\ Kept(writer) /\ path \in Path /\ source[path] = writer /\ path \notin finished
      /\ u \in Seq(Cell) /\ todo \in Seq(Cell) /\ Then(u, todo) = Encoded(writer)
    BY <1>1 DEF FileInv, WriterInv, Writing, Kept, Take
<1>3. /\ w \in Seq(Cell) /\ todo' \in Seq(Cell) /\ Then(w, todo') = Encoded(writer)
      /\ Len(todo) = 1 => w = Encoded(writer) /\ todo' = <<>>
      /\ Len(todo) # 1 => todo' # <<>>
    <2> HIDE DEF u
    <2> QED
        BY <1>1, <1>2, MoveCell
<1>4. DOMAIN disk = Path /\ DOMAIN source = Path /\ finished \subseteq Path
    BY DEF FileInv, DiskInv
<1>5. disk'[path] = w /\ source'[path] = writer
    BY <1>1, <1>2, <1>4
<1> HIDE DEF w
<1>6. CutOf(w, writer)
    <2>1. Begins(w, Then(w, todo'))
        BY <1>3, BeginsThen
    <2> QED
        BY <1>3, <2>1 DEF CutOf
<1>7. WriterInv'
    <2>1. CASE Len(todo) = 1
        BY <1>1, <1>3, <2>1 DEF WriterInv, Writing
    <2>2. CASE Len(todo) # 1
        <3>1. /\ source'[path] = writer /\ path \notin finished'
              /\ disk'[path] \in Seq(Cell) /\ Then(disk'[path], todo') = Encoded(writer)
            BY <1>1, <1>2, <1>3, <1>5, <2>2
        <3> QED
            BY <1>1, <1>2, <1>3, <2>2, <3>1 DEF WriterInv, Writing
    <2> QED
        BY <2>1, <2>2
<1>8. DiskInv'
    <2>1. DOMAIN disk' = Path /\ DOMAIN source' = Path /\ finished' \subseteq Path
        BY <1>1, <1>2, <1>4
    <2>2. ASSUME NEW p \in Path, disk'[p] # NoFile PROVE Kept(source'[p]) /\ CutOf(disk'[p], source'[p])
        <3>1. CASE p = path
            BY <1>2, <1>5, <1>6, <3>1
        <3>2. CASE p # path
            <4>1. disk'[p] = disk[p] /\ source'[p] = source[p]
                BY <1>1, <1>4, <3>2
            <4> QED
                BY <2>2, <4>1 DEF FileInv, DiskInv
        <3> QED
            BY <3>1, <3>2
    <2>3. ASSUME NEW p \in finished' PROVE Kept(source'[p]) /\ disk'[p] = Encoded(source'[p])
        <3>1. CASE p = path
            <4>1. Len(todo) = 1
                BY <1>1, <1>2, <2>3, <3>1
            <4> QED
                BY <1>2, <1>3, <1>5, <3>1, <4>1
        <3>2. CASE p # path
            <4>1. p \in finished /\ p \in Path
                BY <1>1, <1>4, <2>3, <3>2
            <4>2. disk'[p] = disk[p] /\ source'[p] = source[p]
                BY <1>1, <1>4, <3>2, <4>1
            <4> QED
                BY <4>1, <4>2 DEF FileInv, DiskInv
        <3> QED
            BY <3>1, <3>2
    <2> QED
        BY <2>1, <2>2, <2>3 DEF DiskInv
<1> QED
    BY <1>7, <1>8 DEF FileInv

\* A crash or a failing write leaves what is on disk.
LEMMA TakeLostStep ==
    ASSUME FileInv, TakeLost
    PROVE  FileInv'
<1>1. writer' = NoTake /\ todo' = <<>> /\ todo' \in Seq(Cell) /\ UNCHANGED <<disk, source, finished>>
    BY EmptySeq DEF TakeLost
<1>2. WriterInv'
    BY <1>1 DEF WriterInv, Writing
<1>3. DiskInv'
    BY <1>1 DEF FileInv, DiskInv
<1> QED
    BY <1>2, <1>3 DEF FileInv

(***************************************************************************)
(* Every step of the writer, a crash in the middle of finish included,     *)
(* keeps each file a beginning of the take it was created for.             *)
(***************************************************************************)
THEOREM FileInvHolds == Spec => []FileInv
<1>1. Init => FileInv
    BY FileInvInit
<1>2. FileInv /\ [Next]_vars => FileInv'
    <2> SUFFICES ASSUME FileInv, [Next]_vars PROVE FileInv'
        OBVIOUS
    <2>1. ASSUME NEW path \in Path, NEW version \in {"V1", "V2"}, NEW now \in Stamp,
                 Start(path, version, now)
          PROVE  FileInv'
        BY <2>1, StartStep
    <2>2. ASSUME NEW f \in Frame, PushFrame(f) PROVE FileInv'
        BY <2>2, PushFrameStep
    <2>3. ASSUME NEW m \in Marker, PushMarker(m) PROVE FileInv'
        BY <2>3, PushMarkerStep
    <2>4. CASE FinishCreate
        BY <2>4, FinishCreateStep
    <2>5. CASE FinishWrite
        BY <2>5, FinishWriteStep
    <2>6. CASE TakeLost
        BY <2>6, TakeLostStep
    <2>7. CASE UNCHANGED vars
        BY <2>7 DEF vars, FileInv, WriterInv, DiskInv, Writing
    <2> QED
        BY <2>1, <2>2, <2>3, <2>4, <2>5, <2>6, <2>7 DEF Next
<1> QED
    BY <1>1, <1>2, PTL DEF Spec

-----------------------------------------------------------------------------
(* The properties of the readers *)

(***************************************************************************)
(* Once finish has returned Ok, read_recording gives back the take,        *)
(* whatever its length, and build_index points at exactly its frames.      *)
(***************************************************************************)
THEOREM FinishedReadsBackHolds == Spec => []FinishedReadsBack
<1>1. FileInv => FinishedReadsBack
    <2> SUFFICES ASSUME FileInv, NEW p \in finished
                 PROVE  LET read == ReadRecording(disk[p])
                            index == BuildIndex(disk[p])
                        IN  /\ read = [version |-> source[p].version, manifest |-> source[p].manifest,
                                       markers |-> source[p].markers, frames |-> source[p].frames]
                            /\ Len(index.frame_offsets) = Len(source[p].frames)
                            /\ \A k \in DOMAIN index.frame_offsets :
                                  BlobAt(disk[p], index.frame_offsets[k]) = source[p].frames[k]
        BY DEF FinishedReadsBack
    <2> DEFINE take == source[p]
               file == disk[p]
               read == ReadRecording(file)
               index == BuildIndex(file)
    <2>1. Kept(take) /\ file = Encoded(take)
        BY DEF FileInv, DiskInv
    <2> HIDE DEF take, file
    <2>2. CutOf(file, take) /\ ~ (Len(file) < FirstFrame(take))
        BY <2>1, WholeReads
    <2>3. /\ read = [version |-> take.version, manifest |-> take.manifest,
                     markers |-> take.markers, frames |-> take.frames]
          /\ Len(index.frame_offsets) = Len(take.frames)
          /\ \A k \in DOMAIN index.frame_offsets :
                BlobAt(file, index.frame_offsets[k]) = take.frames[k]
        <3> HIDE DEF read, index
        <3>1. read = ReadRecording(file) /\ index = BuildIndex(file)
            BY Zenon DEF read, index
        <3> QED
            BY <2>1, <2>2, <3>1, CutIndexed
    <2> QED
        BY <2>3, Zenon DEF take, file
<1> QED
    BY <1>1, FileInvHolds, PTL

\* A file that exists and can be read, as the lemmas about one file want it.
LEMMA ExistingFile ==
    ASSUME FileInv, NEW p \in Existing
    PROVE  /\ Kept(source[p]) /\ CutOf(disk[p], source[p])
           /\ ReadRecording(disk[p]) # Invalid => ~ (Len(disk[p]) < FirstFrame(source[p]))
<1>1. Kept(source[p]) /\ CutOf(disk[p], source[p])
    BY DEF Existing, FileInv, DiskInv
<1>2. source[p] \in Take
    BY <1>1 DEF Kept
<1> QED
    BY <1>1, <1>2, ReadRefuses

(***************************************************************************)
(* A crash, an error of a write or a reader that comes too early leaves a  *)
(* file that reads as the beginning of its take, and exports as one.       *)
(***************************************************************************)
THEOREM CutReadsAsPrefixHolds == Spec => []CutReadsAsPrefix
<1>1. FileInv => CutReadsAsPrefix
    <2> SUFFICES ASSUME FileInv, NEW p \in Existing, ReadRecording(disk[p]) # Invalid
                 PROVE  LET read == ReadRecording(disk[p]) IN
                        /\ read.manifest = source[p].manifest
                        /\ read.markers = source[p].markers
                        /\ IsPrefix(read.frames, source[p].frames)
                        /\ IsPrefix(ChanLines(read), ChanLines(source[p]))
                        /\ IsPrefix(UsdScopes(read), UsdScopes(source[p]))
        BY Zenon DEF CutReadsAsPrefix
    <2>1. Kept(source[p]) /\ CutOf(disk[p], source[p])
        BY ExistingFile
    <2> QED
        BY <2>1, CutReads
<1> QED
    BY <1>1, FileInvHolds, PTL

(***************************************************************************)
(* A reader can tell a cut file from a whole one by the manifest's         *)
(* frame_count.                                                            *)
(***************************************************************************)
THEOREM CutIsDetectableHolds == Spec => []CutIsDetectable
<1>1. FileInv => CutIsDetectable
    <2> SUFFICES ASSUME FileInv, NEW p \in Existing, ReadRecording(disk[p]) # Invalid
                 PROVE  LET read == ReadRecording(disk[p]) IN
                        Len(read.frames) = read.manifest.frame_count <=> disk[p] = Encoded(source[p])
        BY Zenon DEF CutIsDetectable
    <2>1. Kept(source[p]) /\ CutOf(disk[p], source[p])
        BY ExistingFile
    <2> QED
        BY <2>1, CutReads
<1> QED
    BY <1>1, FileInvHolds, PTL

(***************************************************************************)
(* build_index, which seeks over blobs without reading them, agrees with   *)
(* read_recording on every file finish can leave behind, but for one torn  *)
(* frame at the end.                                                       *)
(***************************************************************************)
THEOREM IndexFollowsReadHolds == Spec => []IndexFollowsRead
<1>1. FileInv => IndexFollowsRead
    <2> SUFFICES ASSUME FileInv, NEW p \in Existing, ReadRecording(disk[p]) # Invalid
                 PROVE  LET read == ReadRecording(disk[p])
                            index == BuildIndex(disk[p])
                        IN  /\ index # Invalid
                            /\ Len(index.frame_offsets) - Len(read.frames) \in {0, 1}
                            /\ \A k \in DOMAIN read.frames :
                                  BlobAt(disk[p], index.frame_offsets[k]) = read.frames[k]
        BY Zenon DEF IndexFollowsRead
    <2>1. /\ Kept(source[p]) /\ CutOf(disk[p], source[p])
          /\ ~ (Len(disk[p]) < FirstFrame(source[p]))
        BY ExistingFile
    <2> QED
        BY <2>1, CutIndexed
<1> QED
    BY <1>1, FileInvHolds, PTL

=============================================================================
