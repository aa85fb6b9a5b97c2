-------------------------- MODULE SceneValues_proofs --------------------------
(***************************************************************************)
(* What samples do to the values of a scene, for batches and filter chains *)
(* of any length, and whatever products of quaternions overflow.           *)
(***************************************************************************)
EXTENDS SceneValues, SequenceTheorems, WellFoundedInduction, TLAPS

-----------------------------------------------------------------------------
(* Induction *)

\* A set of natural numbers that is not empty has a least element.
LEMMA Least ==
    ASSUME NEW T, T \subseteq Nat, T # {}
    PROVE  \E x \in T : \A y \in T : x <= y
<1> DEFINE R == {ss \in Nat \X Nat : ss[1] < ss[2]}
<1>1. IsWellFoundedOn(R, Nat)
    BY NatLessThanWellFounded, Zenon DEF OpToRel
<1>2. PICK x \in T : \A y \in T : ~ (<<y, x>> \in R)
    <2> HIDE DEF R
    <2> QED
        BY <1>1, WFMin
<1>3. ASSUME NEW y \in T PROVE x <= y
    <2>1. <<y, x>> \in Nat \X Nat /\ <<y, x>>[1] = y /\ <<y, x>>[2] = x
        OBVIOUS
    <2>2. ~ (y < x)
        BY <1>2, <2>1
    <2> QED
        BY <2>2
<1> QED
    BY <1>3

\* A set that has 0 and, with a number, the next one, up to a bound, has all of them.
LEMMA UpTo ==
    ASSUME NEW n \in Nat, NEW T, 0 \in T, \A k \in 0..(n - 1) : k \in T => k + 1 \in T
    PROVE  0..n \subseteq T
<1> DEFINE U == {k \in 0..n : k \notin T}
<1> SUFFICES ASSUME U # {} PROVE FALSE
    OBVIOUS
<1>1. PICK x \in U : \A y \in U : x <= y
    <2>1. U \subseteq Nat
        OBVIOUS
    <2> HIDE DEF U
    <2> QED
        BY <2>1, Least
<1>2. x # 0 /\ x - 1 \in 0..(n - 1)
    OBVIOUS
<1>3. x - 1 \in T
    BY <1>1, <1>2
<1> QED
    BY <1>2, <1>3

-----------------------------------------------------------------------------
(* The recursive definitions *)

\* step k of a filter chain
IsChain(v, previous, incoming, chain) ==
    /\ v[0] = incoming
    /\ \A k \in 1..Len(chain) : v[k] = ApplyFilter(previous, v[k - 1], chain[k])
    /\ ApplyFilters(previous, incoming, chain) = v[Len(chain)]

\* The values that a chain goes through obey the equation that defines them.
LEMMA ChainDef ==
    ASSUME NEW previous, NEW incoming, NEW chain, Len(chain) \in Nat
    PROVE  \E v : IsChain(v, previous, incoming, chain)
<1> DEFINE Obeys(f, m) == f = [k \in 0..m |-> IF k = 0 THEN incoming ELSE ApplyFilter(previous, f[k - 1], chain[k])]
           T == {m \in 0..Len(chain) : \E f : Obeys(f, m)}
<1>1. 0 \in T
    <2>1. Obeys([k \in 0..0 |-> incoming], 0)
        OBVIOUS
    <2> HIDE DEF Obeys
    <2> QED
        BY <2>1
<1>2. ASSUME NEW m \in 0..(Len(chain) - 1), m \in T PROVE m + 1 \in T
    <2>1. PICK f : Obeys(f, m)
        BY <1>2
    <2> DEFINE g == [k \in 0..(m + 1) |-> IF k = m + 1 THEN ApplyFilter(previous, f[m], chain[m + 1]) ELSE f[k]]
               h == [k \in 0..(m + 1) |-> IF k = 0 THEN incoming ELSE ApplyFilter(previous, g[k - 1], chain[k])]
    <2>2. ASSUME NEW k \in 0..(m + 1) PROVE g[k] = h[k]
        <3>1. CASE k = m + 1
            BY <3>1
        <3>2. CASE k # m + 1 /\ k # 0
            <4>1. k \in 0..m /\ k - 1 \in 0..m /\ k - 1 # m + 1
                BY <3>2
            <4>2. f[k] = ApplyFilter(previous, f[k - 1], chain[k])
                BY <2>1, <3>2, <4>1
            <4> QED
                BY <3>2, <4>1, <4>2
        <3>3. CASE k = 0
            BY <2>1, <3>3
        <3> QED
            BY <3>1, <3>2, <3>3
    <2>3. Obeys(g, m + 1)
        BY <2>2
    <2> HIDE DEF Obeys, g
    <2> QED
        BY <2>3
<1>3. Len(chain) \in T
    <2> HIDE DEF T
    <2>1. 0..Len(chain) \subseteq T
        BY <1>1, <1>2, UpTo
    <2> QED
        BY <2>1
<1> DEFINE after == CHOOSE f : Obeys(f, Len(chain))
<1>4. Obeys(after, Len(chain))
    <2>1. \E f : Obeys(f, Len(chain))
        BY <1>3
    <2> HIDE DEF Obeys
    <2> QED
        BY <2>1, Zenon
<1>5. ApplyFilters(previous, incoming, chain) = after[Len(chain)]
    BY Zenon DEF ApplyFilters
<1> HIDE DEF after
<1>6. \A k \in 0..Len(chain) : after[k] = IF k = 0 THEN incoming ELSE ApplyFilter(previous, after[k - 1], chain[k])
    BY <1>4
<1>7. after[0] = incoming /\ \A k \in 1..Len(chain) : after[k] = ApplyFilter(previous, after[k - 1], chain[k])
    BY <1>6
<1>8. IsChain(after, previous, incoming, chain)
    BY <1>5, <1>7 DEF IsChain
<1> QED
    BY <1>8

\* The documents d that the first n samples of a batch, those that are accepted, go through.
IsRun(d, n, doc, batch) ==
    /\ d[0] = doc
    /\ \A k \in 1..Len(batch) : d[k] = After(d[k - 1], batch[k])
    /\ n \in 0..Len(batch)
    /\ \A k \in 1..n : Accepted(doc, batch[k])
    /\ n < Len(batch) => ~ Accepted(doc, batch[n + 1])
    /\ AfterBatch(doc, batch) = d[n]

\* The documents that a batch goes through obey the equation that defines them.
LEMMA RunDef ==
    ASSUME NEW doc, NEW batch, Len(batch) \in Nat
    PROVE  \E d, n : IsRun(d, n, doc, batch)
<1> DEFINE Obeys(f, m) == f = [k \in 0..m |-> IF k = 0 THEN doc ELSE After(f[k - 1], batch[k])]
           T == {m \in 0..Len(batch) : \E f : Obeys(f, m)}
<1>1. 0 \in T
    <2>1. Obeys([k \in 0..0 |-> doc], 0)
        OBVIOUS
    <2> HIDE DEF Obeys
    <2> QED
        BY <2>1
<1>2. ASSUME NEW m \in 0..(Len(batch) - 1), m \in T PROVE m + 1 \in T
    <2>1. PICK f : Obeys(f, m)
        BY <1>2
    <2> DEFINE g == [k \in 0..(m + 1) |-> IF k = m + 1 THEN After(f[m], batch[m + 1]) ELSE f[k]]
               h == [k \in 0..(m + 1) |-> IF k = 0 THEN doc ELSE After(g[k - 1], batch[k])]
    <2>2. ASSUME NEW k \in 0..(m + 1) PROVE g[k] = h[k]
        <3>1. CASE k = m + 1
            BY <3>1
        <3>2. CASE k # m + 1 /\ k # 0
            <4>1. k \in 0..m /\ k - 1 \in 0..m /\ k - 1 # m + 1
                BY <3>2
            <4>2. f[k] = After(f[k - 1], batch[k])
                BY <2>1, <3>2, <4>1
            <4> QED
                BY <3>2, <4>1, <4>2
        <3>3. CASE k = 0
            BY <2>1, <3>3
        <3> QED
            BY <3>1, <3>2, <3>3
    <2>3. Obeys(g, m + 1)
        BY <2>2
    <2> HIDE DEF Obeys, g
    <2> QED
        BY <2>3
<1>3. Len(batch) \in T
    <2> HIDE DEF T
    <2>1. 0..Len(batch) \subseteq T
        BY <1>1, <1>2, UpTo
    <2> QED
        BY <2>1
<1> DEFINE after == CHOOSE f : Obeys(f, Len(batch))
           Good(n) == /\ \A k \in 1..n : Accepted(doc, batch[k])
                      /\ n < Len(batch) => ~ Accepted(doc, batch[n + 1])
           good == CHOOSE n \in 0..Len(batch) : Good(n)
<1>4. Obeys(after, Len(batch))
    <2>1. \E f : Obeys(f, Len(batch))
        BY <1>3
    <2> HIDE DEF Obeys
    <2> QED
        BY <2>1, Zenon
<1>5. AfterBatch(doc, batch) = after[good]
    BY Zenon DEF AfterBatch
<1> HIDE DEF after
<1>6. \A k \in 0..Len(batch) : after[k] = IF k = 0 THEN doc ELSE After(after[k - 1], batch[k])
    BY <1>4
<1>7. after[0] = doc /\ \A k \in 1..Len(batch) : after[k] = After(after[k - 1], batch[k])
    BY <1>6
<1>8. \E n \in 0..Len(batch) : Good(n)
    <2> DEFINE B == {k \in 1..Len(batch) : ~ Accepted(doc, batch[k])}
    <2>1. CASE B = {}
        <3>1. Good(Len(batch)) /\ Len(batch) \in 0..Len(batch)
            BY <2>1
        <3> QED
            BY <3>1
    <2>2. CASE B # {}
        <3>1. PICK x \in B : \A y \in B : x <= y
            <4>1. B \subseteq Nat
                OBVIOUS
            <4> HIDE DEF B
            <4> QED
                BY <2>2, <4>1, Least
        <3>2. x - 1 \in 0..Len(batch) /\ (x - 1) + 1 = x /\ x \in Nat
            OBVIOUS
        <3>3. ASSUME NEW k \in 1..(x - 1) PROVE Accepted(doc, batch[k])
            <4>1. k \in 1..Len(batch) /\ ~ (x <= k)
                BY <3>2
            <4> QED
                BY <3>1, <4>1
        <3>4. Good(x - 1)
            BY <3>2, <3>3
        <3> HIDE DEF Good
        <3> QED
            BY <3>2, <3>4
    <2> QED
        BY <2>1, <2>2
<1>9. good \in 0..Len(batch) /\ Good(good)
    <2> HIDE DEF Good
    <2> QED
        BY <1>8
<1> HIDE DEF good
<1>10. IsRun(after, good, doc, batch)
    BY <1>5, <1>7, <1>9 DEF IsRun
<1> QED
    BY <1>10

-----------------------------------------------------------------------------
(* Routing *)

\* The mappings of bs into scene s that an output matches.
Matching(bs, s, output) ==
    {i \in DOMAIN bs : SourceOutputMatches(bs[i].output, output) /\ bs[i].scene = s}

\* Route, of any mappings and scene.
First(bs, s, output) == IF Matching(bs, s, output) = {} THEN 0 ELSE Min(Matching(bs, s, output))

\* The least of the mappings that match, if there is one.
LEMMA FirstDef ==
    ASSUME NEW bs, NEW s, NEW output, Len(bs) \in Nat, DOMAIN bs = 1..Len(bs)
    PROVE  /\ Matching(bs, s, output) = {} => First(bs, s, output) = 0
           /\ Matching(bs, s, output) # {} =>
                /\ First(bs, s, output) \in Matching(bs, s, output)
                /\ \A i \in Matching(bs, s, output) : First(bs, s, output) <= i
<1> DEFINE matching == Matching(bs, s, output)
<1>1. First(bs, s, output) = IF matching = {} THEN 0 ELSE Min(matching)
    BY DEF First
<1>2. matching \subseteq Nat
    BY DEF Matching
<1> HIDE DEF matching
<1>3. ASSUME matching # {} PROVE Min(matching) \in matching /\ \A i \in matching : Min(matching) <= i
    <2>1. \E x \in matching : \A y \in matching : x <= y
        BY <1>2, <1>3, Least
    <2> QED
        BY <2>1 DEF Min
<1>4. /\ matching = {} => First(bs, s, output) = 0
      /\ matching # {} => /\ First(bs, s, output) \in matching
                          /\ \A i \in matching : First(bs, s, output) <= i
    BY <1>1, <1>3
<1> QED
    BY <1>4, Zenon DEF matching

\* An output is routed to the first mapping that matches, if to any.
LEMMA RouteDef ==
    ASSUME NEW output, Len(bindings) \in Nat, DOMAIN bindings = 1..Len(bindings)
    PROVE  Route(output) \in 0..Len(bindings)
<1>1. Route(output) = First(bindings, active_scene, output)
    BY Zenon DEF Route, First, Matching
<1>2. Matching(bindings, active_scene, output) \subseteq 1..Len(bindings)
    BY DEF Matching
<1>3. First(bindings, active_scene, output) = 0 \/ First(bindings, active_scene, output) \in 1..Len(bindings)
    BY <1>2, FirstDef
<1> QED
    BY <1>1, <1>3

-----------------------------------------------------------------------------
(* Values *)

\* The widths, as numbers.
LEMMA Widths ==
    /\ DOMAIN Width = {"bool", "trigger", "int32", "float32", "float64",
                       "vec2f", "vec3f", "vec4f", "quatf", "mat4f"}
    /\ Width["bool"] = 1 /\ Width["trigger"] = 1 /\ Width["int32"] = 1
    /\ Width["float32"] = 1 /\ Width["float64"] = 1 /\ Width["vec2f"] = 2
    /\ Width["vec3f"] = 3 /\ Width["vec4f"] = 4 /\ Width["quatf"] = 4 /\ Width["mat4f"] = 16
BY DEF Width

\* Every value has a component.
LEMMA WidthType ==
    ASSUME NEW t \in DOMAIN Width
    PROVE  Width[t] \in Nat \ {0}
BY Widths

\* A value's components are a function on 1..width.
LEMMA ValueAt ==
    ASSUME NEW v \in Value
    PROVE  /\ v.type \in DOMAIN Width /\ Width[v.type] \in Nat \ {0}
           /\ Len(v.comps) = Width[v.type] /\ DOMAIN v.comps = 1..Width[v.type]
           /\ v.comps \in [1..Width[v.type] -> Int]
           /\ v.type = "int32" => v.comps[1] \in IntMin..IntMax
<1>1. /\ v.type \in DOMAIN Width /\ v.comps \in Seq(Int) /\ Len(v.comps) = Width[v.type]
      /\ v.type = "int32" => v.comps[1] \in IntMin..IntMax
    BY DEF Value
<1>2. Width[v.type] \in Nat \ {0}
    BY <1>1, WidthType
<1>3. v.comps \in [1..Len(v.comps) -> Int] /\ DOMAIN v.comps = 1..Len(v.comps)
    BY <1>1, LenProperties
<1> QED
    BY <1>1, <1>2, <1>3

\* base with other components
With(base, c) == [base EXCEPT !.comps = c]

\* Components that fit make a value of the same type.
LEMMA WithType ==
    ASSUME NEW base \in Value, NEW c \in [1..Width[base.type] -> Int],
           base.type = "int32" => c[1] \in IntMin..IntMax
    PROVE  With(base, c) \in Value /\ With(base, c).type = base.type /\ With(base, c).comps = c
<1>1. base.type \in DOMAIN Width /\ Width[base.type] \in Nat
    BY ValueAt
<1>2. c \in Seq(Int) /\ Len(c) = Width[base.type]
    BY <1>1
<1>3. base \in [type: DOMAIN Width, comps: Seq(Int)]
    BY DEF Value
<1>4. With(base, c) = [type |-> base.type, comps |-> c]
    BY <1>3 DEF With
<1> QED
    BY <1>1, <1>2, <1>4 DEF Value

\* A value of the same type as base.
Like(v, base) == v \in Value /\ v.type = base.type

\* Saturation ends in the range of an int32.
LEMMA IntRange ==
    /\ IntMin \in Int /\ IntMax \in Int /\ IntMin <= 0 /\ 0 <= IntMax
    /\ \A n \in Int : Saturate(n) \in IntMin..IntMax
<1>1. IntMax \in Nat \ {0}
    BY ValueConstants
<1> QED
    BY <1>1 DEF IntMin, Saturate

\* set_scalar_value keeps the type of its target.
LEMMA ScalarOfType ==
    ASSUME NEW target \in Value, IsScalar(target), NEW n \in Int
    PROVE  Like(ScalarOf(target, n), target)
<1> DEFINE c == <<IF target.type = "int32" THEN Saturate(n) ELSE n>>
<1>1. Width[target.type] = 1
    BY Widths DEF IsScalar
<1>2. c \in [1..1 -> Int] /\ (target.type = "int32" => c[1] \in IntMin..IntMax)
    BY IntRange
<1>3. ScalarOf(target, n) = With(target, c)
    BY DEF ScalarOf, With
<1> HIDE DEF c
<1>4. c \in [1..Width[target.type] -> Int]
    BY <1>1, <1>2
<1>5. Like(With(target, c), target)
    BY <1>2, <1>4, WithType DEF Like
<1> QED
    BY <1>3, <1>5

\* The neutral delta has the type of its target.
LEMMA DefaultDeltaType ==
    ASSUME NEW target \in Value, IsVector(target)
    PROVE  Like(DefaultDelta(target), target)
<1> DEFINE w == Width[target.type]
           c == IF target.type = "quatf" THEN <<0, 0, 0, 1>> ELSE [k \in DOMAIN target.comps |-> 0]
<1>1. w \in Nat /\ DOMAIN target.comps = 1..w /\ (target.type = "quatf" => w = 4)
    BY ValueAt, Widths
<1>2. c \in [1..w -> Int] /\ target.type # "int32"
    <2>1. <<0, 0, 0, 1>> \in [1..4 -> Int]
        OBVIOUS
    <2> QED
        BY <1>1, <2>1 DEF IsVector
<1>3. DefaultDelta(target) = With(target, c)
    BY DEF DefaultDelta, With
<1> HIDE DEF c
<1> QED
    BY <1>2, <1>3, WithType DEF Like

\* A mask whose components the source has leaves a vector of its type.
LEMMA MaskedType ==
    ASSUME NEW base \in Value, IsVector(base), NEW source \in Value, NEW mask \in Seq(Nat),
           IsScalar(source) \/ \A k \in ToSet(mask) : k < Width[source.type]
    PROVE  Like(Masked(base, source, mask), base)
<1> DEFINE w == Width[base.type]
           c == [k \in DOMAIN base.comps |->
                   IF k - 1 \notin ToSet(mask) THEN base.comps[k]
                   ELSE IF IsScalar(source) THEN source.comps[1] ELSE source.comps[k]]
<1>1. w \in Nat /\ DOMAIN base.comps = 1..w /\ base.comps \in [1..w -> Int]
    BY ValueAt
<1>2. /\ Width[source.type] \in Nat \ {0} /\ DOMAIN source.comps = 1..Width[source.type]
      /\ source.comps \in [1..Width[source.type] -> Int]
    BY ValueAt
<1>3. ASSUME NEW k \in 1..w PROVE c[k] \in Int
    <2>1. CASE k - 1 \notin ToSet(mask)
        BY <1>1, <2>1
    <2>2. CASE k - 1 \in ToSet(mask) /\ IsScalar(source)
        <3>1. 1 \in 1..Width[source.type]
            BY <1>2
        <3>2. source.comps[1] \in Int
            BY <1>2, <3>1
        <3> QED
            BY <1>1, <2>2, <3>2
    <2>3. CASE k - 1 \in ToSet(mask) /\ ~ IsScalar(source)
        <3>1. k \in 1..Width[source.type]
            BY <1>1, <1>2, <2>3
        <3>2. source.comps[k] \in Int
            BY <1>2, <3>1
        <3> QED
            BY <1>1, <2>3, <3>2
    <2> QED
        BY <2>1, <2>2, <2>3
<1>4. c \in [1..w -> Int]
    BY <1>1, <1>3
<1>5. base.type # "int32"
    BY DEF IsVector
<1>6. Masked(base, source, mask) = With(base, c)
    BY DEF Masked, With
<1> HIDE DEF c
<1>7. Like(With(base, c), base)
    BY <1>4, <1>5, WithType DEF Like
<1> QED
    BY <1>6, <1>7

\* The masks that mappings have.
LEMMA MaskType ==
    ASSUME NEW mask \in Mask \cup {NoMask}, mask # NoMask
    PROVE  mask \in Seq(Nat) /\ \A k \in ToSet(mask) : k \in Nat
<1>1. mask \in Seq(Nat)
    BY ValueConstants
<1>2. \A i \in DOMAIN mask : mask[i] \in Nat
    BY <1>1
<1> QED
    BY <1>1, <1>2 DEF ToSet

\* What a transform returns is of the type of what it is applied to.
LEMMA TransformedType ==
    ASSUME NEW target \in Value, NEW source \in Value, NEW mask \in Mask \cup {NoMask},
           Fits(target, source, mask), NEW base, Like(base, target)
    PROVE  Like(Transformed(base, source, mask), target)
<1>0. base \in Value /\ base.type = target.type
    BY DEF Like
<1>1. CASE mask = NoMask
    <2>1. source.type = target.type /\ Transformed(base, source, mask) = source
        BY <1>1 DEF Fits, Transformed
    <2> QED
        BY <2>1 DEF Like
<1>2. CASE mask # NoMask /\ IsVector(target)
    <2>1. IsVector(base) /\ ~ IsScalar(target)
        BY <1>0, <1>2 DEF IsVector, IsScalar
    <2>2. mask \in Seq(Nat)
        BY <1>2, MaskType
    <2>3. IsScalar(source) \/ \A k \in ToSet(mask) : k < Width[source.type]
        BY <1>2, <2>1 DEF Fits
    <2>4. Transformed(base, source, mask) = Masked(base, source, mask)
        BY <1>2, <2>1 DEF Transformed
    <2>5. Like(Masked(base, source, mask), base)
        BY <1>0, <2>1, <2>2, <2>3, MaskedType
    <2> QED
        BY <1>0, <2>4, <2>5 DEF Like
<1>3. CASE mask # NoMask /\ ~ IsVector(target)
    <2>1. ~ IsVector(base) /\ IsScalar(base)
        BY <1>0, <1>3 DEF Fits, IsVector, IsScalar
    <2>2. Len(mask) = 1 /\ mask[1] < Width[source.type] /\ mask \in Seq(Nat)
        BY <1>3, MaskType DEF Fits
    <2>3. Transformed(base, source, mask) = ScalarOf(base, source.comps[mask[1] + 1])
        BY <1>3, <2>1 DEF Transformed
    <2>4. source.comps[mask[1] + 1] \in Int
        <3>1. mask[1] \in Nat
            <4>1. 1 \in 1..Len(mask)
                BY <2>2
            <4> QED
                BY <2>2, <4>1, ElementOfSeq
        <3>2. Width[source.type] \in Nat /\ source.comps \in [1..Width[source.type] -> Int]
            BY ValueAt
        <3>3. mask[1] + 1 \in 1..Width[source.type]
            BY <2>2, <3>1, <3>2
        <3> QED
            BY <3>2, <3>3
    <2>5. Like(ScalarOf(base, source.comps[mask[1] + 1]), base)
        BY <1>0, <2>1, <2>4, ScalarOfType
    <2> QED
        BY <1>0, <2>3, <2>5 DEF Like
<1> QED
    BY <1>1, <1>2, <1>3

\* A delta has the type of the baseline.
LEMMA DeltaType ==
    ASSUME NEW baseline \in Value, NEW source \in Value, NEW mask \in Mask \cup {NoMask},
           Fits(baseline, source, mask)
    PROVE  Like(MappingDeltaTransform(baseline, source, mask), baseline)
<1> DEFINE base == IF IsVector(baseline) THEN DefaultDelta(baseline) ELSE baseline
<1>1. Like(base, baseline)
    BY DefaultDeltaType DEF Like
<1>2. MappingDeltaTransform(baseline, source, mask) = Transformed(base, source, mask)
    BY DEF MappingDeltaTransform
<1> HIDE DEF base
<1> QED
    BY <1>1, <1>2, TransformedType

-----------------------------------------------------------------------------
(* Rotations *)

\* A product of quaternions is a quaternion.
LEMMA QuatProduct ==
    ASSUME NEW p \in [1..4 -> Int], NEW q \in [1..4 -> Int]
    PROVE  QuatMultiply(p, q) \in [1..4 -> Int]
<1>1. \A i \in {1, 2, 3, 4}, j \in {1, 2, 3, 4} : p[i] * q[j] \in Int
    OBVIOUS
<1>2. /\ p[4]*q[1] + p[1]*q[4] + p[2]*q[3] - p[3]*q[2] \in Int
      /\ p[4]*q[2] - p[1]*q[3] + p[2]*q[4] + p[3]*q[1] \in Int
      /\ p[4]*q[3] + p[1]*q[2] - p[2]*q[1] + p[3]*q[4] \in Int
      /\ p[4]*q[4] - p[1]*q[1] - p[2]*q[2] - p[3]*q[3] \in Int
    BY <1>1
<1> QED
    BY <1>2 DEF QuatMultiply

\* Dividing what can be divided leaves nothing out.
LEMMA Quotient ==
    ASSUME NEW a \in Int, NEW d \in Nat \ {0}
    PROVE  a \div d \in Int /\ (a % d = 0 /\ a # 0 => a \div d # 0)
OBVIOUS

\* The shortest integer vector on a ray is on it: it has a direction, too.
LEMMA OnUnitProper ==
    ASSUME NEW w \in Nat, NEW c \in [1..w -> Int], ~ Zero(c)
    PROVE  OnUnit(c) \in [1..w -> Int] /\ ~ Zero(OnUnit(c))
<1>1. PICK z \in 1..w : c[z] # 0
    BY DEF Zero
<1> DEFINE S == {Abs(c[k]) : k \in DOMAIN c} \ {0}
           Least1(n) == \A k \in DOMAIN c : c[k] # 0 => n <= Abs(c[k])
           bound == CHOOSE n \in S : Least1(n)
           Divides(d) == \A k \in DOMAIN c : c[k] % d = 0
           Greatest(d) == \A e \in (d+1)..bound : \E k \in DOMAIN c : c[k] % e # 0
           gcd == CHOOSE d \in 1..bound : Divides(d) /\ Greatest(d)
<1>2. DOMAIN c = 1..w /\ \A k \in 1..w : Abs(c[k]) \in Nat /\ (c[k] # 0 => Abs(c[k]) \in S)
    BY DEF Abs
<1>3. S \subseteq Nat \ {0} /\ S # {}
    BY <1>1, <1>2
<1>4. bound \in Nat \ {0}
    <2>1. PICK n \in S : \A y \in S : n <= y
        <3>1. S \subseteq Nat /\ S # {}
            BY <1>3
        <3> HIDE DEF S
        <3> QED
            BY <3>1, Least
    <2>2. Least1(n)
        BY <1>2, <2>1
    <2> HIDE DEF Least1, S
    <2>3. bound \in S
        BY <2>2
    <2> QED
        BY <1>3, <2>3
<1>5. OnUnit(c) = [k \in DOMAIN c |-> c[k] \div gcd]
    BY Zenon DEF OnUnit
<1> HIDE DEF bound, S
<1>6. gcd \in Nat \ {0} /\ Divides(gcd)
    <2> DEFINE D == {d \in 1..bound : Divides(d)}
               E == {bound - d : d \in D}
    <2>1. 1 \in D
        <3>1. \A k \in 1..w : c[k] % 1 = 0
            OBVIOUS
        <3> QED
            BY <1>2, <1>4, <3>1
    <2>2. E \subseteq Nat /\ E # {}
        <3>1. \A d \in D : bound - d \in Nat
            BY <1>4
        <3> HIDE DEF D
        <3> QED
            BY <2>1, <3>1
    <2>3. PICK x \in E : \A y \in E : x <= y
        <3> HIDE DEF E
        <3> QED
            BY <2>2, Least
    <2>4. PICK d \in D : x = bound - d
        BY <2>3
    <2>5. Divides(d) /\ d \in 1..bound
        BY <2>4
    <2>6. ASSUME NEW e \in (d+1)..bound PROVE ~ Divides(e)
        <3>1. SUFFICES ASSUME Divides(e) PROVE FALSE
            OBVIOUS
        <3>2. e \in 1..bound /\ d \in Nat /\ e \in Nat /\ e > d
            BY <1>4, <2>5
        <3>3. e \in D
            BY <3>1, <3>2
        <3>4. bound - e \in E
            BY <3>3
        <3>5. bound - d <= bound - e
            BY <2>3, <2>4, <3>4
        <3> QED
            BY <1>4, <3>2, <3>5
    <2>7. Greatest(d)
        BY <2>6
    <2> HIDE DEF Divides, Greatest
    <2>8. gcd \in 1..bound /\ Divides(gcd)
        BY <2>5, <2>7
    <2> HIDE DEF gcd
    <2> QED
        BY <1>4, <2>8
<1> HIDE DEF gcd
<1>7. \A k \in 1..w : c[k] \div gcd \in Int
    BY <1>6, Quotient
<1>8. c[z] \div gcd # 0
    <2>1. c[z] % gcd = 0 /\ c[z] \in Int
        BY <1>1, <1>2, <1>6
    <2> QED
        BY <1>1, <1>6, <2>1, Quotient
<1>9. OnUnit(c) = [k \in 1..w |-> c[k] \div gcd]
    BY <1>2, <1>5
<1>10. OnUnit(c) \in [1..w -> Int] /\ OnUnit(c)[z] # 0
    BY <1>1, <1>7, <1>8, <1>9
<1> QED
    BY <1>1, <1>10 DEF Zero

\* A product is a rotation again, unless its norm overflows.
LEMMA RotationProper ==
    ASSUME NEW base \in [1..4 -> Int], NEW delta \in [1..4 -> Int]
    PROVE  /\ QuatMultiplyNormalized(base, delta) \in [1..4 -> Int]
           /\ ~ Zero(base) /\ ~ NormOverflows(base, delta)
                 => ~ Zero(QuatMultiplyNormalized(base, delta))
<1> DEFINE c == QuatMultiply(base, delta)
<1>1. c \in [1..4 -> Int]
    BY QuatProduct
<1>2. QuatMultiplyNormalized(base, delta)
        = IF Zero(c) THEN base ELSE IF NormOverflows(base, delta) THEN <<0, 0, 0, 0>> ELSE OnUnit(c)
    BY DEF QuatMultiplyNormalized, Normalized
<1> HIDE DEF c
<1>3. ~ Zero(c) => OnUnit(c) \in [1..4 -> Int] /\ ~ Zero(OnUnit(c))
    BY <1>1, OnUnitProper
<1>4. <<0, 0, 0, 0>> \in [1..4 -> Int]
    OBVIOUS
<1> QED
    BY <1>2, <1>3, <1>4

\* A composed value has the type of its baseline, and a rotation stays one if no norm overflows.
LEMMA ComposeType ==
    ASSUME NEW base \in Value, NEW delta \in Value, delta.type = base.type
    PROVE  /\ Like(ComposeRelativeValue(base, delta), base)
           /\ ~ Degenerate(base) /\ ~ (base.type = "quatf" /\ NormOverflows(base.comps, delta.comps))
                 => ~ Degenerate(ComposeRelativeValue(base, delta))
<1> DEFINE w == Width[base.type]
           c == CASE base.type = "int32" -> <<ComposeInt(base.comps[1], delta.comps[1])>>
                  [] base.type = "quatf" -> QuatMultiplyNormalized(base.comps, delta.comps)
                  [] base.type = "mat4f" -> Mat4Multiply(base.comps, delta.comps)
                  [] OTHER -> [k \in DOMAIN base.comps |-> base.comps[k] + delta.comps[k]]
<1>1. /\ w \in Nat \ {0} /\ DOMAIN base.comps = 1..w
      /\ base.comps \in [1..w -> Int] /\ delta.comps \in [1..w -> Int]
    BY ValueAt
<1>2. ComposeRelativeValue(base, delta) = With(base, c)
    BY DEF ComposeRelativeValue, With
<1>3. CASE base.type = "int32"
    <2>1. c = <<ComposeInt(base.comps[1], delta.comps[1])>> /\ w = 1
        BY <1>3, Widths
    <2>2. base.comps[1] \in Int /\ delta.comps[1] \in Int
        BY <1>1
    <2>3. ComposeInt(base.comps[1], delta.comps[1]) \in IntMin..IntMax
        BY <2>2, IntRange DEF ComposeInt
    <2>4. ComposeInt(base.comps[1], delta.comps[1]) \in Int
        BY <2>3, IntRange
    <2> HIDE DEF c
    <2>5. c \in [1..w -> Int] /\ c[1] \in IntMin..IntMax
        BY <2>1, <2>3, <2>4
    <2>6. Like(With(base, c), base) /\ With(base, c).type # "quatf"
        BY <1>3, <2>5, WithType DEF Like
    <2> QED
        BY <1>2, <2>6 DEF Degenerate
<1>4. CASE base.type = "quatf"
    <2>1. c = QuatMultiplyNormalized(base.comps, delta.comps) /\ w = 4
        BY <1>4, Widths
    <2> HIDE DEF c, w
    <2>2. base.comps \in [1..4 -> Int] /\ delta.comps \in [1..4 -> Int]
        BY <1>1, <2>1
    <2>3. /\ c \in [1..w -> Int]
          /\ ~ Zero(base.comps) /\ ~ NormOverflows(base.comps, delta.comps) => ~ Zero(c)
        BY <2>1, <2>2, RotationProper
    <2>4. Like(With(base, c), base) /\ With(base, c).comps = c
        BY <1>4, <2>3, WithType DEF Like, w
    <2> QED
        BY <1>2, <1>4, <2>3, <2>4 DEF Degenerate, Like
<1>5. CASE base.type = "mat4f"
    <2>1. c = Mat4Multiply(base.comps, delta.comps) /\ w = 16
        BY <1>5, Widths
    <2> HIDE DEF c, w
    <2>2. ASSUME NEW n \in 1..16 PROVE c[n] \in Int
        <3> DEFINE row == (n - 1) \div 4
                   col == (n - 1) % 4
                   a == base.comps
                   b == delta.comps
        <3>1. row \in 0..3 /\ col \in 0..3
            OBVIOUS
        <3>2. c[n] = a[4*row + 1] * b[col + 1] + a[4*row + 2] * b[col + 5]
                        + a[4*row + 3] * b[col + 9] + a[4*row + 4] * b[col + 13]
            BY <2>1 DEF Mat4Multiply
        <3> HIDE DEF row, col, a, b
        <3>3. a \in [1..16 -> Int] /\ b \in [1..16 -> Int]
            BY <1>1, <2>1 DEF a, b
        <3>4. \A k \in {1, 2, 3, 4} : 4*row + k \in 1..16
            BY <3>1
        <3>5. \A k \in {1, 5, 9, 13} : col + k \in 1..16
            BY <3>1
        <3>6. /\ a[4*row + 1] \in Int /\ a[4*row + 2] \in Int /\ a[4*row + 3] \in Int /\ a[4*row + 4] \in Int
            BY <3>3, <3>4
        <3>7. /\ b[col + 1] \in Int /\ b[col + 5] \in Int /\ b[col + 9] \in Int /\ b[col + 13] \in Int
            BY <3>3, <3>5
        <3> QED
            BY <3>2, <3>6, <3>7
    <2>3. c \in [1..w -> Int]
        BY <2>1, <2>2 DEF Mat4Multiply
    <2>4. Like(With(base, c), base) /\ With(base, c).type # "quatf"
        BY <1>5, <2>3, WithType DEF Like, w
    <2> QED
        BY <1>2, <2>4 DEF Degenerate
<1>6. CASE base.type \notin {"int32", "quatf", "mat4f"}
    <2>1. c = [k \in DOMAIN base.comps |-> base.comps[k] + delta.comps[k]]
        BY <1>6
    <2> HIDE DEF c
    <2>2. c \in [1..w -> Int]
        BY <1>1, <2>1
    <2>3. Like(With(base, c), base) /\ With(base, c).type # "quatf"
        BY <1>6, <2>2, WithType DEF Like
    <2> QED
        BY <1>2, <2>3 DEF Degenerate
<1> QED
    BY <1>3, <1>4, <1>5, <1>6

-----------------------------------------------------------------------------
(* Filters *)

\* What every filter of a chain keeps, the chain keeps.
LEMMA ChainKeeps ==
    ASSUME NEW previous, NEW incoming, NEW chain \in Seq(Filter), NEW V, incoming \in V,
           \A f \in Filter, v \in V : ApplyFilter(previous, v, f) \in V
    PROVE  ApplyFilters(previous, incoming, chain) \in V
<1>1. Len(chain) \in Nat /\ \A k \in 1..Len(chain) : chain[k] \in Filter
    BY ElementOfSeq
<1>2. PICK v : IsChain(v, previous, incoming, chain)
    BY <1>1, ChainDef
<1>3. /\ v[0] = incoming
      /\ \A k \in 1..Len(chain) : v[k] = ApplyFilter(previous, v[k - 1], chain[k])
      /\ ApplyFilters(previous, incoming, chain) = v[Len(chain)]
    BY <1>2 DEF IsChain
<1> DEFINE T == {k \in 0..Len(chain) : v[k] \in V}
<1>4. 0 \in T
    BY <1>1, <1>3
<1>5. ASSUME NEW k \in 0..(Len(chain) - 1), k \in T PROVE k + 1 \in T
    <2>1. k + 1 \in 1..Len(chain) /\ (k + 1) - 1 = k /\ k + 1 \in 0..Len(chain)
        BY <1>1
    <2>2. v[k + 1] = ApplyFilter(previous, v[k], chain[k + 1]) /\ chain[k + 1] \in Filter
        BY <1>1, <1>3, <2>1
    <2>3. v[k] \in V
        BY <1>5
    <2> QED
        BY <2>1, <2>2, <2>3
<1> HIDE DEF T
<1>6. Len(chain) \in T
    <2>1. 0..Len(chain) \subseteq T
        BY <1>1, <1>4, <1>5, UpTo
    <2> QED
        BY <1>1, <2>1
<1> QED
    BY <1>3, <1>6 DEF T

\* The kinds of filters.
LEMMA FilterKinds ==
    ASSUME NEW f \in Filter
    PROVE  /\ f.kind \in {"passthrough", "ema", "deadband", "clamp"}
           /\ f.kind = "ema" => f.alpha \in Int
           /\ f.kind = "deadband" => f.threshold \in Int
           /\ f.kind = "clamp" => f.min \in Int /\ f.max \in Int
BY DEF Filter

\* alpha.clamp(0.0, 1.0)
LEMMA WeightType ==
    ASSUME NEW alpha \in Int
    PROVE  Weight(alpha) \in 0..AlphaUnit /\ AlphaUnit \in Nat \ {0}
<1>1. AlphaUnit \in Nat \ {0}
    BY ValueConstants
<1> QED
    BY <1>1 DEF Weight

\* the weighted mean that an EMA computes
Mix(unit, w, x, y) == (w * x + (unit - w) * y) \div unit

\* A weighted mean lies between the two.
LEMMA Mean ==
    ASSUME NEW unit \in Nat \ {0}, NEW w \in 0..unit, NEW x \in Int, NEW y \in Int
    PROVE  /\ Mix(unit, w, x, y) \in Int
           /\ \A lo, hi \in Int : x \in lo..hi /\ y \in lo..hi => Mix(unit, w, x, y) \in lo..hi
<1> DEFINE sum == w * x + (unit - w) * y
<1>1. sum \in Int
    <2>1. w * x \in Int /\ (unit - w) * y \in Int
        OBVIOUS
    <2> QED
        BY <2>1
<1>2. ASSUME NEW lo \in Int, NEW hi \in Int, x \in lo..hi, y \in lo..hi
      PROVE  unit * lo <= sum /\ sum <= unit * hi
    <2>1. w * lo <= w * x /\ w * x <= w * hi
        BY <1>2
    <2>2. (unit - w) * lo <= (unit - w) * y /\ (unit - w) * y <= (unit - w) * hi
        BY <1>2
    <2>3. w * lo + (unit - w) * lo = unit * lo /\ w * hi + (unit - w) * hi = unit * hi
        OBVIOUS
    <2>4. \A z \in Int : w * z \in Int /\ (unit - w) * z \in Int /\ unit * z \in Int
        OBVIOUS
    <2> QED
        BY <2>1, <2>2, <2>3, <2>4
<1>3. ASSUME NEW s \in Int, NEW lo \in Int, NEW hi \in Int, unit * lo <= s, s <= unit * hi
      PROVE  s \div unit \in lo..hi
    <2>1. s \div unit \in Int
        OBVIOUS
    <2>2. unit * (s \div unit) <= s /\ s < unit * (s \div unit) + unit
        OBVIOUS
    <2>3. ASSUME NEW q \in Int, unit * q <= s, s < unit * q + unit PROVE lo <= q /\ q <= hi
        <3>1. unit * lo < unit * (q + 1)
            BY <1>3, <2>3
        <3>2. unit * q <= unit * hi
            BY <1>3, <2>3
        <3> QED
            BY <3>1, <3>2
    <2> QED
        BY <2>1, <2>2, <2>3
<1>4. sum \div unit \in Int
    BY <1>1
<1> HIDE DEF sum
<1>5. \A lo, hi \in Int : x \in lo..hi /\ y \in lo..hi => sum \div unit \in lo..hi
    BY <1>1, <1>2, <1>3
<1>6. Mix(unit, w, x, y) = sum \div unit
    BY DEF Mix, sum
<1> QED
    BY <1>4, <1>5, <1>6

\* All components in a range.
Within(v, lo, hi) == \A k \in DOMAIN v.comps : v.comps[k] \in lo..hi

\* An EMA keeps the type, and a range that both values are in.
LEMMA EmaType ==
    ASSUME NEW current \in Value, NEW previous \in Value, previous.type = current.type,
           current.type # "int32", NEW alpha \in Int
    PROVE  /\ Like(ApplyEma(previous, current, alpha), current)
           /\ \A lo, hi \in Int : Within(previous, lo, hi) /\ Within(current, lo, hi)
                 => Within(ApplyEma(previous, current, alpha), lo, hi)
<1> DEFINE w == Width[current.type]
           wt == Weight(alpha)
           c == [k \in DOMAIN current.comps |->
                   (wt * current.comps[k] + (AlphaUnit - wt) * previous.comps[k]) \div AlphaUnit]
<1>1. /\ w \in Nat /\ DOMAIN current.comps = 1..w /\ DOMAIN previous.comps = 1..w
      /\ current.comps \in [1..w -> Int] /\ previous.comps \in [1..w -> Int]
    BY ValueAt
<1>2. wt \in 0..AlphaUnit /\ AlphaUnit \in Nat \ {0}
    BY WeightType
<1>3. ApplyEma(previous, current, alpha) = With(current, c)
    BY DEF ApplyEma, With
<1> HIDE DEF wt, w
<1>4. ASSUME NEW k \in 1..w
      PROVE  /\ c[k] \in Int
             /\ \A lo, hi \in Int : current.comps[k] \in lo..hi /\ previous.comps[k] \in lo..hi
                   => c[k] \in lo..hi
    <2>1. current.comps[k] \in Int /\ previous.comps[k] \in Int
        BY <1>1
    <2>2. c[k] = Mix(AlphaUnit, wt, current.comps[k], previous.comps[k])
        BY <1>1 DEF Mix
    <2> DEFINE x == current.comps[k]
               y == previous.comps[k]
    <2> HIDE DEF c, x, y
    <2>3. x \in Int /\ y \in Int /\ c[k] = Mix(AlphaUnit, wt, x, y)
        BY <2>1, <2>2 DEF x, y
    <2>4. /\ Mix(AlphaUnit, wt, x, y) \in Int
          /\ \A lo, hi \in Int : x \in lo..hi /\ y \in lo..hi => Mix(AlphaUnit, wt, x, y) \in lo..hi
        BY <1>2, <2>3, Mean, Zenon
    <2> QED
        BY <2>3, <2>4 DEF x, y
<1>5. c \in [1..w -> Int] /\ DOMAIN c = 1..w
    <2>1. DOMAIN c = 1..w /\ c = [k \in 1..w |-> c[k]]
        BY <1>1
    <2> HIDE DEF c
    <2> QED
        BY <1>4, <2>1
<1> HIDE DEF c
<1>6. Like(With(current, c), current) /\ With(current, c).comps = c
    BY <1>5, WithType DEF Like, w
<1>7. ASSUME NEW lo \in Int, NEW hi \in Int, Within(previous, lo, hi), Within(current, lo, hi)
      PROVE  \A k \in 1..w : c[k] \in lo..hi
    BY <1>1, <1>4, <1>7 DEF Within
<1>8. \A lo, hi \in Int : Within(previous, lo, hi) /\ Within(current, lo, hi) => Within(With(current, c), lo, hi)
    BY <1>5, <1>6, <1>7 DEF Within
<1> QED
    BY <1>3, <1>6, <1>8

\* a number clamped
Clamped(n, f) == IF n < ClampLow(f) THEN ClampLow(f) ELSE IF n > ClampHigh(f) THEN ClampHigh(f) ELSE n

\* A clamp ends in its range, whichever way round its bounds are given.
LEMMA ClampRange ==
    ASSUME NEW f \in Filter, f.kind = "clamp"
    PROVE  /\ ClampLow(f) \in Int /\ ClampHigh(f) \in Int /\ ClampLow(f) <= ClampHigh(f)
           /\ \A n \in Int : Clamped(n, f) \in ClampLow(f)..ClampHigh(f)
<1>1. f.min \in Int /\ f.max \in Int
    BY FilterKinds
<1> QED
    BY <1>1 DEF ClampLow, ClampHigh, Clamped

\* A clamp acts on each component and keeps the type.
LEMMA ClampType ==
    ASSUME NEW current \in Value, current.type # "int32", NEW f \in Filter, f.kind = "clamp"
    PROVE  /\ Like(ApplyClamp(current, f), current)
           /\ ApplyClamp(current, f).comps = [k \in 1..Width[current.type] |-> Clamped(current.comps[k], f)]
           /\ Within(ApplyClamp(current, f), ClampLow(f), ClampHigh(f))
<1> DEFINE w == Width[current.type]
           c == [k \in DOMAIN current.comps |->
                   IF current.comps[k] < ClampLow(f) THEN ClampLow(f)
                   ELSE IF current.comps[k] > ClampHigh(f) THEN ClampHigh(f) ELSE current.comps[k]]
<1>1. w \in Nat /\ DOMAIN current.comps = 1..w /\ current.comps \in [1..w -> Int]
    BY ValueAt
<1>2. ClampLow(f) \in Int /\ ClampHigh(f) \in Int
    BY ClampRange
<1>3. ApplyClamp(current, f) = With(current, c)
    BY DEF ApplyClamp, With
<1>4. c = [k \in 1..w |-> Clamped(current.comps[k], f)]
    BY <1>1 DEF Clamped
<1> HIDE DEF c
<1>5. ASSUME NEW k \in 1..w PROVE c[k] \in ClampLow(f)..ClampHigh(f)
    <2>1. current.comps[k] \in Int
        BY <1>1
    <2>2. Clamped(current.comps[k], f) \in ClampLow(f)..ClampHigh(f)
        BY <2>1, ClampRange
    <2> QED
        BY <1>4, <2>2
<1>6. c \in [1..w -> Int] /\ DOMAIN c = 1..w
    <2>1. \A k \in 1..w : c[k] \in Int
        BY <1>2, <1>5
    <2>2. DOMAIN c = 1..w /\ c = [k \in 1..w |-> c[k]]
        BY <1>4
    <2> QED
        BY <2>1, <2>2
<1>7. Like(With(current, c), current) /\ With(current, c).comps = c
    BY <1>6, WithType DEF Like
<1>8. Within(With(current, c), ClampLow(f), ClampHigh(f))
    BY <1>5, <1>6, <1>7 DEF Within
<1> QED
    BY <1>3, <1>4, <1>7, <1>8

\* What a filter does, by its kind.
LEMMA FilterCases ==
    ASSUME NEW previous, NEW v, NEW f \in Filter
    PROVE  /\ ~ Filtered(v) => ApplyFilter(previous, v, f) = v
           /\ Filtered(v) /\ f.kind = "passthrough" => ApplyFilter(previous, v, f) = v
           /\ Filtered(v) /\ f.kind = "ema" => ApplyFilter(previous, v, f) = ApplyEma(previous, v, f.alpha)
           /\ Filtered(v) /\ f.kind = "deadband"
                => ApplyFilter(previous, v, f) = ApplyDeadband(previous, v, f.threshold)
           /\ Filtered(v) /\ f.kind = "clamp" => ApplyFilter(previous, v, f) = ApplyClamp(v, f)
<1> DEFINE k == f.kind
<1> HIDE DEF k
<1>1. k = f.kind
    BY DEF k
<1>2. CASE ~ Filtered(v)
    BY <1>2 DEF ApplyFilter
<1>3. CASE Filtered(v) /\ k = "passthrough"
    BY <1>1, <1>3 DEF ApplyFilter
<1>4. CASE Filtered(v) /\ k = "ema"
    BY <1>1, <1>4 DEF ApplyFilter
<1>5. CASE Filtered(v) /\ k = "deadband"
    BY <1>1, <1>5 DEF ApplyFilter
<1>6. CASE Filtered(v) /\ k = "clamp"
    BY <1>1, <1>6 DEF ApplyFilter
<1>7. k \in {"passthrough", "ema", "deadband", "clamp"}
    BY <1>1, FilterKinds
<1> QED
    BY <1>1, <1>2, <1>3, <1>4, <1>5, <1>6, <1>7

\* A filter keeps the type; one that is no clamp does not leave a range that the values it
\* compares are in.
LEMMA FilterType ==
    ASSUME NEW previous \in Value, NEW v \in Value, NEW f \in Filter
    PROVE  /\ Like(ApplyFilter(previous, v, f), v)
           /\ f.kind # "clamp" =>
                 \A lo, hi \in Int :
                    (previous.type = v.type => Within(previous, lo, hi)) /\ Within(v, lo, hi)
                       => Within(ApplyFilter(previous, v, f), lo, hi)
           /\ f.kind = "clamp" /\ Filtered(v)
                => Within(ApplyFilter(previous, v, f), ClampLow(f), ClampHigh(f))
<1>1. f.kind \in {"passthrough", "ema", "deadband", "clamp"}
    BY FilterKinds
<1>2. CASE ~ Filtered(v) \/ f.kind = "passthrough"
    <2>1. ApplyFilter(previous, v, f) = v
        BY <1>2, FilterCases
    <2> QED
        BY <1>2, <2>1 DEF Like
<1>3. CASE Filtered(v) /\ f.kind = "ema"
    <2>1. ApplyFilter(previous, v, f) = ApplyEma(previous, v, f.alpha)
        BY <1>3, FilterCases
    <2>2. f.alpha \in Int /\ v.type # "int32"
        BY <1>3, FilterKinds DEF Filtered
    <2>3. CASE previous.type = v.type
        BY <1>3, <2>1, <2>2, <2>3, EmaType
    <2>4. CASE previous.type # v.type
        <3>1. ApplyFilter(previous, v, f) = v
            BY <2>1, <2>4 DEF ApplyEma
        <3> QED
            BY <1>3, <3>1 DEF Like
    <2> QED
        BY <2>3, <2>4
<1>4. CASE Filtered(v) /\ f.kind = "deadband"
    <2>1. ApplyFilter(previous, v, f) = v \/ (ApplyFilter(previous, v, f) = previous /\ previous.type = v.type)
        BY <1>4, FilterCases DEF ApplyDeadband
    <2> QED
        BY <1>4, <2>1 DEF Like
<1>5. CASE Filtered(v) /\ f.kind = "clamp"
    <2>1. ApplyFilter(previous, v, f) = ApplyClamp(v, f)
        BY <1>5, FilterCases
    <2>2. v.type # "int32"
        BY <1>5 DEF Filtered
    <2> QED
        BY <1>5, <2>1, <2>2, ClampType
<1> QED
    BY <1>1, <1>2, <1>3, <1>4, <1>5

\* A chain keeps the type, and passes on what its filters do not act on.
LEMMA ChainType ==
    ASSUME NEW previous \in Value, NEW v \in Value, NEW chain \in Seq(Filter)
    PROVE  /\ Like(ApplyFilters(previous, v, chain), v)
           /\ ~ Filtered(v) => ApplyFilters(previous, v, chain) = v
<1>1. Like(ApplyFilters(previous, v, chain), v)
    <2> DEFINE V == {x \in Value : x.type = v.type}
    <2>1. ASSUME NEW f \in Filter, NEW x \in V PROVE ApplyFilter(previous, x, f) \in V
        <3>1. Like(ApplyFilter(previous, x, f), x)
            BY FilterType
        <3> QED
            BY <3>1 DEF Like
    <2>2. v \in V
        OBVIOUS
    <2> HIDE DEF V
    <2>3. ApplyFilters(previous, v, chain) \in V
        BY <2>1, <2>2, ChainKeeps
    <2> QED
        BY <2>3 DEF V, Like
<1>2. ASSUME ~ Filtered(v) PROVE ApplyFilters(previous, v, chain) = v
    <2>1. \A f \in Filter, x \in {v} : ApplyFilter(previous, x, f) \in {v}
        BY <1>2, FilterCases
    <2>2. ApplyFilters(previous, v, chain) \in {v}
        BY <2>1, ChainKeeps
    <2> QED
        BY <2>2
<1> QED
    BY <1>1, <1>2

-----------------------------------------------------------------------------
(* One sample *)

\* The fields of an attribute.
LEMMA AttributeAt ==
    ASSUME NEW x \in SceneAttribute
    PROVE  /\ x.default \in Value /\ x.current \in Value
           /\ x.live \in BOOLEAN /\ x.filters \in Seq(Filter)
           /\ x = [default |-> x.default, current |-> x.current, live |-> x.live, filters |-> x.filters]
BY DEF SceneAttribute

\* x with another current value
Moved(x, v) == [x EXCEPT !.current = v]

\* An attribute with another current value is an attribute.
LEMMA MovedType ==
    ASSUME NEW x \in SceneAttribute, NEW v \in Value
    PROVE  /\ Moved(x, v) \in SceneAttribute
           /\ Moved(x, v).default = x.default /\ Moved(x, v).live = x.live
           /\ Moved(x, v).filters = x.filters /\ Moved(x, v).current = v
<1> DEFINE y == [default |-> x.default, current |-> v, live |-> x.live, filters |-> x.filters]
<1>1. Moved(x, v) = y
    BY AttributeAt DEF Moved
<1>2. y \in SceneAttribute
    BY AttributeAt DEF SceneAttribute
<1> QED
    BY <1>1, <1>2

\* Attributes that differ in the current value only are equal once it is the same.
LEMMA MovedEqual ==
    ASSUME NEW x \in SceneAttribute, NEW y \in SceneAttribute, x.default = y.default,
           x.live = y.live, x.filters = y.filters
    PROVE  /\ \A v : Moved(x, v) = Moved(y, v)
           /\ x.current = y.current => x = y
           /\ y = Moved(x, y.current)
<1>1. /\ x = [default |-> x.default, current |-> x.current, live |-> x.live, filters |-> x.filters]
      /\ y = [default |-> y.default, current |-> y.current, live |-> y.live, filters |-> y.filters]
    BY AttributeAt
<1> QED
    BY <1>1 DEF Moved

\* what a sample offers to the filters
Offered(x, source, mask) ==
    IF SupportsRelative(x.default)
    THEN ComposeRelativeValue(x.default, MappingDeltaTransform(x.default, source, mask))
    ELSE MappingTransform(x.current, source, mask)

\* The target is a value.
LEMMA TargetType ==
    ASSUME NEW x \in SceneAttribute
    PROVE  Target(x) \in Value
BY AttributeAt DEF Target

\* Whether a sample fits is a matter of the target's type.
LEMMA FitsByType ==
    ASSUME NEW t, NEW u, t.type = u.type, NEW source, NEW mask, Fits(t, source, mask)
    PROVE  Fits(u, source, mask)
BY DEF Fits, IsVector, IsScalar

\* A bool or trigger takes whole samples only.
LEMMA PlainFits ==
    ASSUME NEW t, ~ SupportsRelative(t), NEW source, NEW mask, Fits(t, source, mask)
    PROVE  mask = NoMask
BY DEF SupportsRelative, Fits, IsVector, IsScalar

\* The sample drives a rotation so far that the norm overflows.
Overflows(x, source, mask) ==
    /\ x.default.type = "quatf"
    /\ NormOverflows(x.default.comps, MappingDeltaTransform(x.default, source, mask).comps)

\* What a sample offers has the type of its target, and is a rotation where the baseline is one.
LEMMA OfferedType ==
    ASSUME NEW x \in SceneAttribute, NEW source \in Value, NEW mask \in Mask \cup {NoMask},
           Fits(Target(x), source, mask)
    PROVE  /\ Like(Offered(x, source, mask), Target(x))
           /\ SupportsRelative(x.default) /\ ~ Degenerate(x.default) /\ ~ Overflows(x, source, mask)
                 => ~ Degenerate(Offered(x, source, mask))
           /\ ~ SupportsRelative(x.default) /\ mask = NoMask => Offered(x, source, mask) = source
<1>1. x.default \in Value /\ x.current \in Value
    BY AttributeAt
<1>2. CASE SupportsRelative(x.default)
    <2> DEFINE d == MappingDeltaTransform(x.default, source, mask)
    <2>0. Target(x) = x.default
        BY <1>2 DEF Target
    <2>1. Like(d, x.default)
        BY <1>1, <2>0, DeltaType
    <2>2. Offered(x, source, mask) = ComposeRelativeValue(x.default, d)
        BY <1>2 DEF Offered
    <2>3. Overflows(x, source, mask) <=> (x.default.type = "quatf" /\ NormOverflows(x.default.comps, d.comps))
        BY DEF Overflows
    <2> HIDE DEF d
    <2>4. d \in Value /\ d.type = x.default.type
        BY <2>1 DEF Like
    <2>5. /\ Like(ComposeRelativeValue(x.default, d), x.default)
          /\ ~ Degenerate(x.default) /\ ~ (x.default.type = "quatf" /\ NormOverflows(x.default.comps, d.comps))
                => ~ Degenerate(ComposeRelativeValue(x.default, d))
        BY <1>1, <2>4, ComposeType
    <2> QED
        BY <1>2, <2>0, <2>2, <2>3, <2>5
<1>3. CASE ~ SupportsRelative(x.default)
    <2>1. Target(x) = x.current /\ Offered(x, source, mask) = Transformed(x.current, source, mask)
        BY <1>3 DEF Target, Offered, MappingTransform
    <2>2. Like(x.current, x.current)
        BY <1>1 DEF Like
    <2>3. Like(Transformed(x.current, source, mask), x.current)
        BY <1>1, <2>1, <2>2, TransformedType
    <2>4. mask = NoMask => Transformed(x.current, source, mask) = source
        BY DEF Transformed
    <2> QED
        BY <1>3, <2>1, <2>3, <2>4
<1> QED
    BY <1>2, <1>3

\* The next current value has the type of its target, and is a rotation where the baseline is one.
LEMMA ResolvedType ==
    ASSUME NEW x \in SceneAttribute, NEW source \in Value, NEW mask \in Mask \cup {NoMask},
           Fits(Target(x), source, mask)
    PROVE  /\ Resolved(x, source, mask) = ApplyFilters(x.current, Offered(x, source, mask), x.filters)
           /\ Like(Resolved(x, source, mask), Target(x))
           /\ SupportsRelative(x.default) /\ ~ Degenerate(x.default) /\ ~ Overflows(x, source, mask)
                 => ~ Degenerate(Resolved(x, source, mask))
           /\ ~ Filtered(Target(x)) => Resolved(x, source, mask) = Offered(x, source, mask)
<1> DEFINE v == Offered(x, source, mask)
           r == Resolved(x, source, mask)
           t == Target(x)
           Proper == SupportsRelative(x.default) /\ ~ Degenerate(x.default) /\ ~ Overflows(x, source, mask)
<1>1. Like(v, t) /\ (Proper => ~ Degenerate(v))
    BY OfferedType
<1>2. r = ApplyFilters(x.current, v, x.filters)
    BY DEF Resolved, Offered
<1> HIDE DEF v, r, t, Proper
<1>3. x.current \in Value /\ x.filters \in Seq(Filter) /\ v \in Value /\ v.type = t.type
    BY <1>1, AttributeAt DEF Like
<1>4. Like(r, v) /\ (~ Filtered(v) => r = v)
    BY <1>2, <1>3, ChainType
<1>5. Like(r, t) /\ (~ Filtered(t) => r = v)
    BY <1>3, <1>4 DEF Like, Filtered
<1>6. Proper => ~ Degenerate(r)
    <2>1. CASE t.type = "quatf"
        <3>1. r = v
            BY <1>5, <2>1 DEF Filtered
        <3> QED
            BY <1>1, <3>1
    <2>2. CASE t.type # "quatf"
        BY <1>5, <2>2 DEF Like, Degenerate
    <2> QED
        BY <2>1, <2>2
<1> QED
    BY <1>2, <1>5, <1>6 DEF v, r, t, Proper

-----------------------------------------------------------------------------
(* The state *)

IsDoc(doc) == doc \in [DOMAIN doc -> SceneAttribute]

Bindings == [output: Output, scene: Scene, attr: Attr, mask: Mask \cup {NoMask}]

(***************************************************************************)
(* Both values of every attribute are values of their types, the active    *)
(* scene is loaded, and the mappings are a sequence.                       *)
(***************************************************************************)
ValueInv ==
    /\ \A s \in DOMAIN scenes : IsDoc(scenes[s])
    /\ active_scene \in DOMAIN scenes \cup {NoScene}
    /\ bindings \in Seq(Bindings)

\* The mappings, one by one.
LEMMA BindingAt ==
    ASSUME ValueInv
    PROVE  /\ Len(bindings) \in Nat /\ DOMAIN bindings = 1..Len(bindings)
           /\ \A i \in 1..Len(bindings) : bindings[i] \in Bindings
BY LenProperties, ElementOfSeq DEF ValueInv

Samples == [output: Output, value: Value]

\* What the batches of Next are.
LEMMA BatchType ==
    ASSUME NEW batch \in SeqOf(Sample, MaxBatch)
    PROVE  Len(batch) \in Nat /\ \A k \in 1..Len(batch) : batch[k] \in Samples
<1>1. Sample \subseteq Samples
    BY ValueConstants DEF Samples
<1>2. PICK n \in 0..MaxBatch : batch \in [1..n -> Sample]
    BY DEF SeqOf
<1>3. MaxBatch \in Nat
    BY ValueConstants
<1>4. n \in Nat
    BY <1>3
<1>5. batch \in Seq(Sample) /\ Len(batch) = n
    BY <1>2, <1>4
<1> QED
    BY <1>1, <1>2, <1>4, <1>5

\* What samples leave as it is: all but current values, and the types of targets.
Shape(d, doc) ==
    /\ IsDoc(d) /\ DOMAIN d = DOMAIN doc
    /\ \A a \in DOMAIN doc : /\ d[a].default = doc[a].default /\ d[a].live = doc[a].live
                             /\ d[a].filters = doc[a].filters
                             /\ ~ SupportsRelative(doc[a].default)
                                   => d[a].current.type = doc[a].current.type

\* Targets keep their types.
LEMMA TargetShape ==
    ASSUME NEW doc, NEW d, Shape(d, doc), NEW a \in DOMAIN doc
    PROVE  Target(d[a]).type = Target(doc[a]).type
BY DEF Shape, Target

\* Documents of one shape accept the same samples.
LEMMA AcceptedShape ==
    ASSUME NEW doc, NEW d, Shape(d, doc), NEW u
    PROVE  Accepted(d, u) <=> Accepted(doc, u)
<1> DEFINE i == Route(u.output)
           b == bindings[i]
<1>1. DOMAIN d = DOMAIN doc
    BY DEF Shape
<1>2. ASSUME b.attr \in DOMAIN doc
      PROVE  /\ d[b.attr].live = doc[b.attr].live
             /\ Fits(Target(d[b.attr]), u.value, b.mask) <=> Fits(Target(doc[b.attr]), u.value, b.mask)
    <2>1. d[b.attr].live = doc[b.attr].live
        BY <1>2 DEF Shape
    <2>2. Target(d[b.attr]).type = Target(doc[b.attr]).type
        BY <1>2, TargetShape
    <2> QED
        BY <2>1, <2>2, FitsByType
<1>3. /\ Accepted(d, u) <=> /\ i # 0 /\ b.attr \in DOMAIN d
                            /\ d[b.attr].live => Fits(Target(d[b.attr]), u.value, b.mask)
      /\ Accepted(doc, u) <=> /\ i # 0 /\ b.attr \in DOMAIN doc
                              /\ doc[b.attr].live => Fits(Target(doc[b.attr]), u.value, b.mask)
    BY DEF Accepted
<1> QED
    BY <1>1, <1>2, <1>3

\* What an accepted sample does.
LEMMA AfterOne ==
    ASSUME ValueInv, NEW doc, IsDoc(doc), NEW d, Shape(d, doc), NEW u \in Samples, Accepted(doc, u)
    PROVE  \E a \in DOMAIN doc, mask \in Mask \cup {NoMask} :
              /\ bindings[Route(u.output)].attr = a /\ bindings[Route(u.output)].mask = mask
              /\ \/ ~ d[a].live /\ After(d, u) = d
                 \/ /\ d[a].live /\ Fits(Target(d[a]), u.value, mask)
                    /\ After(d, u) = [d EXCEPT ![a] = Moved(d[a], Resolved(d[a], u.value, mask))]
<1> DEFINE i == Route(u.output)
           b == bindings[i]
<1>1. i # 0 /\ b.attr \in DOMAIN doc /\ (doc[b.attr].live => Fits(Target(doc[b.attr]), u.value, b.mask))
    BY DEF Accepted
<1>2. i \in 1..Len(bindings)
    BY <1>1, RouteDef, BindingAt
<1>3. b.mask \in Mask \cup {NoMask}
    BY <1>2, BindingAt DEF Bindings
<1>4. d[b.attr].live = doc[b.attr].live /\ Target(doc[b.attr]).type = Target(d[b.attr]).type
    BY <1>1, TargetShape DEF Shape
<1>5. After(d, u) = IF d[b.attr].live
                    THEN [d EXCEPT ![b.attr] = Moved(d[b.attr], Resolved(d[b.attr], u.value, b.mask))]
                    ELSE d
    BY DEF After, Moved
<1> HIDE DEF i, b
<1>6. \/ ~ d[b.attr].live /\ After(d, u) = d
      \/ /\ d[b.attr].live /\ Fits(Target(d[b.attr]), u.value, b.mask)
         /\ After(d, u) = [d EXCEPT ![b.attr] = Moved(d[b.attr], Resolved(d[b.attr], u.value, b.mask))]
    BY <1>1, <1>4, <1>5, FitsByType
<1> QED
    BY <1>1, <1>3, <1>6 DEF i, b

\* An accepted sample keeps the shape.
LEMMA AfterShape ==
    ASSUME ValueInv, NEW doc, IsDoc(doc), NEW d, Shape(d, doc), NEW u \in Samples, Accepted(doc, u)
    PROVE  Shape(After(d, u), doc)
<1>1. PICK a \in DOMAIN doc, mask \in Mask \cup {NoMask} :
              \/ ~ d[a].live /\ After(d, u) = d
              \/ /\ d[a].live /\ Fits(Target(d[a]), u.value, mask)
                 /\ After(d, u) = [d EXCEPT ![a] = Moved(d[a], Resolved(d[a], u.value, mask))]
    BY AfterOne
<1>2. CASE After(d, u) = d
    BY <1>2
<1>3. CASE /\ Fits(Target(d[a]), u.value, mask)
           /\ After(d, u) = [d EXCEPT ![a] = Moved(d[a], Resolved(d[a], u.value, mask))]
    <2>1. d \in [DOMAIN doc -> SceneAttribute]
        BY DEF Shape, IsDoc
    <2>2. d[a] \in SceneAttribute /\ u.value \in Value
        BY <2>1 DEF Samples
    <2> DEFINE r == Resolved(d[a], u.value, mask)
               y == Moved(d[a], r)
    <2>3. r \in Value /\ r.type = Target(d[a]).type
        BY <1>3, <2>2, ResolvedType DEF Like
    <2> HIDE DEF r
    <2>4. /\ y \in SceneAttribute /\ y.default = d[a].default /\ y.live = d[a].live /\ y.filters = d[a].filters
          /\ ~ SupportsRelative(d[a].default) => y.current.type = d[a].current.type
        BY <2>2, <2>3, MovedType DEF Target
    <2>5. After(d, u) = [d EXCEPT ![a] = y]
        BY <1>3 DEF r
    <2> HIDE DEF y
    <2>6. After(d, u) \in [DOMAIN doc -> SceneAttribute]
        BY <2>1, <2>4, <2>5
    <2>7. DOMAIN After(d, u) = DOMAIN doc /\ IsDoc(After(d, u))
        BY <2>6 DEF IsDoc
    <2>8. ASSUME NEW x \in DOMAIN doc
          PROVE  /\ After(d, u)[x].default = doc[x].default /\ After(d, u)[x].live = doc[x].live
                 /\ After(d, u)[x].filters = doc[x].filters
                 /\ ~ SupportsRelative(doc[x].default) => After(d, u)[x].current.type = doc[x].current.type
        <3>1. After(d, u)[x] = IF x = a THEN y ELSE d[x]
            BY <2>1, <2>5
        <3>2. /\ d[x].default = doc[x].default /\ d[x].live = doc[x].live /\ d[x].filters = doc[x].filters
              /\ ~ SupportsRelative(doc[x].default) => d[x].current.type = doc[x].current.type
            BY DEF Shape
        <3> QED
            BY <2>4, <3>1, <3>2
    <2> QED
        BY <2>7, <2>8 DEF Shape
<1> QED
    BY <1>1, <1>2, <1>3

-----------------------------------------------------------------------------
(* Batches *)

\* Samples typed as Next sends them.
IsBatch(batch) == Len(batch) \in Nat /\ \A k \in 1..Len(batch) : batch[k] \in Samples

\* One step of a run.
LEMMA RunStep ==
    ASSUME NEW doc, NEW batch, IsBatch(batch), NEW d, NEW n, IsRun(d, n, doc, batch), NEW k \in 0..(n - 1)
    PROVE  /\ k \in Nat /\ k + 1 \in 0..n /\ k \in 0..n
           /\ batch[k + 1] \in Samples /\ Accepted(doc, batch[k + 1])
           /\ d[k + 1] = After(d[k], batch[k + 1])
<1>1. n \in 0..Len(batch) /\ Len(batch) \in Nat
    BY DEF IsRun, IsBatch
<1>2. n \in Nat /\ k \in Nat /\ k + 1 \in 1..Len(batch) /\ k + 1 \in 1..n /\ (k + 1) - 1 = k
    BY <1>1
<1>3. d[k + 1] = After(d[(k + 1) - 1], batch[k + 1])
    BY <1>2 DEF IsRun
<1>4. Accepted(doc, batch[k + 1])
    BY <1>2 DEF IsRun
<1>5. batch[k + 1] \in Samples
    BY <1>2 DEF IsBatch
<1> QED
    BY <1>2, <1>3, <1>4, <1>5

\* A batch keeps the shape, sample by sample.
LEMMA RunShape ==
    ASSUME ValueInv, NEW doc, IsDoc(doc), NEW batch, IsBatch(batch), NEW d, NEW n, IsRun(d, n, doc, batch)
    PROVE  n \in Nat /\ \A k \in 0..n : Shape(d[k], doc)
<1> DEFINE T == {k \in 0..n : Shape(d[k], doc)}
<1>1. n \in Nat
    BY DEF IsRun, IsBatch
<1>2. 0 \in T
    <2>1. Shape(doc, doc)
        BY DEF Shape
    <2>2. d[0] = doc
        BY DEF IsRun
    <2> QED
        BY <1>1, <2>1, <2>2
<1>3. ASSUME NEW k \in 0..(n - 1), k \in T PROVE k + 1 \in T
    <2>1. /\ k + 1 \in 0..n /\ batch[k + 1] \in Samples /\ Accepted(doc, batch[k + 1])
          /\ d[k + 1] = After(d[k], batch[k + 1])
        BY RunStep
    <2>2. Shape(d[k], doc)
        BY <1>3
    <2>3. Shape(After(d[k], batch[k + 1]), doc)
        BY <2>1, <2>2, AfterShape
    <2> QED
        BY <2>1, <2>3
<1> HIDE DEF T
<1>4. 0..n \subseteq T
    BY <1>1, <1>2, <1>3, UpTo
<1> QED
    BY <1>1, <1>4 DEF T

\* A batch changes current values only.
LEMMA BatchShape ==
    ASSUME ValueInv, NEW doc, IsDoc(doc), NEW batch, IsBatch(batch)
    PROVE  Shape(AfterBatch(doc, batch), doc)
<1>1. PICK d, n : IsRun(d, n, doc, batch)
    BY RunDef DEF IsBatch
<1>2. n \in Nat /\ \A k \in 0..n : Shape(d[k], doc)
    BY <1>1, RunShape
<1>3. n \in 0..n
    BY <1>2
<1>4. AfterBatch(doc, batch) = d[n]
    BY <1>1 DEF IsRun
<1> QED
    BY <1>2, <1>3, <1>4

\* The sample goes to attribute a of doc and is cut to the mask.
Drives(doc, a, u, mask) ==
    LET b == bindings[Route(u.output)] IN
    Accepted(doc, u) /\ b.attr = a /\ b.mask = mask /\ doc[a].live

\* Attributes that no sample of the batch leads out of.
Keeps(Q, doc, a, batch) ==
    \A y \in SceneAttribute, k \in 1..Len(batch), mask \in Mask \cup {NoMask} :
        /\ y \in Q /\ y.default = doc[a].default /\ y.filters = doc[a].filters
        /\ Drives(doc, a, batch[k], mask) /\ Fits(Target(y), batch[k].value, mask)
        => Moved(y, Resolved(y, batch[k].value, mask)) \in Q

\* What every sample keeps of an attribute, a batch keeps.
LEMMA BatchKeeps ==
    ASSUME ValueInv, NEW doc, IsDoc(doc), NEW batch, IsBatch(batch),
           NEW a \in DOMAIN doc, NEW Q, doc[a] \in Q, Keeps(Q, doc, a, batch)
    PROVE  AfterBatch(doc, batch)[a] \in Q
<1>1. PICK d, n : IsRun(d, n, doc, batch)
    BY RunDef DEF IsBatch
<1>2. n \in Nat /\ \A k \in 0..n : Shape(d[k], doc)
    BY <1>1, RunShape
<1> DEFINE T == {k \in 0..n : d[k][a] \in Q}
<1>3. 0 \in T
    BY <1>1, <1>2 DEF IsRun
<1>4. ASSUME NEW k \in 0..(n - 1), k \in T PROVE k + 1 \in T
    <2> DEFINE u == batch[k + 1]
               e == d[k]
    <2>1. /\ k + 1 \in 0..n /\ k \in 0..n /\ u \in Samples /\ Accepted(doc, u) /\ d[k + 1] = After(e, u)
        BY <1>1, RunStep
    <2>2. Shape(e, doc) /\ e[a] \in Q
        BY <1>2, <1>4, <2>1
    <2>0. k + 1 \in 1..Len(batch)
        BY <1>1, <1>2 DEF IsRun, IsBatch
    <2> HIDE DEF e
    <2>6. ASSUME NEW y \in SceneAttribute, NEW mask \in Mask \cup {NoMask}, y \in Q, y.default = doc[a].default,
                 y.filters = doc[a].filters, Drives(doc, a, u, mask), Fits(Target(y), u.value, mask)
          PROVE  Moved(y, Resolved(y, u.value, mask)) \in Q
        BY <2>0, <2>6 DEF Keeps
    <2> HIDE DEF u
    <2>3. PICK b \in DOMAIN doc, mask \in Mask \cup {NoMask} :
              /\ bindings[Route(u.output)].attr = b /\ bindings[Route(u.output)].mask = mask
              /\ \/ ~ e[b].live /\ After(e, u) = e
                 \/ /\ e[b].live /\ Fits(Target(e[b]), u.value, mask)
                    /\ After(e, u) = [e EXCEPT ![b] = Moved(e[b], Resolved(e[b], u.value, mask))]
        BY <2>1, <2>2, AfterOne
    <2>4. CASE After(e, u) = e
        BY <2>1, <2>2, <2>4
    <2>5. CASE /\ e[b].live /\ Fits(Target(e[b]), u.value, mask)
               /\ After(e, u) = [e EXCEPT ![b] = Moved(e[b], Resolved(e[b], u.value, mask))]
        <3>1. e \in [DOMAIN doc -> SceneAttribute] /\ u.value \in Value
            BY <2>1, <2>2 DEF Shape, IsDoc, Samples
        <3>2. CASE a # b
            BY <2>1, <2>2, <2>5, <3>1, <3>2
        <3>3. CASE a = b
            <4>1. e[a] \in SceneAttribute /\ e[a].default = doc[a].default /\ e[a].filters = doc[a].filters
                BY <2>2, <3>1 DEF Shape
            <4>2. Fits(Target(e[a]), u.value, mask) /\ Drives(doc, a, u, mask)
                BY <2>1, <2>2, <2>3, <2>5, <3>3 DEF Drives, Shape
            <4>3. Moved(e[a], Resolved(e[a], u.value, mask)) \in Q
                BY <2>2, <2>6, <4>1, <4>2
            <4>4. After(e, u)[a] = Moved(e[a], Resolved(e[a], u.value, mask))
                BY <2>5, <3>1, <3>3
            <4> QED
                BY <2>1, <4>3, <4>4
        <3> QED
            BY <3>2, <3>3
    <2> QED
        BY <2>3, <2>4, <2>5
<1> HIDE DEF T
<1>5. 0..n \subseteq T
    BY <1>2, <1>3, <1>4, UpTo
<1>6. n \in T
    BY <1>2, <1>5
<1> QED
    BY <1>1, <1>6 DEF T, IsRun

-----------------------------------------------------------------------------
(* The type invariant *)

\* What a baseline, a reset and a commit do to one attribute.
LEMMA BaselineType ==
    ASSUME NEW x \in SceneAttribute
    PROVE  /\ [x EXCEPT !.current = x.default] \in SceneAttribute
           /\ [x EXCEPT !.current = x.default].default = x.default
           /\ [x EXCEPT !.current = x.default].current = x.default
           /\ [x EXCEPT !.current = x.default].filters = x.filters
           /\ [x EXCEPT !.default = x.current] \in SceneAttribute
           /\ [x EXCEPT !.default = x.current].default = x.current
           /\ [x EXCEPT !.default = x.current].current = x.current
           /\ [x EXCEPT !.default = x.current].filters = x.filters
<1>1. /\ x.default \in Value /\ x.current \in Value
      /\ x.live \in BOOLEAN /\ x.filters \in Seq(Filter)
      /\ x = [default |-> x.default, current |-> x.current, live |-> x.live, filters |-> x.filters]
    BY AttributeAt
<1>2. /\ [x EXCEPT !.current = x.default]
            = [default |-> x.default, current |-> x.default, live |-> x.live, filters |-> x.filters]
      /\ [x EXCEPT !.default = x.current]
            = [default |-> x.current, current |-> x.current, live |-> x.live, filters |-> x.filters]
    BY <1>1
<1> QED
    BY <1>1, <1>2 DEF SceneAttribute

\* The scenes before and after a step that is none of LoadScene, attribute by attribute.
Follows(x, y) ==
    \/ y = x
    \/ y = [x EXCEPT !.current = x.default]
    \/ y = [x EXCEPT !.default = x.current]

\* The scenes after a reset or a commit.
LEMMA BaselineStep ==
    ASSUME ValueInv, NEW s \in DOMAIN scenes,
           \/ ResetSceneToBaseline(s)
           \/ CommitSceneBaseline(s)
           \/ \E a \in DOMAIN scenes[s] : CommitObjectBaseline(s, a[1])
    PROVE  /\ DOMAIN scenes' = DOMAIN scenes
           /\ \A t \in DOMAIN scenes : /\ DOMAIN scenes'[t] = DOMAIN scenes[t]
                                       /\ scenes'[t] = [a \in DOMAIN scenes[t] |-> scenes'[t][a]]
                                       /\ \A a \in DOMAIN scenes[t] : Follows(scenes[t][a], scenes'[t][a])
           /\ UNCHANGED <<mode, active_scene, bindings>>
<1> DEFINE doc == scenes[s]
           Result(new) == /\ scenes' = [scenes EXCEPT ![s] = new]
                          /\ UNCHANGED <<mode, active_scene, bindings>>
<1>1. doc = [a \in DOMAIN doc |-> doc[a]]
    BY DEF ValueInv, IsDoc
<1>2. \E new : /\ Result(new) /\ DOMAIN new = DOMAIN doc /\ new = [a \in DOMAIN doc |-> new[a]]
               /\ \A a \in DOMAIN doc : Follows(doc[a], new[a])
    <2>1. CASE ResetSceneToBaseline(s)
        <3> DEFINE new == [a \in DOMAIN scenes[s] |-> [scenes[s][a] EXCEPT !.current = scenes[s][a].default]]
        <3>1. Result(new)
            BY <2>1 DEF ResetSceneToBaseline
        <3>2. DOMAIN new = DOMAIN doc /\ new = [a \in DOMAIN doc |-> new[a]]
            OBVIOUS
        <3>3. \A a \in DOMAIN doc : Follows(doc[a], new[a])
            BY DEF Follows
        <3> HIDE DEF new, Result
        <3> QED
            BY <3>1, <3>2, <3>3
    <2>2. ASSUME NEW A, Commit(s, A)
          PROVE  \E new : /\ Result(new) /\ DOMAIN new = DOMAIN doc /\ new = [a \in DOMAIN doc |-> new[a]]
                          /\ \A a \in DOMAIN doc : Follows(doc[a], new[a])
        <3> DEFINE new == [a \in DOMAIN scenes[s] |->
                              IF a \in A THEN [scenes[s][a] EXCEPT !.default = scenes[s][a].current]
                              ELSE scenes[s][a]]
        <3>1. Result(new)
            BY <2>2 DEF Commit
        <3>2. DOMAIN new = DOMAIN doc /\ new = [a \in DOMAIN doc |-> new[a]]
            OBVIOUS
        <3>3. \A a \in DOMAIN doc : Follows(doc[a], new[a])
            BY DEF Follows
        <3> HIDE DEF new, Result
        <3> QED
            BY <3>1, <3>2, <3>3
    <2> QED
        BY <2>1, <2>2 DEF CommitSceneBaseline, CommitObjectBaseline
<1>3. PICK new : /\ Result(new) /\ DOMAIN new = DOMAIN doc /\ new = [a \in DOMAIN doc |-> new[a]]
                 /\ \A a \in DOMAIN doc : Follows(doc[a], new[a])
    BY <1>2
<1>4. ASSUME NEW t \in DOMAIN scenes
      PROVE  /\ DOMAIN scenes'[t] = DOMAIN scenes[t]
             /\ scenes'[t] = [a \in DOMAIN scenes[t] |-> scenes'[t][a]]
             /\ \A a \in DOMAIN scenes[t] : Follows(scenes[t][a], scenes'[t][a])
    <2>1. CASE t = s
        <3>1. scenes'[t] = new
            BY <1>3, <2>1
        <3> QED
            BY <1>3, <2>1, <3>1
    <2>2. CASE t # s
        <3>1. scenes'[t] = scenes[t]
            BY <1>3, <2>2
        <3>2. scenes[t] = [a \in DOMAIN scenes[t] |-> scenes[t][a]]
            BY DEF ValueInv, IsDoc
        <3> QED
            BY <3>1, <3>2 DEF Follows
    <2> QED
        BY <2>1, <2>2
<1> QED
    BY <1>3, <1>4

\* A reset or a commit makes one of the two values both.
LEMMA FollowsType ==
    ASSUME NEW x \in SceneAttribute, NEW y, Follows(x, y)
    PROVE  /\ y \in SceneAttribute /\ y.filters = x.filters
           /\ y.default \in {x.default, x.current} /\ y.current \in {x.default, x.current}
BY BaselineType DEF Follows

\* A new runtime has no scene and no mapping.
LEMMA ValueInvInit ==
    ASSUME Init
    PROVE  ValueInv
<1>1. DOMAIN scenes = {} /\ active_scene = NoScene /\ bindings \in Seq(Bindings)
    BY DEF Init
<1> QED
    BY <1>1 DEF ValueInv

\* The scenes after a batch.
LEMMA BatchStep ==
    ASSUME ValueInv, NEW batch \in SeqOf(Sample, MaxBatch), ApplyUpdates(batch)
    PROVE  /\ DOMAIN scenes' = DOMAIN scenes /\ active_scene \in DOMAIN scenes /\ IsBatch(batch)
           /\ IsDoc(scenes[active_scene])
           /\ Shape(scenes'[active_scene], scenes[active_scene])
           /\ scenes'[active_scene] = AfterBatch(scenes[active_scene], batch)
           /\ \A s \in DOMAIN scenes : s # active_scene => scenes'[s] = scenes[s]
<1> DEFINE doc == scenes[active_scene]
           new == AfterBatch(doc, batch)
<1>1. active_scene \in DOMAIN scenes
    BY DEF ApplyUpdates, ValueInv
<1>2. IsBatch(batch)
    BY BatchType DEF IsBatch
<1>3. IsDoc(doc)
    BY <1>1 DEF ValueInv
<1>4. scenes' = [scenes EXCEPT ![active_scene] = new]
    BY DEF ApplyUpdates
<1> HIDE DEF new, doc
<1>5. Shape(new, doc)
    BY <1>2, <1>3, BatchShape DEF new
<1>6. scenes'[active_scene] = new
    BY <1>1, <1>4
<1> QED
    BY <1>1, <1>2, <1>3, <1>4, <1>5, <1>6 DEF new, doc

\* The mappings without one of them.
LEMMA WithoutOne ==
    ASSUME NEW bs \in Seq(Bindings), NEW i \in 1..Len(bs)
    PROVE  /\ RemoveAt(bs, i) \in Seq(Bindings) /\ Len(bs) \in Nat /\ Len(RemoveAt(bs, i)) = Len(bs) - 1
           /\ \A j \in 1..(Len(bs) - 1) : RemoveAt(bs, i)[j] = IF j < i THEN bs[j] ELSE bs[j + 1]
<1> DEFINE n == Len(bs)
           p == SubSeq(bs, 1, i - 1)
           q == SubSeq(bs, i + 1, n)
           r == RemoveAt(bs, i)
<1>1. n \in Nat /\ i \in 1..n
    BY LenProperties
<1>2. r = p \o q
    BY DEF RemoveAt
<1>3. p \in Seq(Bindings) /\ Len(p) = i - 1 /\ \A j \in 1..(i - 1) : p[j] = bs[j]
    BY <1>1
<1>4. q \in Seq(Bindings) /\ Len(q) = n - i /\ \A j \in 1..(n - i) : q[j] = bs[i + j]
    BY <1>1
<1> HIDE DEF n, p, q, r
<1>5. /\ r \in Seq(Bindings) /\ Len(r) = (i - 1) + (n - i)
      /\ \A j \in 1..((i - 1) + (n - i)) : r[j] = IF j <= i - 1 THEN p[j] ELSE q[j - (i - 1)]
    <2>1. /\ p \o q \in Seq(Bindings) /\ Len(p \o q) = Len(p) + Len(q)
          /\ \A j \in 1..(Len(p) + Len(q)) : (p \o q)[j] = IF j <= Len(p) THEN p[j] ELSE q[j - Len(p)]
        BY <1>3, <1>4, ConcatProperties, Zenon
    <2> QED
        BY <1>2, <1>3, <1>4, <2>1, Zenon
<1>6. (i - 1) + (n - i) = n - 1
    BY <1>1
<1>7. ASSUME NEW j \in 1..(n - 1) PROVE r[j] = IF j < i THEN bs[j] ELSE bs[j + 1]
    <2>1. r[j] = IF j <= i - 1 THEN p[j] ELSE q[j - (i - 1)]
        BY <1>5, <1>6
    <2>2. CASE j < i
        <3>1. j \in 1..(i - 1) /\ j <= i - 1
            BY <1>1, <2>2
        <3> QED
            BY <1>3, <2>1, <2>2, <3>1
    <2>3. CASE ~ (j < i)
        <3>1. j - (i - 1) \in 1..(n - i) /\ ~ (j <= i - 1) /\ i + (j - (i - 1)) = j + 1
            BY <1>1, <2>3
        <3>2. q[j - (i - 1)] = bs[i + (j - (i - 1))]
            BY <1>4, <3>1
        <3> QED
            BY <2>1, <2>3, <3>1, <3>2
    <2> QED
        BY <2>2, <2>3
<1> QED
    BY <1>1, <1>5, <1>6, <1>7 DEF n, r

\* The mapping that a new one displaces, if it does, is on the new one's target.
LEMMA KeptMappings ==
    ASSUME ValueInv, NEW s, NEW a, NEW kept \in Kept(s, a)
    PROVE  kept = bindings \/ \E d \in OnTarget(s, a) : d \in 1..Len(bindings) /\ kept = RemoveAt(bindings, d)
<1> DEFINE M == OnTarget(s, a)
<1>1. M \subseteq 1..Len(bindings) /\ M \subseteq Nat
    BY BindingAt DEF OnTarget
<1>2. kept = bindings \/ (M # {} /\ kept = RemoveAt(bindings, Min(M)))
    BY DEF Kept
<1> HIDE DEF M
<1>3. ASSUME M # {} PROVE Min(M) \in M
    <2>1. \E x \in M : \A y \in M : x <= y
        BY <1>1, <1>3, Least
    <2> QED
        BY <2>1 DEF Min
<1>4. kept = bindings \/ \E d \in M : d \in 1..Len(bindings) /\ kept = RemoveAt(bindings, d)
    BY <1>1, <1>2, <1>3
<1> QED
    BY <1>4 DEF M

\* Created and updated mappings are mappings.
LEMMA MappingStep ==
    ASSUME ValueInv, NEW output \in Output, NEW s \in Scene, NEW a \in Attr, NEW mask \in Mask \cup {NoMask}
    PROVE  /\ CreateMapping(output, s, a, mask) => bindings' \in Seq(Bindings)
           /\ \A i \in DOMAIN bindings : UpdateMapping(i, output, s, a, mask) => bindings' \in Seq(Bindings)
<1>1. Binding(output, s, a, mask) \in Bindings
    BY DEF Binding, Bindings
<1>2. bindings \in Seq(Bindings)
    BY DEF ValueInv
<1>3. ASSUME CreateMapping(output, s, a, mask) PROVE bindings' \in Seq(Bindings)
    <2>1. PICK kept \in Kept(s, a) : bindings' = Append(kept, Binding(output, s, a, mask))
        BY <1>3 DEF CreateMapping
    <2>2. kept \in Seq(Bindings)
        BY <1>2, KeptMappings, WithoutOne
    <2> QED
        BY <1>1, <2>1, <2>2, AppendProperties
<1>4. ASSUME NEW i \in DOMAIN bindings, UpdateMapping(i, output, s, a, mask) PROVE bindings' \in Seq(Bindings)
    <2>1. bindings' = [bindings EXCEPT ![i] = Binding(output, s, a, mask)]
        BY <1>4 DEF UpdateMapping
    <2> QED
        BY <1>1, <1>2, <2>1
<1> QED
    BY <1>3, <1>4

\* A mapping that goes leaves the others.
LEMMA DropStep ==
    ASSUME ValueInv, NEW i \in DOMAIN bindings, DropMapping(i)
    PROVE  bindings' \in Seq(Bindings)
<1>1. bindings \in Seq(Bindings) /\ i \in 1..Len(bindings)
    BY BindingAt DEF ValueInv
<1> QED
    BY <1>1, WithoutOne DEF DropMapping

\* Every operation keeps the invariant.
LEMMA ValueInvNext ==
    ASSUME ValueInv, [Next]_vars
    PROVE  ValueInv'
<1> DEFINE Docs == \A s \in DOMAIN scenes : IsDoc(scenes[s])
           Active == active_scene \in DOMAIN scenes \cup {NoScene}
           Mapped == bindings \in Seq(Bindings)
<1>0. Docs /\ Active /\ Mapped
    BY DEF ValueInv
<1>1. ASSUME NEW s \in Scene, NEW doc \in Document, LoadScene(s, doc) PROVE ValueInv'
    <2>1. IsDoc(doc)
        BY ValueConstants DEF IsDoc
    <2>2. DOMAIN scenes' = DOMAIN scenes \cup {s}
        BY <1>1 DEF LoadScene
    <2>3. ASSUME NEW t \in DOMAIN scenes' PROVE IsDoc(scenes'[t])
        <3>1. scenes'[t] = IF t = s THEN doc ELSE scenes[t]
            BY <1>1, <2>2 DEF LoadScene
        <3> QED
            BY <1>0, <2>1, <2>2, <3>1
    <2>4. active_scene' \in DOMAIN scenes' \cup {NoScene} /\ bindings' \in Seq(Bindings)
        BY <1>0, <1>1, <2>2 DEF LoadScene
    <2> QED
        BY <2>3, <2>4 DEF ValueInv, IsDoc
<1>2. ASSUME UNCHANGED scenes, active_scene' \in DOMAIN scenes \cup {NoScene}, bindings' \in Seq(Bindings)
      PROVE  ValueInv'
    BY <1>0, <1>2 DEF ValueInv, IsDoc
<1>3. ASSUME NEW s \in Scene, SetActiveScene(s) PROVE ValueInv'
    <2>1. UNCHANGED scenes /\ active_scene' \in DOMAIN scenes \cup {NoScene} /\ bindings' \in Seq(Bindings)
        BY <1>0, <1>3 DEF SetActiveScene
    <2> QED
        BY <1>2, <2>1
<1>4. ASSUME NEW m, SetMode(m) PROVE ValueInv'
    <2>1. UNCHANGED scenes /\ active_scene' \in DOMAIN scenes \cup {NoScene} /\ bindings' \in Seq(Bindings)
        BY <1>0, <1>4 DEF SetMode
    <2> QED
        BY <1>2, <2>1
<1>5. ASSUME NEW output \in Output, NEW s \in Scene, NEW a \in Attr, NEW mask \in Mask \cup {NoMask},
             \/ CreateMapping(output, s, a, mask)
             \/ \E i \in DOMAIN bindings : UpdateMapping(i, output, s, a, mask)
      PROVE  ValueInv'
    <2>1. bindings' \in Seq(Bindings)
        BY <1>5, MappingStep
    <2>2. UNCHANGED scenes /\ active_scene' \in DOMAIN scenes \cup {NoScene}
        BY <1>0, <1>5 DEF CreateMapping, UpdateMapping
    <2> QED
        BY <1>2, <2>1, <2>2
<1>6. ASSUME NEW i \in DOMAIN bindings, DropMapping(i) PROVE ValueInv'
    <2>1. bindings' \in Seq(Bindings)
        BY <1>6, DropStep
    <2>2. UNCHANGED scenes /\ active_scene' \in DOMAIN scenes \cup {NoScene}
        BY <1>0, <1>6 DEF DropMapping
    <2> QED
        BY <1>2, <2>1, <2>2
<1>7. ASSUME NEW batch \in SeqOf(Sample, MaxBatch), ApplyUpdates(batch) PROVE ValueInv'
    <2>1. DOMAIN scenes' = DOMAIN scenes /\ active_scene' = active_scene /\ bindings' = bindings
        BY <1>7, BatchStep DEF ApplyUpdates
    <2>2. ASSUME NEW s \in DOMAIN scenes PROVE IsDoc(scenes'[s])
        <3>1. CASE s = active_scene
            <4>1. Shape(scenes'[s], scenes[s])
                BY <1>7, <3>1, BatchStep
            <4> QED
                BY <4>1 DEF Shape
        <3>2. CASE s # active_scene
            <4>1. scenes'[s] = scenes[s]
                BY <1>7, <3>2, BatchStep
            <4> QED
                BY <1>0, <4>1
        <3> QED
            BY <3>1, <3>2
    <2> QED
        BY <1>0, <2>1, <2>2 DEF ValueInv, IsDoc
<1>8. ASSUME NEW s \in DOMAIN scenes,
             \/ ResetSceneToBaseline(s)
             \/ CommitSceneBaseline(s)
             \/ \E a \in DOMAIN scenes[s] : CommitObjectBaseline(s, a[1])
      PROVE  ValueInv'
    <2>1. /\ DOMAIN scenes' = DOMAIN scenes
          /\ \A t \in DOMAIN scenes : /\ DOMAIN scenes'[t] = DOMAIN scenes[t]
                                      /\ scenes'[t] = [a \in DOMAIN scenes[t] |-> scenes'[t][a]]
                                      /\ \A a \in DOMAIN scenes[t] : Follows(scenes[t][a], scenes'[t][a])
          /\ UNCHANGED <<mode, active_scene, bindings>>
        BY <1>8, BaselineStep
    <2>2. ASSUME NEW t \in DOMAIN scenes PROVE IsDoc(scenes'[t])
        <3>1. ASSUME NEW a \in DOMAIN scenes[t] PROVE scenes'[t][a] \in SceneAttribute
            <4>1. scenes[t][a] \in SceneAttribute
                BY <1>0 DEF IsDoc
            <4>2. Follows(scenes[t][a], scenes'[t][a])
                BY <2>1
            <4> QED
                BY <4>1, <4>2, FollowsType
        <3>2. scenes'[t] = [a \in DOMAIN scenes[t] |-> scenes'[t][a]] /\ DOMAIN scenes'[t] = DOMAIN scenes[t]
            BY <2>1
        <3> QED
            BY <3>1, <3>2 DEF IsDoc
    <2> QED
        BY <1>0, <2>1, <2>2 DEF ValueInv, IsDoc
<1>9. CASE UNCHANGED vars
    <2>1. UNCHANGED scenes /\ active_scene' \in DOMAIN scenes \cup {NoScene} /\ bindings' \in Seq(Bindings)
        BY <1>0, <1>9 DEF vars
    <2> QED
        BY <1>2, <2>1
<1> QED
    BY <1>1, <1>3, <1>4, <1>5, <1>6, <1>7, <1>8, <1>9 DEF Next

(***************************************************************************)
(* Whatever clients load, map, send and commit, in whatever combination of *)
(* types the two values of an attribute are set: masks, deltas and filters *)
(* leave values of the width of their type, every int32 stays in its       *)
(* range, and motion goes to a scene that is loaded.                       *)
(***************************************************************************)
THEOREM ValueInvHolds == Spec => []ValueInv
<1>1. Init => ValueInv
    BY ValueInvInit
<1>2. ValueInv /\ [Next]_vars => ValueInv'
    BY ValueInvNext
<1> QED
    BY <1>1, <1>2, PTL DEF Spec

-----------------------------------------------------------------------------
(* Routing stays *)

\* A mapping added at the end redirects nothing.
LEMMA AppendKeepsFirst ==
    ASSUME NEW bs \in Seq(Bindings), NEW b \in Bindings, NEW s, NEW output, First(bs, s, output) # 0
    PROVE  /\ First(Append(bs, b), s, output) \in DOMAIN bs
           /\ First(Append(bs, b), s, output) = First(bs, s, output)
           /\ Append(bs, b)[First(bs, s, output)] = bs[First(bs, s, output)]
<1> DEFINE n == Len(bs)
           cs == Append(bs, b)
           M == Matching(bs, s, output)
           N == Matching(cs, s, output)
           f == First(bs, s, output)
           g == First(cs, s, output)
<1>1. n \in Nat /\ DOMAIN bs = 1..n
    BY LenProperties
<1>2. /\ cs \in Seq(Bindings) /\ Len(cs) = n + 1 /\ \A i \in 1..n : cs[i] = bs[i]
    BY AppendProperties
<1>3. DOMAIN cs = 1..(n + 1) /\ Len(cs) \in Nat /\ DOMAIN cs = 1..Len(cs)
    BY <1>2, LenProperties
<1> HIDE DEF cs, n
<1>4. M \subseteq 1..n /\ N \subseteq 1..(n + 1)
    BY <1>1, <1>3 DEF Matching
<1>5. \A i \in 1..n : i \in M <=> i \in N
    <2>1. \A i \in 1..n : i \in 1..(n + 1)
        BY <1>1
    <2> QED
        BY <1>1, <1>2, <1>3, <2>1 DEF Matching
<1>6. f \in M /\ \A i \in M : f <= i
    BY <1>1, FirstDef DEF n
<1>7. f \in N
    BY <1>4, <1>5, <1>6
<1>8. g \in N /\ \A i \in N : g <= i
    BY <1>3, <1>7, FirstDef
<1> HIDE DEF M, N, f, g
<1>9. g <= f /\ f \in 1..n /\ g \in 1..(n + 1)
    BY <1>4, <1>6, <1>7, <1>8
<1>10. g \in 1..n
    BY <1>1, <1>9
<1>11. f <= g
    BY <1>5, <1>6, <1>8, <1>10
<1>12. g = f
    BY <1>1, <1>9, <1>10, <1>11
<1> QED
    BY <1>1, <1>2, <1>9, <1>12 DEF cs, f, g

\* A mapping that goes redirects no output that another one drives.
LEMMA RemoveKeepsFirst ==
    ASSUME NEW bs \in Seq(Bindings), NEW d \in 1..Len(bs), NEW s, NEW output,
           First(bs, s, output) # 0, First(bs, s, output) # d
    PROVE  /\ First(RemoveAt(bs, d), s, output) # 0
           /\ RemoveAt(bs, d)[First(RemoveAt(bs, d), s, output)] = bs[First(bs, s, output)]
<1> DEFINE n == Len(bs)
           cs == RemoveAt(bs, d)
           M == Matching(bs, s, output)
           N == Matching(cs, s, output)
           f == First(bs, s, output)
           g == First(cs, s, output)
           Was(j) == IF j < d THEN j ELSE j + 1
           h == IF f < d THEN f ELSE f - 1
<1>1. n \in Nat /\ DOMAIN bs = 1..n /\ d \in 1..n
    BY LenProperties
<1>2. /\ cs \in Seq(Bindings) /\ Len(cs) = n - 1
      /\ \A j \in 1..(n - 1) : cs[j] = bs[Was(j)]
    BY WithoutOne
<1> HIDE DEF cs, n
<1>3. Len(cs) \in Nat /\ DOMAIN cs = 1..Len(cs) /\ DOMAIN cs = 1..(n - 1)
    BY <1>2, LenProperties
<1>4. f \in M /\ \A i \in M : f <= i
    BY <1>1, FirstDef DEF n
<1>5. M \subseteq 1..n /\ N \subseteq 1..(n - 1)
    BY <1>1, <1>3 DEF Matching
<1>6. \A j \in 1..(n - 1) : Was(j) \in 1..n
    BY <1>1
<1>7. \A j \in 1..(n - 1) : j \in N <=> Was(j) \in M
    <2> HIDE DEF Was
    <2> QED
        BY <1>1, <1>2, <1>3, <1>6 DEF Matching
<1>8. N # {} => g \in N /\ \A i \in N : g <= i
    BY <1>3, FirstDef
<1>9. f # d
    OBVIOUS
<1> HIDE DEF M, N, f, g
<1>10. f \in 1..n
    BY <1>4, <1>5
<1>11. h \in 1..(n - 1) /\ Was(h) = f
    BY <1>1, <1>9, <1>10
<1>12. h \in N
    <2> HIDE DEF h, Was
    <2> QED
        BY <1>4, <1>7, <1>11
<1>13. g \in N /\ g <= h /\ g \in 1..(n - 1)
    <2> HIDE DEF h
    <2> QED
        BY <1>5, <1>8, <1>12
<1>14. Was(g) \in M
    <2> HIDE DEF Was
    <2> QED
        BY <1>7, <1>13
<1>15. f <= Was(g)
    <2> HIDE DEF Was
    <2> QED
        BY <1>4, <1>14
<1>16. g = h
    BY <1>1, <1>9, <1>10, <1>13, <1>15
<1>17. g # 0 /\ cs[g] = bs[f]
    <2>1. g # 0
        BY <1>1, <1>13
    <2>2. cs[g] = bs[Was(g)] /\ Was(g) = f
        <3> HIDE DEF h, Was
        <3> QED
            BY <1>2, <1>11, <1>13, <1>16
    <2> QED
        BY <2>1, <2>2
<1> QED
    BY <1>17 DEF cs, f, g

\* create_mapping takes away at most a mapping on its target and adds one at the end.
LEMMA MappingStealsNothing ==
    ASSUME ValueInv, NEW s \in Scene, NEW a \in Attr, NEW output \in Output, NEW mask \in Mask \cup {NoMask},
           CreateMapping(output, s, a, mask), NEW o, Route(o) # 0, Route(o) \notin OnTarget(s, a)
    PROVE  bindings'[Route(o)'] = bindings[Route(o)]
<1> DEFINE b == Binding(output, s, a, mask)
<1>1. bindings \in Seq(Bindings)
    BY DEF ValueInv
<1>2. PICK kept \in Kept(s, a) : bindings' = Append(kept, b)
    BY DEF CreateMapping
<1>3. active_scene' = active_scene
    BY DEF CreateMapping
<1>4. b \in Bindings
    BY DEF Binding, Bindings
<1>5. Route(o) = First(bindings, active_scene, o)
    BY Zenon DEF Route, First, Matching
<1>6. Route(o)' = First(bindings', active_scene', o)
    BY Zenon DEF Route, First, Matching
<1> HIDE DEF b
<1> DEFINE f == First(bindings, active_scene, o)
           g == First(kept, active_scene, o)
<1>7. kept \in Seq(Bindings) /\ g # 0 /\ kept[g] = bindings[f]
    <2>1. CASE kept = bindings
        BY <1>1, <1>5, <2>1
    <2>2. CASE \E d \in OnTarget(s, a) : d \in 1..Len(bindings) /\ kept = RemoveAt(bindings, d)
        <3>1. PICK d \in OnTarget(s, a) : d \in 1..Len(bindings) /\ kept = RemoveAt(bindings, d)
            BY <2>2
        <3>2. f # 0 /\ f # d
            BY <1>5
        <3>3. First(RemoveAt(bindings, d), active_scene, o) # 0
              /\ RemoveAt(bindings, d)[First(RemoveAt(bindings, d), active_scene, o)] = bindings[f]
            BY <1>1, <3>1, <3>2, RemoveKeepsFirst
        <3>4. RemoveAt(bindings, d) \in Seq(Bindings)
            BY <1>1, <3>1, WithoutOne
        <3> QED
            BY <3>1, <3>3, <3>4
    <2> QED
        BY <2>1, <2>2, KeptMappings
<1>8. First(Append(kept, b), active_scene, o) = g /\ Append(kept, b)[g] = kept[g]
    BY <1>4, <1>7, AppendKeepsFirst
<1> HIDE DEF f, g
<1>9. Route(o)' = g /\ bindings'[g] = bindings[f]
    BY <1>2, <1>3, <1>6, <1>7, <1>8
<1> QED
    BY <1>5, <1>9 DEF f

(***************************************************************************)
(* Whatever mappings there are, and whether or not one is displaced:       *)
(* creating a mapping redirects no output that drives another attribute,   *)
(* since the loop over mappings takes the oldest that matches.             *)
(***************************************************************************)
THEOREM NewMappingStealsNothingHolds == Spec => NewMappingStealsNothing
<1>1. ValueInv =>
        [bindings' # bindings =>
           \A s \in Scene, a \in Attr, output \in Output, mask \in Mask \cup {NoMask} :
              CreateMapping(output, s, a, mask) =>
                 \A o \in Output :
                    Route(o) # 0 /\ Route(o) \notin OnTarget(s, a)
                       => bindings'[Route(o)'] = bindings[Route(o)]]_vars
    BY MappingStealsNothing
<1>2. Spec => []ValueInv
    BY ValueInvHolds
<1> QED
    BY <1>1, <1>2, PTL DEF NewMappingStealsNothing

-----------------------------------------------------------------------------
(* A sample leaves no trace *)

\* A filter that does not remember does not look at the value before the update.
LEMMA ForgetfulFilter ==
    ASSUME NEW p, NEW q, NEW v, NEW f \in Filter, f.kind \notin {"ema", "deadband"}
    PROVE  ApplyFilter(p, v, f) = ApplyFilter(q, v, f)
<1>1. f.kind \in {"passthrough", "clamp"}
    BY FilterKinds
<1>2. CASE ~ Filtered(v) \/ f.kind = "passthrough"
    BY <1>2, FilterCases
<1>3. CASE Filtered(v) /\ f.kind = "clamp"
    BY <1>3, FilterCases
<1> QED
    BY <1>1, <1>2, <1>3

\* A chain without filters that remember does not look at the value before the update.
LEMMA ForgetfulChain ==
    ASSUME NEW p, NEW q, NEW v, NEW chain \in Seq(Filter),
           \A k \in DOMAIN chain : chain[k].kind \notin {"ema", "deadband"}
    PROVE  ApplyFilters(p, v, chain) = ApplyFilters(q, v, chain)
<1>1. Len(chain) \in Nat /\ DOMAIN chain = 1..Len(chain) /\ \A k \in 1..Len(chain) : chain[k] \in Filter
    BY ElementOfSeq, LenProperties
<1>2. PICK x : IsChain(x, p, v, chain)
    BY <1>1, ChainDef
<1>3. PICK y : IsChain(y, q, v, chain)
    BY <1>1, ChainDef
<1> DEFINE T == {k \in 0..Len(chain) : x[k] = y[k]}
<1>4. 0 \in T
    BY <1>1, <1>2, <1>3 DEF IsChain
<1>5. ASSUME NEW k \in 0..(Len(chain) - 1), k \in T PROVE k + 1 \in T
    <2>1. k + 1 \in 1..Len(chain) /\ (k + 1) - 1 = k /\ k + 1 \in 0..Len(chain)
        BY <1>1
    <2>2. x[k + 1] = ApplyFilter(p, x[k], chain[k + 1]) /\ y[k + 1] = ApplyFilter(q, y[k], chain[k + 1])
        BY <1>2, <1>3, <2>1 DEF IsChain
    <2>3. chain[k + 1] \in Filter /\ chain[k + 1].kind \notin {"ema", "deadband"}
        BY <1>1, <2>1
    <2>4. x[k] = y[k]
        BY <1>5
    <2>5. ApplyFilter(p, x[k], chain[k + 1]) = ApplyFilter(q, x[k], chain[k + 1])
        BY <2>3, ForgetfulFilter
    <2> QED
        BY <2>1, <2>2, <2>4, <2>5
<1> HIDE DEF T
<1>6. 0..Len(chain) \subseteq T
    BY <1>1, <1>4, <1>5, UpTo
<1>7. x[Len(chain)] = y[Len(chain)]
    BY <1>1, <1>6 DEF T
<1> QED
    BY <1>2, <1>3, <1>7 DEF IsChain

\* A sample takes attributes that differ in the current value only to the same value.
LEMMA Forgetful ==
    ASSUME NEW x \in SceneAttribute, NEW y \in SceneAttribute, x.default = y.default, x.filters = y.filters,
           ~ Remembers(x), NEW source, NEW mask, SupportsRelative(x.default) \/ mask = NoMask
    PROVE  Resolved(x, source, mask) = Resolved(y, source, mask)
<1>1. x.filters \in Seq(Filter)
    BY AttributeAt
<1>2. \A k \in DOMAIN x.filters : x.filters[k].kind \notin {"ema", "deadband"}
    BY DEF Remembers, Kinds
<1>3. Offered(x, source, mask) = Offered(y, source, mask)
    <2>1. CASE SupportsRelative(x.default)
        BY <2>1 DEF Offered
    <2>2. CASE ~ SupportsRelative(x.default)
        BY <2>2 DEF Offered, MappingTransform, Transformed
    <2> QED
        BY <2>1, <2>2
<1>4. /\ Resolved(x, source, mask) = ApplyFilters(x.current, Offered(x, source, mask), x.filters)
      /\ Resolved(y, source, mask) = ApplyFilters(y.current, Offered(y, source, mask), y.filters)
    BY DEF Resolved, Offered
<1>5. ApplyFilters(x.current, Offered(x, source, mask), x.filters)
        = ApplyFilters(y.current, Offered(x, source, mask), x.filters)
    BY <1>1, <1>2, ForgetfulChain
<1> QED
    BY <1>3, <1>4, <1>5

\* The attribute that an accepted sample goes to.
LEMMA AcceptedAt ==
    ASSUME ValueInv, NEW doc, IsDoc(doc), NEW u \in Sample, Accepted(doc, u)
    PROVE  LET b == bindings[Route(u.output)]
           IN  /\ doc[b.attr] \in SceneAttribute /\ u.value \in Value /\ b.mask \in Mask \cup {NoMask}
               /\ doc[b.attr].live => Fits(Target(doc[b.attr]), u.value, b.mask)
<1> DEFINE i == Route(u.output)
           b == bindings[i]
<1>1. i # 0 /\ b.attr \in DOMAIN doc /\ (doc[b.attr].live => Fits(Target(doc[b.attr]), u.value, b.mask))
    BY DEF Accepted
<1>2. b.mask \in Mask \cup {NoMask}
    <2>1. i \in 1..Len(bindings)
        BY <1>1, RouteDef, BindingAt
    <2> QED
        BY <2>1, BindingAt DEF Bindings
<1>3. u.value \in Value
    BY ValueConstants
<1>4. doc[b.attr] \in SceneAttribute
    BY <1>1 DEF IsDoc
<1> QED
    BY <1>1, <1>2, <1>3, <1>4

(***************************************************************************)
(* For filter chains of any length: where no filter remembers, a sample    *)
(* takes an attribute to the same value as right after a reset, whatever   *)
(* samples were lost or came in another order before it; and a reset makes *)
(* no sample unacceptable to an attribute that is driven by deltas.        *)
(***************************************************************************)
THEOREM LossLeavesNoTraceHolds == Spec => []LossLeavesNoTrace
<1>1. ValueInv => LossLeavesNoTrace
    <2> SUFFICES ASSUME ValueInv, active_scene # NoScene, NEW u \in Sample,
                        Accepted(scenes[active_scene], u)
                 PROVE  LET b == bindings[Route(u.output)]
                            attr == scenes[active_scene][b.attr]
                            reset == [attr EXCEPT !.current = attr.default]
                            fits == Fits(Target(reset), u.value, b.mask)
                        IN  /\ attr.live /\ Anchored(attr) => fits
                            /\ fits /\ ~ Remembers(attr) =>
                                  Resolved(attr, u.value, b.mask) = Resolved(reset, u.value, b.mask)
        BY DEF LossLeavesNoTrace
    <2> DEFINE doc == scenes[active_scene]
               b == bindings[Route(u.output)]
               x == doc[b.attr]
               y == [x EXCEPT !.current = x.default]
    <2>1. IsDoc(doc)
        BY DEF ValueInv
    <2>2. x \in SceneAttribute /\ (x.live => Fits(Target(x), u.value, b.mask))
        BY <2>1, AcceptedAt
    <2> HIDE DEF doc, b, x
    <2>3. y \in SceneAttribute /\ y.default = x.default /\ y.current = x.default /\ y.filters = x.filters
        BY <2>2, BaselineType
    <2> HIDE DEF y
    <2>4. Target(y) = x.default
        BY <2>3 DEF Target
    <2>5. ASSUME x.live, Anchored(x) PROVE Fits(Target(y), u.value, b.mask)
        <3>1. Target(x).type = Target(y).type
            BY <2>4, <2>5 DEF Target, Anchored
        <3> QED
            BY <2>2, <2>5, <3>1, FitsByType
    <2>6. ASSUME Fits(Target(y), u.value, b.mask), ~ Remembers(x)
          PROVE  Resolved(x, u.value, b.mask) = Resolved(y, u.value, b.mask)
        <3>1. SupportsRelative(x.default) \/ b.mask = NoMask
            BY <2>4, <2>6, PlainFits
        <3> QED
            BY <2>2, <2>3, <2>6, <3>1, Forgetful
    <2> QED
        BY <2>5, <2>6 DEF doc, b, x, y
<1> QED
    BY <1>1, ValueInvHolds, PTL

\* A sum that saturates lies on the side of the delta.
LEMMA SaturateKeepsDirection ==
    ASSUME NEW n \in IntMin..IntMax, NEW delta \in Int
    PROVE  LET moved == Saturate(n + delta) - n IN (delta >= 0 <=> moved >= 0) \/ moved = 0
<1>1. n \in Int /\ IntMin <= n /\ n <= IntMax /\ IntMin \in Int /\ IntMax \in Int
    BY IntRange
<1> QED
    BY <1>1 DEF Saturate

(***************************************************************************)
(* For every i32 range and every delta: the saturating addition of a       *)
(* sample to an int32 baseline never moves the attribute the wrong way.    *)
(***************************************************************************)
THEOREM DirectionKeptHolds == Spec => []DirectionKept
<1>1. ValueInv => DirectionKept
    <2> SUFFICES ASSUME ValueInv, active_scene # NoScene, NEW u \in Sample,
                        Accepted(scenes[active_scene], u),
                        scenes[active_scene][bindings[Route(u.output)].attr].live,
                        scenes[active_scene][bindings[Route(u.output)].attr].default.type = "int32"
                 PROVE  LET b == bindings[Route(u.output)]
                            attr == scenes[active_scene][b.attr]
                            delta == MappingDeltaTransform(attr.default, u.value, b.mask).comps[1]
                            moved == Resolved(attr, u.value, b.mask).comps[1] - attr.default.comps[1]
                        IN  (delta >= 0 <=> moved >= 0) \/ moved = 0
        BY DEF DirectionKept
    <2> DEFINE doc == scenes[active_scene]
               b == bindings[Route(u.output)]
               x == doc[b.attr]
               d == MappingDeltaTransform(x.default, u.value, b.mask)
    <2>1. IsDoc(doc)
        BY DEF ValueInv
    <2>3. x.default.type = "int32"
        OBVIOUS
    <2>0. /\ x \in SceneAttribute /\ u.value \in Value /\ b.mask \in Mask \cup {NoMask}
          /\ Fits(Target(x), u.value, b.mask)
        BY <2>1, AcceptedAt
    <2> HIDE DEF doc, b, x
    <2>2. /\ x \in SceneAttribute /\ u.value \in Value /\ b.mask \in Mask \cup {NoMask}
          /\ Target(x) = x.default /\ Fits(x.default, u.value, b.mask)
        BY <2>0, <2>3 DEF Target, SupportsRelative
    <2>4. x.default \in Value
        BY <2>2, AttributeAt
    <2>5. Like(d, x.default)
        BY <2>2, <2>4, DeltaType
    <2> HIDE DEF d
    <2>6. d.comps[1] \in Int
        <3>1. d \in Value /\ d.type = "int32"
            BY <2>3, <2>5 DEF Like
        <3>2. d.comps[1] \in IntMin..IntMax
            BY <3>1, ValueAt
        <3> QED
            BY <3>2, IntRange
    <2>7. x.default.comps[1] \in IntMin..IntMax
        BY <2>3, <2>4, ValueAt
    <2>8. Resolved(x, u.value, b.mask) = Offered(x, u.value, b.mask)
        BY <2>2, <2>3, ResolvedType DEF Filtered
    <2>9. Offered(x, u.value, b.mask) = ComposeRelativeValue(x.default, d)
        BY <2>3 DEF Offered, SupportsRelative, d
    <2>10. ComposeRelativeValue(x.default, d).comps[1] = Saturate(x.default.comps[1] + d.comps[1])
        <3>1. x.default = [type |-> "int32", comps |-> x.default.comps]
            BY <2>3, <2>4 DEF Value
        <3>2. ComposeRelativeValue(x.default, d)
                = [x.default EXCEPT !.comps = <<ComposeInt(x.default.comps[1], d.comps[1])>>]
            BY <2>3 DEF ComposeRelativeValue
        <3>3. ComposeRelativeValue(x.default, d).comps = <<ComposeInt(x.default.comps[1], d.comps[1])>>
            BY <3>1, <3>2
        <3> QED
            BY <3>3 DEF ComposeInt
    <2> DEFINE n == x.default.comps[1]
               k == d.comps[1]
    <2>11. n \in IntMin..IntMax /\ k \in Int
        BY <2>6, <2>7
    <2>12. Resolved(x, u.value, b.mask).comps[1] = Saturate(n + k)
        BY <2>8, <2>9, <2>10
    <2> HIDE DEF n, k
    <2>13. (k >= 0 <=> Saturate(n + k) - n >= 0) \/ Saturate(n + k) - n = 0
        BY <2>11, SaturateKeepsDirection
    <2> QED
        BY <2>12, <2>13 DEF doc, b, x, d, n, k
<1> QED
    BY <1>1, ValueInvHolds, PTL

-----------------------------------------------------------------------------
(* What a step does to an attribute *)

\* A step other than loading the scene anew resets or commits the attribute, or sends it a batch.
LEMMA AttributeStep ==
    ASSUME ValueInv, [Next]_vars, NEW s \in DOMAIN scenes, NEW a \in DOMAIN scenes[s],
           ~ \E doc \in Document : LoadScene(s, doc)
    PROVE  \/ Follows(scenes[s][a], scenes'[s][a])
           \/ \E batch \in SeqOf(Sample, MaxBatch) :
                 /\ ApplyUpdates(batch) /\ IsBatch(batch) /\ IsDoc(scenes[s])
                 /\ scenes'[s] = AfterBatch(scenes[s], batch)
<1>1. ASSUME scenes'[s] = scenes[s] PROVE Follows(scenes[s][a], scenes'[s][a])
    BY <1>1 DEF Follows
<1>2. ASSUME NEW t \in Scene, NEW doc \in Document, LoadScene(t, doc) PROVE scenes'[s] = scenes[s]
    <2>1. s # t
        BY <1>2
    <2>2. s \in DOMAIN scenes \cup {t}
        OBVIOUS
    <2> QED
        BY <1>2, <2>1, <2>2 DEF LoadScene
<1>3. ASSUME NEW batch \in SeqOf(Sample, MaxBatch), ApplyUpdates(batch)
      PROVE  \/ scenes'[s] = scenes[s]
             \/ IsBatch(batch) /\ IsDoc(scenes[s]) /\ scenes'[s] = AfterBatch(scenes[s], batch)
    BY <1>3, BatchStep
<1>4. ASSUME NEW t \in DOMAIN scenes,
             \/ ResetSceneToBaseline(t)
             \/ CommitSceneBaseline(t)
             \/ \E c \in DOMAIN scenes[t] : CommitObjectBaseline(t, c[1])
      PROVE  Follows(scenes[s][a], scenes'[s][a])
    BY <1>4, BaselineStep
<1>5. CASE UNCHANGED scenes
    BY <1>1, <1>5
<1> QED
    BY <1>1, <1>2, <1>3, <1>4, <1>5 DEF Next, vars, SetActiveScene, SetMode, CreateMapping, UpdateMapping, DropMapping

-----------------------------------------------------------------------------
(* Rotations stay rotations *)

\* Samples whose norm does not overflow leave a rotation with a direction.
LEMMA RotationBatch ==
    ASSUME ValueInv, NEW doc, IsDoc(doc), NEW batch, IsBatch(batch), ~ SomeOverflows(doc, batch),
           NEW a \in DOMAIN doc, SupportsRelative(doc[a].default), ~ Degenerate(doc[a].default),
           ~ Degenerate(doc[a].current)
    PROVE  ~ Degenerate(AfterBatch(doc, batch)[a].current)
<1> DEFINE Q == {z \in SceneAttribute : ~ Degenerate(z.current)}
<1>1. doc[a] \in Q
    BY DEF IsDoc
<1>2. ASSUME NEW z \in SceneAttribute, NEW k \in 1..Len(batch), NEW mask \in Mask \cup {NoMask},
             z \in Q, z.default = doc[a].default, z.filters = doc[a].filters,
             Drives(doc, a, batch[k], mask), Fits(Target(z), batch[k].value, mask)
      PROVE  Moved(z, Resolved(z, batch[k].value, mask)) \in Q
    <2> DEFINE u == batch[k]
               r == Resolved(z, u.value, mask)
    <2>1. u \in Samples /\ u.value \in Value
        BY DEF IsBatch, Samples
    <2>2. ~ Overflows(z, u.value, mask)
        <3>1. SUFFICES ASSUME Overflows(z, u.value, mask) PROVE FALSE
            OBVIOUS
        <3>2. k \in DOMAIN batch
            BY DEF IsBatch
        <3> QED
            BY <1>2, <3>1, <3>2 DEF SomeOverflows, Overflows, Drives
    <2> HIDE DEF u
    <2>3. Like(r, Target(z)) /\ ~ Degenerate(r)
        BY <1>2, <2>1, <2>2, ResolvedType DEF u
    <2> HIDE DEF r
    <2>4. Moved(z, r) \in SceneAttribute /\ Moved(z, r).current = r
        BY <2>3, MovedType DEF Like
    <2>5. Moved(z, r) \in Q
        BY <2>3, <2>4
    <2> QED
        BY <2>5 DEF r, u
<1>3. Keeps(Q, doc, a, batch)
    BY <1>2 DEF Keeps
<1> HIDE DEF Q
<1>4. AfterBatch(doc, batch)[a] \in Q
    BY <1>1, <1>3, BatchKeeps
<1> QED
    BY <1>4 DEF Q

\* No operation but a sample whose norm overflows takes the direction from a rotation.
LEMMA RotationStep ==
    ASSUME ValueInv, [Next]_vars, NEW s \in DOMAIN scenes, NEW a \in DOMAIN scenes[s],
           ~ \E doc \in Document : LoadScene(s, doc),
           SupportsRelative(scenes[s][a].default), ~ Degenerate(scenes[s][a].default)
    PROVE  /\ Degenerate(scenes'[s][a].default) => Degenerate(scenes[s][a].current)
           /\ Degenerate(scenes'[s][a].current) =>
                 \/ Degenerate(scenes[s][a].current)
                 \/ \E batch \in SeqOf(Sample, MaxBatch) :
                       ApplyUpdates(batch) /\ SomeOverflows(scenes[s], batch)
<1> DEFINE x == scenes[s][a]
           y == scenes'[s][a]
<1>1. IsDoc(scenes[s]) /\ x \in SceneAttribute
    BY DEF ValueInv, IsDoc
<1>2. CASE Follows(x, y)
    <2>1. y.default \in {x.default, x.current} /\ y.current \in {x.default, x.current}
        BY <1>1, <1>2, FollowsType
    <2> QED
        BY <2>1
<1>3. ASSUME NEW batch \in SeqOf(Sample, MaxBatch), ApplyUpdates(batch), IsBatch(batch),
             scenes'[s] = AfterBatch(scenes[s], batch)
      PROVE  /\ y.default = x.default
             /\ Degenerate(y.current) => Degenerate(x.current) \/ SomeOverflows(scenes[s], batch)
    <2>1. Shape(AfterBatch(scenes[s], batch), scenes[s])
        BY <1>1, <1>3, BatchShape
    <2>2. y.default = x.default
        BY <1>3, <2>1 DEF Shape
    <2> QED
        BY <1>1, <1>3, <2>2, RotationBatch
<1> QED
    BY <1>2, <1>3, AttributeStep

(***************************************************************************)
(* For every quaternion and every batch: no sample, the all-zero one       *)
(* included, no reset and no commit takes the direction from a rotation,   *)
(* unless the norm of a product in the batch overflows; and the baseline   *)
(* loses its direction only to a commit of such a value.                   *)
(***************************************************************************)
THEOREM RotationsStayProperHolds == Spec => RotationsStayProper
<1>1. ValueInv /\ [Next]_vars =>
        [\A s \in DOMAIN scenes : \A a \in DOMAIN scenes[s] :
           LET attr == scenes[s][a]
               next == scenes'[s][a]
           IN  /\ a \in DOMAIN scenes'[s] /\ ~ \E doc \in Document : LoadScene(s, doc)
               /\ SupportsRelative(attr.default) /\ ~ Degenerate(attr.default)
               => /\ Degenerate(next.default) => Degenerate(attr.current)
                  /\ Degenerate(next.current) =>
                        \/ Degenerate(attr.current)
                        \/ \E batch \in SeqOf(Sample, MaxBatch) :
                              ApplyUpdates(batch) /\ SomeOverflows(scenes[s], batch)]_vars
    BY RotationStep
<1> QED
    BY <1>1, ValueInvHolds, PTL DEF Spec, RotationsStayProper

-----------------------------------------------------------------------------
(* A clamp confines *)

\* Behind the last clamp, the chain stays in its range if the value before the update is in it
\* or is of another type.
LEMMA ChainConfines ==
    ASSUME NEW p \in Value, NEW v \in Value, Filtered(v), NEW chain \in Seq(Filter),
           NEW n \in DOMAIN chain, IsLastClamp(chain, n),
           p.type = v.type => Within(p, ClampLow(chain[n]), ClampHigh(chain[n]))
    PROVE  Within(ApplyFilters(p, v, chain), ClampLow(chain[n]), ClampHigh(chain[n]))
<1> DEFINE lo == ClampLow(chain[n])
           hi == ClampHigh(chain[n])
<1>1. Len(chain) \in Nat /\ DOMAIN chain = 1..Len(chain) /\ \A k \in 1..Len(chain) : chain[k] \in Filter
    BY ElementOfSeq, LenProperties
<1>2. PICK x : IsChain(x, p, v, chain)
    BY <1>1, ChainDef
<1>3. chain[n].kind = "clamp" /\ chain[n] \in Filter /\ lo \in Int /\ hi \in Int
    BY <1>1, ClampRange DEF IsLastClamp
<1>4. \A k \in 1..Len(chain) : k > n => chain[k].kind # "clamp"
    BY <1>1 DEF IsLastClamp
<1> HIDE DEF lo, hi
<1> DEFINE T == {k \in 0..Len(chain) : Like(x[k], v) /\ (k >= n => Within(x[k], lo, hi))}
<1>5. 0 \in T
    <2>1. x[0] = v /\ Like(v, v) /\ ~ (0 >= n) /\ 0 \in 0..Len(chain)
        BY <1>1, <1>2 DEF IsChain, Like
    <2> QED
        BY <2>1
<1>6. ASSUME NEW k \in 0..(Len(chain) - 1), k \in T PROVE k + 1 \in T
    <2>1. k + 1 \in 1..Len(chain) /\ (k + 1) - 1 = k /\ k + 1 \in 0..Len(chain)
        BY <1>1
    <2> DEFINE f == chain[k + 1]
               z == x[k]
    <2>2. x[k + 1] = ApplyFilter(p, z, f) /\ f \in Filter
        BY <1>1, <1>2, <2>1 DEF IsChain
    <2>3. z \in Value /\ z.type = v.type /\ (k >= n => Within(z, lo, hi))
        BY <1>6 DEF Like
    <2>4. k + 1 = n => f = chain[n]
        OBVIOUS
    <2>5. k + 1 > n => f.kind # "clamp"
        BY <1>4, <2>1
    <2> HIDE DEF f, z
    <2>6. Filtered(z)
        BY <2>3 DEF Filtered
    <2>7. Like(ApplyFilter(p, z, f), z)
        BY <2>2, <2>3, <2>6, FilterType
    <2>8. CASE k + 1 < n
        BY <1>1, <2>1, <2>2, <2>3, <2>7, <2>8 DEF Like
    <2>9. CASE k + 1 = n
        <3>1. Within(ApplyFilter(p, z, f), ClampLow(f), ClampHigh(f))
            BY <1>3, <2>2, <2>3, <2>4, <2>6, <2>9, FilterType
        <3>2. Within(x[k + 1], lo, hi)
            BY <2>2, <2>4, <2>9, <3>1 DEF lo, hi
        <3> QED
            BY <2>1, <2>2, <2>3, <2>7, <3>2 DEF Like
    <2>10. CASE k + 1 > n
        <3>1. Within(z, lo, hi)
            BY <1>1, <2>3, <2>10
        <3>2. p.type = z.type => Within(p, lo, hi)
            BY <2>3 DEF lo, hi
        <3>3. f.kind # "clamp"
            BY <2>5, <2>10
        <3>4. Within(ApplyFilter(p, z, f), lo, hi)
            BY <1>3, <2>2, <2>3, <2>6, <3>1, <3>2, <3>3, FilterType
        <3> QED
            BY <2>1, <2>2, <2>3, <2>7, <3>4 DEF Like
    <2> QED
        BY <1>1, <2>8, <2>9, <2>10
<1> HIDE DEF T
<1>7. 0..Len(chain) \subseteq T
    BY <1>1, <1>5, <1>6, UpTo
<1>8. Len(chain) \in 0..Len(chain) /\ Len(chain) >= n
    BY <1>1
<1>9. Within(x[Len(chain)], lo, hi)
    BY <1>7, <1>8 DEF T
<1> QED
    BY <1>2, <1>9 DEF IsChain, lo, hi

\* A sample leaves a current value that is in the range of the last clamp in it.
LEMMA SampleConfined ==
    ASSUME NEW x \in SceneAttribute, NEW source \in Value, NEW mask \in Mask \cup {NoMask},
           Fits(Target(x), source, mask), InLastClamp(x.current, x.filters)
    PROVE  InLastClamp(Resolved(x, source, mask), x.filters)
<1> DEFINE v == Offered(x, source, mask)
           r == Resolved(x, source, mask)
           p == x.current
           chain == x.filters
<1>1. Like(v, Target(x))
    BY OfferedType
<1>2. Like(r, Target(x)) /\ r = ApplyFilters(p, v, chain)
    BY ResolvedType
<1>3. p \in Value /\ chain \in Seq(Filter)
    BY AttributeAt
<1> HIDE DEF v, r
<1> SUFFICES ASSUME Filtered(r), NEW n \in DOMAIN chain, IsLastClamp(chain, n)
             PROVE  Within(r, ClampLow(chain[n]), ClampHigh(chain[n]))
    BY DEF InLastClamp, Within, r
<1>4. v \in Value /\ Filtered(v) /\ (p.type = v.type => Filtered(p))
    BY <1>1, <1>2, <1>3 DEF Like, Filtered
<1>5. p.type = v.type => Within(p, ClampLow(chain[n]), ClampHigh(chain[n]))
    BY <1>4 DEF InLastClamp, Within
<1> HIDE DEF p, chain
<1>6. Within(ApplyFilters(p, v, chain), ClampLow(chain[n]), ClampHigh(chain[n]))
    BY <1>3, <1>4, <1>5, ChainConfines
<1> QED
    BY <1>2, <1>6

\* No operation leads out of the range of the last clamp.
LEMMA ClampStep ==
    ASSUME ValueInv, [Next]_vars, NEW s \in DOMAIN scenes, NEW a \in DOMAIN scenes[s],
           ~ \E doc \in Document : LoadScene(s, doc),
           InLastClamp(scenes[s][a].default, scenes[s][a].filters),
           InLastClamp(scenes[s][a].current, scenes[s][a].filters)
    PROVE  /\ InLastClamp(scenes'[s][a].default, scenes'[s][a].filters)
           /\ InLastClamp(scenes'[s][a].current, scenes'[s][a].filters)
<1> DEFINE x == scenes[s][a]
           y == scenes'[s][a]
<1>1. IsDoc(scenes[s]) /\ x \in SceneAttribute
    BY DEF ValueInv, IsDoc
<1>2. CASE Follows(x, y)
    <2>1. y.default \in {x.default, x.current} /\ y.current \in {x.default, x.current} /\ y.filters = x.filters
        BY <1>1, <1>2, FollowsType
    <2> QED
        BY <2>1
<1>3. ASSUME NEW batch, IsBatch(batch), scenes'[s] = AfterBatch(scenes[s], batch)
      PROVE  InLastClamp(y.default, y.filters) /\ InLastClamp(y.current, y.filters)
    <2> DEFINE Q == {z \in SceneAttribute : InLastClamp(z.default, z.filters) /\ InLastClamp(z.current, z.filters)}
    <2>1. x \in Q
        BY <1>1
    <2>2. ASSUME NEW z \in SceneAttribute, NEW source \in Value, NEW mask \in Mask \cup {NoMask},
                 z \in Q, Fits(Target(z), source, mask)
          PROVE  Moved(z, Resolved(z, source, mask)) \in Q
        <3> DEFINE r == Resolved(z, source, mask)
        <3>0. InLastClamp(z.current, z.filters) /\ InLastClamp(z.default, z.filters)
            BY <2>2
        <3>1. r \in Value /\ InLastClamp(r, z.filters)
            BY <2>2, <3>0, ResolvedType, SampleConfined DEF Like
        <3> HIDE DEF r
        <3>2. /\ Moved(z, r) \in SceneAttribute /\ Moved(z, r).default = z.default
              /\ Moved(z, r).current = r /\ Moved(z, r).filters = z.filters
            BY <3>1, MovedType
        <3>3. Moved(z, r) \in Q
            BY <3>0, <3>1, <3>2
        <3> QED
            BY <3>3 DEF r
    <2> HIDE DEF Q
    <2>3. Keeps(Q, scenes[s], a, batch)
        BY <1>3, <2>2 DEF Keeps, IsBatch, Samples
    <2>4. y \in Q
        BY <1>1, <1>3, <2>1, <2>3, BatchKeeps
    <2> QED
        BY <2>4 DEF Q
<1> QED
    BY <1>2, <1>3, AttributeStep

(***************************************************************************)
(* For filter chains of any length and any values: once an attribute is in *)
(* the range of its last clamp, no filter behind it, sample, reset or      *)
(* commit brings it out again.                                             *)
(***************************************************************************)
THEOREM ClampConfinesHolds == Spec => ClampConfines
<1>1. ValueInv /\ [Next]_vars =>
        [\A s \in DOMAIN scenes : \A a \in DOMAIN scenes[s] :
           LET attr == scenes[s][a]
               next == scenes'[s][a]
           IN  /\ a \in DOMAIN scenes'[s] /\ ~ \E doc \in Document : LoadScene(s, doc)
               /\ InLastClamp(attr.default, attr.filters)
               /\ InLastClamp(attr.current, attr.filters)
               => InLastClamp(next.default, next.filters) /\ InLastClamp(next.current, next.filters)]_vars
    BY ClampStep
<1> QED
    BY <1>1, ValueInvHolds, PTL DEF Spec, ClampConfines

-----------------------------------------------------------------------------
(* A repeated batch where no filter remembers *)

\* Whether an attribute remembers is a matter of its filters.
LEMMA ShapeRemembers ==
    ASSUME NEW x, NEW y, x.filters = y.filters
    PROVE  Remembers(x) <=> Remembers(y)
BY DEF Remembers, Kinds

\* The runs of a batch over documents of one shape accept the same samples.
LEMMA SameLength ==
    ASSUME NEW doc, NEW once, Shape(once, doc), NEW batch, IsBatch(batch),
           NEW d, NEW n, IsRun(d, n, doc, batch), NEW e, NEW m, IsRun(e, m, once, batch)
    PROVE  m = n
<1>1. n \in 0..Len(batch) /\ m \in 0..Len(batch) /\ Len(batch) \in Nat
    BY DEF IsRun, IsBatch
<1>2. \A u : Accepted(once, u) <=> Accepted(doc, u)
    BY AcceptedShape
<1>3. ~ (n < m)
    <2> SUFFICES ASSUME n < m PROVE FALSE
        OBVIOUS
    <2>1. n + 1 \in 1..m /\ n < Len(batch)
        BY <1>1
    <2>2. Accepted(once, batch[n + 1]) /\ ~ Accepted(doc, batch[n + 1])
        BY <2>1 DEF IsRun
    <2> QED
        BY <1>2, <2>2
<1>4. ~ (m < n)
    <2> SUFFICES ASSUME m < n PROVE FALSE
        OBVIOUS
    <2>1. m + 1 \in 1..n /\ m < Len(batch)
        BY <1>1
    <2>2. Accepted(doc, batch[m + 1]) /\ ~ Accepted(once, batch[m + 1])
        BY <2>1 DEF IsRun
    <2> QED
        BY <1>2, <2>2
<1> QED
    BY <1>1, <1>3, <1>4

\* A sample takes an attribute that does not remember to the same value in documents of one shape.
LEMMA SampleMeets ==
    ASSUME ValueInv, NEW doc, IsDoc(doc), \A a \in DOMAIN doc : ~ Remembers(doc[a]) /\ Anchored(doc[a]),
           NEW d, Shape(d, doc), NEW e, Shape(e, doc), NEW u \in Samples, Accepted(doc, u), NEW a \in DOMAIN doc
    PROVE  \/ After(e, u)[a] = After(d, u)[a]
           \/ After(d, u)[a] = d[a] /\ After(e, u)[a] = e[a]
<1> DEFINE b == bindings[Route(u.output)].attr
           mask == bindings[Route(u.output)].mask
           One(f) == /\ b \in DOMAIN doc /\ mask \in Mask \cup {NoMask}
                     /\ \/ ~ f[b].live /\ After(f, u) = f
                        \/ /\ f[b].live /\ Fits(Target(f[b]), u.value, mask)
                           /\ After(f, u) = [f EXCEPT ![b] = Moved(f[b], Resolved(f[b], u.value, mask))]
<1>1. One(d) /\ One(e)
    BY AfterOne
<1> HIDE DEF b, mask
<1>2. d \in [DOMAIN doc -> SceneAttribute] /\ e \in [DOMAIN doc -> SceneAttribute]
    BY DEF Shape, IsDoc
<1>3. /\ d[b] \in SceneAttribute /\ e[b] \in SceneAttribute /\ d[b].default = e[b].default
      /\ d[b].live = e[b].live /\ d[b].filters = e[b].filters /\ d[b].filters = doc[b].filters
    BY <1>1, <1>2 DEF Shape
<1>4. CASE ~ d[b].live
    BY <1>1, <1>3, <1>4
<1>5. CASE d[b].live
    <2> DEFINE x == d[b]
               y == e[b]
               r == Resolved(x, u.value, mask)
    <2>1. ~ Remembers(x)
        BY <1>1, <1>3, ShapeRemembers
    <2>2. Resolved(y, u.value, mask) = r
        <3>1. x \in SceneAttribute /\ y \in SceneAttribute /\ x.default = y.default /\ x.filters = y.filters
            BY <1>3
        <3>3. SupportsRelative(x.default) \/ mask = NoMask
            <4>1. ~ SupportsRelative(x.default) => ~ SupportsRelative(Target(x))
                BY <1>1 DEF Shape, Anchored, Target, SupportsRelative
            <4>2. Fits(Target(x), u.value, mask)
                BY <1>1, <1>5
            <4> HIDE DEF x
            <4> QED
                BY <4>1, <4>2, PlainFits
        <3> HIDE DEF x, y
        <3>2. Resolved(x, u.value, mask) = Resolved(y, u.value, mask)
            BY <2>1, <3>1, <3>3, Forgetful
        <3> QED
            BY <3>2
    <2>3. After(d, u) = [d EXCEPT ![b] = Moved(x, r)] /\ After(e, u) = [e EXCEPT ![b] = Moved(y, r)]
        BY <1>1, <1>3, <1>5, <2>2
    <2> HIDE DEF r
    <2>4. Moved(x, r) = Moved(y, r)
        BY <1>3, MovedEqual
    <2>5. CASE a = b
        BY <1>2, <2>3, <2>4, <2>5
    <2>6. CASE a # b
        BY <1>2, <2>3, <2>6
    <2> QED
        BY <2>5, <2>6
<1> QED
    BY <1>4, <1>5

\* A batch that is sent again moves nothing where no filter remembers.
LEMMA RepeatedBatch ==
    ASSUME ValueInv, NEW doc, IsDoc(doc), \A a \in DOMAIN doc : ~ Remembers(doc[a]) /\ Anchored(doc[a]),
           NEW batch, IsBatch(batch)
    PROVE  AfterBatch(AfterBatch(doc, batch), batch) = AfterBatch(doc, batch)
<1> DEFINE once == AfterBatch(doc, batch)
<1>1. Shape(once, doc) /\ IsDoc(once)
    BY BatchShape DEF Shape
<1>2. PICK d, n : IsRun(d, n, doc, batch)
    BY RunDef DEF IsBatch
<1>3. d[0] = doc /\ once = d[n]
    BY <1>2 DEF IsRun
<1> HIDE DEF once
<1>4. PICK e, m : IsRun(e, m, once, batch)
    BY RunDef DEF IsBatch
<1>5. m = n
    BY <1>1, <1>2, <1>4, SameLength
<1>6. e[0] = once /\ AfterBatch(once, batch) = e[n]
    BY <1>4, <1>5 DEF IsRun
<1>7. n \in Nat /\ \A k \in 0..n : Shape(d[k], doc)
    BY <1>2, RunShape
<1>8. \A k \in 0..n : Shape(e[k], once)
    BY <1>1, <1>4, <1>5, RunShape
<1>9. \A k \in 0..n : Shape(e[k], doc)
    BY <1>1, <1>8 DEF Shape
<1> DEFINE T == {k \in 0..n : \A a \in DOMAIN doc : e[k][a] = d[k][a] \/ e[k][a] = once[a]}
<1>10. 0 \in T
    BY <1>6, <1>7
<1>11. ASSUME NEW k \in 0..(n - 1), k \in T PROVE k + 1 \in T
    <2> DEFINE u == batch[k + 1]
    <2>1. /\ k + 1 \in 0..n /\ k \in 0..n /\ u \in Samples /\ Accepted(doc, u) /\ d[k + 1] = After(d[k], u)
        BY <1>2, RunStep
    <2>2. e[k + 1] = After(e[k], u)
        BY <1>4, <1>5, RunStep
    <2> HIDE DEF u
    <2>3. Shape(d[k], doc) /\ Shape(e[k], doc)
        BY <1>7, <1>9, <2>1
    <2>4. ASSUME NEW a \in DOMAIN doc PROVE e[k + 1][a] = d[k + 1][a] \/ e[k + 1][a] = once[a]
        <3>1. \/ After(e[k], u)[a] = After(d[k], u)[a]
              \/ After(d[k], u)[a] = d[k][a] /\ After(e[k], u)[a] = e[k][a]
            BY <2>1, <2>3, SampleMeets
        <3>2. e[k][a] = d[k][a] \/ e[k][a] = once[a]
            BY <1>11
        <3> QED
            BY <2>1, <2>2, <3>1, <3>2
    <2> QED
        BY <2>1, <2>4
<1> HIDE DEF T
<1>12. 0..n \subseteq T
    BY <1>7, <1>10, <1>11, UpTo
<1>13. n \in T /\ n \in 0..n
    BY <1>7, <1>12
<1>14. \A a \in DOMAIN doc : e[n][a] = once[a]
    BY <1>3, <1>13 DEF T
<1>15. Shape(e[n], doc)
    BY <1>9, <1>13
<1>16. e[n] = once
    BY <1>1, <1>14, <1>15 DEF Shape, IsDoc
<1> QED
    BY <1>6, <1>16 DEF once

-----------------------------------------------------------------------------
(* A repeated sample behind a deadband *)

\* The values of a type.
OfType(t) == {v \in Value : v.type = t}

\* Every component of s lies between those of u and v.
Between(s, u, v) ==
    \A k \in 1..Width[s.type] :
        \/ u.comps[k] <= s.comps[k] /\ s.comps[k] <= v.comps[k]
        \/ v.comps[k] <= s.comps[k] /\ s.comps[k] <= u.comps[k]

Convex(G, t) == \A u \in G, v \in G, s \in OfType(t) : Between(s, u, v) => s \in G

\* Clamping is monotone and moves a number towards the numbers in the range.
LEMMA ClampBetween ==
    ASSUME NEW f \in Filter, f.kind = "clamp", NEW a \in Int, NEW b \in Int, NEW c \in Int
    PROVE  /\ a <= b => Clamped(a, f) <= Clamped(b, f)
           /\ \/ a <= Clamped(a, f) /\ Clamped(a, f) <= Clamped(c, f)
              \/ Clamped(c, f) <= Clamped(a, f) /\ Clamped(a, f) <= a
<1>1. ClampLow(f) \in Int /\ ClampHigh(f) \in Int /\ ClampLow(f) <= ClampHigh(f)
    BY ClampRange
<1> QED
    BY <1>1 DEF Clamped

\* The components of a value of a given type.
LEMMA OfTypeAt ==
    ASSUME NEW t, NEW v \in OfType(t)
    PROVE  /\ v \in Value /\ v.type = t /\ Width[t] \in Nat
           /\ \A k \in 1..Width[t] : v.comps[k] \in Int
BY ValueAt DEF OfType

\* A clamp on values of one type.
LEMMA ClampAt ==
    ASSUME NEW t, t # "int32", NEW v \in OfType(t), NEW f \in Filter, f.kind = "clamp"
    PROVE  /\ ApplyClamp(v, f) \in OfType(t)
           /\ \A k \in 1..Width[t] : ApplyClamp(v, f).comps[k] = Clamped(v.comps[k], f)
<1>1. v \in Value /\ v.type = t
    BY OfTypeAt
<1>2. /\ Like(ApplyClamp(v, f), v)
      /\ ApplyClamp(v, f).comps = [k \in 1..Width[v.type] |-> Clamped(v.comps[k], f)]
    BY <1>1, ClampType
<1> QED
    BY <1>1, <1>2 DEF Like, OfType

\* What a clamp takes into a convex set is convex, and has y if the set has y and a clamped value.
LEMMA ClampConvex ==
    ASSUME NEW t, t # "int32", NEW f \in Filter, f.kind = "clamp", NEW G, Convex(G, t)
    PROVE  /\ Convex({s \in OfType(t) : ApplyClamp(s, f) \in G}, t)
           /\ \A y \in OfType(t), w \in OfType(t) :
                 y \in G /\ ApplyClamp(w, f) \in G => ApplyClamp(y, f) \in G
<1> DEFINE H == {s \in OfType(t) : ApplyClamp(s, f) \in G}
<1>1. ASSUME NEW u \in H, NEW v \in H, NEW s \in OfType(t), Between(s, u, v) PROVE s \in H
    <2>1. u \in OfType(t) /\ v \in OfType(t) /\ ApplyClamp(u, f) \in G /\ ApplyClamp(v, f) \in G
        OBVIOUS
    <2>2. ApplyClamp(s, f) \in OfType(t) /\ s.type = t /\ ApplyClamp(s, f).type = t
        BY ClampAt, OfTypeAt
    <2>3. ASSUME NEW k \in 1..Width[t]
          PROVE  \/ ApplyClamp(u, f).comps[k] <= ApplyClamp(s, f).comps[k]
                    /\ ApplyClamp(s, f).comps[k] <= ApplyClamp(v, f).comps[k]
                 \/ ApplyClamp(v, f).comps[k] <= ApplyClamp(s, f).comps[k]
                    /\ ApplyClamp(s, f).comps[k] <= ApplyClamp(u, f).comps[k]
        <3> DEFINE a == u.comps[k]
                   b == s.comps[k]
                   c == v.comps[k]
        <3>1. a \in Int /\ b \in Int /\ c \in Int
            BY <2>1, OfTypeAt
        <3>2. (a <= b /\ b <= c) \/ (c <= b /\ b <= a)
            BY <1>1, <2>2 DEF Between
        <3>3. /\ ApplyClamp(u, f).comps[k] = Clamped(a, f) /\ ApplyClamp(s, f).comps[k] = Clamped(b, f)
              /\ ApplyClamp(v, f).comps[k] = Clamped(c, f)
            BY <2>1, ClampAt
        <3> HIDE DEF a, b, c
        <3>4. /\ a <= b => Clamped(a, f) <= Clamped(b, f)
              /\ b <= c => Clamped(b, f) <= Clamped(c, f)
              /\ c <= b => Clamped(c, f) <= Clamped(b, f)
              /\ b <= a => Clamped(b, f) <= Clamped(a, f)
            BY <3>1, ClampBetween
        <3>5. \/ Clamped(a, f) <= Clamped(b, f) /\ Clamped(b, f) <= Clamped(c, f)
              \/ Clamped(c, f) <= Clamped(b, f) /\ Clamped(b, f) <= Clamped(a, f)
            BY <3>2, <3>4, Zenon
        <3> QED
            BY <3>3, <3>5, Zenon
    <2>4. Between(ApplyClamp(s, f), ApplyClamp(u, f), ApplyClamp(v, f))
        BY <2>2, <2>3 DEF Between
    <2>5. ApplyClamp(s, f) \in G
        BY <2>1, <2>2, <2>4 DEF Convex
    <2> QED
        BY <2>5
<1>2. ASSUME NEW y \in OfType(t), NEW w \in OfType(t), y \in G, ApplyClamp(w, f) \in G
      PROVE  ApplyClamp(y, f) \in G
    <2>1. ApplyClamp(y, f) \in OfType(t) /\ ApplyClamp(y, f).type = t
        BY ClampAt, OfTypeAt
    <2>2. ASSUME NEW k \in 1..Width[t]
          PROVE  \/ y.comps[k] <= ApplyClamp(y, f).comps[k]
                    /\ ApplyClamp(y, f).comps[k] <= ApplyClamp(w, f).comps[k]
                 \/ ApplyClamp(w, f).comps[k] <= ApplyClamp(y, f).comps[k]
                    /\ ApplyClamp(y, f).comps[k] <= y.comps[k]
        <3> DEFINE a == y.comps[k]
                   c == w.comps[k]
        <3>1. a \in Int /\ c \in Int
            BY OfTypeAt
        <3>2. ApplyClamp(y, f).comps[k] = Clamped(a, f) /\ ApplyClamp(w, f).comps[k] = Clamped(c, f)
            BY ClampAt
        <3> HIDE DEF a, c
        <3>3. \/ a <= Clamped(a, f) /\ Clamped(a, f) <= Clamped(c, f)
              \/ Clamped(c, f) <= Clamped(a, f) /\ Clamped(a, f) <= a
            BY <3>1, ClampBetween
        <3> QED
            BY <3>2, <3>3 DEF a
    <2>3. Between(ApplyClamp(y, f), y, ApplyClamp(w, f))
        BY <2>1, <2>2 DEF Between
    <2> QED
        BY <1>2, <2>1, <2>3 DEF Convex
<1>3. Convex(H, t)
    <2> HIDE DEF H
    <2> QED
        BY <1>1 DEF Convex
<1> QED
    BY <1>2, <1>3

\* The values that a chain goes through have one type.
LEMMA ChainAt ==
    ASSUME NEW p \in Value, NEW v \in Value, NEW chain \in Seq(Filter),
           NEW x, IsChain(x, p, v, chain)
    PROVE  \A k \in 0..Len(chain) : x[k] \in OfType(v.type)
<1>1. Len(chain) \in Nat /\ \A k \in 1..Len(chain) : chain[k] \in Filter
    BY ElementOfSeq
<1> DEFINE T == {k \in 0..Len(chain) : x[k] \in OfType(v.type)}
<1>2. 0 \in T
    BY <1>1 DEF IsChain, OfType
<1>3. ASSUME NEW k \in 0..(Len(chain) - 1), k \in T PROVE k + 1 \in T
    <2>1. k + 1 \in 1..Len(chain) /\ (k + 1) - 1 = k /\ k + 1 \in 0..Len(chain)
        BY <1>1
    <2>2. x[k + 1] = ApplyFilter(p, x[k], chain[k + 1]) /\ chain[k + 1] \in Filter
        BY <1>1, <2>1 DEF IsChain
    <2>3. x[k] \in Value /\ x[k].type = v.type
        BY <1>3 DEF OfType
    <2>4. Like(ApplyFilter(p, x[k], chain[k + 1]), x[k])
        BY <2>2, <2>3, FilterType
    <2> QED
        BY <2>1, <2>2, <2>3, <2>4 DEF Like, OfType
<1> HIDE DEF T
<1>4. 0..Len(chain) \subseteq T
    BY <1>1, <1>2, <1>3, UpTo
<1> QED
    BY <1>4 DEF T

\* A chain of clamps and deadbands is where it was after the value it led to is offered again.
LEMMA ChainRepeat ==
    ASSUME NEW p \in Value, NEW v \in Value, Filtered(v), NEW chain \in Seq(Filter),
           \A k \in DOMAIN chain : chain[k].kind # "ema",
           \A k \in DOMAIN chain : chain[k].kind = "clamp" => ApplyClamp(p, chain[k]) = p
    PROVE  ApplyFilters(ApplyFilters(p, v, chain), v, chain) = ApplyFilters(p, v, chain)
<1> DEFINE n == Len(chain)
           t == v.type
<1>1. n \in Nat /\ DOMAIN chain = 1..n /\ \A k \in 1..n : chain[k] \in Filter
    BY ElementOfSeq, LenProperties
<1>2. PICK x : IsChain(x, p, v, chain)
    BY <1>1, ChainDef
<1>3. \A k \in 0..n : x[k] \in OfType(t)
    BY <1>2, ChainAt
<1> DEFINE y == x[n]
<1>4. ApplyFilters(p, v, chain) = y
    BY <1>2 DEF IsChain
<1>5. n \in 0..n /\ 0 \in 0..n
    BY <1>1
<1>6. y \in OfType(t) /\ y \in Value /\ y.type = v.type
    BY <1>3, <1>5 DEF OfType
<1>7. PICK z : IsChain(z, y, v, chain)
    BY <1>1, ChainDef
<1>8. \A k \in 0..n : z[k] \in OfType(t)
    BY <1>6, <1>7, ChainAt
<1>9. x[0] = v /\ z[0] = v
    BY <1>2, <1>7 DEF IsChain
<1> HIDE DEF n, y, t
<1>10. ASSUME NEW k \in 1..n
       PROVE  /\ k - 1 \in 0..n /\ k \in 0..n /\ chain[k] \in Filter
              /\ chain[k].kind \in {"passthrough", "deadband", "clamp"}
              /\ x[k] = ApplyFilter(p, x[k - 1], chain[k]) /\ z[k] = ApplyFilter(y, z[k - 1], chain[k])
              /\ Filtered(x[k - 1]) /\ Filtered(z[k - 1])
    <2>1. k - 1 \in 0..n /\ k \in 0..n
        BY <1>1
    <2>2. chain[k] \in Filter /\ chain[k].kind # "ema"
        BY <1>1
    <2>3. chain[k].kind \in {"passthrough", "deadband", "clamp"}
        BY <2>2, FilterKinds
    <2>4. x[k] = ApplyFilter(p, x[k - 1], chain[k]) /\ z[k] = ApplyFilter(y, z[k - 1], chain[k])
        BY <1>2, <1>7 DEF IsChain, n
    <2>5. x[k - 1].type = v.type /\ z[k - 1].type = v.type
        BY <1>3, <1>8, <2>1 DEF OfType, t
    <2>6. Filtered(x[k - 1]) /\ Filtered(z[k - 1])
        BY <2>5 DEF Filtered
    <2> QED
        BY <2>1, <2>2, <2>3, <2>4, <2>6
<1>11. CASE \E m \in 1..n : x[m] = p
    \* A deadband held the value: what follows leaves it alone.
    <2>1. PICK m \in 1..n : x[m] = p
        BY <1>11
    <2> DEFINE T == {k \in 0..n : k >= m => x[k] = p}
    <2>2. 0 \in T
        BY <1>5
    <2>3. ASSUME NEW k \in 0..(n - 1), k \in T PROVE k + 1 \in T
        <3>1. k + 1 \in 1..n /\ (k + 1) - 1 = k /\ k + 1 \in 0..n
            BY <1>1
        <3>2. CASE k + 1 < m
            BY <1>1, <3>1, <3>2
        <3>3. CASE k + 1 = m
            BY <2>1, <3>1, <3>3
        <3>4. CASE k >= m
            <4> DEFINE f == chain[k + 1]
            <4>1. x[k] = p
                BY <2>3, <3>4
            <4>2. /\ f \in Filter /\ f.kind \in {"passthrough", "deadband", "clamp"}
                  /\ x[k + 1] = ApplyFilter(p, p, f) /\ Filtered(p)
                BY <1>10, <3>1, <4>1
            <4>3. f.kind = "clamp" => ApplyClamp(p, f) = p
                BY <1>1, <3>1
            <4> HIDE DEF f
            <4> SUFFICES x[k + 1] = p
                BY <3>1
            <4>4. CASE f.kind = "passthrough"
                BY <4>2, <4>4, FilterCases
            <4>5. CASE f.kind = "deadband"
                <5>1. ApplyFilter(p, p, f) = ApplyDeadband(p, p, f.threshold)
                    BY <4>2, <4>5, FilterCases
                <5> QED
                    BY <4>2, <5>1 DEF ApplyDeadband
            <4>6. CASE f.kind = "clamp"
                <5>1. ApplyFilter(p, p, f) = ApplyClamp(p, f)
                    BY <4>2, <4>6, FilterCases
                <5> QED
                    BY <4>2, <4>3, <4>6, <5>1
            <4> QED
                BY <4>2, <4>4, <4>5, <4>6
        <3> QED
            BY <1>1, <3>1, <3>2, <3>3, <3>4
    <2> HIDE DEF T
    <2>4. 0..n \subseteq T
        BY <1>1, <2>2, <2>3, UpTo
    <2>5. n >= m
        BY <1>1
    <2>6. y = p
        BY <1>5, <2>4, <2>5 DEF T, y
    <2> QED
        BY <1>4, <2>6
<1>12. CASE \A m \in 1..n : x[m] # p
    \* Only clamps moved the value: going back from the end, a convex set of values leads to y.
    <2> DEFINE Leads(j, G) == /\ G \subseteq OfType(t) /\ Convex(G, t) /\ y \in G /\ x[j] \in G
                              /\ z[j] \in G => z[n] = y
               T == {i \in 0..n : \E G : Leads(n - i, G)}
    <2>0. t # "int32"
        BY DEF Filtered, t
    <2>1. 0 \in T
        <3>1. ASSUME NEW s \in OfType(t), Between(s, y, y) PROVE s = y
            <4>1. s \in Value /\ y \in Value /\ s.type = t /\ y.type = t
                BY <1>6 DEF OfType
            <4>2. /\ s.comps \in [1..Width[t] -> Int] /\ y.comps \in [1..Width[t] -> Int]
                BY <4>1, ValueAt
            <4>3. ASSUME NEW k \in 1..Width[t] PROVE s.comps[k] = y.comps[k]
                <5> DEFINE a == s.comps[k]
                           b == y.comps[k]
                <5>1. a \in Int /\ b \in Int
                    BY <4>2
                <5>2. (b <= a /\ a <= b) \/ (b <= a /\ a <= b)
                    BY <3>1, <4>1 DEF Between
                <5> HIDE DEF a, b
                <5>3. a = b
                    BY <5>1, <5>2
                <5> QED
                    BY <5>3 DEF a, b
            <4>4. s.comps = y.comps
                <5>1. /\ s.comps = [k \in 1..Width[t] |-> s.comps[k]]
                      /\ y.comps = [k \in 1..Width[t] |-> y.comps[k]]
                    BY <4>2
                <5> QED
                    BY <4>3, <5>1
            <4>5. s = [type |-> s.type, comps |-> s.comps] /\ y = [type |-> y.type, comps |-> y.comps]
                BY <4>1 DEF Value
            <4> QED
                BY <4>1, <4>4, <4>5
        <3>2. Convex({y}, t)
            BY <3>1 DEF Convex
        <3>3. x[n] \in {y} /\ y \in OfType(t)
            BY <1>6 DEF y
        <3>4. Leads(n, {y})
            BY <3>2, <3>3
        <3>5. n - 0 = n
            BY <1>1
        <3> HIDE DEF Leads
        <3> QED
            BY <1>5, <3>4, <3>5
    <2>2. ASSUME NEW i \in 0..(n - 1), i \in T PROVE i + 1 \in T
        <3> DEFINE k == n - i
        <3>1. k \in 1..n /\ n - (i + 1) = k - 1 /\ i + 1 \in 0..n
            BY <1>1
        <3>2. PICK G : Leads(k, G)
            BY <2>2
        <3> HIDE DEF k
        <3> DEFINE f == chain[k]
                   w == x[k - 1]
                   s == z[k - 1]
        <3>3. /\ f \in Filter /\ f.kind \in {"passthrough", "deadband", "clamp"}
              /\ x[k] = ApplyFilter(p, w, f) /\ z[k] = ApplyFilter(y, s, f) /\ Filtered(w) /\ Filtered(s)
              /\ w \in OfType(t) /\ s \in OfType(t) /\ x[k] # p
            BY <1>3, <1>8, <1>10, <1>12, <3>1
        <3> HIDE DEF f
        <3>4. \E H : Leads(k - 1, H)
            <4>1. CASE f.kind = "clamp"
                <5> DEFINE H == {r \in OfType(t) : ApplyClamp(r, f) \in G}
                <5>1. x[k] = ApplyClamp(w, f) /\ z[k] = ApplyClamp(s, f)
                    BY <3>3, <4>1, FilterCases
                <5>2. Convex(H, t)
                    BY <2>0, <3>2, <3>3, <4>1, ClampConvex
                <5>3. ApplyClamp(y, f) \in G
                    <6>1. y \in OfType(t) /\ w \in OfType(t) /\ y \in G /\ ApplyClamp(w, f) \in G /\ Convex(G, t)
                        BY <1>6, <3>2, <3>3, <5>1
                    <6> HIDE DEF w, Leads
                    <6> QED
                        BY <2>0, <3>3, <4>1, <6>1, ClampConvex
                <5>4. Leads(k - 1, H)
                    BY <1>6, <3>2, <3>3, <5>1, <5>2, <5>3
                <5> HIDE DEF Leads, H
                <5> QED
                    BY <5>4
            <4>2. CASE f.kind = "deadband"
                <5>1. /\ x[k] = ApplyDeadband(p, w, f.threshold) /\ z[k] = ApplyDeadband(y, s, f.threshold)
                    BY <3>3, <4>2, FilterCases
                <5>2. x[k] = w /\ z[k] \in {y, s}
                    BY <3>3, <5>1 DEF ApplyDeadband
                <5>3. Leads(k - 1, G)
                    BY <3>2, <5>2
                <5> HIDE DEF Leads
                <5> QED
                    BY <5>3
            <4>3. CASE f.kind = "passthrough"
                <5>1. x[k] = w /\ z[k] = s
                    BY <3>3, <4>3, FilterCases
                <5>2. Leads(k - 1, G)
                    BY <3>2, <5>1
                <5> HIDE DEF Leads
                <5> QED
                    BY <5>2
            <4> QED
                BY <3>3, <4>1, <4>2, <4>3
        <3> HIDE DEF Leads
        <3> QED
            BY <3>1, <3>4
    <2> HIDE DEF T
    <2>3. 0..n \subseteq T
        BY <1>1, <2>1, <2>2, UpTo
    <2>4. n \in T /\ n - n = 0
        BY <1>1, <1>5, <2>3
    <2>5. PICK G : Leads(0, G)
        BY <2>4 DEF T
    <2>6. z[n] = y
        BY <1>9, <2>5
    <2>7. ApplyFilters(y, v, chain) = z[n]
        BY <1>7 DEF IsChain, n
    <2> QED
        BY <1>4, <2>6, <2>7
<1> QED
    BY <1>11, <1>12

\* A sample that is sent again moves nothing.
LEMMA RepeatedSample ==
    ASSUME NEW x \in SceneAttribute, NEW source \in Value, NEW mask \in Mask \cup {NoMask},
           Fits(Target(x), source, mask), Anchored(x),
           ~ Remembers(x) \/ ("ema" \notin Kinds(x) /\ InEveryClamp(x))
    PROVE  Resolved(Moved(x, Resolved(x, source, mask)), source, mask) = Resolved(x, source, mask)
<1> DEFINE r == Resolved(x, source, mask)
           y == Moved(x, r)
           v == Offered(x, source, mask)
           t == Target(x)
<1>0. SupportsRelative(x.default) \/ mask = NoMask
    <2>1. ~ SupportsRelative(x.default) => ~ SupportsRelative(t)
        BY DEF Anchored, Target, SupportsRelative
    <2> HIDE DEF t
    <2> QED
        BY <2>1, PlainFits DEF t
<1>1. /\ r = ApplyFilters(x.current, v, x.filters) /\ r \in Value /\ r.type = t.type
      /\ ~ Filtered(t) => r = v
    BY ResolvedType DEF Like
<1>2. v \in Value /\ v.type = t.type
    BY OfferedType DEF Like
<1>3. v = IF SupportsRelative(x.default)
          THEN ComposeRelativeValue(x.default, MappingDeltaTransform(x.default, source, mask)) ELSE source
    BY <1>0, OfferedType DEF Offered
<1> HIDE DEF r
<1>4. /\ y \in SceneAttribute /\ y.default = x.default /\ y.live = x.live
      /\ y.filters = x.filters /\ y.current = r
    BY <1>1, MovedType
<1> HIDE DEF y
<1>5. Target(y).type = t.type /\ Fits(Target(y), source, mask)
    <2>1. Target(y).type = t.type
        BY <1>1, <1>4 DEF Target
    <2> QED
        BY <2>1, FitsByType
<1>6. Offered(y, source, mask) = v
    <2>1. ~ SupportsRelative(y.default) => Offered(y, source, mask) = source
        BY <1>0, <1>4, <1>5, OfferedType
    <2>2. SupportsRelative(y.default) =>
             Offered(y, source, mask) = ComposeRelativeValue(y.default, MappingDeltaTransform(y.default, source, mask))
        BY DEF Offered
    <2> HIDE DEF v
    <2> QED
        BY <1>3, <1>4, <2>1, <2>2
<1> HIDE DEF v, t
<1>7. /\ Resolved(y, source, mask) = ApplyFilters(r, v, x.filters)
      /\ ~ Filtered(t) => Resolved(y, source, mask) = v
    <2>1. Filtered(Target(y)) <=> Filtered(t)
        BY <1>5 DEF Filtered
    <2> QED
        BY <1>4, <1>5, <1>6, <2>1, ResolvedType
<1>8. CASE ~ Remembers(x)
    <2>1. Resolved(x, source, mask) = Resolved(y, source, mask)
        BY <1>0, <1>4, <1>8, Forgetful
    <2> QED
        BY <2>1 DEF r, y
<1>9. CASE ~ Filtered(t)
    BY <1>1, <1>7, <1>9 DEF r, y
<1>10. CASE Filtered(t) /\ "ema" \notin Kinds(x) /\ InEveryClamp(x)
    <2> DEFINE p == x.current
               chain == x.filters
    <2>1. p \in Value /\ v \in Value /\ chain \in Seq(Filter)
        BY <1>2, AttributeAt
    <2>2. Filtered(v)
        BY <1>2, <1>10 DEF Filtered
    <2>3. \A k \in DOMAIN chain : chain[k].kind # "ema"
        BY <1>10 DEF Kinds
    <2>4. \A k \in DOMAIN chain : chain[k].kind = "clamp" => ApplyClamp(p, chain[k]) = p
        BY <1>10 DEF InEveryClamp
    <2>5. r = ApplyFilters(p, v, chain)
        BY <1>1
    <2> HIDE DEF p, chain
    <2>6. ApplyFilters(r, v, chain) = r
        BY <2>1, <2>2, <2>3, <2>4, <2>5, ChainRepeat
    <2> QED
        BY <1>7, <2>6 DEF r, y, chain
<1> QED
    BY <1>8, <1>9, <1>10

\* The one step of a batch with one accepted sample.
LEMMA FirstStep ==
    ASSUME NEW doc, NEW batch, IsBatch(batch), NEW d, IsRun(d, 1, doc, batch)
    PROVE  batch[1] \in Samples /\ Accepted(doc, batch[1]) /\ d[1] = After(d[0], batch[1])
<1>1. 1 \in 1..Len(batch) /\ 1 \in 1..1 /\ 1 - 1 = 0
    BY DEF IsRun, IsBatch
<1>2. d[1] = After(d[1 - 1], batch[1])
    BY <1>1 DEF IsRun
<1> QED
    BY <1>1, <1>2 DEF IsRun, IsBatch

\* A sample on its own, sent again.
LEMMA RepeatedSingle ==
    ASSUME ValueInv, NEW doc, IsDoc(doc), NEW batch, IsBatch(batch), Len(batch) <= 1,
           \A a \in DOMAIN doc : Anchored(doc[a]),
           \A a \in DOMAIN doc : ~ Remembers(doc[a]) \/ ("ema" \notin Kinds(doc[a]) /\ InEveryClamp(doc[a]))
    PROVE  AfterBatch(AfterBatch(doc, batch), batch) = AfterBatch(doc, batch)
<1> DEFINE once == AfterBatch(doc, batch)
<1>1. Shape(once, doc)
    BY BatchShape
<1>2. PICK d, n : IsRun(d, n, doc, batch)
    BY RunDef DEF IsBatch
<1>3. d[0] = doc /\ once = d[n] /\ n \in 0..Len(batch)
    BY <1>2 DEF IsRun
<1> HIDE DEF once
<1>4. PICK e, m : IsRun(e, m, once, batch)
    BY RunDef DEF IsBatch
<1>5. m = n
    BY <1>1, <1>2, <1>4, SameLength
<1>6. e[0] = once /\ AfterBatch(once, batch) = e[n]
    BY <1>4, <1>5 DEF IsRun
<1>7. n = 0 \/ n = 1
    BY <1>3 DEF IsBatch
<1>8. CASE n = 0
    BY <1>6, <1>8 DEF once
<1>9. CASE n = 1
    <2> DEFINE u == batch[1]
    <2>1. u \in Samples /\ Accepted(doc, u) /\ d[1] = After(doc, u) /\ e[1] = After(once, u)
        BY <1>2, <1>3, <1>4, <1>5, <1>6, <1>9, FirstStep
    <2>2. once = After(doc, u)
        BY <1>3, <1>9, <2>1
    <2> HIDE DEF u
    <2> DEFINE b == bindings[Route(u.output)].attr
               mask == bindings[Route(u.output)].mask
               One(f) == /\ b \in DOMAIN doc /\ mask \in Mask \cup {NoMask}
                         /\ \/ ~ f[b].live /\ After(f, u) = f
                            \/ /\ f[b].live /\ Fits(Target(f[b]), u.value, mask)
                               /\ After(f, u) = [f EXCEPT ![b] = Moved(f[b], Resolved(f[b], u.value, mask))]
    <2>3. Shape(doc, doc)
        BY DEF Shape
    <2>4. One(doc) /\ One(once)
        BY <1>1, <2>1, <2>3, AfterOne
    <2> HIDE DEF b, mask
    <2>5. doc \in [DOMAIN doc -> SceneAttribute] /\ once \in [DOMAIN doc -> SceneAttribute]
        BY <1>1 DEF Shape, IsDoc
    <2>6. once[b].live = doc[b].live
        BY <1>1, <2>4 DEF Shape
    <2>7. After(once, u) = once
        <3>1. CASE ~ doc[b].live
            BY <2>4, <2>6, <3>1
        <3>2. CASE doc[b].live
            <4> DEFINE x == doc[b]
                       r == Resolved(x, u.value, mask)
                       y == once[b]
            <4>1. /\ x \in SceneAttribute /\ u.value \in Value /\ mask \in Mask \cup {NoMask}
                  /\ Fits(Target(x), u.value, mask) /\ Anchored(x)
                  /\ ~ Remembers(x) \/ ("ema" \notin Kinds(x) /\ InEveryClamp(x))
                BY <2>1, <2>4, <2>5, <3>2 DEF Samples
            <4>2. y = Moved(x, r)
                <5>1. once = [doc EXCEPT ![b] = Moved(x, r)]
                    BY <2>2, <2>4, <3>2
                <5> HIDE DEF r
                <5> QED
                    BY <2>4, <2>5, <5>1
            <4>3. Resolved(Moved(x, r), u.value, mask) = r
                BY <4>1, RepeatedSample
            <4>4. r \in Value
                BY <4>1, ResolvedType DEF Like
            <4>5. After(once, u) = [once EXCEPT ![b] = Moved(y, Resolved(y, u.value, mask))]
                BY <2>4, <2>6, <3>2
            <4> HIDE DEF r, x
            <4>6. Moved(y, Resolved(y, u.value, mask)) = Moved(Moved(x, r), r)
                BY <4>2, <4>3
            <4>7. Moved(Moved(x, r), r) = Moved(x, r)
                <5> DEFINE q == Moved(x, r)
                <5>1. /\ q \in SceneAttribute /\ x.default = q.default /\ x.live = q.live
                      /\ x.filters = q.filters /\ q.current = r
                    BY <4>1, <4>4, MovedType
                <5> HIDE DEF q
                <5>2. Moved(x, r) = Moved(q, r)
                    BY <4>1, <5>1, MovedEqual
                <5> QED
                    BY <5>2 DEF q
            <4>8. After(once, u) = [once EXCEPT ![b] = y]
                BY <4>2, <4>5, <4>6, <4>7
            <4> QED
                BY <2>5, <4>8
        <3> QED
            BY <3>1, <3>2
    <2> QED
        BY <1>6, <1>9, <2>1, <2>7 DEF once
<1> QED
    BY <1>7, <1>8, <1>9

(***************************************************************************)
(* For batches and filter chains of any length: a batch that is applied    *)
(* twice leaves every attribute where the first time left it if no filter  *)
(* remembers, and a sample on its own does so behind deadbands, too.       *)
(***************************************************************************)
THEOREM RepeatIsHarmlessHolds == Spec => []RepeatIsHarmless
<1>1. ValueInv => RepeatIsHarmless
    <2> SUFFICES ASSUME ValueInv, active_scene # NoScene, NEW batch \in SeqOf(Sample, MaxBatch),
                        \A a \in DOMAIN scenes[active_scene] : Anchored(scenes[active_scene][a]),
                        \A a \in DOMAIN scenes[active_scene] :
                            \/ ~ Remembers(scenes[active_scene][a])
                            \/ /\ Len(batch) <= 1 /\ "ema" \notin Kinds(scenes[active_scene][a])
                               /\ InEveryClamp(scenes[active_scene][a])
                 PROVE  AfterBatch(AfterBatch(scenes[active_scene], batch), batch)
                           = AfterBatch(scenes[active_scene], batch)
        BY DEF RepeatIsHarmless
    <2> DEFINE doc == scenes[active_scene]
    <2>1. IsDoc(doc) /\ IsBatch(batch) /\ \A a \in DOMAIN doc : Anchored(doc[a])
        BY BatchType DEF ValueInv, IsBatch
    <2> HIDE DEF doc
    <2>2. CASE \A a \in DOMAIN doc : ~ Remembers(doc[a])
        <3>1. AfterBatch(AfterBatch(doc, batch), batch) = AfterBatch(doc, batch)
            BY <2>1, <2>2, RepeatedBatch
        <3> QED
            BY <3>1 DEF doc
    <2>3. CASE ~ \A a \in DOMAIN doc : ~ Remembers(doc[a])
        <3>1. /\ Len(batch) <= 1
              /\ \A a \in DOMAIN doc : ~ Remembers(doc[a]) \/ ("ema" \notin Kinds(doc[a]) /\ InEveryClamp(doc[a]))
            BY <2>3 DEF doc
        <3>2. AfterBatch(AfterBatch(doc, batch), batch) = AfterBatch(doc, batch)
            BY <2>1, <3>1, RepeatedSingle
        <3> QED
            BY <3>2 DEF doc
    <2> QED
        BY <2>2, <2>3
<1> QED
    BY <1>1, ValueInvHolds, PTL

=============================================================================
