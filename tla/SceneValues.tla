----------------------------- MODULE SceneValues -----------------------------
(***************************************************************************)
(* The value half of RuntimeCore: what a motion sample does to an          *)
(* attribute.  A sample is routed to a mapping by the name of its output,  *)
(* cut to the mapping's component mask, composed with the attribute's      *)
(* baseline (default_value) and sent through the attribute's filters.      *)
(*                                                                         *)
(* A value is a type and a sequence of integers, the components of a       *)
(* fixed-point number, vector or row-major matrix; int32 saturates at      *)
(* IntMin and IntMax.  A quaternion that was normalised is the shortest    *)
(* integer vector on its ray; NormOverflows says of which products the f32 *)
(* norm is infinite, and the quotients therefore 0.  Sums and products     *)
(* that leave the floating-point range themselves, and NaN, are left out.  *)
(*                                                                         *)
(* The samples are those of one device.  Who may hold a mapping, and for   *)
(* how long, is the subject of MappingLeases; here a mapping that stands   *)
(* in the way of a new one may or may not be displaced by it.  Errors      *)
(* change nothing, apart from the samples of a batch that come before the  *)
(* bad one.                                                                *)
(***************************************************************************)
EXTENDS Integers, Sequences, FiniteSets, SequencesExt

CONSTANTS
    Scene,       \* scene ids
    Attr,        \* attributes, as <<object, name>>
    Document,    \* the scenes a client can load: functions on subsets of Attr
    Output,      \* names of outputs: [owner, base], owner is Bare, Self or another device
    Sample,      \* samples the device sends: [output, value]
    Mask,        \* component masks a client asks for: sequences of indices from 0
    NoScene, NoMask, Bare, Self,
    NormOverflows(_, _),   \* the norm of the product of two quaternions is inf in f32
    IntMax,          \* i32::MAX
    AlphaUnit,       \* the integer that stands for an EMA weight of 1.0
    MaxBindings,     \* bound on the number of mappings
    MaxBatch,        \* bound on the samples of one datagram
    MaxAbs           \* bound on the components of a committed baseline

IntMin == -IntMax - 1

Width == [bool |-> 1, trigger |-> 1, int32 |-> 1, float32 |-> 1, float64 |-> 1,
          vec2f |-> 2, vec3f |-> 3, vec4f |-> 4, quatf |-> 4, mat4f |-> 16]

Value == {v \in [type: DOMAIN Width, comps: Seq(Int)] :
             /\ Len(v.comps) = Width[v.type]
             /\ v.type = "int32" => v.comps[1] \in IntMin..IntMax}

Filter == [kind: {"passthrough"}] \cup [kind: {"ema"}, alpha: Int]
              \cup [kind: {"deadband"}, threshold: Int] \cup [kind: {"clamp"}, min: Int, max: Int]

\* SceneAttribute::new makes the values equal; the Python binding then sets current_value
\* to a value of any type.
SceneAttribute == [default: Value, current: Value, live: BOOLEAN, filters: Seq(Filter)]

ASSUME ValueConstants ==
    /\ {IntMax, AlphaUnit} \subseteq Nat \ {0}
    /\ {MaxBindings, MaxBatch, MaxAbs} \subseteq Nat
    /\ NoScene \notin Scene /\ NoMask \notin Mask
    /\ Mask \subseteq Seq(Nat)
    /\ Sample \subseteq [output: Output, value: Value]
    /\ \A doc \in Document : DOMAIN doc \subseteq Attr /\ doc \in [DOMAIN doc -> SceneAttribute]

VARIABLES
    mode,          \* Mode
    scenes,        \* loaded scenes: attribute -> SceneAttribute
    active_scene,
    bindings       \* the device's Active mappings, oldest first

vars == <<mode, scenes, active_scene, bindings>>

-----------------------------------------------------------------------------
(* Values *)

IsVector(v) == v.type \in {"vec2f", "vec3f", "vec4f", "quatf"}
IsScalar(v) == v.type \in {"int32", "float32", "float64"}
SupportsRelative(v) == v.type \notin {"bool", "trigger"}

Saturate(n) == IF n < IntMin THEN IntMin ELSE IF n > IntMax THEN IntMax ELSE n

\* set_scalar_value: a component as a value of the target's scalar type
ScalarOf(target, n) ==
    [target EXCEPT !.comps = <<IF target.type = "int32" THEN Saturate(n) ELSE n>>]

\* The delta that leaves a vector or a rotation where it is.
DefaultDelta(target) ==
    [target EXCEPT !.comps =
        IF target.type = "quatf" THEN <<0, 0, 0, 1>> ELSE [k \in DOMAIN @ |-> 0]]

\* base with the masked components taken from source (a scalar fills them all)
Masked(base, source, mask) ==
    [base EXCEPT !.comps = [k \in DOMAIN @ |->
        IF k - 1 \notin ToSet(mask) THEN @[k]
        ELSE IF IsScalar(source) THEN source.comps[1] ELSE source.comps[k]]]

\* When the transforms return Ok.
Fits(target, source, mask) ==
    \/ mask = NoMask /\ source.type = target.type
    \/ /\ mask # NoMask
       /\ IsVector(target)
       /\ IsScalar(source) \/ IsVector(source)
       /\ \A k \in ToSet(mask) : /\ k < Width[target.type]
                                 /\ IsVector(source) => k < Width[source.type]
    \/ /\ mask # NoMask /\ Len(mask) = 1
       /\ IsScalar(target)
       /\ IsVector(source) /\ mask[1] < Width[source.type]

\* apply_mapping_transform, apply_mapping_delta_transform where they return Ok
Transformed(base, source, mask) ==
    IF mask = NoMask THEN source
    ELSE IF IsVector(base) THEN Masked(base, source, mask)
    ELSE ScalarOf(base, source.comps[mask[1] + 1])

MappingTransform(current, source, mask) == Transformed(current, source, mask)

MappingDeltaTransform(baseline, source, mask) ==
    Transformed(IF IsVector(baseline) THEN DefaultDelta(baseline) ELSE baseline, source, mask)

QuatMultiply(p, q) ==
    <<p[4]*q[1] + p[1]*q[4] + p[2]*q[3] - p[3]*q[2],
      p[4]*q[2] - p[1]*q[3] + p[2]*q[4] + p[3]*q[1],
      p[4]*q[3] + p[1]*q[2] - p[2]*q[1] + p[3]*q[4],
      p[4]*q[4] - p[1]*q[1] - p[2]*q[2] - p[3]*q[3]>>

Zero(c) == \A k \in DOMAIN c : c[k] = 0

Abs(n) == IF n < 0 THEN -n ELSE n

\* The shortest integer vector on the ray of a vector that is not zero.
OnUnit(c) ==
    LET bound == CHOOSE n \in {Abs(c[k]) : k \in DOMAIN c} \ {0} :
                    \A k \in DOMAIN c : c[k] # 0 => n <= Abs(c[k])
        gcd == CHOOSE d \in 1..bound :
                    /\ \A k \in DOMAIN c : c[k] % d = 0
                    /\ \A e \in (d+1)..bound : \E k \in DOMAIN c : c[k] % e # 0
    IN  [k \in DOMAIN c |-> c[k] \div gcd]

\* The product divided by its norm: by inf, where that overflows.
Normalized(base, delta) ==
    IF NormOverflows(base, delta) THEN <<0, 0, 0, 0>> ELSE OnUnit(QuatMultiply(base, delta))

\* Mutant of QuatMultiplyNormalized: the guard against a zero norm is missing.
QuatMultiplyNormalized_NoGuard(base, delta) ==
    LET c == QuatMultiply(base, delta) IN IF Zero(c) THEN c ELSE Normalized(base, delta)

\* A product with no length to divide by leaves the baseline.
QuatMultiplyNormalized(base, delta) ==
    IF Zero(QuatMultiply(base, delta)) THEN base ELSE Normalized(base, delta)

Mat4Multiply(base, delta) ==
    [n \in 1..16 |->
        LET row == (n - 1) \div 4
            col == (n - 1) % 4
        IN  base[4*row + 1] * delta[col + 1] + base[4*row + 2] * delta[col + 5]
                + base[4*row + 3] * delta[col + 9] + base[4*row + 4] * delta[col + 13]]

\* Mutant of ComposeInt: i32 addition that wraps around.
ComposeInt_Wraps(base, d) == ((base + d - IntMin) % (IntMax - IntMin + 1)) + IntMin

ComposeInt(base, d) == Saturate(base + d)

ComposeRelativeValue(base, delta) ==
    [base EXCEPT !.comps =
        CASE base.type = "int32" -> <<ComposeInt(@[1], delta.comps[1])>>
          [] base.type = "quatf" -> QuatMultiplyNormalized(@, delta.comps)
          [] base.type = "mat4f" -> Mat4Multiply(@, delta.comps)
          [] OTHER -> [k \in DOMAIN @ |-> @[k] + delta.comps[k]]]

-----------------------------------------------------------------------------
(* Filters: they act on float32, float64 and vec3f and pass other types on; *)
(* those that compare pass on a value that has not the type of the last one. *)

Filtered(v) == v.type \in {"float32", "float64", "vec3f"}

\* Mutant of Weight: an EMA weight above 1.0 is used as it is.
Weight_Unclamped(alpha) == alpha

\* alpha.clamp(0.0, 1.0)
Weight(alpha) == IF alpha < 0 THEN 0 ELSE IF alpha > AlphaUnit THEN AlphaUnit ELSE alpha

ApplyEma(previous, current, alpha) ==
    IF previous.type # current.type THEN current
    ELSE [current EXCEPT !.comps = [k \in DOMAIN @ |->
            (Weight(alpha) * @[k] + (AlphaUnit - Weight(alpha)) * previous.comps[k])
                \div AlphaUnit]]

\* The distance of the components, added up.
Distance(u, v) ==
    LET sum[k \in 0..Len(u)] == IF k = 0 THEN 0 ELSE sum[k - 1] + Abs(u[k] - v[k])
    IN  sum[Len(u)]

\* The mean distance is below a threshold that is at least 0.
ApplyDeadband(previous, current, threshold) ==
    IF /\ previous.type = current.type
       /\ Distance(current.comps, previous.comps) < threshold * Len(current.comps)
    THEN previous ELSE current

ClampLow(f) == IF f.min <= f.max THEN f.min ELSE f.max
ClampHigh(f) == IF f.min <= f.max THEN f.max ELSE f.min

ApplyClamp(current, f) ==
    [current EXCEPT !.comps = [k \in DOMAIN @ |->
        IF @[k] < ClampLow(f) THEN ClampLow(f)
        ELSE IF @[k] > ClampHigh(f) THEN ClampHigh(f) ELSE @[k]]]

ApplyFilter(previous, current, f) ==
    CASE ~ Filtered(current) -> current
      [] Filtered(current) /\ f.kind = "passthrough" -> current
      [] Filtered(current) /\ f.kind = "ema" -> ApplyEma(previous, current, f.alpha)
      [] Filtered(current) /\ f.kind = "deadband" -> ApplyDeadband(previous, current, f.threshold)
      [] Filtered(current) /\ f.kind = "clamp" -> ApplyClamp(current, f)

\* Every filter of the chain compares with the value before the update.
ApplyFilters(previous, incoming, chain) ==
    LET after[k \in 0..Len(chain)] ==
            IF k = 0 THEN incoming ELSE ApplyFilter(previous, after[k - 1], chain[k])
    IN  after[Len(chain)]

-----------------------------------------------------------------------------
(* One sample *)

\* The value that a sample is to fit: samples of bool and trigger replace the current one.
Target(attr) == IF SupportsRelative(attr.default) THEN attr.default ELSE attr.current

\* Mutant of Resolved: the delta is composed with the current value.
Resolved_OnCurrent(attr, source, mask) ==
    LET base == IF attr.current.type = attr.default.type THEN attr.current ELSE attr.default
    IN  ApplyFilters(attr.current,
            IF SupportsRelative(attr.default)
            THEN ComposeRelativeValue(base, MappingDeltaTransform(base, source, mask))
            ELSE MappingTransform(attr.current, source, mask),
            attr.filters)

\* The attribute's next current_value.
Resolved(attr, source, mask) ==
    ApplyFilters(attr.current,
        IF SupportsRelative(attr.default)
        THEN ComposeRelativeValue(attr.default,
                                  MappingDeltaTransform(attr.default, source, mask))
        ELSE MappingTransform(attr.current, source, mask),
        attr.filters)

\* Names match as they are, or when one is the other with this device's id in front.
SourceOutputMatches(mapped, sent) ==
    mapped = sent \/ (mapped.base = sent.base /\ {mapped.owner, sent.owner} = {Bare, Self})

\* The first mapping into the active scene that matches; 0 if there is none.
Route(output) ==
    LET matching == {i \in DOMAIN bindings : /\ SourceOutputMatches(bindings[i].output, output)
                                             /\ bindings[i].scene = active_scene}
    IN  IF matching = {} THEN 0 ELSE Min(matching)

\* Samples that do not end the batch: routed, to an attribute that exists, of a type that fits.
Accepted(doc, u) ==
    LET i == Route(u.output) IN
    /\ i # 0
    /\ bindings[i].attr \in DOMAIN doc
    /\ LET attr == doc[bindings[i].attr] IN
       attr.live => Fits(Target(attr), u.value, bindings[i].mask)

\* doc after an accepted sample; an attribute that is not live is passed over
After(doc, u) ==
    LET b == bindings[Route(u.output)] IN
    IF doc[b.attr].live
    THEN [doc EXCEPT ![b.attr].current = Resolved(doc[b.attr], u.value, b.mask)]
    ELSE doc

\* doc after a batch: what precedes the first sample that is not accepted stays.  (No
\* sample changes the type of a target, so whether one is accepted may be asked of doc.)
AfterBatch(doc, batch) ==
    LET good == CHOOSE n \in 0..Len(batch) :
                    /\ \A k \in 1..n : Accepted(doc, batch[k])
                    /\ n < Len(batch) => ~ Accepted(doc, batch[n + 1])
        after[k \in 0..Len(batch)] == IF k = 0 THEN doc ELSE After(after[k - 1], batch[k])
    IN  after[good]

-----------------------------------------------------------------------------
(* Operations *)

Init ==
    /\ mode = "Idle"
    /\ scenes = [s \in {} |-> {}]
    /\ active_scene = NoScene
    /\ bindings = <<>>

LoadScene(s, doc) ==
    /\ scenes' = [x \in DOMAIN scenes \cup {s} |-> IF x = s THEN doc ELSE scenes[x]]
    /\ active_scene' = IF active_scene = NoScene THEN s ELSE active_scene
    /\ UNCHANGED <<mode, bindings>>

SetActiveScene(s) ==
    /\ s \in DOMAIN scenes
    /\ active_scene' = s
    /\ UNCHANGED <<mode, scenes, bindings>>

SetMode(m) ==
    /\ <<mode, m>> # <<"Idle", "Recording">>
    /\ mode' = m
    /\ UNCHANGED <<scenes, active_scene, bindings>>

\* validate_component_mask, on the target as it is when the mapping is made
ValidMask(target, mask) ==
    \/ mask = NoMask
    \/ /\ mask # NoMask /\ Len(mask) > 0 /\ target.type # "mat4f"
       /\ IF IsVector(target)
          THEN /\ \A k \in ToSet(mask) : k < Width[target.type]
               /\ Cardinality(ToSet(mask)) = Len(mask)
          ELSE Len(mask) = 1

TargetOk(s, a, mask) ==
    /\ s \in DOMAIN scenes
    /\ a \in DOMAIN scenes[s]
    /\ ValidMask(scenes[s][a].current, mask)

Binding(output, s, a, mask) == [output |-> output, scene |-> s, attr |-> a, mask |-> mask]

OnTarget(s, a) == {i \in DOMAIN bindings : bindings[i].scene = s /\ bindings[i].attr = a}

\* The mappings that create_mapping leaves: all, or all but the first one on the target.
\* (That one is refused or displaced unless one of another device is before it.)
Kept(s, a) == {bindings} \cup {RemoveAt(bindings, Min(T)) : T \in {OnTarget(s, a)} \ {{}}}

\* Mutant of CreateMapping: the new mapping comes first.
CreateMapping_First(output, s, a, mask) ==
    /\ mode # "Recording"
    /\ TargetOk(s, a, mask)
    /\ \E kept \in Kept(s, a) :
          /\ Len(kept) < MaxBindings
          /\ bindings' = <<Binding(output, s, a, mask)>> \o kept
    /\ UNCHANGED <<mode, scenes, active_scene>>

CreateMapping(output, s, a, mask) ==
    /\ mode # "Recording"
    /\ TargetOk(s, a, mask)
    /\ \E kept \in Kept(s, a) :
          /\ Len(kept) < MaxBindings
          /\ bindings' = Append(kept, Binding(output, s, a, mask))
    /\ UNCHANGED <<mode, scenes, active_scene>>

UpdateMapping(i, output, s, a, mask) ==
    /\ mode # "Recording"
    /\ TargetOk(s, a, mask)
    /\ bindings' = [bindings EXCEPT ![i] = Binding(output, s, a, mask)]
    /\ UNCHANGED <<mode, scenes, active_scene>>

\* remove_mapping (not in Recording), or the lease is lost to the scheduler
DropMapping(i) ==
    /\ bindings' = RemoveAt(bindings, i)
    /\ UNCHANGED <<mode, scenes, active_scene>>

ApplyUpdates(batch) ==
    /\ mode # "Idle"
    /\ active_scene # NoScene
    /\ scenes' = [scenes EXCEPT ![active_scene] = AfterBatch(@, batch)]
    /\ UNCHANGED <<mode, active_scene, bindings>>

ResetSceneToBaseline(s) ==
    /\ scenes' = [scenes EXCEPT ![s] =
                    [a \in DOMAIN @ |-> [scenes[s][a] EXCEPT !.current = scenes[s][a].default]]]
    /\ UNCHANGED <<mode, active_scene, bindings>>

Bounded(attr) == \A k \in DOMAIN attr.current.comps : Abs(attr.current.comps[k]) <= MaxAbs

\* current_value becomes the baseline of the attributes in A
Commit(s, A) ==
    /\ \A a \in A : Bounded(scenes[s][a])
    /\ scenes' = [scenes EXCEPT ![s] =
                    [a \in DOMAIN @ |->
                       IF a \in A THEN [scenes[s][a] EXCEPT !.default = scenes[s][a].current]
                       ELSE scenes[s][a]]]
    /\ UNCHANGED <<mode, active_scene, bindings>>

CommitSceneBaseline(s) == Commit(s, DOMAIN scenes[s])

CommitObjectBaseline(s, object) == Commit(s, {a \in DOMAIN scenes[s] : a[1] = object})

Next ==
    \/ \E s \in Scene, doc \in Document : LoadScene(s, doc)
    \/ \E s \in Scene : SetActiveScene(s)
    \/ \E m \in {"Idle", "Live", "Recording"} : SetMode(m)
    \/ \E output \in Output, s \in Scene, a \in Attr, mask \in Mask \cup {NoMask} :
          \/ CreateMapping(output, s, a, mask)
          \/ \E i \in DOMAIN bindings : UpdateMapping(i, output, s, a, mask)
    \/ \E i \in DOMAIN bindings : DropMapping(i)
    \/ \E batch \in SeqOf(Sample, MaxBatch) : ApplyUpdates(batch)
    \/ \E s \in DOMAIN scenes :
          \/ ResetSceneToBaseline(s)
          \/ CommitSceneBaseline(s)
          \/ \E a \in DOMAIN scenes[s] : CommitObjectBaseline(s, a[1])

Spec == Init /\ [][Next]_vars

-----------------------------------------------------------------------------
(* Properties *)

Kinds(attr) == {attr.filters[k].kind : k \in DOMAIN attr.filters}

IsLastClamp(filters, n) ==
    /\ filters[n].kind = "clamp"
    /\ \A k \in DOMAIN filters : filters[k].kind = "clamp" => k <= n

\* v is in the range of the last clamp among the filters, if there is one
InLastClamp(v, filters) ==
    Filtered(v) =>
        \A n \in DOMAIN filters : IsLastClamp(filters, n) =>
            \A k \in DOMAIN v.comps : v.comps[k] \in ClampLow(filters[n])..ClampHigh(filters[n])

(***************************************************************************)
(* A clamp confines the attribute wherever it stands in the chain: filters *)
(* behind it, samples, resets and commits do not bring the value or the    *)
(* baseline out of its range again.                                        *)
(***************************************************************************)
ClampConfines ==
    [][\A s \in DOMAIN scenes : \A a \in DOMAIN scenes[s] :
         LET attr == scenes[s][a]
             next == scenes'[s][a]
         IN  /\ a \in DOMAIN scenes'[s] /\ ~ \E doc \in Document : LoadScene(s, doc)
             /\ InLastClamp(attr.default, attr.filters)
             /\ InLastClamp(attr.current, attr.filters)
             => InLastClamp(next.default, next.filters) /\ InLastClamp(next.current, next.filters)]_vars

InEveryClamp(attr) ==
    \A k \in DOMAIN attr.filters :
        attr.filters[k].kind = "clamp" => ApplyClamp(attr.current, attr.filters[k]) = attr.current

\* What a sample does to the attribute is a matter of the baseline, or of the sample alone.
Anchored(attr) == SupportsRelative(attr.default) \/ attr.current.type = attr.default.type

\* A filter compares with the value before the update.
Remembers(attr) == Kinds(attr) \cap {"ema", "deadband"} # {}

(***************************************************************************)
(* A datagram that arrives again, a client that repeats its last samples   *)
(* or sends a whole batch once more because the server refused one of its  *)
(* samples: nothing moves any further (samples are deltas to the baseline, *)
(* not to the current value), where no filter remembers.  A sample on its  *)
(* own may be repeated behind a deadband, too; an EMA filter approaches    *)
(* the value with each repetition.  (An attribute with a bool or trigger   *)
(* baseline and a value of another type is not driven by deltas.)          *)
(***************************************************************************)
RepeatIsHarmless ==
    active_scene # NoScene =>
        \A batch \in SeqOf(Sample, MaxBatch) :
            LET doc == scenes[active_scene]
                once == AfterBatch(doc, batch)
            IN  (\A a \in DOMAIN doc :
                    /\ Anchored(doc[a])
                    /\ \/ ~ Remembers(doc[a])
                       \/ Len(batch) <= 1 /\ "ema" \notin Kinds(doc[a]) /\ InEveryClamp(doc[a]))
                => AfterBatch(once, batch) = once

(***************************************************************************)
(* Lost or reordered samples leave no trace: without a filter that         *)
(* remembers, a sample takes the attribute to the same value as it would   *)
(* have right after a reset to the baseline, if it is accepted then, too.  *)
(* It is accepted then wherever the baseline takes deltas; not so where    *)
(* the current value is of another type than a bool or trigger baseline.   *)
(***************************************************************************)
LossLeavesNoTrace ==
    active_scene # NoScene =>
        \A u \in Sample :
            LET doc == scenes[active_scene] IN
            Accepted(doc, u) =>
                LET b == bindings[Route(u.output)]
                    attr == doc[b.attr]
                    reset == [attr EXCEPT !.current = attr.default]
                    fits == Fits(Target(reset), u.value, b.mask)
                IN  /\ attr.live /\ Anchored(attr) => fits
                    /\ fits /\ ~ Remembers(attr) =>
                          Resolved(attr, u.value, b.mask) = Resolved(reset, u.value, b.mask)

(***************************************************************************)
(* A baseline near the end of the int32 range does not turn a movement     *)
(* around.                                                                 *)
(***************************************************************************)
DirectionKept ==
    active_scene # NoScene =>
        \A u \in Sample :
            LET doc == scenes[active_scene] IN
            Accepted(doc, u) =>
                LET b == bindings[Route(u.output)]
                    attr == doc[b.attr]
                    delta == MappingDeltaTransform(attr.default, u.value, b.mask).comps[1]
                    moved == Resolved(attr, u.value, b.mask).comps[1] - attr.default.comps[1]
                IN  attr.live /\ attr.default.type = "int32" => (delta >= 0 <=> moved >= 0) \/ moved = 0

(***************************************************************************)
(* Two mappings can match one output, by its bare and by its qualified     *)
(* name, and a new mapping may displace one in the middle of the list.     *)
(* The outputs that drive other attributes stay where they are: creating a *)
(* mapping redirects none of them.                                         *)
(***************************************************************************)
NewMappingStealsNothing ==
    [][bindings' # bindings =>
         \A s \in Scene, a \in Attr, output \in Output, mask \in Mask \cup {NoMask} :
            CreateMapping(output, s, a, mask) =>
               \A o \in Output :
                  Route(o) # 0 /\ Route(o) \notin OnTarget(s, a)
                     => bindings'[Route(o)'] = bindings[Route(o)]]_vars

Degenerate(v) == v.type = "quatf" /\ Zero(v.comps)

\* A sample of the batch drives a rotation in doc so far that the norm overflows.
SomeOverflows(doc, batch) ==
    \E k \in DOMAIN batch :
        /\ Accepted(doc, batch[k])
        /\ LET b == bindings[Route(batch[k].output)]
               attr == doc[b.attr]
           IN  /\ attr.live /\ attr.default.type = "quatf"
               /\ NormOverflows(attr.default.comps,
                                MappingDeltaTransform(attr.default, batch[k].value, b.mask).comps)

(***************************************************************************)
(* A rotation stays a rotation: no sample, the all-zero one of a tracker   *)
(* that lost its target included, leaves a quaternion without direction,   *)
(* but for samples so large that the f32 norm overflows, where the output  *)
(* is zero and not normalize(baseline * delta), as docs/protocol.md has    *)
(* it.  Those do not reach the baseline, from which the next sample is     *)
(* composed, until the value they left is committed.                       *)
(***************************************************************************)
RotationsStayProper ==
    [][\A s \in DOMAIN scenes : \A a \in DOMAIN scenes[s] :
         LET attr == scenes[s][a]
             next == scenes'[s][a]
         IN  /\ a \in DOMAIN scenes'[s] /\ ~ \E doc \in Document : LoadScene(s, doc)
             /\ SupportsRelative(attr.default) /\ ~ Degenerate(attr.default)
             => /\ Degenerate(next.default) => Degenerate(attr.current)
                /\ Degenerate(next.current) =>
                      \/ Degenerate(attr.current)
                      \/ \E batch \in SeqOf(Sample, MaxBatch) :
                            ApplyUpdates(batch) /\ SomeOverflows(scenes[s], batch)]_vars

=============================================================================
