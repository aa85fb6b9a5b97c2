---------------------------- MODULE MCSceneValues ----------------------------
(* Instances of SceneValues for TLC: two objects with an attribute each. *)
EXTENDS SceneValues, TLC

CONSTANTS left, right

x == <<left, "x">>
y == <<right, "y">>
Attributes == {x, y}

V(type, comps) == [type |-> type, comps |-> comps]
NewAttribute(v, live, filters) ==
    [default |-> v, current |-> v, live |-> live, filters |-> filters]

\* From a scene that gives `value` and `default_value`.
WithValue(default, value, filters) ==
    [default |-> default, current |-> value, live |-> TRUE, filters |-> filters]

Pass == [kind |-> "passthrough"]
Ema(alpha) == [kind |-> "ema", alpha |-> alpha]
Deadband(t) == [kind |-> "deadband", threshold |-> t]
Clamp(min, max) == [kind |-> "clamp", min |-> min, max |-> max]

\* Rows 1 and 2 exchanged.
Swap == <<0, 1, 0, 0,  1, 0, 0, 0,  0, 0, 1, 0,  0, 0, 0, 1>>
Identity == <<1, 0, 0, 0,  0, 1, 0, 0,  0, 0, 1, 0,  0, 0, 0, 1>>

\* The names x and y stand for other types after a scene is loaded again.
Documents ==
    {(x :> NewAttribute(V("vec3f", <<0, 0, 1>>), TRUE, <<Deadband(1), Clamp(3, -2)>>))
     @@ (y :> NewAttribute(V("float64", <<0>>), FALSE, <<Deadband(1)>>)),
     (x :> NewAttribute(V("bool", <<0>>), TRUE, <<Ema(1)>>))
     @@ (y :> NewAttribute(V("float32", <<1>>), TRUE, <<Clamp(0, 3), Ema(1), Ema(3)>>)),
     x :> NewAttribute(V("quatf", <<0, 0, 0, 1>>), TRUE, <<Clamp(0, 0)>>),
     (x :> NewAttribute(V("mat4f", Identity), TRUE, <<Pass>>))
     @@ (y :> NewAttribute(V("int32", <<1>>), TRUE, <<Pass>>)),
     x :> WithValue(V("bool", <<0>>), V("vec3f", <<0, 1, 0>>), <<Pass>>),
     x :> WithValue(V("float32", <<0>>), V("vec3f", <<0, 1, 0>>), <<Ema(1), Clamp(-1, 2)>>)}

\* Baselines are normalised: the norm is that of the sample.  It is too large for a
\* float32 sample that is mapped to one component of a rotation.
NormTooLarge(base, delta) == delta[1]^2 + delta[2]^2 + delta[3]^2 + delta[4]^2 > 9

bare == [owner |-> Bare, base |-> "pose"]
qualified == [owner |-> Self, base |-> "pose"]
Outputs == {bare, qualified}

Samples ==
    {[output |-> o, value |-> v] : o \in {bare},
        v \in {V("vec3f", <<1, -1, -1>>), V("float32", <<-3>>),
               V("quatf", <<0, 0, 1, 1>>), V("quatf", <<0, 0, 0, 0>>),
               V("int32", <<2>>), V("mat4f", Swap), V("bool", <<1>>)}}

Masks == {<<2>>, <<2, 2>>}

=============================================================================
