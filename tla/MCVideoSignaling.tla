-------------------------- MODULE MCVideoSignaling --------------------------
(* A small instance of VideoSignaling for TLC. *)
EXTENDS VideoSignaling, TLC

CONSTANTS t1, t2, t3, a, b

\* Device a has two connections, b one.
Devices == t1 :> a @@ t2 :> a @@ t3 :> b

\* Only a makes video calls.
Calls == t1 :> 2 @@ t2 :> 2 @@ t3 :> 0

Sdr(w) == [width |-> w, height |-> 1, fps |-> 1, dynamic_range |-> "Sdr",
           color_primaries |-> "Bt709", transfer |-> "Srgb", bit_depth |-> 8]

Hdr(depth) == [width |-> 2, height |-> 1, fps |-> 1, dynamic_range |-> "Hdr10",
               color_primaries |-> "Bt2020", transfer |-> "Pq", bit_depth |-> depth]

\* Valid ones, the last with an HDR10 encoding but labelled SDR; one without a width and
\* one of the wrong depth.
Descriptors == {Sdr(1), Hdr(10), [Hdr(10) EXCEPT !.dynamic_range = "Sdr"], Sdr(0), Hdr(8)}

Capabilities == [supports_hdr10: BOOLEAN, max_width: 1..2, max_height: {1}, max_fps: 0..1]
=============================================================================
