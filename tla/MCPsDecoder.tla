---------------------------- MODULE MCPsDecoder -----------------------------
(* PsDecoder for TLC. *)
EXTENDS PsDecoder

NoCepValue == <<>>
NoFeatureValue == <<>>

\* Speech from the start, speech that stops in the rest, speech that starts with the
\* last whole frame after a voiced one that was none, and speech that stops.
SomeVoices ==
    {[k \in 1 .. MaxSamps |-> k \in frames] :
        frames \in {1 .. MaxSamps, 2 .. 5, {1, 3, 4, 5, 6}, 1 .. 4}}
=============================================================================
