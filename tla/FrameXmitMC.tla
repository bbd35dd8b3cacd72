---------------------------- MODULE FrameXmitMC -----------------------------
(* Instances of FrameXmit for TLC. *)
EXTENDS FrameXmit

\* Frames of two packets, every third one of a single packet.
TwoOrOne(f) == IF f % 3 = 2 THEN 1 ELSE 2
=============================================================================
