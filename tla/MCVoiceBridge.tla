----------------------------- MODULE MCVoiceBridge -----------------------------
(* The environments under which the voice path is checked, see README.      *)
EXTENDS VoiceBridge

\* Everything may fail except the delivery of a key to the host.
DeliveredFaults == FaultKinds \ {"host", "tapUp"}

AudioFaults == {"lease", "playback", "write"}

\* A remote that keeps the order of a hold's events, and a user who lets the
\* bridge finish one hold before the next.
OrderlyTimings == {"busyCleanup"}
=============================================================================
