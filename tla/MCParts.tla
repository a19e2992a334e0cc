------------------------------ MODULE MCParts -------------------------------
(* A history buffer of two entries and limits small enough to trim more    *)
(* than once; a queue of two slots, so that producers, workers, the        *)
(* writer, a timer and the shutdown all wait for room.                     *)
EXTENDS Parts
=============================================================================
