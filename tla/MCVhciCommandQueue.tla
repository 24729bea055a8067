------------------------- MODULE MCVhciCommandQueue -------------------------
(* Model-checking instance of VhciCommandQueue: two callers contending for *)
(* the queue, one opcode (so a stale reply carries a matching identity),    *)
(* two execute calls and rings of two slots, so that a full ring, a        *)
(* timeout, a cancellation and a late reply all happen within one run.      *)
EXTENDS VhciCommandQueue

CONSTANTS c1, c2

MCCallers == {c1, c2}
MCOps == {7}
=============================================================================
