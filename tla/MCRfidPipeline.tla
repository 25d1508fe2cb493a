---------------------------- MODULE MCRfidPipeline ----------------------------
(***************************************************************************)
(* Small instances of RfidPipeline: two tags so that one can be swapped    *)
(* for the other and back within the window.                               *)
(***************************************************************************)
EXTENDS RfidPipeline, TLC

CONSTANTS t1, t2

Sym == Permutations({t1, t2})
=============================================================================
