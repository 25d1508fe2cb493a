------------------------------ MODULE MCSmartHB ------------------------------
(***************************************************************************)
(* Small instances of SmartHB.  All its state is kept per device, so one   *)
(* device, of either kind, shows what any does; two slots let a module     *)
(* join a record that was complete.                                        *)
(***************************************************************************)
EXTENDS SmartHB, TLC

CONSTANTS s1, s2

Sym == Permutations({s1, s2})
=============================================================================
