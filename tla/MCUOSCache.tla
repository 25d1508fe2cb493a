----------------------------- MODULE MCUOSCache -----------------------------
(***************************************************************************)
(* Small instances of UOSCache: one more key than fits, two modules of one *)
(* device and one of another, and one key that holds device information.   *)
(***************************************************************************)
EXTENDS UOSCache

CONSTANTS d1, d2, m1, m2, m3, i1

MCModuleKeys == [d \in Devices |-> IF d = d1 THEN {m1, m2} ELSE Keys \cap {m3}]
=============================================================================
