-------------------------- MODULE MCDatabaseWriter --------------------------
(***************************************************************************)
(* Small instances of DatabaseWriter: three messages, two of which are the *)
(* parts of one device message and so share their key.                     *)
(***************************************************************************)
EXTENDS DatabaseWriter, TLC

CONSTANTS m1, m2, m3, k1, k2, k3

SharedKeys == (m1 :> k1) @@ (m2 :> k1) @@ (m3 :> k2)
OwnKeys == (m1 :> k1) @@ (m2 :> k2) @@ (m3 :> k3)
=============================================================================
