--------------------------- MODULE MCModuleHealth ---------------------------
(***************************************************************************)
(* A small instance of ModuleHealth: the record of one module, messages    *)
(* about it and about an address no heartbeat may list, the health check   *)
(* and a name for tasks that are added.  Of the records one is followed:   *)
(* others touch it only through the merged record, which the second        *)
(* address joins as any other would.                                       *)
(***************************************************************************)
EXTENDS ModuleHealth
=============================================================================
