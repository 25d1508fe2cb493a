-------------------------- MODULE MCCommandService --------------------------
(***************************************************************************)
(* Small instances of CommandService.  Two commands of one device compete  *)
(* for its results; the third message type is one the builders reject.     *)
(***************************************************************************)
EXTENDS CommandService

MCTypes == {"SET_COLOR", "QUERY_TEMP_HUM", "BOGUS"}
MCBuildable == {"SET_COLOR", "QUERY_TEMP_HUM"}
=============================================================================
