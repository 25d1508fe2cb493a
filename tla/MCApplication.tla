--------------------------- MODULE MCApplication ---------------------------
(***************************************************************************)
(* A small instance of Application: everything enabled, and what is        *)
(* enabled by default.                                                     *)
(***************************************************************************)
EXTENDS Application

ByDefault == {"cache", "smartHB", "adapter", "database", "api"}

Everything == ByDefault \cup {"relay", "websocket", "webhook"}

MCConfigurations == {ByDefault, Everything}
=============================================================================
