--------------------------- MODULE MCAppConfigUsers ---------------------------
(***************************************************************************)
(* Instances of AppConfigUsers for TLC.                                    *)
(***************************************************************************)
EXTENDS MCAppConfig, AppConfigUsers
===============================================================================
