------------------------------ MODULE MCReqQueue ------------------------------
(* ReqQueue on the requests of Commands. *)
EXTENDS ReqQueue, Commands
===============================================================================
