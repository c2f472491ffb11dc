------------------------------ MODULE MCReqOrder ------------------------------
(* ReqOrder on the requests of Commands. *)
EXTENDS ReqOrder, Commands
===============================================================================
