------------------------------- MODULE MCProxy -------------------------------
(* Two clients and three descriptors: one exchange of the second client, who may
   fall silent and whose server may, can hold two of them for ever.  A
   "pipelined" request has every behaviour of "get", and more. *)
EXTENDS Proxy
=============================================================================
