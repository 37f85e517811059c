-------------------------------- MODULE MCRpc --------------------------------
(* Calls of one service, more of them than its trigger has slots, but never *)
(* more at a time.                                                         *)
EXTENDS RpcCalls

OneService == [c \in Ids |-> "add"]
=============================================================================
