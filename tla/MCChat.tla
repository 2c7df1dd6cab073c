-------------------------------- MODULE MCChat --------------------------------
(***************************************************************************)
(* Small instance of Chat: both accounts send messages and read them.         *)
(***************************************************************************)
EXTENDS Chat

Both == [p \in People |-> {"send", "read"}]
=============================================================================
