---------------------------- MODULE MCWebSocket -----------------------------
(* One unfinished connection at a time, any number of them one after the    *)
(* other; a channel of two and four reads of a failed connection, so that   *)
(* the answers to it overflow the channel and the panic is reached too.     *)
EXTENDS WebSocket
=============================================================================
