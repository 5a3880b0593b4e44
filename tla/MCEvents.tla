------------------------------ MODULE MCEvents ------------------------------
(* A lamp and a shutter; the event monitor and a client that is gone. *)
EXTENDS Events
CONSTANTS em, gone
MCClientList == <<em, gone>>
MCMaxRetry == <<1, 0>>
=============================================================================
