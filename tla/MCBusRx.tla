------------------------------ MODULE MCBusRx ------------------------------
(* Telegrams of every length kind, with STX and ESC as data and as checksum. *)
EXTENDS BusRx

MCTelegrams ==
  { <<172, 255>>,                     \* startup: the checksum is STX
    <<5, 46, 3, 0, 27, 0>>,           \* response: variable ESC has no data
    <<6, 47, 4, 1, 1, 2>>,            \* set a variable to STX
    <<8, 16, 3, 1, 9>> }              \* the state of a switch
=============================================================================
