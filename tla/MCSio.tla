------------------------------- MODULE MCSio -------------------------------
(* Nodes whose telegrams share the first character (STX) and then differ.     *)
EXTENDS Sio, TLC
CONSTANTS n1, n2, n3, stx, a2, a3, b2, b3, c2

MCTelegram2 == (n1 :> <<stx, a2>>) @@ (n2 :> <<stx, b2>>)
MCTelegram3 == (n1 :> <<stx, a2, a3>>) @@ (n2 :> <<stx, b2, b3>>) @@ (n3 :> <<stx, c2>>)

(* All three nodes contend for a good line; or the third only listens while   *)
(* one character is disturbed; or one character is lost of the first node's   *)
(* telegram, which then has another one and may meet the second's.            *)
MCNext ==
  /\ Next
  /\ noise' + lost' <= 1 /\ (noise' + lost' > 0 => msgs'[n3] = 0 /\ pc'[n3] = "ready")
  /\ lost' > lost => msgs[n2] = 0 /\ pc[n2] = "ready"
  /\ \A n \in Node : pc[n] = "ready" /\ pc'[n] # "ready" => msgs[n] = 0 \/ (n = n1 /\ lost = 1)
MCSpec == Init /\ [][MCNext]_vars /\ Fairness
=============================================================================
