------------------------------- MODULE MCRouting -------------------------------
(* Messages for a ring of 64 KiB: a small and a medium one for either      *)
(* transport, one for the ring alone, one in the ring's last bytes and one *)
(* beyond it; and conditions in which the ring or the datagram is better by*)
(* less than, or just about, what a switch must gain.                      *)
EXTENDS Routing

Class(b, d, r, f) ==
  [band |-> b, dgram |-> d, ring |-> r, fits |-> f, small |-> b = "low"]

MCSizes == {Class("low", TRUE, TRUE, TRUE), Class("high", TRUE, TRUE, TRUE),
            Class("high", FALSE, TRUE, TRUE), Class("high", FALSE, TRUE, FALSE),
            Class("high", FALSE, FALSE, FALSE)}

Cond(u, s, q, h) == [uds |-> u, shm |-> s, prior |-> 3, q |-> q, hp |-> h, notify |-> 2]

MCWorlds == {Cond(5, 2, 0, 0), Cond(4, 4, 0, 0), Cond(5, 2, 8, 0), Cond(5, 2, 0, 6)}

================================================================================
