------------------------------- MODULE MCRingInit -------------------------------
(* One producer process and up to three consumer processes.                *)
EXTENDS RingInit

MCStarts == [producer |-> 1, consumer |-> 3]

================================================================================
