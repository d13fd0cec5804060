-------------------------------- MODULE MsgQueue --------------------------------
(***************************************************************************)
(* What the shared-memory ring promises its two users: a bounded FIFO of   *)
(* whole records.  A record that was accepted stays until it is received,  *)
(* records leave in the order they were accepted, each once, and with the  *)
(* bytes they were sent with.  The module says nothing of cursors, wrap    *)
(* sentinels or bytes in memory; SpscRing implements it.                   *)
(***************************************************************************)
EXTENDS Integers, Sequences

CONSTANTS Ids,      \* what the payloads of records are told apart by
          Sizes,    \* body lengths
          Hdr,      \* bytes of framing per record
          Cap       \* bytes the ring holds

VARIABLES queue,    \* accepted and not yet received, oldest first
          got       \* the record received last

vars == <<queue, got>>

Record == [id : Ids, size : Sizes]
NoRecord == [id |-> "none", size |-> 0]

(* What the records take, framing included.                                *)
Bytes(q) ==
  LET sum[i \in 0 .. Len(q)] == IF i = 0 THEN 0 ELSE sum[i - 1] + q[i].size + Hdr
  IN  sum[Len(q)]

Init == queue = << >> /\ got = NoRecord

Accept(r) == /\ Bytes(Append(queue, r)) <= Cap
             /\ queue' = Append(queue, r)
             /\ UNCHANGED got

Receive == /\ queue # << >>
           /\ got' = Head(queue)
           /\ queue' = Tail(queue)

Next == Receive \/ \E r \in Record : Accept(r)

Spec == Init /\ [][Next]_vars

================================================================================
