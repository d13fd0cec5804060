------------------------------- MODULE RecordFlow -------------------------------
(***************************************************************************)
(* FlowControl with the records the ring really holds: a pop releases the  *)
(* padding before the oldest record, or the oldest record, and nothing     *)
(* else.  Its behaviours are behaviours of FlowControl, so what is proved  *)
(* of FlowControl holds here; what fails here fails in the code.           *)
(***************************************************************************)
EXTENDS FlowControl

VARIABLE recs    \* [pad, need] of every record from tail to head, oldest first

rvars == <<vars, recs>>

RInit == Init /\ recs = << >>

(* The slip: a record that ends with the buffer is taken for one that wraps.*)
PadAtEnd(need) == IF Cap - pos <= need THEN Cap - pos ELSE 0

Pad(need) == IF Cap - pos < need THEN Cap - pos ELSE 0

RPublish == /\ Publish
            /\ recs' = Append(recs, [pad |-> Pad(pneed), need |-> pneed])

RPopSentinel == /\ PopSentinel
                /\ recs[1].pad > 0 /\ used' = used - recs[1].pad
                /\ recs' = [recs EXCEPT ![1].pad = 0]

RPopTooSmall == PopTooSmall /\ recs[1].pad = 0 /\ UNCHANGED recs

RPopRecord == /\ PopRecord
              /\ recs[1].pad = 0 /\ used' = used - recs[1].need
              /\ recs' = Tail(recs)

(* Every other step leaves the records alone.  Sleeping and waking are kept*)
(* apart, for the module that replaces the futex.                          *)
RWait   == Wait /\ UNCHANGED recs
RSignal == Signal /\ UNCHANGED recs

RProducerRuns == \/ RPublish
                 \/ Check /\ UNCHANGED recs
                 \/ Arm /\ UNCHANGED recs
                 \/ Recheck /\ UNCHANGED recs
                 \/ Disarm /\ UNCHANGED recs
                 \/ Park /\ UNCHANGED recs
                 \/ Push /\ UNCHANGED recs

RConsumerRuns == \/ RPopSentinel \/ RPopTooSmall \/ RPopRecord
                 \/ PopCall /\ UNCHANGED recs
                 \/ Exchange /\ UNCHANGED recs

RProducer == RProducerRuns \/ RWait
RConsumer == RConsumerRuns \/ RSignal

RCall == \E need \in Needs, mode \in Modes : PushCall(need, mode) /\ UNCHANGED recs

RNext == \/ RCall \/ RProducer \/ RConsumer
         \/ Spurious /\ UNCHANGED recs
         \/ Interrupted /\ UNCHANGED recs
         \/ Flush /\ UNCHANGED recs

RSpec == RInit /\ [][RNext]_rvars

(* Both threads keep running, and stores do not stay in a store buffer for *)
(* ever.  The consumer polls with a buffer its records fit into (adapt_recv*)
(* grows it to the capacity), so it does not fail on every one of its      *)
(* calls.  Nothing makes a sleeper return on its own, or a caller push.    *)
RFairSpec == /\ RSpec
             /\ WF_rvars(RProducer) /\ WF_rvars(Flush /\ UNCHANGED recs)
             /\ WF_rvars(RConsumer) /\ SF_rvars(RPopRecord)

-----------------------------------------------------------------------------
(* The bytes a pop is about to release are among those it has seen, even   *)
(* though head may have moved since it looked: it never advances tail past *)
(* a head it has loaded, and a sentinel it skips always has its record     *)
(* behind it (shm_ringbuffer.c:394-414).  It is also why every pop of this *)
(* module is one of FlowControl.                                           *)
PopWithinSeen ==
  cpc = "read" => /\ recs # << >>
                  /\ IF recs[1].pad > 0 THEN recs[1].pad < cseen ELSE recs[1].need <= cseen

(* A push under way returns: with a result, or with the record in the      *)
(* ring.  "Blocking producer push: throttles at the high watermark instead *)
(* of returning -EAGAIN. Never drops a message" (shm_ringbuffer.h:111).    *)
PushReturns == (ppc # "idle") ~> (ppc = "idle")

================================================================================
