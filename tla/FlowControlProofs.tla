--------------------------- MODULE FlowControlProofs ----------------------------
(***************************************************************************)
(* What the runs of FlowControl check on one ring holds for rings of every *)
(* capacity, watermarks and record lengths: types, the bound on the        *)
(* backlog, and, where the producer's stores are not held back, that no    *)
(* wakeup is lost.  The ring with its exact records (RecordFlow) implements*)
(* FlowControl, so these are theorems about it too.                        *)
(***************************************************************************)
EXTENDS RecordFlow, SequenceTheorems, TLAPS

(* The local variables of a call stand for what has been checked of the    *)
(* shared state: a record about to be published fits, and the bytes the    *)
(* consumer has seen are still in the ring.                                *)
CallInv ==
  /\ ppc # "idle" => pneed \in Needs
  /\ ppc = "publish" => pneed <= MaxNeed /\ used + Required(pneed) <= Cap
  /\ cseen <= used
  /\ cpc = "read" => cseen >= 1

TypeInv == TypeOK /\ CallInv

(* A push that throttled has seen less than HW, and nobody has added since.*)
ThrottleInv ==
  pmode = "blocking" /\ ppc \in {"disarm", "push", "publish"} => used < HW

(* From the second look at the cursors on, an armed flag has something to  *)
(* trigger its wake; asleep, a flag no longer armed has triggered it.      *)
WakeInv ==
  /\ pending = << >>
  /\ ppc \in {"park", "wait", "asleep"} => (flag = 1 => used > 0 \/ cpc = "wake")
  /\ ppc = "asleep" => flag = 1 \/ cpc = "signal"

-----------------------------------------------------------------------------
(* The padding of a wrap is shorter than the record that causes it: the    *)
(* space check of push_scatter reserves less than twice the record.        *)
LEMMA RequiredBounds ==
  ASSUME TypeOK, NEW n \in Nat \ {0}, n < Cap
  PROVE  /\ Required(n) \in Nat
         /\ n <= Required(n) /\ Required(n) <= 2 * n - 1
         /\ PosAfter(n) \in 0 .. Cap - 1
  BY FlowControlAssumption DEF TypeOK, Required, PosAfter, FlowControlAssumption

(* A store to the flag keeps the flag, and the stores held back, in range. *)
LEMMA StoreFlagType ==
  ASSUME TypeOK, NEW v \in {0, 1}, StoreFlag(v)
  PROVE  /\ flag' \in {0, 1} /\ pending' \in Seq({0, 1})
         /\ Len(pending') <= StoreBuffer
  BY FlowControlAssumption DEF TypeOK, StoreFlag, FlowControlAssumption

-----------------------------------------------------------------------------
(* Every step of the ring keeps its types, and what the calls under way    *)
(* rely on: between the space check and the store of head the consumer can *)
(* only release bytes, between the load and the store of tail the producer *)
(* can only add some (shm_ringbuffer.c:341-386, 394-421).                  *)
LEMMA TypeInvStep == TypeInv /\ [Next]_vars => TypeInv'
<1> SUFFICES ASSUME TypeInv, [Next]_vars PROVE TypeInv'
  OBVIOUS
<1> USE FlowControlAssumption DEF FlowControlAssumption, TypeInv
<1> USE DEF GoTo, Return, producer, consumer
<1>1. ASSUME NEW need \in Needs, NEW mode \in Modes, PushCall(need, mode)
      PROVE  TypeInv'
  BY <1>1 DEF TypeOK, CallInv, PushCall, Required
<1>2. CASE Check
  BY <1>2 DEF TypeOK, CallInv, Check, Required
<1>3. CASE Arm
  BY <1>3, StoreFlagType DEF TypeOK, CallInv, Arm, Required
<1>4. CASE Recheck
  BY <1>4 DEF TypeOK, CallInv, Recheck, Required
<1>5. CASE Disarm
  BY <1>5, StoreFlagType DEF TypeOK, CallInv, Disarm, Required
<1>6. CASE Park
  BY <1>6 DEF TypeOK, CallInv, Park, Required
<1>7. CASE Wait
  BY <1>7 DEF TypeOK, CallInv, Wait, Required
<1>8. CASE Push
  BY <1>8, RequiredBounds DEF TypeOK, CallInv, Push, Required
<1>9. CASE Publish
  BY <1>9, RequiredBounds DEF TypeOK, CallInv, Publish
<1>10. CASE Spurious
  BY <1>10 DEF TypeOK, CallInv, Spurious, Required
<1>11. CASE Interrupted
  BY <1>11 DEF TypeOK, CallInv, Interrupted, Required
<1>12. CASE Flush
  BY <1>12 DEF TypeOK, CallInv, Flush, Required
<1>13. CASE PopCall
  BY <1>13 DEF TypeOK, CallInv, PopCall, Required
<1>14. CASE PopSentinel
  BY <1>14 DEF TypeOK, CallInv, PopSentinel, Required
<1>15. CASE PopTooSmall
  BY <1>15 DEF TypeOK, CallInv, PopTooSmall, Required
<1>16. CASE PopRecord
  BY <1>16 DEF TypeOK, CallInv, PopRecord, Required
<1>17. CASE Exchange
  BY <1>17 DEF TypeOK, CallInv, Exchange, Required
<1>18. CASE Signal
  BY <1>18 DEF TypeOK, CallInv, Signal, Required
<1>19. CASE UNCHANGED vars
  BY <1>19 DEF TypeOK, CallInv, vars, Required
<1> QED
  BY <1>1, <1>2, <1>3, <1>4, <1>5, <1>6, <1>7, <1>8, <1>9, <1>10, <1>11, <1>12,
     <1>13, <1>14, <1>15, <1>16, <1>17, <1>18, <1>19 DEF Next, Producer, Consumer

(* The cursors, the flag and the calls under way stay in range whatever    *)
(* the capacity, the watermarks and the records: in particular the bytes   *)
(* between the cursors never exceed the capacity, although both sides work *)
(* on cursors loaded earlier.                                              *)
THEOREM TypeCorrect == Spec => []TypeOK
<1>1. Init => TypeInv
  BY FlowControlAssumption
  DEF FlowControlAssumption, Init, TypeInv, TypeOK, CallInv, Required
<1>2. TypeInv /\ [Next]_vars => TypeInv'
  BY TypeInvStep
<1>3. TypeInv => TypeOK
  BY DEF TypeInv
<1> QED
  BY <1>1, <1>2, <1>3, PTL DEF Spec

-----------------------------------------------------------------------------
(* A call that throttles is still below HW when it pushes: it has looked at*)
(* the ring, and only the consumer has changed it since                    *)
(* (shm_ringbuffer.c:450, 459, 483).                                       *)
LEMMA ThrottleStep == TypeInv /\ ThrottleInv /\ [Next]_vars => ThrottleInv'
<1> SUFFICES ASSUME TypeInv, ThrottleInv, [Next]_vars PROVE ThrottleInv'
  OBVIOUS
<1> USE FlowControlAssumption DEF FlowControlAssumption, TypeInv
<1> USE DEF GoTo, Return, producer, consumer
<1>1. ASSUME NEW need \in Needs, NEW mode \in Modes, PushCall(need, mode)
      PROVE  ThrottleInv'
  BY <1>1 DEF ThrottleInv, PushCall
<1>2. CASE Check \/ Arm \/ Recheck \/ Disarm \/ Park \/ Wait \/ Spurious \/ Interrupted
  BY <1>2 DEF ThrottleInv, Check, Arm, Recheck, Disarm, Park, Wait, Spurious, Interrupted
<1>3. CASE Push \/ Publish
  BY <1>3 DEF ThrottleInv, Push, Publish
<1>4. CASE Flush \/ PopCall \/ PopTooSmall \/ Exchange
  BY <1>4 DEF ThrottleInv, Flush, PopCall, PopTooSmall, Exchange
<1>5. CASE PopSentinel \/ PopRecord
  <2>1. used' \in Nat /\ used' <= used
    BY <1>5 DEF PopSentinel, PopRecord, TypeOK, CallInv
  <2>2. UNCHANGED producer
    BY <1>5 DEF PopSentinel, PopRecord
  <2> QED
    BY <2>1, <2>2 DEF ThrottleInv, TypeOK
<1>6. CASE Signal
  BY <1>6 DEF ThrottleInv, Signal
<1>7. CASE UNCHANGED vars
  BY <1>7 DEF ThrottleInv, vars
<1> QED
  BY <1>1, <1>2, <1>3, <1>4, <1>5, <1>6, <1>7 DEF Next, Producer, Consumer

(* Only the store of head adds bytes.                                      *)
LEMMA OnlyPublishAdds ==
  ASSUME TypeInv, [Next]_vars, used' > used
  PROVE  Publish
<1> USE FlowControlAssumption DEF FlowControlAssumption, TypeInv, TypeOK
<1>1. ~(PopSentinel \/ PopRecord)
  BY DEF PopSentinel, PopRecord
<1>2. used' # used
  OBVIOUS
<1> QED
  BY <1>1, <1>2
  DEF Next, Producer, Consumer, PushCall, Check, Arm, Recheck, Disarm, Park, Wait,
      Spurious, Interrupted, Push, Flush, PopCall, PopTooSmall, Exchange, Signal, vars

(* The bound that test_backpressure_latency.c:246 measures on one ring, for*)
(* every capacity and every mix of records, of callers that throttle and   *)
(* callers that do not.                                                    *)
THEOREM BacklogBounded == Spec => BacklogBound
<1>1. Init => TypeInv /\ ThrottleInv
  BY FlowControlAssumption
  DEF FlowControlAssumption, Init, TypeInv, TypeOK, CallInv, ThrottleInv, Required
<1>2. TypeInv /\ ThrottleInv /\ [Next]_vars => (TypeInv /\ ThrottleInv)'
  BY TypeInvStep, ThrottleStep
<1>3. TypeInv /\ ThrottleInv /\ [Next]_vars
        => [used' > used /\ pmode = "blocking" => used' <= HW + 2 * pneed - 2]_vars
  <2> SUFFICES ASSUME TypeInv, ThrottleInv, [Next]_vars, used' > used, pmode = "blocking"
               PROVE  used' <= HW + 2 * pneed - 2
    OBVIOUS
  <2>1. Publish
    BY OnlyPublishAdds
  <2>2. pneed \in Nat \ {0} /\ pneed < Cap /\ used < HW
    BY <2>1, FlowControlAssumption
    DEF Publish, TypeInv, TypeOK, CallInv, ThrottleInv, FlowControlAssumption
  <2> QED
    BY <2>1, <2>2, RequiredBounds, FlowControlAssumption
    DEF Publish, TypeInv, TypeOK, FlowControlAssumption
<1> QED
  BY <1>1, <1>2, <1>3, PTL DEF Spec, BacklogBound

-----------------------------------------------------------------------------
(* If the store that arms the flag is seen before the second look at the   *)
(* cursors, the pop that empties the ring afterwards finds it armed: such a*)
(* pop saw all the bytes it left none of, hence less than LW.              *)
LEMMA WakeStep ==
  ASSUME StoreBuffer = 0
  PROVE  TypeInv /\ WakeInv /\ [Next]_vars => WakeInv'
<1> SUFFICES ASSUME TypeInv, WakeInv, [Next]_vars PROVE WakeInv'
  OBVIOUS
<1> USE FlowControlAssumption DEF FlowControlAssumption, TypeInv
<1> USE DEF GoTo, Return, StoreFlag, producer, consumer
<1>1. ASSUME NEW need \in Needs, NEW mode \in Modes, PushCall(need, mode)
      PROVE  WakeInv'
  BY <1>1 DEF WakeInv, PushCall
<1>2. CASE Check \/ Arm \/ Disarm \/ Park \/ Wait \/ Spurious \/ Interrupted
  BY <1>2 DEF WakeInv, Check, Arm, Disarm, Park, Wait, Spurious, Interrupted, TypeOK
<1>3. CASE Recheck
  BY <1>3 DEF WakeInv, Recheck, TypeOK
<1>4. CASE Push \/ Publish
  BY <1>4 DEF WakeInv, Push, Publish
<1>5. CASE Flush
  BY <1>5 DEF WakeInv, Flush
<1>6. CASE PopCall \/ PopTooSmall
  BY <1>6 DEF WakeInv, PopCall, PopTooSmall
<1>7. CASE PopSentinel
  <2>1. used' > 0
    BY <1>7 DEF PopSentinel, TypeOK, CallInv
  <2> QED
    BY <1>7, <2>1 DEF WakeInv, PopSentinel
<1>8. CASE PopRecord
  <2>1. used' > 0 \/ cpc' = "wake"
    BY <1>8 DEF PopRecord, TypeOK, CallInv
  <2> QED
    BY <1>8, <2>1 DEF WakeInv, PopRecord
<1>9. CASE Exchange
  BY <1>9 DEF WakeInv, Exchange, TypeOK
<1>10. CASE Signal
  BY <1>10 DEF WakeInv, Signal
<1>11. CASE UNCHANGED vars
  BY <1>11 DEF WakeInv, vars
<1> QED
  BY <1>1, <1>2, <1>3, <1>4, <1>5, <1>6, <1>7, <1>8, <1>9, <1>10, <1>11
  DEF Next, Producer, Consumer

(* "Safe against lost wakeups" (shm_ringbuffer.h:101) holds of the protocol*)
(* where a store to the flag is seen before the loads after it.            *)
THEOREM WakeupsNotLost ==
  ASSUME StoreBuffer = 0 PROVE Spec => []NoLostWakeup
<1>1. Init => TypeInv /\ WakeInv
  BY FlowControlAssumption
  DEF FlowControlAssumption, Init, TypeInv, TypeOK, CallInv, WakeInv, Required
<1>2. TypeInv /\ WakeInv /\ [Next]_vars => (TypeInv /\ WakeInv)'
  BY TypeInvStep, WakeStep
<1>3. TypeInv /\ WakeInv => NoLostWakeup
  BY DEF TypeInv, TypeOK, WakeInv, NoLostWakeup
<1> QED
  BY <1>1, <1>2, <1>3, PTL DEF Spec

-----------------------------------------------------------------------------
(* Every step of the ring with its records is a step of the flow control   *)
(* that releases any number of bytes: recs only narrows the choice.        *)
THEOREM RecordFlowImplements == RSpec => Spec
<1>1. RInit => Init
  BY DEF RInit
<1>2. [RNext]_rvars => [Next]_vars
  BY DEF RNext, RCall, RProducer, RConsumer, RProducerRuns, RConsumerRuns, RWait,
         RSignal, RPublish, RPopSentinel, RPopTooSmall, RPopRecord, rvars, Next,
         Producer, Consumer
<1> QED
  BY <1>1, <1>2, PTL DEF RSpec, Spec

(* Of the exact ring too: no wakeup is lost where the store that arms the  *)
(* flag is seen before the loads after it (shm_ringbuffer.h:101).          *)
THEOREM RecordWakeupsNotLost ==
  ASSUME StoreBuffer = 0 PROVE RSpec => []NoLostWakeup
BY RecordFlowImplements, WakeupsNotLost, PTL

(* And a push that throttles leaves at most HW and two records             *)
(* (test_backpressure_latency.c:246).                                      *)
THEOREM RecordBacklogBounded == RSpec => BacklogBound
BY RecordFlowImplements, BacklogBounded, PTL

-----------------------------------------------------------------------------
(* Where the records end, counted from tail: off[i] bytes hold the first i *)
(* records with their padding.  What a pop under way has seen ends with a  *)
(* record: head only ever stands at the end of one.                        *)
Ends(off) ==
  /\ off \in [0 .. Len(recs) -> Nat]
  /\ off[0] = 0 /\ off[Len(recs)] = used
  /\ \A i \in 1 .. Len(recs) : off[i] = off[i - 1] + recs[i].pad + recs[i].need
  /\ \A i, k \in 0 .. Len(recs) : i <= k => off[i] <= off[k]
  /\ cpc = "read" => \E j \in 1 .. Len(recs) : cseen = off[j]

Records == [pad : Nat, need : Nat \ {0}]

RecordsInv ==
  /\ recs \in Seq(Records)
  /\ \E off : Ends(off)

(* The fields of every record in a sequence of them.                       *)
LEMMA RecordFields ==
  ASSUME NEW s \in Seq(Records)
  PROVE  /\ Len(s) \in Nat
         /\ \A i \in 1 .. Len(s) :
              s[i] \in Records /\ s[i].pad \in Nat /\ s[i].need \in Nat \ {0}
<1>1. Len(s) \in Nat /\ \A i \in 1 .. Len(s) : s[i] \in Records
  BY LenProperties, ElementOfSeq
<1>2. \A r \in Records : r.pad \in Nat /\ r.need \in Nat \ {0}
  BY DEF Records
<1> QED
  BY <1>1, <1>2

(* The store of head adds a record behind the others, and where they end   *)
(* does not change (shm_ringbuffer.c:361-386).                             *)
LEMMA PublishEnds ==
  ASSUME TypeInv, RecordsInv, RPublish
  PROVE  RecordsInv'
<1> USE FlowControlAssumption DEF FlowControlAssumption, TypeInv
<1>1. PICK off : Ends(off)
  BY DEF RecordsInv
<1>2. PICK r \in Records : /\ used' = used + r.pad + r.need
                           /\ UNCHANGED <<cpc, cseen>> /\ recs' = Append(recs, r)
  BY DEF Records, RPublish, Publish, Pad, Required, TypeOK, CallInv, consumer
<1>3. /\ recs' \in Seq(Records)
      /\ Len(recs') = Len(recs) + 1 /\ Len(recs) \in Nat
      /\ \A i \in 1 .. Len(recs) : recs'[i] = recs[i]
      /\ recs'[Len(recs) + 1] = r
  BY <1>2, AppendProperties, LenProperties DEF RecordsInv
<1> DEFINE n == Len(recs)
<1>4. PICK new : new = [i \in 0 .. n + 1 |-> IF i <= n THEN off[i] ELSE used']
  OBVIOUS
<1>5. used \in Nat /\ used' \in Nat /\ used' = used + r.pad + r.need /\ used <= used'
  BY <1>2 DEF TypeOK, Records
<1>6. /\ n \in Nat
      /\ \A i \in 0 .. n : new[i] = off[i] /\ off[i] \in Nat /\ off[i] <= used
      /\ new[n + 1] = used' /\ off[n] = used
  <2>1. n \in Nat
    BY <1>3
  <2>2. \A i \in 0 .. n : new[i] = off[i]
    BY <1>4, <2>1
  <2>3. new[n + 1] = used'
    BY <1>4, <2>1
  <2>4. \A i \in 0 .. n : off[i] \in Nat /\ off[i] <= off[n]
    BY <1>1, <2>1 DEF Ends
  <2> QED
    BY <1>1, <2>1, <2>2, <2>3, <2>4 DEF Ends
<1>7. new \in [0 .. n + 1 -> Nat] /\ new[0] = 0
  BY <1>1, <1>4, <1>5, <1>6 DEF Ends
<1>8. \A i \in 1 .. n + 1 : new[i] = new[i - 1] + recs'[i].pad + recs'[i].need
  <2> SUFFICES ASSUME NEW i \in 1 .. n + 1
               PROVE  new[i] = new[i - 1] + recs'[i].pad + recs'[i].need
    OBVIOUS
  <2>1. i - 1 \in 0 .. n
    BY <1>6
  <2>2. CASE i \in 1 .. n
    BY <1>1, <1>3, <1>6, <2>1, <2>2 DEF Ends
  <2>3. CASE i = n + 1
    <3>1. i - 1 = n
      BY <1>6, <2>3
    <3> QED
      BY <1>3, <1>5, <1>6, <2>3, <3>1
  <2> QED
    BY <1>6, <2>2, <2>3
<1>9. \A i, k \in 0 .. n + 1 : i <= k => new[i] <= new[k]
  <2> SUFFICES ASSUME NEW i \in 0 .. n + 1, NEW k \in 0 .. n + 1, i <= k
               PROVE  new[i] <= new[k]
    OBVIOUS
  <2>1. CASE k \in 0 .. n
    BY <1>1, <1>6, <2>1 DEF Ends
  <2>2. CASE k = n + 1
    BY <1>5, <1>6, <2>2
  <2> QED
    BY <1>6, <2>1, <2>2
<1>10. cpc' = "read" => \E j \in 1 .. n + 1 : cseen' = new[j]
  BY <1>1, <1>2, <1>6 DEF Ends
<1>11. Ends(new)'
  BY <1>3, <1>6, <1>7, <1>8, <1>9, <1>10 DEF Ends
<1> QED
  BY <1>3, <1>11 DEF RecordsInv

(* Padding that is skipped brings every end closer by as much.             *)
LEMMA SentinelEnds ==
  ASSUME TypeInv, RecordsInv, RPopSentinel, recs # << >>
  PROVE  RecordsInv'
<1> DEFINE n == Len(recs)
           p == recs[1].pad
<1>1. PICK off : Ends(off)
  BY DEF RecordsInv
<1>2. n \in Nat \ {0} /\ p \in Nat /\ recs[1].need \in Nat
  BY RecordFields, EmptySeq DEF RecordsInv
<1>3. /\ used' = used - p /\ cpc' = "retry"
      /\ recs' = [recs EXCEPT ![1].pad = 0]
  BY DEF RPopSentinel, PopSentinel
<1>4. PICK r : r = [pad |-> 0, need |-> recs[1].need]
  OBVIOUS
<1>5. r \in Records /\ recs' = [recs EXCEPT ![1] = r]
  <2>1. r = [recs[1] EXCEPT !.pad = 0]
    <3>1. recs[1] \in Records
      BY <1>2, RecordFields DEF RecordsInv
    <3> QED
      BY <1>4, <3>1 DEF Records
  <2>2. r \in Records
    BY <1>2, <1>4, RecordFields DEF RecordsInv, Records
  <2>3. recs' = [recs EXCEPT ![1] = [recs[1] EXCEPT !.pad = 0]]
    BY <1>3, Zenon
  <2> QED
    BY <2>1, <2>2, <2>3
<1>6. /\ recs' \in Seq(Records) /\ Len(recs') = n
      /\ \A i \in 1 .. n : recs'[i] = IF i = 1 THEN r ELSE recs[i]
  BY <1>2, <1>5, ExceptSeq DEF RecordsInv
<1>7. PICK new : new = [i \in 0 .. n |-> IF i = 0 THEN 0 ELSE off[i] - p]
  OBVIOUS
<1>8. \A i \in 1 .. n : off[i] \in Nat /\ off[i] >= off[1]
  BY <1>1, <1>2 DEF Ends
<1>9. off[1] = p + recs[1].need /\ off[0] = 0 /\ off[n] = used
  BY <1>1, <1>2 DEF Ends
<1>10. \A i \in 1 .. n : new[i] = off[i] - p /\ new[i] \in Nat
  BY <1>2, <1>7, <1>8, <1>9
<1>11. new[0] = 0 /\ new[n] = used' /\ new \in [0 .. n -> Nat]
  <2>1. new[0] = 0
    BY <1>2, <1>7
  <2>2. n \in 1 .. n
    BY <1>2
  <2>3. new[n] = used'
    BY <1>3, <1>9, <1>10, <2>2
  <2>4. \A i \in 0 .. n : new[i] \in Nat
    BY <1>2, <1>10, <2>1
  <2> QED
    BY <1>7, <2>1, <2>3, <2>4
<1>12. \A i \in 1 .. n : new[i] = new[i - 1] + recs'[i].pad + recs'[i].need
  <2> SUFFICES ASSUME NEW i \in 1 .. n
               PROVE  new[i] = new[i - 1] + recs'[i].pad + recs'[i].need
    OBVIOUS
  <2>1. CASE i = 1
    BY <1>2, <1>4, <1>6, <1>9, <1>10, <1>11, <2>1
  <2>2. CASE i # 1
    <3>1. i - 1 \in 1 .. n /\ recs'[i] = recs[i] /\ i - 1 \in Nat
      BY <1>2, <1>6, <2>2
    <3>2. recs[i].pad \in Nat /\ recs[i].need \in Nat
      BY RecordFields DEF RecordsInv
    <3>3. off[i] = off[i - 1] + recs[i].pad + recs[i].need
      BY <1>1 DEF Ends
    <3>4. new[i] = off[i] - p /\ new[i - 1] = off[i - 1] - p
      BY <1>10, <3>1
    <3>5. off[i] \in Nat /\ off[i - 1] \in Nat
      BY <1>8, <3>1
    <3> HIDE DEF p
    <3> QED
      BY <1>2, <3>1, <3>2, <3>3, <3>4, <3>5, SMTT(30)
  <2> QED
    BY <2>1, <2>2
<1>13. \A i, k \in 0 .. n : i <= k => new[i] <= new[k]
  <2> SUFFICES ASSUME NEW i \in 0 .. n, NEW k \in 0 .. n, i <= k
               PROVE  new[i] <= new[k]
    OBVIOUS
  <2>1. CASE i = 0
    BY <1>2, <1>10, <1>11, <2>1
  <2>2. CASE i \in 1 .. n
    <3>1. k \in 1 .. n /\ off[i] <= off[k]
      BY <1>1, <1>2, <2>2 DEF Ends
    <3> QED
      BY <1>2, <1>8, <1>10, <2>2, <3>1
  <2> QED
    BY <1>2, <2>1, <2>2
<1>14. Ends(new)'
  BY <1>3, <1>6, <1>11, <1>12, <1>13 DEF Ends
<1> QED
  BY <1>6, <1>14 DEF RecordsInv

(* A record that is taken leaves the ends of the others, closer by as much *)
(* (shm_ringbuffer.c:410-421).                                             *)
LEMMA RecordEnds ==
  ASSUME TypeInv, RecordsInv, RPopRecord, recs # << >>
  PROVE  RecordsInv'
<1> DEFINE n == Len(recs)
           m == recs[1].need
<1>1. PICK off : Ends(off)
  BY DEF RecordsInv
<1>2. n \in Nat \ {0} /\ m \in Nat
  BY RecordFields, EmptySeq DEF RecordsInv
<1>3. used' = used - m /\ cpc' # "read" /\ recs[1].pad = 0 /\ recs' = Tail(recs)
  BY DEF RPopRecord, PopRecord
<1>4. /\ recs' \in Seq(Records) /\ Len(recs') = n - 1
      /\ \A i \in 1 .. n - 1 : recs'[i] = recs[i + 1]
  BY <1>3, HeadTailProperties, RecordFields DEF RecordsInv
<1>5. PICK new : new = [i \in 0 .. n - 1 |-> off[i + 1] - m]
  OBVIOUS
<1>6. off[1] = m /\ off[n] = used
  BY <1>1, <1>2, <1>3 DEF Ends
<1>7. \A i \in 1 .. n : off[i] \in Nat /\ off[i] >= m
  BY <1>1, <1>2, <1>6 DEF Ends
<1>8. \A i \in 0 .. n - 1 : i + 1 \in 1 .. n /\ new[i] = off[i + 1] - m /\ new[i] \in Nat
  BY <1>2, <1>5, <1>7
<1>9. new[0] = 0 /\ new[n - 1] = used' /\ new \in [0 .. n - 1 -> Nat]
  <2>1. 0 \in 0 .. n - 1 /\ n - 1 \in 0 .. n - 1 /\ 0 + 1 = 1 /\ (n - 1) + 1 = n
    BY <1>2
  <2>2. new[0] = off[1] - m /\ new[n - 1] = off[n] - m
    BY <1>8, <2>1
  <2>3. \A i \in 0 .. n - 1 : new[i] \in Nat
    BY <1>8
  <2> QED
    BY <1>2, <1>3, <1>5, <1>6, <2>2, <2>3, SMTT(30)
<1>10. \A i \in 1 .. n - 1 : new[i] = new[i - 1] + recs'[i].pad + recs'[i].need
  <2> SUFFICES ASSUME NEW i \in 1 .. n - 1
               PROVE  new[i] = new[i - 1] + recs'[i].pad + recs'[i].need
    OBVIOUS
  <2>1. i \in 1 .. n /\ i + 1 \in 1 .. n /\ recs'[i] = recs[i + 1] /\ i - 1 \in 0 .. n - 1
    BY <1>2, <1>4
  <2>2. recs[i + 1].pad \in Nat /\ recs[i + 1].need \in Nat
    BY <2>1, RecordFields DEF RecordsInv
  <2>3. off[i + 1] = off[i] + recs[i + 1].pad + recs[i + 1].need
    <3>1. off[i + 1] = off[(i + 1) - 1] + recs[i + 1].pad + recs[i + 1].need
      BY <1>1, <2>1 DEF Ends
    <3>2. (i + 1) - 1 = i
      BY <1>2
    <3> QED
      BY <3>1, <3>2
  <2>4. new[i] = off[i + 1] - m /\ new[i - 1] = off[i] - m
    <3>1. (i - 1) + 1 = i
      BY <1>2
    <3>2. new[i - 1] = off[(i - 1) + 1] - m
      BY <1>8, <2>1
    <3> QED
      BY <1>2, <1>8, <3>1, <3>2
  <2> QED
    BY <1>2, <1>7, <2>1, <2>2, <2>3, <2>4, SMTT(30)
<1>11. \A i, k \in 0 .. n - 1 : i <= k => new[i] <= new[k]
  <2> SUFFICES ASSUME NEW i \in 0 .. n - 1, NEW k \in 0 .. n - 1, i <= k
               PROVE  new[i] <= new[k]
    OBVIOUS
  <2>1. i + 1 \in 0 .. n /\ k + 1 \in 0 .. n /\ i + 1 <= k + 1
    BY <1>2
  <2>2. off[i + 1] <= off[k + 1]
    BY <1>1, <2>1 DEF Ends
  <2> QED
    BY <1>2, <1>7, <1>8, <2>2
<1>12. Ends(new)'
  BY <1>3, <1>4, <1>9, <1>10, <1>11 DEF Ends
<1> QED
  BY <1>4, <1>12 DEF RecordsInv

(* What a pop is about to take begins with tail, and what it has seen ends *)
(* with a record.                                                          *)
LEMMA SeenIsWhole == TypeInv /\ RecordsInv => PopWithinSeen
<1> SUFFICES ASSUME TypeInv, RecordsInv, cpc = "read"
             PROVE  /\ recs # << >>
                    /\ recs[1].pad < cseen /\ recs[1].need <= cseen
  BY Zenon DEF PopWithinSeen
<1>1. PICK off : Ends(off)
  BY DEF RecordsInv
<1>2. PICK j \in 1 .. Len(recs) : cseen = off[j]
  BY <1>1 DEF Ends
<1>3. /\ recs # << >> /\ Len(recs) \in Nat \ {0} /\ j >= 1
      /\ recs[1].pad \in Nat /\ recs[1].need \in Nat \ {0}
  BY <1>2, RecordFields, EmptySeq DEF RecordsInv
<1>4. off[1] = recs[1].pad + recs[1].need /\ off[1] <= off[j] /\ off[j] \in Nat
  BY <1>1, <1>3 DEF Ends
<1> QED
  BY <1>2, <1>3, <1>4

(* Every other step leaves the records alone; the call of a pop reads head,*)
(* and a ring that is not empty has a record that ends there.              *)
LEMMA RecordsStep == TypeInv /\ RecordsInv /\ [RNext]_rvars => RecordsInv'
<1> SUFFICES ASSUME TypeInv, RecordsInv, [RNext]_rvars PROVE RecordsInv'
  OBVIOUS
<1>1. CASE RPublish
  BY <1>1, PublishEnds
<1>2. CASE RPopSentinel \/ RPopRecord
  <2>1. recs # << >>
    BY <1>2, SeenIsWhole DEF RPopSentinel, RPopRecord, PopSentinel, PopRecord, PopWithinSeen
  <2> QED
    BY <1>2, <2>1, SentinelEnds, RecordEnds
<1>3. CASE PopCall /\ UNCHANGED recs
  <2>1. PICK off : Ends(off)
    BY DEF RecordsInv
  <2>2. used > 0 /\ used' = used /\ cseen' = used
    BY <1>3 DEF PopCall
  <2>3. Len(recs) \in Nat
    BY RecordFields DEF RecordsInv
  <2>4. Len(recs) \in 1 .. Len(recs) /\ cseen' = off[Len(recs)]
    BY <2>1, <2>2, <2>3 DEF Ends, TypeInv, TypeOK
  <2>5. Ends(off)'
    BY <1>3, <2>1, <2>2, <2>4 DEF Ends
  <2> QED
    BY <1>3, <2>5 DEF RecordsInv
<1>4. CASE UNCHANGED <<recs, used>> /\ (cpc' = "read" => cpc = "read" /\ cseen' = cseen)
  BY <1>4 DEF RecordsInv, Ends
<1> QED
  BY <1>1, <1>2, <1>3, <1>4
  DEF RNext, RCall, RProducer, RConsumer, RProducerRuns, RConsumerRuns, RWait, RSignal,
      RPopTooSmall, PushCall, Check, Arm, Recheck, Disarm, Park, Wait, Push, Spurious,
      Interrupted, Flush, PopTooSmall, Exchange, Signal, rvars, vars, consumer

(* A pop never takes bytes beyond the head it loaded, on rings of every    *)
(* capacity and with records of every length, however far the producer has *)
(* moved since (shm_ringbuffer.c:394-414).                                 *)
THEOREM PopsOnlyWhatItSaw == RSpec => []PopWithinSeen
<1>1. RInit => TypeInv /\ RecordsInv
  <2> SUFFICES ASSUME RInit PROVE TypeInv /\ RecordsInv
    OBVIOUS
  <2>1. TypeInv
    BY FlowControlAssumption
    DEF FlowControlAssumption, RInit, Init, TypeInv, TypeOK, CallInv, Required
  <2>2. Ends([i \in 0 .. 0 |-> 0])
    BY DEF RInit, Init, Ends
  <2> QED
    BY <2>1, <2>2 DEF RInit, RecordsInv
<1>2. TypeInv /\ RecordsInv /\ [RNext]_rvars => (TypeInv /\ RecordsInv)'
  <2>1. [RNext]_rvars => [Next]_vars
    BY DEF RNext, RCall, RProducer, RConsumer, RProducerRuns, RConsumerRuns, RWait,
           RSignal, RPublish, RPopSentinel, RPopTooSmall, RPopRecord, rvars, Next,
           Producer, Consumer
  <2> QED
    BY <2>1, TypeInvStep, RecordsStep
<1>3. TypeInv /\ RecordsInv => PopWithinSeen
  BY SeenIsWhole
<1> QED
  BY <1>1, <1>2, <1>3, PTL DEF RSpec

================================================================================
