------------------------------- MODULE FlowControl ------------------------------
(***************************************************************************)
(* Watermark flow control of the ring: the blocking and the non-blocking   *)
(* push of shm_ringbuffer.c with shm_ring_wait_writable, and shm_ring_pop  *)
(* with the wake of a parked producer, over the shared word flow_flag and  *)
(* the futex behind it.                                                    *)
(*                                                                         *)
(* Of the ring only what the flow control tells apart is kept: the number  *)
(* of bytes between the cursors, and the producer's position in the buffer *)
(* (the padding of a wrap depends on it).  Which bytes a pop releases is   *)
(* SpscRing's business: here a pop releases any number of them, so that    *)
(* every behaviour of the exact ring is one of this module.                *)
(***************************************************************************)
EXTENDS Integers, Sequences

CONSTANTS Cap,          \* rb->capacity
          HW, LW,       \* Cap * SHM_HW_PCT / 100 and Cap * SHM_LW_PCT / 100
          Needs,        \* record lengths, prefix included, that callers push
          MaxNeed,      \* the longest record push_scatter takes
          Modes,        \* how adapt_send pushes, see PushCall
          StoreBuffer   \* how many stores to flow_flag the producer's CPU may
                        \* hold back: 0 if a store is seen before later loads

(* LW = 0 (a build with -DSHM_LW_PCT=0) would never wake anybody.          *)
ASSUME FlowControlAssumption ==
  /\ Cap \in Nat /\ HW \in Nat /\ LW \in Nat
  /\ 1 <= LW /\ LW <= HW /\ HW <= Cap
  /\ MaxNeed \in Nat /\ MaxNeed < Cap
  /\ Needs \subseteq Nat \ {0}
  /\ Modes \subseteq {"blocking", "measured", "nonblocking"}
  /\ StoreBuffer \in Nat

VARIABLES used,     \* head - tail
          pos,      \* head & (capacity - 1)
          flag,     \* flow_flag as the consumer and the kernel see it
          pending,  \* the producer's stores to it that they do not see yet
          ppc, pneed, pmode, pret,   \* producer: its place, its call, last result
          cpc, cseen    \* consumer: its place, head - tail when it loaded them

producer == <<ppc, pneed, pmode, pret>>
consumer == <<cpc, cseen>>
vars == <<used, pos, flag, pending, producer, consumer>>

-----------------------------------------------------------------------------
(* The space check of push_scatter: a record that does not fit before the  *)
(* end of the buffer also takes the bytes up to that end.                  *)
Required(need) == IF Cap - pos < need THEN Cap - pos + need ELSE need

(* The slip: the position is not masked at the end of the buffer.          *)
PosAfterUnmasked(need) == IF Cap - pos < need THEN need ELSE pos + need

PosAfter(need) == IF Cap - pos < need THEN need
                  ELSE IF pos + need = Cap THEN 0 ELSE pos + need

(* A store to flow_flag by the producer.                                   *)
StoreFlag(v) ==
  IF StoreBuffer = 0
  THEN flag' = v /\ UNCHANGED pending
  ELSE Len(pending) < StoreBuffer /\ pending' = Append(pending, v) /\ UNCHANGED flag

Init ==
  /\ used = 0 /\ pos = 0
  /\ flag = 0 /\ pending = << >>
  /\ ppc = "idle" /\ pneed = 0 /\ pmode = "none" /\ pret = "none"
  /\ cpc = "idle" /\ cseen = 0

GoTo(place) == ppc' = place /\ UNCHANGED <<pneed, pmode, pret>>
Return(result) == ppc' = "idle" /\ pneed' = 0 /\ pmode' = "none" /\ pret' = result

-----------------------------------------------------------------------------
(* The producer.                                                           *)

(* adapt_send pushes without blocking if so configured, throttles first    *)
(* under the size policies, and under the cost-aware ones tries a push     *)
(* without blocking before it turns to the blocking one.                   *)
PushCall(need, mode) ==
  /\ ppc = "idle"
  /\ ppc' = IF mode = "blocking" THEN "check" ELSE "push"
  /\ pneed' = need /\ pmode' = mode
  /\ UNCHANGED <<used, pos, flag, pending, pret, consumer>>

(* shm_ring_wait_writable, from the first look at the cursors.  The slip is*)
(* the one the comment at shm_ringbuffer.c:478 warns of: to park only when *)
(* the ring is full.                                                       *)
CheckFull ==
  /\ ppc = "check"
  /\ GoTo(IF used < Cap THEN "push" ELSE "arm")
  /\ UNCHANGED <<used, pos, flag, pending, consumer>>

Check ==
  /\ ppc = "check"
  /\ GoTo(IF used < HW THEN "push" ELSE "arm")
  /\ UNCHANGED <<used, pos, flag, pending, consumer>>

Arm ==
  /\ ppc = "arm"
  /\ StoreFlag(1)
  /\ GoTo("recheck")
  /\ UNCHANGED <<used, pos, consumer>>

(* The slip: to sleep without the second look at the cursors.              *)
RecheckSkipped ==
  /\ ppc = "recheck"
  /\ GoTo("park")
  /\ UNCHANGED <<used, pos, flag, pending, consumer>>

Recheck ==
  /\ ppc = "recheck"
  /\ GoTo(IF used < HW THEN "disarm" ELSE "park")
  /\ UNCHANGED <<used, pos, flag, pending, consumer>>

Disarm ==
  /\ ppc = "disarm"
  /\ StoreFlag(0)
  /\ GoTo("push")
  /\ UNCHANGED <<used, pos, consumer>>

(* parks is counted by a read-modify-write, which waits for the stores     *)
(* before it.                                                              *)
Park ==
  /\ ppc = "park" /\ pending = << >>
  /\ GoTo("wait")
  /\ UNCHANGED <<used, pos, flag, pending, consumer>>

(* FUTEX_WAIT: the kernel compares the flag and puts the caller to sleep   *)
(* in one step.  A flag that changed is -EAGAIN: look again.               *)
Wait ==
  /\ ppc = "wait"
  /\ GoTo(IF flag = 1 THEN "asleep" ELSE "check")
  /\ UNCHANGED <<used, pos, flag, pending, consumer>>

(* A sleeper may return for no reason, which it takes for a wake, or with  *)
(* -EINTR, which ends the push with the flag still armed.                  *)
Spurious ==
  /\ ppc = "asleep"
  /\ GoTo("check")
  /\ UNCHANGED <<used, pos, flag, pending, consumer>>

Interrupted ==
  /\ ppc = "asleep"
  /\ Return("EINTR")
  /\ UNCHANGED <<used, pos, flag, pending, consumer>>

(* push_scatter up to its space check, and what its callers do with a      *)
(* refusal: the blocking push goes back to wait_writable, the first try of *)
(* a measured send becomes a blocking push.                                *)
Push ==
  /\ ppc = "push"
  /\ \/ /\ pneed > MaxNeed
        /\ Return("EMSGSIZE")
     \/ /\ pneed <= MaxNeed /\ Cap - used >= Required(pneed)
        /\ GoTo("publish")
     \/ /\ pneed <= MaxNeed /\ Cap - used < Required(pneed)
        /\ pmode = "nonblocking"
        /\ Return("EAGAIN")
     \/ /\ pneed <= MaxNeed /\ Cap - used < Required(pneed)
        /\ pmode \in {"blocking", "measured"}
        /\ ppc' = "check" /\ pmode' = "blocking"
        /\ UNCHANGED <<pneed, pret>>
  /\ UNCHANGED <<used, pos, flag, pending, consumer>>

Publish ==
  /\ ppc = "publish"
  /\ used' = used + Required(pneed)
  /\ pos' = PosAfter(pneed)
  /\ Return("ok")
  /\ UNCHANGED <<flag, pending, consumer>>

(* The oldest store held back becomes visible.                             *)
Flush ==
  /\ pending # << >>
  /\ flag' = Head(pending) /\ pending' = Tail(pending)
  /\ UNCHANGED <<used, pos, producer, consumer>>

-----------------------------------------------------------------------------
(* The consumer.  A pop of an empty ring changes nothing.                  *)
PopCall ==
  /\ cpc \in {"idle", "retry"} /\ used > 0
  /\ cpc' = "read" /\ cseen' = used
  /\ UNCHANGED <<used, pos, flag, pending, producer>>

(* A sentinel is published together with the record behind it, so some of  *)
(* the bytes seen remain, and the pop starts over without a look at the    *)
(* watermark.                                                              *)
PopSentinel ==
  /\ cpc = "read"
  /\ \E n \in 1 .. cseen - 1 : used' = used - n
  /\ cpc' = "retry" /\ cseen' = 0
  /\ UNCHANGED <<pos, flag, pending, producer>>

(* The caller's buffer is too small: -EMSGSIZE, and the record stays.      *)
PopTooSmall ==
  /\ cpc = "read"
  /\ cpc' = "idle" /\ cseen' = 0
  /\ UNCHANGED <<used, pos, flag, pending, producer>>

(* The store of tail; the watermark is compared with the bytes that were   *)
(* seen when the cursors were loaded.                                      *)
PopRecord ==
  /\ cpc = "read"
  /\ \E n \in 1 .. cseen :
       /\ used' = used - n
       /\ cpc' = IF cseen - n < LW THEN "wake" ELSE "idle"
  /\ cseen' = 0
  /\ UNCHANGED <<pos, flag, pending, producer>>

(* flow_wake: exchange(flow_flag, 0), and FUTEX_WAKE if it was armed.  The *)
(* slip: the test of the old value turned around.                          *)
ExchangeInverted ==
  /\ cpc = "wake"
  /\ flag' = 0
  /\ cpc' = IF flag = 1 THEN "idle" ELSE "signal"
  /\ UNCHANGED <<used, pos, pending, producer, cseen>>

Exchange ==
  /\ cpc = "wake"
  /\ flag' = 0
  /\ cpc' = IF flag = 1 THEN "signal" ELSE "idle"
  /\ UNCHANGED <<used, pos, pending, producer, cseen>>

Signal ==
  /\ cpc = "signal"
  /\ IF ppc = "asleep" THEN GoTo("check") ELSE UNCHANGED producer
  /\ cpc' = "idle"
  /\ UNCHANGED <<used, pos, flag, pending, cseen>>

-----------------------------------------------------------------------------
Producer == \/ Check \/ Arm \/ Recheck \/ Disarm \/ Park \/ Wait
            \/ Push \/ Publish
Consumer == PopCall \/ PopSentinel \/ PopTooSmall \/ PopRecord \/ Exchange \/ Signal

Next == \/ \E need \in Needs, mode \in Modes : PushCall(need, mode)
        \/ Producer \/ Spurious \/ Interrupted \/ Flush
        \/ Consumer

Spec == Init /\ [][Next]_vars

-----------------------------------------------------------------------------
TypeOK ==
  /\ used \in 0 .. Cap /\ pos \in 0 .. Cap - 1
  /\ flag \in {0, 1} /\ pending \in Seq({0, 1}) /\ Len(pending) <= StoreBuffer
  /\ ppc \in {"idle", "check", "arm", "recheck", "disarm", "park", "wait",
              "asleep", "push", "publish"}
  /\ pneed \in Needs \cup {0} /\ pmode \in Modes \cup {"blocking", "none"}
  /\ pret \in {"none", "ok", "EAGAIN", "EINTR", "EMSGSIZE"}
  /\ cpc \in {"idle", "read", "retry", "wake", "signal"} /\ cseen \in 0 .. Cap

(* No wakeup is lost: of a producer that sleeps, either the flag is still  *)
(* armed and the consumer will come to look at it (there are bytes left,   *)
(* so there is a pop that takes the last of them below the low watermark,  *)
(* or it is about to look), or it has been taken and the wake is on its    *)
(* way.  shm_ringbuffer.h:101 and shm_ringbuffer.c:422-424, 433-436.       *)
NoLostWakeup ==
  ppc = "asleep" => \/ flag = 1 /\ (used > 0 \/ cpc = "wake")
                    \/ cpc = "signal"

(* The throttle bounds the backlog: a blocking push, the second try of a    *)
(* measured send included, has seen less than HW, and only the consumer has*)
(* moved since, so it leaves at most HW, the record and the padding of one *)
(* wrap, which is shorter than the record.  "The producer blocks at the    *)
(* ring's high watermark", says adapt_ipc.h:121, and                       *)
(* test_backpressure_latency.c:246 allows HW and two records.              *)
BacklogBound ==
  [][used' > used /\ pmode = "blocking" => used' <= HW + 2 * pneed - 2]_vars

================================================================================
