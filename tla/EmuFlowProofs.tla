----------------------------- MODULE EmuFlowProofs -----------------------------
(***************************************************************************)
(* The mutex and the condition variable implement the futex, on every ring,*)
(* so the theorems about RecordFlow hold whatever the producer sleeps on.  *)
(***************************************************************************)
EXTENDS EmuFlow, FlowControlProofs

(* The mutex is held where the code holds it, and the producer counts as   *)
(* asleep from the comparison of the flag to its wake.                     *)
MutexInv ==
  /\ mutex \in {"free", "producer", "consumer"}
  /\ inner \in {"out", "locked", "armed", "queued", "woken", "leave"}
  /\ mutex = "producer" <=> inner \in {"locked", "armed", "leave"}
  /\ emulated => (ppc = "asleep" <=> inner \in {"armed", "queued"})
  /\ ~emulated => inner = "out" /\ mutex = "free"

(* Of two threads only the producer can be between the comparison and the  *)
(* queue, and then it holds the mutex (shm_ringbuffer.c:124-149).          *)
LEMMA MutexStep == MutexInv /\ [ENext]_evars => MutexInv'
<1> SUFFICES ASSUME MutexInv, [ENext]_evars PROVE MutexInv'
  OBVIOUS
<1> USE DEF MutexInv, emu, rvars, vars, producer, consumer, GoTo, Return
<1>1. CASE RCall /\ UNCHANGED emu
  BY <1>1 DEF RCall, PushCall
<1>2. CASE inner = "out" /\ RProducerRuns /\ UNCHANGED emu
  BY <1>2 DEF RProducerRuns, RPublish, Publish, Check, Arm, Recheck, Disarm, Park, Push
<1>3. CASE ~emulated /\ (RWait \/ RSignal) /\ UNCHANGED emu
  BY <1>3
<1>4. CASE EmuLock
  BY <1>4 DEF EmuLock
<1>5. CASE EmuCompare
  BY <1>5 DEF EmuCompare, RWait, Wait
<1>6. CASE CondWait \/ CondReturn \/ EmuUnlock
  BY <1>6 DEF CondWait, CondReturn, EmuUnlock
<1>7. CASE mutex # "consumer" /\ RConsumerRuns /\ UNCHANGED emu
  BY <1>7 DEF RConsumerRuns, RPopSentinel, PopSentinel, RPopTooSmall, PopTooSmall,
              RPopRecord, PopRecord, PopCall, Exchange
<1>8. CASE WakeLock \/ WakeUnlock
  BY <1>8 DEF WakeLock, WakeUnlock
<1>9. CASE Broadcast
  BY <1>9 DEF Broadcast, Wakes
<1>10. CASE CondSpurious
  BY <1>10 DEF CondSpurious, Spurious
<1>11. CASE ~emulated /\ (Spurious \/ Interrupted) /\ UNCHANGED <<recs, emu>>
  BY <1>11
<1>12. CASE UNCHANGED evars
  BY <1>12 DEF evars
<1> QED
  BY <1>1, <1>2, <1>3, <1>4, <1>5, <1>6, <1>7, <1>8, <1>9, <1>10, <1>11, <1>12
  DEF ENext, EProducer, EConsumer

(* A broadcast finds the producer queued, if it is asleep at all: the mutex*)
(* keeps it out of the gap between the comparison and pthread_cond_wait.   *)
LEMMA BroadcastIsSignal == MutexInv /\ Broadcast => RSignal
BY DEF MutexInv, Broadcast, Wakes, RSignal, Signal, GoTo, producer

(* Every step of the emulation is a step of the ring with a futex, or      *)
(* changes nothing but the mutex: "closes the classic lost-wakeup window"  *)
(* (shm_ringbuffer.c:87-89).                                               *)
THEOREM EmuImplementsFutex == ESpec => EmuIsFutex
<1>1. EInit => RInit /\ MutexInv
  BY DEF EInit, RInit, Init, MutexInv
<1>2. MutexInv /\ [ENext]_evars => MutexInv'
  BY MutexStep
<1>3. MutexInv /\ [ENext]_evars => [RNext]_rvars
  <2>1. EProducer => RProducer \/ UNCHANGED rvars
    BY DEF EProducer, RProducer, EmuLock, EmuCompare, CondWait, CondReturn, EmuUnlock
  <2>2. MutexInv /\ EConsumer => RConsumer \/ UNCHANGED rvars
    BY BroadcastIsSignal DEF EConsumer, RConsumer, WakeLock, WakeUnlock
  <2> QED
    BY <2>1, <2>2 DEF ENext, RNext, CondSpurious, evars
<1> QED
  BY <1>1, <1>2, <1>3, PTL DEF ESpec, EmuIsFutex, RSpec

(* Whatever the producer sleeps on, no wakeup is lost where the store that *)
(* arms the flag is seen before the loads after it (shm_ringbuffer.h:101). *)
THEOREM EmuWakeupsNotLost == ESpec => []NoLostWakeup
<1>1. RSpec => []NoLostWakeup
  BY RecordWakeupsNotLost, EmuFlowAssumption
<1> QED
  BY <1>1, EmuImplementsFutex, PTL DEF EmuIsFutex

(* And the backlog of throttled pushes is bounded (adapt_ipc.h:121).       *)
THEOREM EmuBacklogBounded == ESpec => BacklogBound
BY EmuImplementsFutex, RecordBacklogBounded, PTL DEF EmuIsFutex

================================================================================
