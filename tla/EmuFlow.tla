-------------------------------- MODULE EmuFlow --------------------------------
(***************************************************************************)
(* The two ways the producer sleeps and is woken: the futex of Linux, one  *)
(* step of the kernel each, and on other systems a mutex and a condition   *)
(* variable kept in the ring's header (shm_ringbuffer.c:124-149), whose    *)
(* steps the two sides interleave.  Which one is a matter of the build,    *)
(* so it is chosen with the initial state.  Everything else is RecordFlow, *)
(* which this module is shown to implement.                                *)
(*                                                                         *)
(* Stores to the flag are visible at once here: the second look, which one *)
(* that is delayed misleads, comes before either sleep and is RecordFlow's.*)
(***************************************************************************)
EXTENDS RecordFlow

ASSUME EmuFlowAssumption == StoreBuffer = 0

VARIABLES emulated,   \* the build has no futex
          mutex,      \* who holds f->mtx
          inner       \* where the producer is in futex_compat_emu_wait

evars == <<rvars, emulated, mutex, inner>>
emu == <<emulated, mutex, inner>>

EInit == RInit /\ emulated \in BOOLEAN /\ mutex = "free" /\ inner = "out"

-----------------------------------------------------------------------------
(* futex_compat_emu_wait: the flag is compared under the mutex, and        *)
(* pthread_cond_wait releases the mutex as it queues the caller.  Its ready*)
(* word is set before the header is announced, and the pthread calls do not*)
(* fail.                                                                   *)
(* The slip: the flag is compared before the mutex is taken.               *)
EmuLockLate ==
  /\ emulated /\ ppc = "wait" /\ inner = "out" /\ mutex = "free"
  /\ inner' = "locked"
  /\ UNCHANGED <<rvars, emulated, mutex>>

EmuLock ==
  /\ emulated /\ ppc = "wait" /\ inner = "out" /\ mutex = "free"
  /\ mutex' = "producer" /\ inner' = "locked"
  /\ UNCHANGED <<rvars, emulated>>

EmuCompare ==
  /\ inner = "locked"
  /\ RWait
  /\ inner' = IF flag = 1 THEN "armed" ELSE "leave"
  /\ UNCHANGED <<emulated, mutex>>

CondWait ==
  /\ inner = "armed"
  /\ mutex' = "free" /\ inner' = "queued"
  /\ UNCHANGED <<rvars, emulated>>

(* A condition variable may wake for no reason; it does not return -EINTR. *)
CondSpurious ==
  /\ inner = "queued"
  /\ Spurious /\ UNCHANGED recs
  /\ inner' = "woken"
  /\ UNCHANGED <<emulated, mutex>>

CondReturn ==
  /\ inner = "woken" /\ mutex = "free"
  /\ mutex' = "producer" /\ inner' = "leave"
  /\ UNCHANGED <<rvars, emulated>>

EmuUnlock ==
  /\ inner = "leave"
  /\ mutex' = "free" /\ inner' = "out"
  /\ UNCHANGED <<rvars, emulated>>

(* futex_compat_emu_wake: the exchange is done without the mutex (it is    *)
(* FlowControl's), the broadcast with it.                                  *)
WakeLock ==
  /\ emulated /\ cpc = "signal" /\ mutex = "free"
  /\ mutex' = "consumer"
  /\ UNCHANGED <<rvars, emulated, inner>>

(* A broadcast wakes who is queued, and nobody else.                       *)
Wakes ==
  /\ IF inner = "queued" THEN GoTo("check") /\ inner' = "woken"
                         ELSE UNCHANGED <<producer, inner>>
  /\ cpc' = "idle"
  /\ UNCHANGED <<used, pos, flag, pending, cseen, recs, emulated, mutex>>

Broadcast == emulated /\ cpc = "signal" /\ mutex = "consumer" /\ Wakes

WakeUnlock ==
  /\ cpc = "idle" /\ mutex = "consumer"
  /\ mutex' = "free"
  /\ UNCHANGED <<rvars, emulated, inner>>

-----------------------------------------------------------------------------
(* The rest of either side runs outside of the two functions.              *)
EProducer == \/ inner = "out" /\ RProducerRuns /\ UNCHANGED emu
             \/ ~emulated /\ RWait /\ UNCHANGED emu
             \/ EmuLock \/ EmuCompare \/ CondWait \/ CondReturn \/ EmuUnlock

EPopRecord == mutex # "consumer" /\ RPopRecord /\ UNCHANGED emu

EConsumer == \/ mutex # "consumer" /\ RConsumerRuns /\ UNCHANGED emu
             \/ ~emulated /\ RSignal /\ UNCHANGED emu
             \/ WakeLock \/ Broadcast \/ WakeUnlock

ENext == \/ RCall /\ UNCHANGED emu
         \/ EProducer \/ EConsumer \/ CondSpurious
         \/ ~emulated /\ Spurious /\ UNCHANGED <<recs, emu>>
         \/ ~emulated /\ Interrupted /\ UNCHANGED <<recs, emu>>

ESpec == EInit /\ [][ENext]_evars

(* As in RecordFlow.  The mutex is fair enough to let the consumer in some *)
(* time if the producer keeps taking it, as it may if it is woken for no   *)
(* reason again and again; the producer needs no such promise.             *)
EFairSpec == /\ ESpec
             /\ WF_evars(EProducer) /\ WF_evars(EConsumer)
             /\ SF_evars(EPopRecord) /\ SF_evars(WakeLock)

-----------------------------------------------------------------------------
(* To a caller the mutex and the condition variable are a futex: comparing *)
(* and queueing happen as if in one step, since no broadcast can come in   *)
(* between.  "The flag check is repeated under the mutex before sleeping,  *)
(* which closes the classic lost-wakeup window between the waker's         *)
(* exchange() and its broadcast" (shm_ringbuffer.c:87-89).                 *)
EmuIsFutex == RSpec

================================================================================
