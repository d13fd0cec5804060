-------------------------- MODULE RuntimeContextProofs --------------------------
(***************************************************************************)
(* What holds of Health for every debounce count and word size, and of the *)
(* samples of adapt_send, for rings and messages of every size: the health *)
(* monitor behaves as Health says, and the drain it is fed is real after   *)
(* every attempt that reached the ring.                                    *)
(***************************************************************************)
EXTENDS RuntimeContext, TLAPS

-----------------------------------------------------------------------------
(* Health.  The streaks of the code never run ahead of the samples that    *)
(* were really seen since the state last changed: that is the inductive    *)
(* invariant from which ChangesEarned follows.                             *)

StreakInv == /\ badStreak <= bad \/ bad = Debounce
             /\ goodStreak <= good

IInv == TypeOK /\ StreakInv

(* One more sample: the unsigned streak grows by one or starts over at 0   *)
(* (++h->bad_streak, ++h->good_streak).                                    *)
LEMMA WordIncrement ==
  ASSUME NEW n \in 0 .. Word - 1
  PROVE  /\ (n + 1) % Word \in 0 .. Word - 1
         /\ (n + 1) % Word = n + 1 \/ (n + 1) % Word = 0
<1>1. CASE n + 1 < Word
  BY <1>1, HealthAssumption
<1>2. CASE n + 1 = Word
  BY <1>2, HealthAssumption
<1> QED
  BY <1>1, <1>2, HealthAssumption

(* Every step keeps the streaks behind the samples                         *)
(* (adapt_health_update_shm as a whole).                                   *)
LEMMA HealthStep ==
  ASSUME IInv, [Next]_vars
  PROVE  IInv'
<1> USE HealthAssumption
    DEF IInv, TypeOK, StreakInv, States, Bands, Kind, UpTo, Counted
<1>0. /\ MoreBad \in 0 .. Word - 1 /\ (MoreBad = badStreak + 1 \/ MoreBad = 0)
      /\ MoreGood \in 0 .. Word - 1 /\ (MoreGood = goodStreak + 1 \/ MoreGood = 0)
  BY WordIncrement DEF MoreBad, MoreGood
<1>1. CASE SampleBlocked
  BY <1>0, <1>1 DEF SampleBlocked, Observe, SetState, Stay
<1>2. ASSUME NEW b \in {"degraded", "deficit"}, SampleDegraded(b)
      PROVE  IInv'
  BY <1>0, <1>2 DEF SampleDegraded, Observe, SetState, Stay
<1>3. CASE SampleLow
  BY <1>0, <1>3 DEF SampleLow, Observe, SetState, Stay
<1>4. CASE SampleMid
  BY <1>4 DEF SampleMid, Observe, Stay
<1>5. CASE UNCHANGED vars
  BY <1>5 DEF vars
<1> QED
  BY <1>1, <1>2, <1>3, <1>4, <1>5 DEF Next, Sample

(* The initial state satisfies the invariant (adapt_health_init).          *)
LEMMA HealthInit == Init => IInv
  BY HealthAssumption DEF Init, IInv, TypeOK, StreakInv, States, Bands

(* The streaks, the state and the history keep their types: a streak never *)
(* leaves its word, and h->state is one of the five.                       *)
THEOREM HealthTyped == Spec => []TypeOK
<1>1. IInv => TypeOK
  BY DEF IInv
<1> QED
  BY HealthInit, HealthStep, <1>1, PTL DEF Spec

(* For every debounce count and word size no change of state is made by    *)
(* samples that an earlier state or the other kind has seen: but for the   *)
(* blocking of a degraded ring each comes with the last of that many       *)
(* samples of its kind (transport_health.c:62-91).                         *)
THEOREM ChangesAreEarned == Spec => ChangesEarned
<1>1. ASSUME IInv, [Next]_vars, Changes, ~(state = "DEGRADED" /\ band' = "blocked")
      PROVE  \/ Kind(band') = "bad" /\ bad >= Debounce - 1
             \/ Kind(band') = "good" /\ good >= Debounce - 1
  <2> USE HealthAssumption, <1>1
      DEF IInv, TypeOK, StreakInv, States, Bands, Kind, Changes
  <2>0. /\ MoreBad = badStreak + 1 \/ MoreBad = 0
        /\ MoreGood = goodStreak + 1 \/ MoreGood = 0
    BY WordIncrement DEF MoreBad, MoreGood
  <2>1. CASE SampleBlocked
    BY <2>0, <2>1 DEF SampleBlocked, Observe, SetState, Stay
  <2>2. ASSUME NEW b \in {"degraded", "deficit"}, SampleDegraded(b)
        PROVE  Kind(band') = "bad" /\ bad >= Debounce - 1
    BY <2>0, <2>2 DEF SampleDegraded, Observe, SetState, Stay
  <2>3. CASE SampleLow
    BY <2>0, <2>3 DEF SampleLow, Observe, SetState, Stay
  <2>4. ~ SampleMid /\ ~ UNCHANGED vars
    BY DEF SampleMid, Stay, vars
  <2> QED
    BY <2>1, <2>2, <2>3, <2>4 DEF Next, Sample
<1> QED
  BY HealthInit, HealthStep, <1>1, PTL DEF Spec, ChangesEarned

-----------------------------------------------------------------------------
(* The samples.                                                            *)

(* Between the sample and the push the consumer may pop, and no one else   *)
(* touches the ring.                                                       *)
DrainInv ==
  /\ occ \in Nat /\ drained \in Nat /\ prev \in Nat /\ sending \in Nat
  /\ Cap \in Nat
  /\ at # "idle" => prev - sending - occ <= drained
  /\ DrainIsReal

(* Each step keeps what is still missing from the expected bytes within    *)
(* what the consumer has taken (runtime_context.c:55-57, 77).              *)
LEMMA DrainStep == DrainInv /\ [CNext]_cvars => DrainInv'
<1> SUFFICES ASSUME DrainInv, [CNext]_cvars PROVE DrainInv'
  OBVIOUS
<1> USE RuntimeContextAssumption DEF RuntimeContextAssumption, DrainInv, DrainIsReal
<1> USE DEF ring, estimate, GoOn, Return
<1>1. ASSUME NEW size \in Sizes, Attempt(size)
      PROVE  DrainInv'
  BY <1>1 DEF Attempt, SampleContext, Expected
<1>2. CASE Map
  BY <1>2 DEF Map
<1>3. CASE Push
  <2>1. PICK pad \in 0 .. MaxPad : occ' = occ + sending + Framing + pad
    BY <1>3 DEF Push
  <2>2. at # "idle" /\ sending' = 0 /\ UNCHANGED <<prev, drained>>
    BY <1>3 DEF Push
  <2> QED
    BY <1>3, <2>1, <2>2 DEF Push
<1>4. CASE FallBack \/ PushFails \/ Park \/ Wake \/ Datagram
  BY <1>4 DEF FallBack, PushFails, Park, Wake, Datagram
<1>5. CASE Pop
  BY <1>5 DEF Pop
<1>6. CASE Expire
  BY <1>6 DEF Expire
<1>7. CASE UNCHANGED cvars
  BY <1>7 DEF cvars
<1> QED
  BY <1>1, <1>2, <1>3, <1>4, <1>5, <1>6, <1>7 DEF CNext, Proceed

(* After an attempt that reached the ring the drain that the next sample   *)
(* computes is no more than what the consumer took: "prev_occ already      *)
(* includes the previous payload" (runtime_context.c:53-54).               *)
THEOREM DrainsAreReal == CSpec => []DrainIsReal
<1>1. CInit => DrainInv
  BY RuntimeContextAssumption
  DEF CInit, DrainInv, DrainIsReal, RuntimeContextAssumption
<1>2. DrainInv => DrainIsReal
  BY DEF DrainInv
<1> QED
  BY <1>1, <1>2, DrainStep, PTL DEF CSpec

(* The samples the ring makes are among those Health allows.               *)
THEOREM ContextImplementsHealth == CSpec => ImplementsHealth
<1>1. CInit => Init
  BY DEF CInit
<1>2. ASSUME NEW b \in BandsNow, Sample(b)
      PROVE  Next
  BY <1>2 DEF BandsNow, Bands, Next
<1>3. [CNext]_cvars => [Next]_vars
  BY <1>2 DEF CNext, Proceed, Attempt, SampleHealth, Map, FallBack, Push, PushFails, Park,
              Wake, Datagram, Pop, Expire, cvars
<1> QED
  BY <1>1, <1>3, PTL DEF CSpec, ImplementsHealth, Spec

(* Between a sample and the end of its attempt one message at most is      *)
(* added, so what is popped between two samples was there at the first one *)
(* or is that message.                                                     *)
ContextInv ==
  /\ CTypeOK
  /\ drained + occ <= 2 * Cap
  /\ sending # 0 => drained + occ <= Cap

LEMMA ContextStep == ContextInv /\ [CNext]_cvars /\ TypeOK' => ContextInv'
<1> SUFFICES ASSUME ContextInv, [CNext]_cvars, TypeOK' PROVE ContextInv'
  OBVIOUS
<1> USE RuntimeContextAssumption DEF RuntimeContextAssumption, ContextInv, CTypeOK
<1> USE DEF ring, estimate, GoOn, Return, Entry, Modes
<1>1. ASSUME NEW size \in Sizes, Attempt(size)
      PROVE  ContextInv'
  BY <1>1 DEF Attempt, SampleContext, Expected
<1>2. CASE Map
  BY <1>2 DEF Map
<1>3. CASE Push
  <2>1. PICK pad \in 0 .. MaxPad : /\ occ + sending + Framing + pad <= Cap
                                  /\ occ' = occ + sending + Framing + pad
    BY <1>3 DEF Push
  <2>2. /\ at' = "idle" /\ sending' = 0 /\ last' = "ring"
        /\ UNCHANGED <<mode, mapped, estimate, drained>>
    BY <1>3 DEF Push
  <2>3. sending \in Nat /\ sending # 0
    BY <1>3 DEF Push
  <2> QED
    BY <2>1, <2>2, <2>3
<1>4. CASE FallBack \/ PushFails \/ Park \/ Wake \/ Datagram
  BY <1>4 DEF FallBack, PushFails, Park, Wake, Datagram
<1>5. CASE Pop
  BY <1>5 DEF Pop
<1>6. CASE Expire
  BY <1>6 DEF Expire
<1>7. CASE UNCHANGED cvars
  BY <1>7 DEF cvars
<1> QED
  BY <1>1, <1>2, <1>3, <1>4, <1>5, <1>6, <1>7 DEF CNext, Proceed

(* The context and the monitor keep their types; in particular no more is  *)
(* popped between two samples than twice the capacity                      *)
(* (adapt_rtctx_sample, adapt_health_update_shm).                          *)
THEOREM ContextTyped == CSpec => []CTypeOK
<1>1. CInit /\ TypeOK => ContextInv
  <2> SUFFICES ASSUME CInit, TypeOK PROVE ContextInv
    OBVIOUS
  <2>1. /\ mode \in Modes /\ at = "idle" /\ mapped \in BOOLEAN /\ last \in {"none", "ring", "elsewhere"}
        /\ {timed, drainValid, fresh} \subseteq BOOLEAN
    BY Zenon DEF CInit
  <2>2. occ = 0 /\ sending = 0 /\ prev = 0 /\ samples = 0 /\ drained = 0
    BY DEF CInit
  <2> QED
    BY <2>1, <2>2, RuntimeContextAssumption
    DEF RuntimeContextAssumption, ContextInv, CTypeOK
<1>2. CSpec => []TypeOK
  BY ContextImplementsHealth, HealthTyped, PTL DEF ImplementsHealth
<1>3. ContextInv => CTypeOK
  BY DEF ContextInv
<1> QED
  BY <1>1, <1>2, <1>3, ContextStep, PTL DEF CSpec

(* So on every ring, whatever the caller and the consumer do, no change of *)
(* the monitored health is made by samples of an earlier state or of the   *)
(* other kind (transport_health.c:62-91).                                  *)
THEOREM ContextChangesEarned == CSpec => ChangesEarned
BY ContextImplementsHealth, ChangesAreEarned, PTL DEF ImplementsHealth

================================================================================
