--------------------------------- MODULE Health ---------------------------------
(***************************************************************************)
(* The debounced health of the shared-memory transport:                    *)
(* adapt_health_init and adapt_health_update_shm of                        *)
(* src/src/transport_health.c, which adapt_send calls on every attempt     *)
(* once a ring is mapped.                                                  *)
(*                                                                         *)
(* A sample is the band its occupancy and drain rate fall into; any band   *)
(* may follow any other; RuntimeContext says which one a ring makes.       *)
(* Beside the code's streaks, and each up to Debounce: bad counts the bad  *)
(* samples since the last good one and since the last change of state,     *)
(* good the good ones since the last bad one and that change.              *)
(***************************************************************************)
EXTENDS Integers

CONSTANTS Debounce,     \* h->debounce, 8 in adapt_init
          Word          \* the streaks are unsigned: 2^32 in the code

ASSUME HealthAssumption ==
  Debounce \in Nat \ {0} /\ Word \in Nat /\ Debounce < Word

VARIABLES state, badStreak, goodStreak,   \* struct adapt_health
          band,                           \* the last sample
          bad, good                       \* history

vars == <<state, badStreak, goodStreak, band, bad, good>>

-----------------------------------------------------------------------------
States == {"UNAVAILABLE", "HEALTHY", "DEGRADED", "BLOCKED", "RECOVERING"}

(* At least 95 and 80 % full; less, but drained at less than half the rate *)
(* of arrivals; at most 20 % full; anything else.                          *)
Bands == {"blocked", "degraded", "deficit", "low", "mid"}
Kind(b) == IF b \in {"blocked", "degraded", "deficit"} THEN "bad"
           ELSE IF b = "low" THEN "good" ELSE "neither"

UpTo(n) == IF n < Debounce THEN n + 1 ELSE Debounce

Init ==
  /\ state = "UNAVAILABLE" /\ badStreak = 0 /\ goodStreak = 0
  /\ band = "mid" /\ bad = 0 /\ good = 0

(* set_state: the streaks start over if it is another state.  The slip:    *)
(* they do not.                                                            *)
SetStateOnly(s, bads, goods) == state' = s /\ badStreak' = bads /\ goodStreak' = goods

SetState(s, bads, goods) ==
  /\ state' = s
  /\ badStreak' = IF s = state THEN bads ELSE 0
  /\ goodStreak' = IF s = state THEN goods ELSE 0

Stay(bads, goods) == state' = state /\ badStreak' = bads /\ goodStreak' = goods

MoreBadUnbounded == badStreak + 1
MoreBad == (badStreak + 1) % Word
MoreGood == (goodStreak + 1) % Word

Counted(n, kind, b) ==
  IF state' # state THEN 0
  ELSE IF Kind(b) = kind THEN UpTo(n)
  ELSE IF Kind(b) = "neither" THEN n ELSE 0

Observe(b) ==
  /\ band' = b
  /\ bad' = Counted(bad, "bad", b) /\ good' = Counted(good, "good", b)

-----------------------------------------------------------------------------
SampleBlocked ==
  /\ IF MoreBad >= Debounce \/ state = "DEGRADED"
     THEN SetState("BLOCKED", MoreBad, 0) ELSE Stay(MoreBad, 0)
  /\ Observe("blocked")

(* A blocked ring only degrades on its occupancy.                          *)
SampleDegraded(b) ==
  /\ IF state = "BLOCKED" /\ b = "deficit" THEN Stay(badStreak, 0)
     ELSE IF MoreBad >= Debounce THEN SetState("DEGRADED", MoreBad, 0)
     ELSE Stay(MoreBad, 0)
  /\ Observe(b)

(* The slip: probation does not count good samples.                        *)
SampleLowStuck ==
  /\ IF state = "UNAVAILABLE" THEN SetState("HEALTHY", 0, goodStreak)
     ELSE IF state \in {"HEALTHY", "RECOVERING"} THEN Stay(0, goodStreak)
     ELSE IF MoreGood >= Debounce
       THEN SetState(IF state = "BLOCKED" THEN "RECOVERING" ELSE "HEALTHY", 0, MoreGood)
       ELSE Stay(0, MoreGood)
  /\ Observe("low")

(* The first one makes the ring healthy; a blocked one is on probation     *)
(* before it is.                                                           *)
SampleLow ==
  /\ IF state = "UNAVAILABLE" THEN SetState("HEALTHY", 0, goodStreak)
     ELSE IF state = "HEALTHY" THEN Stay(0, goodStreak)
     ELSE IF MoreGood >= Debounce
       THEN SetState(IF state = "BLOCKED" THEN "RECOVERING" ELSE "HEALTHY", 0, MoreGood)
       ELSE Stay(0, MoreGood)
  /\ Observe("low")

SampleMid ==
  /\ Stay(badStreak, goodStreak)
  /\ Observe("mid")

Sample(b) == \/ b = "blocked" /\ SampleBlocked
             \/ b \in {"degraded", "deficit"} /\ SampleDegraded(b)
             \/ b = "low" /\ SampleLow
             \/ b = "mid" /\ SampleMid

Next == \E b \in Bands : Sample(b)

Spec == Init /\ [][Next]_vars

-----------------------------------------------------------------------------
TypeOK ==
  /\ state \in States /\ badStreak \in 0 .. Word - 1 /\ goodStreak \in 0 .. Word - 1
  /\ band \in Bands /\ {bad, good} \subseteq 0 .. Debounce

(* "first mapping: straight to HEALTHY" (transport_health.c:83) apart.     *)
Changes == state' # state /\ ~(state = "UNAVAILABLE" /\ state' = "HEALTHY")

(* No sample counts for two changes of state, and none outlives one of the *)
(* other kind: except from DEGRADED to BLOCKED every change comes with the *)
(* last of Debounce samples of its kind since the last one of the other    *)
(* kind and since the state last changed, whatever streak a longer stay    *)
(* left or wrapped (transport_health.c:62-91, set_state at 42-52).  The    *)
(* comments ask for more, "`debounce` consecutive bad (or good) samples"   *)
(* and no change by "a single outlier" (7-8): the code passes over samples *)
(* of neither kind, and the one exception needs a single sample.           *)
ChangesEarned ==
  [][Changes /\ ~(state = "DEGRADED" /\ band' = "blocked")
       => \/ Kind(band') = "bad" /\ bad >= Debounce - 1
          \/ Kind(band') = "good" /\ good >= Debounce - 1]_vars

================================================================================
