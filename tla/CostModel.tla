-------------------------------- MODULE CostModel --------------------------------
(***************************************************************************)
(* adapt_policy_decide: which transport a message is routed to, under each *)
(* of the five policies.  Costs are whole microseconds, or any other unit; *)
(* what the estimates are computed from is left open: a decision is given  *)
(* a record est of                                                         *)
(*   uds, shm   predicted cost of the transport itself, for this payload   *)
(*   prior      the same of a datagram, from the configured model          *)
(*   q          predicted queue wait of the ring                           *)
(*   hp         penalty of the ring's health state                         *)
(*   notify     how long the consumer may not look at the ring             *)
(* and the latency budget, 0 if there is none or QoS is THROUGHPUT.        *)
(***************************************************************************)
EXTENDS Integers

CONSTANTS SwitchCost, Margin, SetupCost,   \* of adapt_cost_cfg_t, in us
          Weight                           \* of the latency overshoot

ASSUME CostModelAssumption ==
  {SwitchCost, Margin, SetupCost, Weight} \subseteq Nat

Routes == {"UDS", "SHM"}
NoRoute == "NONE"

Policies == {"SIZE_ONLY", "SIZE_HYSTERESIS", "QUEUE_AWARE", "COST_AWARE", "FULL_ADAPTIVE"}

-----------------------------------------------------------------------------
(* The EWMA of the sizes lies up to ADAPT_TAU_LOW, from ADAPT_TAU_HIGH on, *)
(* or in the dead band between them, which keeps the current route.        *)
SizeRoute(band, current) ==
  CASE band = "high" -> "SHM"
    [] band = "low"  -> "UDS"
    [] OTHER         -> IF current = "SHM" THEN "SHM" ELSE "UDS"

(* Large messages leave a ring whose wait costs more than a datagram and   *)
(* the switch, if they fit one.                                            *)
EscapeRoute(band, current, wait, est, fits) ==
  IF band = "high" /\ wait > est.prior + SwitchCost /\ fits
  THEN "UDS" ELSE SizeRoute(band, current)

-----------------------------------------------------------------------------
Over(latency, budget) == IF latency > budget THEN latency - budget ELSE 0
Greater(a, b) == IF a > b THEN a ELSE b

LatShm(est, mapped) == est.q + est.shm + (IF mapped THEN est.notify ELSE 0)

(* One penalty, for the larger overshoot, on the transport with the larger *)
(* latency.                                                                *)
LatencyPenalty(est, mapped, budget) ==
  IF budget = 0 THEN 0
  ELSE Weight * Greater(Over(est.uds, budget), Over(LatShm(est, mapped), budget))

ScoreUds(current, est, mapped, budget) ==
  est.uds + (IF current = "UDS" THEN 0 ELSE SwitchCost)
          + (IF LatShm(est, mapped) > est.uds THEN 0 ELSE LatencyPenalty(est, mapped, budget))

ScoreShm(current, est, mapped, hp, budget) ==
  est.shm + est.q + hp
          + (IF mapped THEN 0 ELSE SetupCost)
          + (IF current = "SHM" THEN 0 ELSE SwitchCost)
          + (IF LatShm(est, mapped) > est.uds THEN LatencyPenalty(est, mapped, budget) ELSE 0)

(* The better score wins the first decision; later the other transport     *)
(* must be better by more than the margin.  The slip: by anything.         *)
CostRouteEager(current, est, mapped, hp, budget) ==
  IF ScoreShm(current, est, mapped, hp, budget) <= ScoreUds(current, est, mapped, budget)
  THEN "SHM" ELSE "UDS"

CostRoute(current, est, mapped, hp, budget) ==
  LET shm == ScoreShm(current, est, mapped, hp, budget)
      uds == ScoreUds(current, est, mapped, budget)
      better == IF shm <= uds THEN "SHM" ELSE "UDS"
      wins == IF better = "SHM" THEN shm + Margin < uds ELSE uds + Margin < shm
  IN  IF current = NoRoute \/ wins THEN better ELSE current

-----------------------------------------------------------------------------
(* cold: FULL_ADAPTIVE has not yet measured enough small messages on both  *)
(* transports.  A penalty counts for FULL_ADAPTIVE only, and for a ring    *)
(* that is mapped.                                                         *)
Penalty(policy, est, mapped) == IF policy = "FULL_ADAPTIVE" /\ mapped THEN est.hp ELSE 0

ByCost(policy, cold) == policy = "COST_AWARE" \/ (policy = "FULL_ADAPTIVE" /\ ~cold)

Decide(policy, band, current, est, mapped, fits, cold, budget) ==
  LET hp == Penalty(policy, est, mapped) IN
  IF ByCost(policy, cold) THEN CostRoute(current, est, mapped, hp, budget)
  ELSE CASE policy = "SIZE_ONLY"       -> IF band = "high" THEN "SHM" ELSE "UDS"
         [] policy = "SIZE_HYSTERESIS" -> SizeRoute(band, current)
         [] OTHER                      -> EscapeRoute(band, current, est.q + hp, est, fits)

================================================================================
