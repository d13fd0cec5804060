------------------------------- MODULE DecisionLog -------------------------------
(***************************************************************************)
(* The decision log: a ring of the last LogSize decisions, written by      *)
(* adapt_declog_record and dumped oldest first by adapt_declog_dump.  The  *)
(* cursor is an unsigned that wraps.  A decision is known by its number.   *)
(***************************************************************************)
EXTENDS Integers, Sequences

CONSTANTS LogSize,    \* ADAPT_DECISION_LOG_N
          LogWord     \* dl->next is unsigned: 2^32 in the code

ASSUME DecisionLogAssumption ==
  LogSize \in Nat \ {0} /\ LogWord \in Nat \ {0} /\ LogWord % LogSize = 0

VARIABLES log, next, count,   \* struct adapt_declog
          seq                 \* ctx->decision_seq

logvars == <<log, next, count, seq>>

LogInit == log = [i \in 0 .. LogSize - 1 |-> 0] /\ next = 0 /\ count = 0 /\ seq = 0

(* The slip: to let the count stop one short of the ring.                  *)
RecordOneShort ==
  /\ seq' = seq + 1
  /\ log' = [log EXCEPT ![next % LogSize] = seq + 1]
  /\ next' = (next + 1) % LogWord
  /\ count' = IF count < LogSize - 1 THEN count + 1 ELSE count

(* The slip: to count on.                                                  *)
RecordUncapped ==
  /\ seq' = seq + 1
  /\ log' = [log EXCEPT ![next % LogSize] = seq + 1]
  /\ next' = (next + 1) % LogWord
  /\ count' = count + 1

Record ==
  /\ seq' = seq + 1
  /\ log' = [log EXCEPT ![next % LogSize] = seq + 1]
  /\ next' = (next + 1) % LogWord
  /\ count' = IF count < LogSize THEN count + 1 ELSE count

(* next - total + k is computed modulo the word.                           *)
Dump == [k \in 1 .. count |-> log[((next - count + k - 1) % LogWord) % LogSize]]

LogTypeOK ==
  /\ log \in [0 .. LogSize - 1 -> Nat] /\ next \in 0 .. LogWord - 1
  /\ count \in 0 .. LogSize /\ seq \in Nat

(* The dump is the last decisions, as many as there were or as fit, each   *)
(* once and in their order, also after the cursor has wrapped: "Keep the   *)
(* last N decisions in a ring for dumping" (cost_model.h:201).             *)
LogIsSuffix ==
  /\ count = IF seq < LogSize THEN seq ELSE LogSize
  /\ \A k \in 1 .. count : Dump[k] = seq - count + k

================================================================================
