-------------------------------- MODULE RingInit --------------------------------
(***************************************************************************)
(* The life of the shared-memory object of the eager mode                  *)
(* (ADAPTIPC_EAGER_SHM): both sides open, size and map one name in any     *)
(* order (ring_map), the producer resets the header, the consumer pops     *)
(* without waiting for that, and adapt_shutdown and the failure path of    *)
(* adapt_init close the ring, which unlinks the name for the producer only.*)
(*                                                                         *)
(* Both sides map the same capacity.  A record takes one slot: bytes,      *)
(* padding and the race of a push with a pop are SpscRing's.               *)
(***************************************************************************)
EXTENDS Integers, Sequences, FiniteSets

CONSTANTS Slots,      \* records the ring holds
          Messages,   \* the producer's pushes, bounded
          Leftover,   \* an object of an earlier run may be behind the name
          Starts      \* how often each side may start

ASSUME RingInitAssumption ==
  /\ Slots \in Nat \ {0} /\ Messages \in Nat /\ Leftover \in BOOLEAN
  /\ Starts \in [{"producer", "consumer"} -> Nat]

Sides == {"producer", "consumer"}
Objects == 1 .. 1 + Starts["producer"] + Starts["consumer"]
Nobody == 0     \* no object
Stale == 0      \* a record of an earlier run

VARIABLES name,     \* the object shm_open finds, or Nobody
          objs,     \* every object ever created: its size and what is in it
          pc, at,   \* of each side: its place, and the object of its descriptor
          starts,   \* of each side: its starts so far
          item,     \* consumer: [tail, rec] loaded by the pop under way
          sent,     \* records pushed so far, numbered from 1
          got,      \* records that pops returned
          killed,   \* history: consumers that died between a pop's store and its return
          closed    \* history: a producer has closed, and unlinked the name

vars == <<name, objs, pc, at, starts, item, sent, got, killed, closed>>

(* An object is created empty; growing it adds zeros.                      *)
Zero == [grown |-> FALSE, initialized |-> 0, head |-> 0, tail |-> 0,
         data |-> [s \in 0 .. Slots - 1 |-> Stale]]

(* What a producer that was killed left behind.                            *)
Used == [Zero EXCEPT !.grown = TRUE, !.initialized = 1, !.head = 1]

NoItem == [tail |-> 0, rec |-> Stale]

Init ==
  /\ \/ name = Nobody /\ objs = << >>
     \/ Leftover /\ name = 1 /\ objs = <<Used>>
  /\ pc = [s \in Sides |-> "down"] /\ at = [s \in Sides |-> Nobody]
  /\ starts = [s \in Sides |-> 0]
  /\ item = NoItem /\ sent = 0 /\ got = << >>
  /\ killed = 0 /\ closed = FALSE

GoTo(s, place) == pc' = [pc EXCEPT ![s] = place]
Down(s) == GoTo(s, "down") /\ at' = [at EXCEPT ![s] = Nobody]
mem == <<name, objs>>
history == <<killed, closed>>
traffic == <<item, sent, got, killed, closed>>

-----------------------------------------------------------------------------
(* ring_map, on either side.                                               *)

(* shm_open with O_CREAT, of an object or of a new one.                    *)
Open(s) ==
  /\ pc[s] = "down" /\ starts[s] < Starts[s]
  /\ IF name = Nobody
     THEN name' = Len(objs) + 1 /\ objs' = Append(objs, Zero)
     ELSE UNCHANGED mem
  /\ at' = [at EXCEPT ![s] = name']
  /\ starts' = [starts EXCEPT ![s] = @ + 1]
  /\ GoTo(s, "opened")
  /\ UNCHANGED traffic

(* The slip: to leave the size to the producer.                            *)
StatCreator(s) ==
  /\ pc[s] = "opened"
  /\ GoTo(s, IF objs[at[s]].grown \/ s = "consumer" THEN "sized" ELSE "short")
  /\ UNCHANGED <<mem, at, starts, traffic>>

Stat(s) ==
  /\ pc[s] = "opened"
  /\ GoTo(s, IF objs[at[s]].grown THEN "sized" ELSE "short")
  /\ UNCHANGED <<mem, at, starts, traffic>>

Truncate(s) ==
  /\ pc[s] = "short"
  /\ objs' = [objs EXCEPT ![at[s]].grown = TRUE]
  /\ GoTo(s, "sized")
  /\ UNCHANGED <<name, at, starts, traffic>>

Mmap(s) ==
  /\ pc[s] = "sized"
  /\ GoTo(s, "mapped")
  /\ UNCHANGED <<mem, at, starts, traffic>>

(* The producer's stores to the header, one after the other; the consumer  *)
(* of the eager mode attaches without a look at initialized.               *)
ResetHead ==
  /\ pc["producer"] = "mapped"
  /\ objs' = [objs EXCEPT ![at["producer"]].head = 0]
  /\ GoTo("producer", "reset")
  /\ UNCHANGED <<name, at, starts, traffic>>

ResetTail ==
  /\ pc["producer"] = "reset"
  /\ objs' = [objs EXCEPT ![at["producer"]].tail = 0]
  /\ GoTo("producer", "announce")
  /\ UNCHANGED <<name, at, starts, traffic>>

Announce ==
  /\ pc["producer"] = "announce"
  /\ objs' = [objs EXCEPT ![at["producer"]].initialized = 1]
  /\ GoTo("producer", "created")
  /\ UNCHANGED <<name, at, starts, traffic>>

(* The slip: a consumer that resets the cursor it owns.                    *)
AttachResets ==
  /\ pc["consumer"] = "mapped"
  /\ objs' = [objs EXCEPT ![at["consumer"]].tail = 0]
  /\ GoTo("consumer", "created")
  /\ UNCHANGED <<name, at, starts, traffic>>

Attach ==
  /\ pc["consumer"] = "mapped"
  /\ GoTo("consumer", "created")
  /\ UNCHANGED <<mem, at, starts, traffic>>

-----------------------------------------------------------------------------
(* adapt_init goes on with uds_open.                                       *)
InitDone(s) ==
  /\ pc[s] = "created"
  /\ GoTo(s, "running")
  /\ UNCHANGED <<mem, at, starts, traffic>>

(* shm_ring_close, called by adapt_shutdown and where adapt_init fails.  An*)
(* object that has no name disappears with its last descriptor and mapping:*)
(* it stays in objs, but no longer Exists.  The slip: to unlink the name on*)
(* both sides.                                                             *)
CloseUnlinks(s) ==
  /\ pc[s] \in {"created", "running"}
  /\ name' = Nobody /\ closed' = (closed \/ s = "producer")
  /\ Down(s)
  /\ UNCHANGED <<objs, starts, item, sent, got, killed>>

Close(s) ==
  /\ pc[s] \in {"created", "running"}
  /\ name' = IF s = "producer" THEN Nobody ELSE name
  /\ closed' = (closed \/ s = "producer")
  /\ Down(s)
  /\ UNCHANGED <<objs, starts, item, sent, got, killed>>

(* A process dies anywhere, or ring_map fails: nothing is unlinked.        *)
Die(s) ==
  /\ pc[s] # "down"
  /\ Down(s)
  /\ item' = IF s = "consumer" THEN NoItem ELSE item
  /\ killed' = IF pc[s] = "stored" THEN killed + 1 ELSE killed
  /\ UNCHANGED <<mem, starts, sent, got, closed>>

-----------------------------------------------------------------------------
(* One slot per record.  The free space is unsigned: the producer refuses  *)
(* if all Slots are in use, and takes a tail ahead of head for a free ring.*)
Push ==
  LET o == at["producer"]  h == objs[o].head IN
  /\ pc["producer"] = "running" /\ sent < Messages
  /\ h - objs[o].tail # Slots
  /\ objs' = [objs EXCEPT ![o].data[h % Slots] = sent + 1, ![o].head = h + 1]
  /\ sent' = sent + 1
  /\ UNCHANGED <<name, pc, at, starts, item, got, history>>

(* The slip: to free the slot before the record is copied out of it.       *)
PopLoadStores ==
  LET o == objs[at["consumer"]] IN
  /\ pc["consumer"] = "running" /\ o.head # o.tail
  /\ item' = [NoItem EXCEPT !.tail = o.tail]
  /\ objs' = [objs EXCEPT ![at["consumer"]].tail = o.tail + 1]
  /\ GoTo("consumer", "loaded")
  /\ UNCHANGED <<name, at, starts, sent, got, history>>

(* shm_ring_pop: the cursors are loaded and only compared for equality, the*)
(* record is copied, tail is stored, and the caller has the record.        *)
PopLoad ==
  LET o == objs[at["consumer"]] IN
  /\ pc["consumer"] = "running" /\ o.head # o.tail
  /\ item' = [NoItem EXCEPT !.tail = o.tail]
  /\ GoTo("consumer", "loaded")
  /\ UNCHANGED <<mem, at, starts, sent, got, history>>

PopCopy ==
  /\ pc["consumer"] = "loaded"
  /\ item' = [item EXCEPT !.rec = objs[at["consumer"]].data[item.tail % Slots]]
  /\ GoTo("consumer", "copied")
  /\ UNCHANGED <<mem, at, starts, sent, got, history>>

PopStore ==
  /\ pc["consumer"] = "copied"
  /\ objs' = [objs EXCEPT ![at["consumer"]].tail = item.tail + 1]
  /\ GoTo("consumer", "stored")
  /\ UNCHANGED <<name, at, starts, traffic>>

PopReturn ==
  /\ pc["consumer"] = "stored"
  /\ got' = Append(got, item.rec) /\ item' = NoItem
  /\ GoTo("consumer", "running")
  /\ UNCHANGED <<mem, at, starts, sent, history>>

-----------------------------------------------------------------------------
Setup(s) == Open(s) \/ Stat(s) \/ Truncate(s) \/ Mmap(s) \/ InitDone(s)
Reset == ResetHead \/ ResetTail \/ Announce
Pop == PopLoad \/ PopCopy \/ PopStore \/ PopReturn

Next == \/ \E s \in Sides : Setup(s) \/ Close(s) \/ Die(s)
        \/ Reset \/ Attach \/ Push \/ Pop

Spec == Init /\ [][Next]_vars

(* A consumer is started as long as it may be, gets through its start, and *)
(* polls.  Nothing makes a producer start, push or stop.                   *)
FairSpec == Spec /\ WF_vars(Setup("consumer")) /\ WF_vars(Attach) /\ WF_vars(Pop)

-----------------------------------------------------------------------------
Records(o) == {o.data[i % Slots] : i \in o.tail .. o.head - 1}
Received == {got[i] : i \in DOMAIN got}
Exists(o) == o = name \/ \E s \in Sides : at[s] = o
Unread(os) == UNION {Records(objs[o]) : o \in os}

(* Also: whoever is up has an object, and no object holds more than fits,  *)
(* which is what both sides take for granted of the cursors.               *)
TypeOK ==
  /\ name \in 0 .. Len(objs) /\ Len(objs) <= Cardinality(Objects)
  /\ pc["producer"] \in {"down", "opened", "short", "sized", "mapped", "reset",
                         "announce", "created", "running"}
  /\ pc["consumer"] \in {"down", "opened", "short", "sized", "mapped", "created",
                         "running", "loaded", "copied", "stored"}
  /\ \A s \in Sides : at[s] \in IF pc[s] = "down" THEN {Nobody} ELSE DOMAIN objs
  /\ \A o \in DOMAIN objs : /\ objs[o].head - objs[o].tail \in 0 .. Slots
                            /\ objs[o].data \in [0 .. Slots - 1 -> Stale .. sent]
  /\ starts \in [Sides -> Nat] /\ sent \in 0 .. Messages /\ item.tail \in 0 .. Messages
  /\ killed \in Nat /\ closed \in BOOLEAN

(* Nobody has mapped bytes that the object does not have: a load from them *)
(* would be the end of the process.  "Undersized objects are grown by the  *)
(* fstat/ftruncate block below (idempotently, by every attacher)"          *)
(* (shm_ringbuffer.c:182-183).                                             *)
Backed ==
  \A s \in Sides : pc[s] \notin {"down", "opened", "short", "sized"} => objs[at[s]].grown

(* Two sides that run have the same object: a consumer that stops, dies or *)
(* comes first never leaves the producer alone with the other one          *)
(* (adapt_ipc.c:635, and :319 where adapt_init fails).                     *)
SameRing ==
  pc["producer"] = "running" /\ pc["consumer"] \in {"running", "loaded", "copied", "stored"}
    => at["producer"] = at["consumer"]

(* Consumers one after the other return the records that were pushed, each *)
(* once and in their order: "consumers only read bytes below head"         *)
(* (shm_ringbuffer.c:181-182), and a consumer may start at any time, as "an*)
(* uninitialized ring simply reads as empty (head == tail) until the       *)
(* producer's release-published init lands" (adapt_ipc.c:292-293).         *)
InOrderOnce ==
  \A i \in DOMAIN got : /\ got[i] \in 1 .. sent
                        /\ i > 1 => got[i - 1] < got[i]

(* Records are lost in two ways only: a consumer that dies between the     *)
(* store of tail and the return of its pop (shm_ringbuffer.c:418-428) takes*)
(* the one record with it, and what is unread goes with an object that has *)
(* neither a name nor a user, which only a producer's shutdown brings      *)
(* about.  Every other death or close, of either side, loses nothing.      *)
LossPerDeath ==
  LET existing == {o \in DOMAIN objs : Exists(o)}
      dropped == Unread(DOMAIN objs \ existing)
      lost == (1 .. sent) \ (Received \cup Unread(existing))
  IN  /\ dropped # {} => closed
      /\ Cardinality(lost \ dropped) <= killed + IF pc["consumer"] = "stored" THEN 1 ELSE 0

(* What is in the ring a running producer writes to, in the ring the       *)
(* consumer has, or in the one the next consumer will open is returned, but*)
(* for the two ways of LossPerDeath, while consumers are started: "the     *)
(* consumer may initialize before the producer exists"                     *)
(* (adapt_ipc.c:290-291), or after it.                                     *)
Live == {name, at["consumer"]} \cup (IF pc["producer"] = "running" THEN {at["producer"]} ELSE {})
Waiting(m) == \E o \in Live \ {Nobody} : m \in Records(objs[o])

AllTaken == \A m \in 1 .. Messages :
  Waiting(m) ~> \/ m \in Received
                \/ ~Waiting(m) /\ (killed > 0 \/ closed)
                \/ pc["consumer"] = "down" /\ starts["consumer"] = Starts["consumer"]

================================================================================
