------------------------------- MODULE SPSCQueue -------------------------------
(***************************************************************************)
(* bpfeat::SPSCQueue<T> (source/include/bpfeat/spsc_queue.hpp), one step   *)
(* per shared-memory access, for one producer and one consumer thread.     *)
(*                                                                         *)
(* write, read and closed are the three atomics.  A thread reads its own   *)
(* index exactly; a load of the other thread's index may return any value  *)
(* of its modification order that is not older than what the thread has    *)
(* already acquired.  unseenPops (unseenPushes) counts the stores to read  *)
(* (write) that the producer (consumer) has not acquired yet, so a load    *)
(* picks a new count that is no larger.  Reading closed = TRUE acquires    *)
(* every store the producer made before close().                           *)
(*                                                                         *)
(* The elements are not atomic.  A slot that is being assigned holds Torn, *)
(* and copying out of a slot is a step of its own, so a schedule in which  *)
(* both threads are inside the same slot is a state of the model.          *)
(***************************************************************************)
EXTENDS Naturals

CONSTANTS Values,   (* the values the producer pushes                     *)
          Blank,    (* T{}: the content of a slot and of the out object   *)
          Torn,     (* the content of a slot while it is being assigned   *)
          Slots     (* constructor argument                               *)

(* validate(n): a power of two that is at least 2.                         *)
ASSUME SlotsAssumption == Slots \in Nat /\ Slots >= 2
ASSUME PowerOfTwoAssumption == \E k \in 1..Slots : Slots = 2^k
ASSUME ContentsAssumption == Torn \notin Values /\ Blank \notin Values /\ Torn # Blank

VARIABLES buffer, write, read, closed,
          unseenPops,     (* pops the producer has not acquired           *)
          unseenPushes,   (* pushes the consumer has not acquired         *)
          ppc, arg,       (* producer: where in try_push, and its argument*)
          cpc, value,     (* consumer: where it is, and its out parameter *)
          taken,          (* value of the last try_pop that returned true *)
          sample          (* numerator of the last occupancy()            *)

producerVars == <<ppc, arg>>
consumerVars == <<cpc, value, taken>>
vars == <<buffer, write, read, closed, unseenPops, unseenPushes,
          ppc, arg, cpc, value, taken, sample>>
-----------------------------------------------------------------------------
Slot == 0..Slots-1

SuccUnmasked(i) == i + 1

(* (i + 1) & (slots - 1)                                                  *)
Succ(i) == IF i = Slots - 1 THEN 0 ELSE i + 1

(* (to - from) & (slots - 1)                                              *)
Distance(from, to) == IF to >= from THEN to - from ELSE to - from + Slots

(* The value the index had k increments before it became i.               *)
Back(i, k) == IF i >= k THEN i - k ELSE i - k + Slots

DroppedFullTest(k) == FALSE

(* next == read_: only the reserved slot is left, seen from the producer. *)
LooksFull(k) == Succ(write) = Back(read, k)

DroppedEmptyTest(k) == FALSE

(* read == write_: nothing is published, seen from the consumer.          *)
LooksEmpty(k) == read = Back(write, k)

SwappedSample(k) == Distance(write, Back(read, k))

(* (write - read) & (slots - 1), seen from the producer.                  *)
Sampled(k) == Distance(Back(read, k), write)

RelaxedLoadOfClosed == unseenPushes' \in 0..unseenPushes

(* What an acquire load that returns closed = TRUE makes visible.         *)
AcquireLastPush == unseenPushes' = 0

(* The number of elements published and not yet released.                 *)
Backlog == Distance(read, write)

Init ==
  /\ buffer = [i \in Slot |-> Blank]
  /\ write = 0 /\ read = 0 /\ closed = FALSE
  /\ unseenPops = 0 /\ unseenPushes = 0
  /\ ppc = "idle" /\ arg = Blank
  /\ cpc = "idle" /\ value = Blank /\ taken = Blank
  /\ sample = 0
-----------------------------------------------------------------------------
PushBeginIgnoringClose(v) ==
  /\ ppc = "idle"
  /\ ppc' = "check_full" /\ arg' = v
  /\ UNCHANGED <<buffer, write, read, closed, unseenPops, unseenPushes, sample>>
  /\ UNCHANGED consumerVars

(* try_push: a push on a closed queue returns false and changes nothing.  *)
PushBegin(v) ==
  /\ ppc = "idle" /\ ~closed
  /\ ppc' = "check_full" /\ arg' = v
  /\ UNCHANGED <<buffer, write, read, closed, unseenPops, unseenPushes, sample>>
  /\ UNCHANGED consumerVars

(* Load read; return false when only the reserved slot is left, otherwise *)
(* start assigning the slot at write.                                     *)
PushCheckFull ==
  /\ ppc = "check_full"
  /\ \E k \in 0..unseenPops :
       /\ unseenPops' = k
       /\ IF LooksFull(k)
          THEN ppc' = "idle" /\ UNCHANGED buffer
          ELSE ppc' = "assign" /\ buffer' = [buffer EXCEPT ![write] = Torn]
  /\ UNCHANGED <<write, read, closed, unseenPushes, arg, sample>>
  /\ UNCHANGED consumerVars

PushAssign ==
  /\ ppc = "assign"
  /\ buffer' = [buffer EXCEPT ![write] = arg]
  /\ ppc' = "publish"
  /\ UNCHANGED <<write, read, closed, unseenPops, unseenPushes, arg, sample>>
  /\ UNCHANGED consumerVars

PushPublish ==
  /\ ppc = "publish"
  /\ write' = Succ(write)
  /\ unseenPushes' = unseenPushes + 1
  /\ ppc' = "idle"
  /\ UNCHANGED <<buffer, read, closed, unseenPops, arg, sample>>
  /\ UNCHANGED consumerVars

(* close() by the producer, between two pushes.                           *)
Close ==
  /\ ppc = "idle" /\ ~closed
  /\ closed' = TRUE
  /\ UNCHANGED <<buffer, write, read, unseenPops, unseenPushes, sample>>
  /\ UNCHANGED producerVars /\ UNCHANGED consumerVars

(* occupancy() as the batcher calls it: by the producer, between pushes.  *)
Occupancy ==
  /\ ppc = "idle"
  /\ \E k \in 0..unseenPops :
       /\ unseenPops' = k
       /\ sample' = Sampled(k)
  /\ UNCHANGED <<buffer, write, read, closed, unseenPushes>>
  /\ UNCHANGED producerVars /\ UNCHANGED consumerVars
-----------------------------------------------------------------------------
(* try_pop: load write; return false when the queue looks empty.          *)
PopCheckEmpty ==
  /\ cpc = "idle"
  /\ \E k \in 0..unseenPushes :
       /\ unseenPushes' = k
       /\ cpc' = IF LooksEmpty(k) THEN "idle" ELSE "copy"
  /\ UNCHANGED <<buffer, write, read, closed, unseenPops, value, taken, sample>>
  /\ UNCHANGED producerVars

PopCopy ==
  /\ cpc = "copy"
  /\ value' = buffer[read]
  /\ cpc' = "release"
  /\ UNCHANGED <<buffer, write, read, closed, unseenPops, unseenPushes, taken, sample>>
  /\ UNCHANGED producerVars

PopRelease ==
  /\ cpc = "release"
  /\ read' = Succ(read)
  /\ unseenPops' = unseenPops + 1
  /\ taken' = value
  /\ cpc' = "idle"
  /\ UNCHANGED <<buffer, write, closed, unseenPushes, value, sample>>
  /\ UNCHANGED producerVars

(* closed_and_empty(): first load closed.  A false result changes nothing.*)
EofLoadClosed ==
  /\ cpc = "idle" /\ closed
  /\ AcquireLastPush
  /\ cpc' = "closed"
  /\ UNCHANGED <<buffer, write, read, closed, unseenPops, value, taken, sample>>
  /\ UNCHANGED producerVars

(* ... and only then the indices.                                         *)
EofLoadIndices ==
  /\ cpc = "closed"
  /\ \E k \in 0..unseenPushes :
       /\ unseenPushes' = k
       /\ cpc' = IF LooksEmpty(k) THEN "eof" ELSE "idle"
  /\ UNCHANGED <<buffer, write, read, closed, unseenPops, value, taken, sample>>
  /\ UNCHANGED producerVars
-----------------------------------------------------------------------------
Producer == \/ \E v \in Values : PushBegin(v)
            \/ PushCheckFull \/ PushAssign \/ PushPublish
            \/ Close \/ Occupancy

Consumer == PopCheckEmpty \/ PopCopy \/ PopRelease
            \/ EofLoadClosed \/ EofLoadIndices

Next == Producer \/ Consumer

Spec == Init /\ [][Next]_vars

(* A load that returns the newest value of write.                         *)
FreshPop == PopCheckEmpty /\ unseenPushes' = 0

(* The consumer thread keeps running and polls both try_pop and           *)
(* closed_and_empty.  The standard asks that a store become visible in a  *)
(* finite time: a load that is repeated forever is fresh again and again. *)
Fairness ==
  /\ WF_vars(PopCopy) /\ WF_vars(PopRelease) /\ WF_vars(EofLoadIndices)
  /\ SF_vars(FreshPop) /\ SF_vars(EofLoadClosed)

FairSpec == Spec /\ Fairness
-----------------------------------------------------------------------------
TypeOK ==
  /\ buffer \in [Slot -> Values \cup {Blank, Torn}]
  /\ write \in Slot /\ read \in Slot /\ closed \in BOOLEAN
  /\ unseenPops \in Slot /\ unseenPushes \in Slot /\ sample \in Slot
  /\ ppc \in {"idle", "check_full", "assign", "publish"}
  /\ arg \in Values \cup {Blank}
  /\ cpc \in {"idle", "copy", "release", "closed", "eof"}
  /\ value \in Values \cup {Blank, Torn}
  /\ taken \in Values \cup {Blank, Torn}

(* The producer assigns a slot only while the consumer is in another one: *)
(* the plain, non-atomic accesses to buffer_ never conflict.              *)
NoDataRace ==
  ppc = "assign" /\ cpc = "copy" => write # read

(* closed_and_empty() answers true only when nothing is left and nothing  *)
(* can still arrive: the release/acquire pair on closed_ orders the final *)
(* push before it even if the consumer's last look at write was stale.    *)
EofIsFinal ==
  cpc = "eof" => closed /\ Backlog = 0 /\ ppc = "idle"

(* The pressure sample of the batcher counts pops it has not seen as still*)
(* queued, so it never understates the backlog at the moment it is taken. *)
OccupancyNeverUnderstates ==
  [][Occupancy => sample' >= Backlog]_vars

(* The slot j places after slot i.                                        *)
Nth(i, j) == IF i + j < Slots THEN i + j ELSE i + j - Slots

(* The values in flight, oldest first.                                    *)
InFlight == [i \in 1..Backlog |-> buffer[Nth(read, i - 1)]]

(* The ring implements the bounded queue with Slots - 1 places.           *)
FIFO == INSTANCE BoundedFIFO WITH
          Capacity <- Slots - 1, queue <- InFlight, shut <- closed,
          ended <- (cpc = "eof")

(* Every behaviour of the ring, stale loads included, is one of the       *)
(* atomic bounded queue: no value lost, duplicated or reordered.          *)
ImplementsFIFO == FIFO!SafeSpec

(* ... and under the consumer's polling it delivers everything and ends.  *)
ImplementsLiveFIFO == FIFO!Spec
=============================================================================
