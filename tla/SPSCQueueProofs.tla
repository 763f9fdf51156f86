---------------------------- MODULE SPSCQueueProofs ----------------------------
(***************************************************************************)
(* For every ring size and every set of values: the ring is type correct,  *)
(* its plain accesses do not race, the end of the stream is announced only *)
(* when everything was taken, and every behaviour is one of BoundedFIFO.   *)
(***************************************************************************)
EXTENDS SPSCQueue, SequenceTheorems, TLAPS

(* The slots that hold published, not yet released elements.              *)
Live(i) == Distance(read, i) < Backlog

(* What the producer knows of the consumer's progress never lets it count *)
(* more than Slots - 1 occupied slots, and one fewer once it has decided  *)
(* to write: the slot it writes is one the consumer has given back.       *)
RoomInv ==
  /\ Backlog + unseenPops <= Slots - 1
  /\ ppc \in {"assign", "publish"} => Backlog + unseenPops <= Slots - 2

(* What the consumer has not acquired is still queued, and once it has    *)
(* decided to copy, at least one element it has acquired is.              *)
ViewInv ==
  /\ unseenPushes <= Backlog
  /\ cpc \in {"copy", "release"} => unseenPushes < Backlog

(* Published elements are whole, and the one being published is arg.      *)
DataInv ==
  /\ \A i \in Slot : Live(i) => buffer[i] \in Values
  /\ ppc # "idle" => arg \in Values
  /\ ppc = "publish" => buffer[write] = arg
  /\ cpc = "release" => value = buffer[read]

CloseInv ==
  /\ closed => ppc = "idle"
  /\ cpc = "closed" => closed /\ unseenPushes = 0
  /\ cpc = "eof" => closed /\ Backlog = 0

IInv == TypeOK /\ RoomInv /\ ViewInv /\ DataInv /\ CloseInv
-----------------------------------------------------------------------------
(* Index arithmetic.  Every index expression of the ring stays a slot.    *)
LEMMA IndexTypes ==
  ASSUME NEW i \in Slot, NEW j \in Slot
  PROVE  /\ Succ(i) \in Slot
         /\ Back(i, j) \in Slot
         /\ Distance(i, j) \in Slot
BY SlotsAssumption DEF Slot, Succ, Back, Distance

(* Publishing one element lengthens the backlog by one and makes exactly  *)
(* the slot at the old write index live.                                  *)
LEMMA PublishDistance ==
  ASSUME NEW r \in Slot, NEW w \in Slot, Distance(r, w) < Slots - 1
  PROVE  /\ Distance(r, Succ(w)) = Distance(r, w) + 1
         /\ \A i \in Slot : Distance(r, i) < Distance(r, Succ(w))
                            => i = w \/ Distance(r, i) < Distance(r, w)
BY SlotsAssumption DEF Slot, Succ, Distance

(* Releasing one shortens it by one and makes no new slot live.           *)
LEMMA ReleaseDistance ==
  ASSUME NEW r \in Slot, NEW w \in Slot, Distance(r, w) > 0
  PROVE  /\ Distance(Succ(r), w) = Distance(r, w) - 1
         /\ \A i \in Slot : Distance(Succ(r), i) < Distance(Succ(r), w)
                            => Distance(r, i) < Distance(r, w)
BY SlotsAssumption DEF Slot, Succ, Distance

(* A stale index misleads its reader only in the safe direction: the ring *)
(* looks full exactly when the elements it counts fill it ...             *)
LEMMA LooksFullMeaning ==
  ASSUME NEW r \in Slot, NEW w \in Slot, NEW k \in Slot,
         Distance(r, w) + k <= Slots - 1
  PROVE  /\ Succ(w) = Back(r, k) <=> Distance(r, w) + k = Slots - 1
         /\ Distance(Back(r, k), w) = Distance(r, w) + k
BY SlotsAssumption DEF Slot, Succ, Back, Distance

(* ... and looks empty exactly when every queued element is unseen.       *)
LEMMA LooksEmptyMeaning ==
  ASSUME NEW r \in Slot, NEW w \in Slot, NEW k \in Slot,
         k <= Distance(r, w)
  PROVE  r = Back(w, k) <=> Distance(r, w) = k
BY SlotsAssumption DEF Slot, Back, Distance
-----------------------------------------------------------------------------
(* The empty ring satisfies the strengthening.                            *)
LEMMA InitIInv == Init => IInv
<1> SUFFICES ASSUME Init PROVE IInv
  OBVIOUS
<1>1. TypeOK
  <2>1. 0 \in Slot
    BY SlotsAssumption DEF Slot
  <2> QED
    BY <2>1 DEF Init, TypeOK
<1>2. Backlog = 0
  BY DEF Init, Backlog, Distance
<1>3. RoomInv /\ ViewInv /\ CloseInv
  BY <1>2, SlotsAssumption DEF Init, RoomInv, ViewInv, CloseInv
<1>4. DataInv
  <2>1. ASSUME NEW i \in Slot PROVE ~Live(i)
    <3>1. Distance(read, i) \in Slot
      BY <1>1, IndexTypes DEF TypeOK
    <3> QED
      BY <1>2, <3>1, SlotsAssumption DEF Live, Slot
  <2> QED
    BY <2>1 DEF Init, DataInv
<1> QED
  BY <1>1, <1>3, <1>4 DEF IInv

(* The backlog is a slot distance.                                        *)
LEMMA BacklogType == TypeOK => Backlog \in Slot
BY IndexTypes DEF TypeOK, Backlog

(* Writing the slot at write disturbs no live slot and not the one being  *)
(* handed out.                                                            *)
LEMMA OverwriteFree ==
  ASSUME IInv, NEW x, buffer' = [buffer EXCEPT ![write] = x],
         UNCHANGED <<write, read, cpc, value>>
  PROVE  /\ \A i \in Slot : Live(i)' => buffer'[i] \in Values
         /\ cpc' = "release" => value' = buffer'[read']
<1>1. ASSUME NEW i \in Slot, Live(i) PROVE i # write
  BY <1>1, BacklogType, SlotsAssumption DEF IInv, Live, Backlog, Slot
<1>2. \A i \in Slot : Live(i)' <=> Live(i)
  BY DEF Live, Backlog
<1>3. cpc = "release" => read # write
  BY BacklogType, SlotsAssumption DEF IInv, TypeOK, ViewInv, Backlog, Distance, Slot
<1> QED
  BY <1>1, <1>2, <1>3 DEF IInv, TypeOK, DataInv

(* The strengthening is inductive, action by action.                      *)
LEMMA StepIInv == IInv /\ [Next]_vars => IInv'
<1> SUFFICES ASSUME IInv, [Next]_vars PROVE IInv'
  OBVIOUS
<1>t. /\ write \in Slot /\ read \in Slot /\ Backlog \in Slot
      /\ unseenPops \in Slot /\ unseenPushes \in Slot /\ sample \in Slot
  BY BacklogType DEF IInv, TypeOK
<1>n. Slots \in Nat /\ Slots >= 2 /\ Slot = 0..Slots-1
  BY SlotsAssumption DEF Slot
<1>1. ASSUME NEW v \in Values, PushBegin(v) PROVE IInv'
  BY <1>1 DEF IInv, TypeOK, RoomInv, ViewInv, DataInv, CloseInv, Live, Backlog,
              PushBegin, consumerVars
<1>2. CASE PushCheckFull
  <2>1. PICK k \in 0..unseenPops :
          /\ unseenPops' = k
          /\ IF LooksFull(k)
             THEN ppc' = "idle" /\ UNCHANGED buffer
             ELSE ppc' = "assign" /\ buffer' = [buffer EXCEPT ![write] = Torn]
    BY <1>2 DEF PushCheckFull
  <2>u. /\ ppc = "check_full" /\ Backlog' = Backlog /\ Backlog + k <= Slots - 1
        /\ UNCHANGED <<write, read, closed, unseenPushes, arg, sample, cpc, value, taken>>
    BY <1>2, <2>1, <1>t, <1>n
       DEF PushCheckFull, consumerVars, IInv, RoomInv, Backlog
  <2>2. TypeOK'
    BY <2>1, <2>u, <1>t, <1>n DEF IInv, TypeOK
  <2>3. RoomInv'
    <3>1. k \in Slot
      BY <1>t, <1>n
    <3>2. CASE LooksFull(k)
      BY <2>1, <2>u, <3>2, <1>t, <1>n DEF RoomInv
    <3>3. CASE ~LooksFull(k)
      <4>1. Backlog + k # Slots - 1
        BY <3>1, <3>3, <2>u, <1>t, LooksFullMeaning DEF LooksFull, Backlog
      <4> QED
        BY <4>1, <2>1, <2>u, <1>t, <1>n DEF RoomInv
    <3> QED
      BY <3>2, <3>3
  <2>4. ViewInv'
    BY <2>u DEF IInv, ViewInv
  <2>5. DataInv'
    <3>1. CASE LooksFull(k)
      BY <2>1, <2>u, <3>1 DEF IInv, DataInv, Live
    <3>2. CASE ~LooksFull(k)
      <4>1. /\ \A i \in Slot : Live(i)' => buffer'[i] \in Values
            /\ cpc' = "release" => value' = buffer'[read']
        BY <2>1, <2>u, <3>2, OverwriteFree
      <4> QED
        BY <4>1, <2>1, <2>u, <3>2 DEF IInv, DataInv
    <3> QED
      BY <3>1, <3>2
  <2>6. CloseInv'
    BY <2>1, <2>u DEF IInv, CloseInv
  <2> QED
    BY <2>2, <2>3, <2>4, <2>5, <2>6 DEF IInv
<1>3. CASE PushAssign
  <2>u. /\ ppc = "assign" /\ ppc' = "publish" /\ Backlog' = Backlog
        /\ buffer' = [buffer EXCEPT ![write] = arg] /\ arg \in Values
        /\ UNCHANGED <<write, read, closed, unseenPops, unseenPushes, arg, sample,
                       cpc, value, taken>>
    BY <1>3 DEF PushAssign, consumerVars, IInv, DataInv, Backlog
  <2>1. TypeOK' /\ RoomInv' /\ ViewInv' /\ CloseInv'
    BY <2>u, <1>t DEF IInv, TypeOK, RoomInv, ViewInv, CloseInv
  <2>2. DataInv'
    <3>1. buffer'[write] = arg
      BY <2>u, <1>t DEF IInv, TypeOK
    <3> QED
      BY <2>u, <3>1, <1>t, OverwriteFree DEF DataInv
  <2> QED
    BY <2>1, <2>2 DEF IInv
<1>4. CASE PushPublish
  <2>u. /\ ppc = "publish" /\ ppc' = "idle"
        /\ write' = Succ(write) /\ unseenPushes' = unseenPushes + 1
        /\ UNCHANGED <<buffer, read, closed, unseenPops, arg, sample, cpc, value, taken>>
    BY <1>4 DEF PushPublish, consumerVars
  <2>1. Backlog + unseenPops <= Slots - 2
    BY <2>u DEF IInv, RoomInv
  <2>2. /\ Backlog' = Backlog + 1
        /\ \A i \in Slot : Live(i)' => i = write \/ Live(i)
    BY <2>1, <2>u, <1>t, <1>n, PublishDistance DEF Backlog, Live
  <2>3. TypeOK' /\ RoomInv' /\ ViewInv' /\ CloseInv'
    <3>1. unseenPushes <= Backlog
      BY DEF IInv, ViewInv
    <3>2. write' \in Slot /\ unseenPushes' \in Slot
      BY <3>1, <2>1, <2>u, <1>t, <1>n, IndexTypes
    <3>3. TypeOK'
      BY <3>2, <2>u DEF IInv, TypeOK
    <3>4. RoomInv' /\ ViewInv'
      BY <2>1, <2>2, <2>u, <1>t, <1>n DEF IInv, RoomInv, ViewInv
    <3>5. CloseInv'
      BY <2>u DEF IInv, CloseInv
    <3> QED
      BY <3>3, <3>4, <3>5
  <2>4. DataInv'
    BY <2>2, <2>u DEF IInv, DataInv
  <2> QED
    BY <2>3, <2>4 DEF IInv
<1>5. CASE Close
  BY <1>5 DEF IInv, TypeOK, RoomInv, ViewInv, DataInv, CloseInv, Live, Backlog,
              Close, producerVars, consumerVars
<1>6. CASE Occupancy
  <2>1. PICK k \in 0..unseenPops : unseenPops' = k /\ sample' = Sampled(k)
    BY <1>6 DEF Occupancy
  <2>u. /\ Backlog' = Backlog
        /\ UNCHANGED <<buffer, write, read, closed, unseenPushes, ppc, arg, cpc, value, taken>>
    BY <1>6 DEF Occupancy, producerVars, consumerVars, Backlog
  <2>2. k \in Slot
    BY <1>t, <1>n
  <2>3. sample' \in Slot
    BY <2>1, <2>2, <1>t, IndexTypes DEF Sampled
  <2>4. TypeOK'
    BY <2>1, <2>2, <2>3, <2>u DEF IInv, TypeOK
  <2>5. RoomInv'
    BY <2>1, <2>u, <1>t, <1>n DEF IInv, RoomInv
  <2>6. ViewInv' /\ DataInv' /\ CloseInv'
    BY <2>u DEF IInv, ViewInv, DataInv, CloseInv, Live
  <2> QED
    BY <2>4, <2>5, <2>6 DEF IInv
<1>7. CASE PopCheckEmpty
  <2>1. PICK k \in 0..unseenPushes :
          unseenPushes' = k /\ cpc' = IF LooksEmpty(k) THEN "idle" ELSE "copy"
    BY <1>7 DEF PopCheckEmpty
  <2>u. /\ Backlog' = Backlog /\ k \in Slot /\ k <= Backlog
        /\ UNCHANGED <<buffer, write, read, closed, unseenPops, value, taken, sample, ppc, arg>>
    BY <1>7, <2>1, <1>t, <1>n
       DEF PopCheckEmpty, producerVars, Backlog, IInv, ViewInv
  <2>2. TypeOK' /\ RoomInv' /\ CloseInv'
    BY <2>1, <2>u DEF IInv, TypeOK, RoomInv, CloseInv
  <2>3. ViewInv'
    <3>1. LooksEmpty(k) <=> Backlog = k
      BY <2>u, <1>t, LooksEmptyMeaning DEF LooksEmpty, Backlog
    <3> QED
      BY <3>1, <2>1, <2>u, <1>t, <1>n DEF ViewInv
  <2>4. DataInv'
    BY <2>1, <2>u DEF IInv, DataInv, Live
  <2> QED
    BY <2>2, <2>3, <2>4 DEF IInv
<1>8. CASE PopCopy
  <2>u. /\ cpc = "copy" /\ cpc' = "release" /\ value' = buffer[read] /\ Backlog' = Backlog
        /\ UNCHANGED <<buffer, write, read, closed, unseenPops, unseenPushes, taken, sample,
                       ppc, arg>>
    BY <1>8 DEF PopCopy, producerVars, Backlog
  <2> QED
    BY <2>u, <1>t DEF IInv, TypeOK, RoomInv, ViewInv, DataInv, CloseInv, Live
<1>9. CASE PopRelease
  <2>u. /\ cpc = "release" /\ cpc' = "idle"
        /\ read' = Succ(read) /\ unseenPops' = unseenPops + 1 /\ taken' = value
        /\ UNCHANGED <<buffer, write, closed, unseenPushes, value, sample, ppc, arg>>
    BY <1>9 DEF PopRelease, producerVars
  <2>1. unseenPushes < Backlog
    BY <2>u DEF IInv, ViewInv
  <2>2. /\ Backlog' = Backlog - 1
        /\ \A i \in Slot : Live(i)' => Live(i)
    BY <2>1, <2>u, <1>t, <1>n, ReleaseDistance DEF Backlog, Live
  <2>3. read' \in Slot /\ unseenPops' \in Slot
    BY <2>1, <2>u, <1>t, <1>n, IndexTypes DEF IInv, RoomInv
  <2>4. TypeOK'
    BY <2>3, <2>u DEF IInv, TypeOK
  <2>5. RoomInv' /\ ViewInv'
    BY <2>1, <2>2, <2>u, <1>t, <1>n DEF IInv, RoomInv, ViewInv
  <2>6. DataInv' /\ CloseInv'
    BY <2>2, <2>u DEF IInv, DataInv, CloseInv
  <2> QED
    BY <2>4, <2>5, <2>6 DEF IInv
<1>10. CASE EofLoadClosed
  <2>u. /\ closed /\ cpc' = "closed" /\ unseenPushes' = 0 /\ Backlog' = Backlog
        /\ UNCHANGED <<buffer, write, read, closed, unseenPops, value, taken, sample, ppc, arg>>
    BY <1>10 DEF EofLoadClosed, AcquireLastPush, producerVars, Backlog
  <2> QED
    BY <2>u, <1>t, <1>n DEF IInv, TypeOK, RoomInv, ViewInv, DataInv, CloseInv, Live
<1>11. CASE EofLoadIndices
  <2>1. /\ unseenPushes = 0 /\ unseenPushes' = 0
        /\ cpc' = IF LooksEmpty(0) THEN "eof" ELSE "idle"
    BY <1>11, <1>t, <1>n DEF EofLoadIndices, IInv, CloseInv
  <2>u. /\ cpc = "closed" /\ closed /\ Backlog' = Backlog
        /\ UNCHANGED <<buffer, write, read, closed, unseenPops, value, taken, sample, ppc, arg>>
    BY <1>11 DEF EofLoadIndices, producerVars, Backlog, IInv, CloseInv
  <2>2. LooksEmpty(0) <=> Backlog = 0
    BY <1>t, <1>n, LooksEmptyMeaning DEF LooksEmpty, Backlog
  <2> QED
    BY <2>1, <2>2, <2>u, <1>t, <1>n
       DEF IInv, TypeOK, RoomInv, ViewInv, DataInv, CloseInv, Live
<1>12. CASE UNCHANGED vars
  BY <1>12 DEF IInv, TypeOK, RoomInv, ViewInv, DataInv, CloseInv, Live, Backlog, vars
<1> QED
  BY <1>1, <1>2, <1>3, <1>4, <1>5, <1>6, <1>7, <1>8, <1>9, <1>10, <1>11, <1>12
     DEF Next, Producer, Consumer
-----------------------------------------------------------------------------
(* The strengthening is an invariant of the ring.                         *)
LEMMA SpecIInv == Spec => []IInv
BY InitIInv, StepIInv, PTL DEF Spec

(* Every index, view and program counter of the ring keeps its type, the  *)
(* occupancy sample included.                                             *)
THEOREM TypeCorrect == Spec => []TypeOK
<1>1. IInv => TypeOK
  BY DEF IInv
<1> QED
  BY <1>1, SpecIInv, PTL

(* The producer is never inside the slot the consumer is copying, for     *)
(* every ring size and every staleness of the index loads.                *)
THEOREM RaceFree == Spec => []NoDataRace
<1>1. IInv => NoDataRace
  <2> SUFFICES ASSUME IInv, ppc = "assign", cpc = "copy" PROVE write # read
    BY DEF NoDataRace
  <2>1. Backlog > 0
    BY BacklogType, SlotsAssumption DEF IInv, TypeOK, ViewInv, Slot
  <2> QED
    BY <2>1, SlotsAssumption DEF IInv, TypeOK, Backlog, Distance, Slot
<1> QED
  BY <1>1, SpecIInv, PTL

(* The consumer is told that the stream is over only after it has taken   *)
(* the last element the producer pushed.                                  *)
THEOREM EofCorrect == Spec => []EofIsFinal
<1>1. IInv => EofIsFinal
  BY DEF IInv, CloseInv, EofIsFinal
<1> QED
  BY <1>1, SpecIInv, PTL

(* A pressure sample counts at least the elements queued when it is taken.*)
THEOREM OccupancyConservative == Spec => OccupancyNeverUnderstates
<1>1. IInv /\ [Next]_vars => [Occupancy => sample' >= Backlog]_vars
  <2> SUFFICES ASSUME IInv, Occupancy PROVE sample' >= Backlog
    OBVIOUS
  <2>1. PICK k \in 0..unseenPops : sample' = Sampled(k)
    BY DEF Occupancy
  <2>2. /\ k \in Slot /\ read \in Slot /\ write \in Slot /\ Backlog \in Slot
        /\ Backlog + k <= Slots - 1
    BY BacklogType, SlotsAssumption DEF IInv, TypeOK, RoomInv, Slot
  <2>3. sample' = Backlog + k
    BY <2>1, <2>2, LooksFullMeaning DEF Sampled, Backlog
  <2> QED
    BY <2>2, <2>3, SlotsAssumption DEF Slot
<1> QED
  BY <1>1, SpecIInv, PTL DEF Spec, OccupancyNeverUnderstates
-----------------------------------------------------------------------------
(* Refinement: the published slots, read from the oldest on, are the       *)
(* abstract queue.                                                        *)
LEMMA NthFacts ==
  ASSUME NEW r \in Slot, NEW w \in Slot, NEW j \in Nat, j < Distance(r, w)
  PROVE  /\ Nth(r, j) \in Slot
         /\ Nth(r, j) # w
         /\ j + 1 < Distance(r, w) => Nth(Succ(r), j) = Nth(r, j + 1)
BY SlotsAssumption DEF Slot, Succ, Distance, Nth

(* The live slots start at read and end before write.                     *)
LEMMA NthEnds ==
  ASSUME NEW r \in Slot, NEW w \in Slot
  PROVE  Nth(r, 0) = r /\ Nth(r, Distance(r, w)) = w
BY SlotsAssumption DEF Slot, Distance, Nth

(* The abstract queue has one element per live slot.                      *)
LEMMA InFlightFacts ==
  ASSUME IInv
  PROVE  /\ InFlight \in Seq(Values)
         /\ Len(InFlight) = Backlog
         /\ Backlog \in 0..Slots-1
         /\ \A i \in 1..Backlog : InFlight[i] = buffer[Nth(read, i - 1)]
<1>1. Backlog \in Nat /\ Backlog <= Slots - 1 /\ read \in Slot /\ write \in Slot
  BY BacklogType, SlotsAssumption DEF IInv, TypeOK, Slot
<1>2. ASSUME NEW i \in 1..Backlog PROVE buffer[Nth(read, i - 1)] \in Values
  <2>1. i - 1 \in Nat /\ i - 1 < Distance(read, write)
    BY <1>1 DEF Backlog
  <2>2. Nth(read, i - 1) \in Slot
    BY <2>1, <1>1, NthFacts
  <2>3. Distance(read, Nth(read, i - 1)) = i - 1
    BY <2>1, <2>2, <1>1, SlotsAssumption DEF Slot, Nth, Distance
  <2> QED
    BY <2>1, <2>2, <2>3 DEF IInv, DataInv, Live, Backlog
<1> QED
  BY <1>1, <1>2, SlotsAssumption DEF InFlight

(* A step that moves no index and changes no live slot leaves the         *)
(* abstract queue alone.                                                  *)
LEMMA InFlightStable ==
  ASSUME IInv, UNCHANGED <<read, write>>,
         NEW x, buffer' = buffer \/ buffer' = [buffer EXCEPT ![write] = x]
  PROVE  InFlight' = InFlight
<1>1. Backlog' = Backlog /\ Backlog \in Nat /\ read \in Slot /\ write \in Slot
  BY BacklogType, SlotsAssumption DEF IInv, TypeOK, Slot, Backlog
<1>2. ASSUME NEW i \in 1..Backlog
      PROVE  buffer'[Nth(read, i - 1)] = buffer[Nth(read, i - 1)]
  <2>1. i - 1 \in Nat /\ i - 1 < Distance(read, write)
    BY <1>1 DEF Backlog
  <2>2. Nth(read, i - 1) \in Slot /\ Nth(read, i - 1) # write
    BY <2>1, <1>1, NthFacts
  <2> QED
    BY <2>2 DEF IInv, TypeOK
<1>3. \A i : Nth(read, i - 1)' = Nth(read, i - 1)
  BY DEF Nth
<1> QED
  BY <1>1, <1>2, <1>3 DEF InFlight

(* Appending to a sequence, read as a function on its positions.          *)
LEMMA AppendAsFunction ==
  ASSUME NEW S, NEW s \in Seq(S), NEW e \in S
  PROVE  Append(s, e) = [i \in 1..Len(s) + 1 |-> IF i <= Len(s) THEN s[i] ELSE e]
<1> DEFINE f == [i \in 1..Len(s) + 1 |-> IF i <= Len(s) THEN s[i] ELSE e]
<1>1. Len(s) \in Nat /\ \A i \in 1..Len(s) : s[i] \in S
  BY ElementOfSeq, LenProperties
<1>2. f \in Seq(S) /\ Len(f) = Len(s) + 1
  BY <1>1
<1>3. \A i \in 1..Len(s) + 1 : f[i] = Append(s, e)[i]
  BY <1>1, AppendProperties
<1>4. Append(s, e) \in Seq(S) /\ Len(Append(s, e)) = Len(s) + 1
  BY AppendProperties
<1> HIDE DEF f
<1>5. f = Append(s, e)
  BY <1>2, <1>3, <1>4, SeqEqual
<1> QED
  BY <1>5 DEF f

(* Dropping the head of a sequence, read the same way.                    *)
LEMMA TailAsFunction ==
  ASSUME NEW S, NEW s \in Seq(S), s # <<>>
  PROVE  Tail(s) = [i \in 1..Len(s) - 1 |-> s[i + 1]]
<1> DEFINE f == [i \in 1..Len(s) - 1 |-> s[i + 1]]
<1>1. Len(s) \in Nat \ {0} /\ \A i \in 1..Len(s) : s[i] \in S
  BY ElementOfSeq, EmptySeq
<1>2. f \in Seq(S) /\ Len(f) = Len(s) - 1
  BY <1>1
<1> QED
  BY <1>1, <1>2, HeadTailProperties, SeqEqual

(* Publishing write is the abstract queue accepting the value ...         *)
LEMMA PublishAccepts == IInv /\ PushPublish => FIFO!Accept(arg)
<1> SUFFICES ASSUME IInv, PushPublish PROVE FIFO!Accept(arg)
  OBVIOUS
<1>1. /\ ppc = "publish" /\ write' = Succ(write) /\ UNCHANGED <<buffer, read, closed, cpc, taken>>
  BY DEF PushPublish, consumerVars
<1>2. /\ ~closed /\ Backlog < Slots - 1 /\ buffer[write] = arg
      /\ read \in Slot /\ write \in Slot /\ Backlog \in Nat
  BY <1>1, BacklogType, SlotsAssumption
     DEF IInv, TypeOK, CloseInv, RoomInv, DataInv, Slot
<1>3. Backlog' = Backlog + 1
  BY <1>1, <1>2, PublishDistance DEF Backlog
<1>4. InFlight' = Append(InFlight, arg)
  <2>1. InFlight' = [i \in 1..Backlog + 1 |-> buffer[Nth(read, i - 1)]]
    BY <1>1, <1>3 DEF InFlight, Nth
  <2>2. Nth(read, Backlog) = write
    BY <1>2, NthEnds DEF Backlog
  <2>3. buffer[Nth(read, (Backlog + 1) - 1)] = arg
    BY <1>2, <2>2
  <2>4. \A i \in 1..Backlog + 1 :
          buffer[Nth(read, i - 1)] = IF i <= Backlog THEN InFlight[i] ELSE arg
    BY <2>3, <1>2, InFlightFacts
  <2>5. InFlight' = [i \in 1..Len(InFlight) + 1 |->
                      IF i <= Len(InFlight) THEN InFlight[i] ELSE arg]
    BY <2>1, <2>4, InFlightFacts
  <2>6. arg \in Values
    BY <1>1 DEF IInv, DataInv
  <2> QED
    BY <2>5, <2>6, InFlightFacts, AppendAsFunction
<1> QED
  BY <1>1, <1>2, <1>4, InFlightFacts DEF FIFO!Accept

(* ... and releasing read is the abstract queue delivering its head.      *)
LEMMA ReleaseDelivers == IInv /\ PopRelease => FIFO!Deliver
<1> SUFFICES ASSUME IInv, PopRelease PROVE FIFO!Deliver
  OBVIOUS
<1>1. /\ cpc = "release" /\ cpc' = "idle" /\ read' = Succ(read) /\ taken' = value
      /\ UNCHANGED <<buffer, write, closed>>
  BY DEF PopRelease
<1>2. /\ Backlog > 0 /\ value = buffer[read]
      /\ read \in Slot /\ write \in Slot /\ Backlog \in Nat
  BY <1>1, BacklogType, SlotsAssumption DEF IInv, TypeOK, ViewInv, DataInv, Slot
<1>3. Backlog' = Backlog - 1
  BY <1>1, <1>2, ReleaseDistance DEF Backlog
<1>4. taken' = Head(InFlight) /\ InFlight # <<>>
  BY <1>1, <1>2, NthEnds, InFlightFacts
<1>5. InFlight' = Tail(InFlight)
  <2>1. InFlight' = [i \in 1..Backlog - 1 |-> buffer[Nth(Succ(read), i - 1)]]
    BY <1>1, <1>3 DEF InFlight, Nth
  <2>2. ASSUME NEW i \in 1..Backlog - 1
        PROVE  buffer[Nth(Succ(read), i - 1)] = InFlight[i + 1]
    <3>1. i - 1 \in Nat /\ i - 1 < Distance(read, write)
          /\ (i - 1) + 1 < Distance(read, write) /\ i + 1 \in 1..Backlog
      BY <1>2 DEF Backlog
    <3>2. Nth(Succ(read), i - 1) = Nth(read, (i - 1) + 1)
      BY <3>1, <1>2, NthFacts
    <3>3. InFlight[i + 1] = buffer[Nth(read, (i + 1) - 1)]
      BY <3>1, InFlightFacts
    <3> QED
      BY <3>1, <3>2, <3>3
  <2>3. InFlight' = [i \in 1..Backlog - 1 |-> InFlight[i + 1]]
    BY <2>1, <2>2
  <2> QED
    BY <2>3, <1>4, InFlightFacts, TailAsFunction
<1> QED
  BY <1>1, <1>4, <1>5 DEF FIFO!Deliver

(* Every other step of the ring is invisible to the abstract queue.        *)
LEMMA StepRefines == IInv /\ [Next]_vars => [FIFO!Next]_(FIFO!fifoVars)
<1> SUFFICES ASSUME IInv, [Next]_vars PROVE [FIFO!Next]_(FIFO!fifoVars)
  OBVIOUS
<1>1. ASSUME NEW v \in Values, PushBegin(v) PROVE UNCHANGED FIFO!fifoVars
  BY <1>1, InFlightStable DEF PushBegin, consumerVars, FIFO!fifoVars
<1>2. CASE PushCheckFull
  BY <1>2, InFlightStable DEF PushCheckFull, consumerVars, FIFO!fifoVars
<1>3. CASE PushAssign
  BY <1>3, InFlightStable DEF PushAssign, consumerVars, FIFO!fifoVars
<1>4. CASE PushPublish
  BY <1>4, PublishAccepts DEF PushPublish, FIFO!Next, IInv, DataInv
<1>5. CASE Close
  BY <1>5, InFlightStable DEF Close, consumerVars, FIFO!Shut, FIFO!Next
<1>6. CASE Occupancy
  BY <1>6, InFlightStable DEF Occupancy, consumerVars, FIFO!fifoVars
<1>7. CASE PopCheckEmpty
  BY <1>7, InFlightStable DEF PopCheckEmpty, FIFO!fifoVars
<1>8. CASE PopCopy
  BY <1>8, InFlightStable DEF PopCopy, FIFO!fifoVars
<1>9. CASE PopRelease
  BY <1>9, ReleaseDelivers DEF FIFO!Next
<1>10. CASE EofLoadClosed
  BY <1>10, InFlightStable DEF EofLoadClosed, FIFO!fifoVars
<1>11. CASE EofLoadIndices
  <2>1. InFlight' = InFlight /\ cpc = "closed" /\ closed /\ UNCHANGED <<closed, taken>>
    BY <1>11, InFlightStable DEF EofLoadIndices, IInv, CloseInv
  <2>2. CASE cpc' = "eof"
    <3>1. Backlog = 0
      BY <1>11, <2>2, StepIInv DEF EofLoadIndices, IInv, CloseInv, Backlog
    <3>2. InFlight = <<>>
      BY <3>1, InFlightFacts
    <3> QED
      BY <2>1, <2>2, <3>2 DEF FIFO!End, FIFO!Next
  <2>3. CASE cpc' # "eof"
    BY <2>1, <2>3 DEF FIFO!fifoVars
  <2> QED
    BY <2>2, <2>3
<1>12. CASE UNCHANGED vars
  BY <1>12, InFlightStable DEF vars, FIFO!fifoVars
<1> QED
  BY <1>1, <1>2, <1>3, <1>4, <1>5, <1>6, <1>7, <1>8, <1>9, <1>10, <1>11, <1>12
     DEF Next, Producer, Consumer

(* No value is lost, duplicated, reordered or torn, however stale the     *)
(* index loads are: the lock-free ring implements the atomic bounded      *)
(* queue of Slots - 1 places.                                             *)
THEOREM RingImplementsFIFO == Spec => ImplementsFIFO
<1>1. Init => FIFO!Init
  <2> SUFFICES ASSUME Init PROVE FIFO!Init
    OBVIOUS
  <2>1. Backlog = 0
    BY DEF Init, Backlog, Distance
  <2>2. InFlight = <<>>
    BY <2>1, InitIInv, InFlightFacts
  <2> QED
    BY <2>2 DEF Init, FIFO!Init
<1> QED
  BY <1>1, StepRefines, SpecIInv, PTL DEF Spec, ImplementsFIFO, FIFO!SafeSpec
=============================================================================
