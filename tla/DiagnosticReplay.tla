----------------------------- MODULE DiagnosticReplay -----------------------------
(***************************************************************************)
(* The feedback loop of the engine (source/include/bpfeat/pipeline.hpp)    *)
(* with the values it controls by, and tools/verify_engine_diagnostics.py, *)
(* which replays the decisions from the files the engine left.             *)
(*                                                                         *)
(* The queues, errors and counters of the engine are in Pipeline; here the *)
(* source runs at most FeatureRoom items ahead of the batcher, a sample of *)
(* the batch queue's occupancy is arbitrary, and the clocks are left out.  *)
(***************************************************************************)
EXTENDS Controllers, Sublists, FiniteSets

CONSTANTS Modes, MaxEvents, FeatureRoom

ASSUME ReplayAssumption ==
  /\ Modes \subseteq {"fixed", "batch", "alpha", "joint"}
  /\ MaxEvents \in Nat /\ MaxEvents <= MaxSamples /\ FeatureRoom \in Nat \ {0}

VARIABLES mode, total,   (* --mode and the rows of the events file          *)
          source,        (* [read, alpha, features]: the source thread      *)
          signal,        (* the PressureSignal                              *)
          batcher,       (* [ema, controller, open]: the batcher thread     *)
          attempt,       (* the files written so far                        *)
          engineState,   (* running, completed or failed                    *)
          damaged,       (* a file was changed by someone else              *)
          before,        (* verify: the digests taken first                 *)
          replayed,      (* verify: whether the replay found no mismatch    *)
          verdict        (* none, PASSED or REJECTED                        *)

engineVars == <<mode, total, source, signal, batcher, engineState>>
verifyVars == <<before, replayed, verdict>>
replayVars == <<engineVars, attempt, damaged, verifyVars>>

NoBatch == [items |-> <<>>, row |-> <<>>]

(* A run of mode m over n events.                                         *)
ReplayInit(m, n) ==
  /\ mode = m /\ total = n
  /\ source = [read |-> 0, alpha |-> AlphaInitial * Unit, features |-> <<>>]
  /\ signal = NoObservation
  /\ batcher = [ema |-> 0, controller |-> NewController, open |-> NoBatch]
  /\ attempt = [predictions |-> <<>>, rows |-> <<>>, actions |-> 0, changes |-> 0, tails |-> 0]
  /\ engineState = "running" /\ damaged = FALSE
  /\ before = <<>> /\ replayed = FALSE /\ verdict = "none"

Adaptive == mode \in {"batch", "joint"}
AlphaAdapts == mode \in {"alpha", "joint"}

(* The source loads the latest observation for every event.               *)
Extract ==
  /\ engineState = "running" /\ source.read < total /\ Len(source.features) < FeatureRoom
  /\ LET alpha == IF AlphaAdapts /\ signal.available THEN NextAlpha(source.alpha, signal.value)
                  ELSE source.alpha
         snapshot == [seq |-> source.read + 1, alpha |-> alpha, used |-> signal]
     IN  source' = [read |-> source.read + 1, alpha |-> alpha,
                    features |-> Append(source.features, snapshot)]
  /\ UNCHANGED <<mode, total, signal, batcher, attempt, engineState, damaged, verifyVars>>

Written(open, tail) ==
  LET row == [open.row EXCEPT !.count = Len(open.items), !.tail = tail]
      scored == [i \in DOMAIN open.items |->
                   [seq |-> open.items[i].seq, alpha |-> open.items[i].alpha,
                    used |-> open.items[i].used, batch |-> row.gen, size |-> row.count]]
  IN  [attempt EXCEPT !.rows = Append(@, row), !.predictions = @ \o scored]

(* The next item; the first of a batch takes a sample and decides.        *)
Batched ==
  /\ engineState = "running" /\ source.features # <<>>
  /\ source' = [source EXCEPT !.features = Tail(@)]
  /\ \E occupied \in (IF batcher.open = NoBatch THEN 0..QueueCap ELSE {0}) :
       LET first == batcher.open = NoBatch
           ema == IF first THEN Smoothed(batcher.ema, occupied) ELSE batcher.ema
           c == IF first /\ Adaptive THEN Controlled(batcher.controller, ema)
                ELSE batcher.controller
           row == [gen |-> signal.gen + 1, occupied |-> occupied, ema |-> ema,
                   target |-> c.size, count |-> 0, tail |-> FALSE]
           open == [items |-> Append(batcher.open.items, Head(source.features)),
                    row |-> IF first THEN row ELSE batcher.open.row]
           full == Len(open.items) = c.size
       IN  /\ signal' = IF first THEN Stored(signal, ema) ELSE signal
           /\ batcher' = [ema |-> ema, controller |-> c, open |-> IF full THEN NoBatch ELSE open]
           /\ attempt' = IF full THEN Written(open, FALSE) ELSE attempt
  /\ UNCHANGED <<mode, total, engineState, damaged, verifyVars>>

(* The end of the stream: the tail is flushed and the receipt written.    *)
Complete ==
  /\ engineState = "running" /\ source.read = total /\ source.features = <<>>
  /\ LET tail == batcher.open # NoBatch
         files == IF tail THEN Written(batcher.open, TRUE) ELSE attempt
     IN  attempt' = [files EXCEPT !.actions = batcher.controller.actions,
                                  !.changes = batcher.controller.changes,
                                  !.tails = IF tail THEN 1 ELSE 0]
  /\ engineState' = "completed"
  /\ batcher' = [ema |-> 0, controller |-> NewController, open |-> NoBatch]
  /\ UNCHANGED <<mode, total, source, signal, damaged, verifyVars>>

(* Killed, or failed with a failure record: no receipt.                   *)
EngineStops ==
  /\ engineState = "running" /\ engineState' = "failed"
  /\ UNCHANGED <<mode, total, source, signal, batcher, attempt, damaged, verifyVars>>
-----------------------------------------------------------------------------
(* Something else changes one file: a record is lost or changed.          *)
WithoutIndex(s, i) == SubSeq(s, 1, i - 1) \o SubSeq(s, i + 1, Len(s))
Swapped(s, i) == [s EXCEPT ![i] = s[i + 1], ![i + 1] = s[i]]
Recounted(s, i) == [s EXCEPT ![i].count = @ + 1, ![i + 1].count = @ - 1]

LostRecord(a) ==
  {[a EXCEPT !.rows = WithoutIndex(@, i)] : i \in DOMAIN a.rows}
  \cup {[a EXCEPT !.predictions = WithoutIndex(@, i)] : i \in DOMAIN a.predictions}

Reordered(a) ==
  {[a EXCEPT !.rows = Swapped(@, i)] : i \in 1..(Len(a.rows) - 1)}
  \cup {[a EXCEPT !.predictions = Swapped(@, i)] : i \in 1..(Len(a.predictions) - 1)}

(* An item booked in the batch before, another target, a tail, a counter. *)
Misbooked(a) ==
  {[a EXCEPT !.rows = Recounted(@, i)] : i \in 1..(Len(a.rows) - 1)}
  \cup {[a EXCEPT !.rows[i].target = t] : i \in DOMAIN a.rows, t \in BatchSize}
  \cup {[a EXCEPT !.rows[i].tail = ~@] : i \in DOMAIN a.rows}
  \cup {[a EXCEPT !.changes = @ + 1], [a EXCEPT !.actions = @ + 1]}

Damage ==
  /\ engineState = "completed" /\ verdict = "none" /\ ~damaged
  /\ attempt' \in (LostRecord(attempt) \cup Reordered(attempt) \cup Misbooked(attempt)) \ {attempt}
  /\ damaged' = TRUE
  /\ UNCHANGED <<engineVars, verifyVars>>
-----------------------------------------------------------------------------
(* The policy as verify computes it.                                      *)
ReplayTarget(target, pressure) ==
  IF ~Adaptive THEN target
  ELSE IF 10 * pressure > HighTenths * Unit /\ target > BatchMin
  THEN Larger(BatchMin, (target * ShrinkNum) \div ShrinkDen)
  ELSE IF 10 * pressure < LowTenths * Unit /\ target < BatchMax
  THEN Smaller(BatchMax, Larger(target + 1, (target * GrowNum) \div GrowDen))
  ELSE target

(* The loop over the controller file.                                     *)
EmaAt(a) == LET e[g \in 0..Len(a.rows)] ==
                  IF g = 0 THEN 0
                  ELSE (Fraction(a.rows[g].occupied) + (GainDen - 1) * e[g - 1]) \div GainDen
            IN  e

TargetAt(a) == LET t[g \in 0..Len(a.rows)] ==
                     IF g = 0 THEN BatchInitial ELSE ReplayTarget(t[g - 1], a.rows[g].ema)
               IN  t

OffsetAt(a) == LET o[g \in 0..Len(a.rows)] ==
                     IF g = 0 THEN 0 ELSE o[g - 1] + a.rows[g].count
               IN  o

RowsReplay(a) ==
  \A g \in DOMAIN a.rows :
    LET row == a.rows[g]
    IN  /\ row.gen = g /\ row.ema = EmaAt(a)[g] /\ row.target = TargetAt(a)[g]
        /\ 0 < row.count /\ row.count <= row.target
        /\ (row.count < row.target) = row.tail /\ (row.tail => g = Len(a.rows))
        /\ OffsetAt(a)[g] <= Len(a.predictions)
        /\ \A n \in (OffsetAt(a)[g - 1] + 1)..OffsetAt(a)[g] :
             a.predictions[n].batch = g /\ a.predictions[n].size = row.count

Moves(a) == LET steps == [g \in DOMAIN a.rows |-> TargetAt(a)[g] - TargetAt(a)[g - 1]]
            IN  Picked(steps, {g \in DOMAIN steps : steps[g] # 0})

CountersReplay(a) ==
  LET moves == Moves(a)
  IN  /\ a.actions = Len(moves)
      /\ a.changes = Cardinality({i \in 2..Len(moves) : (moves[i] > 0) # (moves[i - 1] > 0)})
      /\ a.tails = Cardinality({g \in DOMAIN a.rows : a.rows[g].tail})

(* The loop over the events and predictions.                              *)
AlphaAt(a) ==
  LET x[i \in 0..Len(a.predictions)] ==
        IF i = 0 THEN AlphaInitial * Unit
        ELSE IF AlphaAdapts /\ a.predictions[i].used.available
        THEN LET goal == AlphaMin * Unit + (AlphaMax - AlphaMin) * a.predictions[i].used.value
                 step == Smaller(AlphaDelta * Unit, Larger(-(AlphaDelta * Unit), goal - x[i - 1]))
             IN  Smaller(AlphaMax * Unit, Larger(AlphaMin * Unit, x[i - 1] + step))
        ELSE x[i - 1]
  IN  x

PredictionsReplay(a) ==
  \A i \in DOMAIN a.predictions :
    LET p == a.predictions[i]
    IN  /\ p.seq = i /\ p.alpha = AlphaAt(a)[i]
        /\ i > 1 => a.predictions[i - 1].used.gen <= p.used.gen
        /\ IF p.used.available
           THEN /\ p.used.gen \in DOMAIN a.rows /\ p.used.value = a.rows[p.used.gen].ema
                /\ p.used.gen <= p.batch
           ELSE p.used.gen = 0 /\ p.used.value = 0

Replays(a) ==
  /\ Len(a.predictions) = total
  /\ RowsReplay(a) /\ OffsetAt(a)[Len(a.rows)] = Len(a.predictions)
  /\ CountersReplay(a) /\ PredictionsReplay(a)

(* Without a receipt verify gives up at once; otherwise it digests the    *)
(* files, reads and replays them, and digests them again.                 *)
NoReceipt ==
  /\ engineState = "failed" /\ verdict = "none" /\ verdict' = "REJECTED"
  /\ UNCHANGED <<engineVars, attempt, damaged, before, replayed>>

DigestBefore ==
  /\ engineState = "completed" /\ verdict = "none" /\ before = <<>>
  /\ before' = <<attempt>>
  /\ UNCHANGED <<engineVars, attempt, damaged, replayed, verdict>>

Replay ==
  /\ before # <<>> /\ ~replayed /\ verdict = "none"
  /\ IF Replays(attempt) THEN replayed' = TRUE /\ UNCHANGED verdict
     ELSE verdict' = "REJECTED" /\ UNCHANGED replayed
  /\ UNCHANGED <<engineVars, attempt, damaged, before>>

DigestAfter ==
  /\ replayed /\ verdict = "none"
  /\ verdict' = IF before = <<attempt>> THEN "PASSED" ELSE "REJECTED"
  /\ UNCHANGED <<engineVars, attempt, damaged, before, replayed>>

ReplayNext == Extract \/ Batched \/ Complete \/ EngineStops \/ Damage
              \/ NoReceipt \/ DigestBefore \/ Replay \/ DigestAfter
-----------------------------------------------------------------------------
(* verify passes an attempt exactly if the engine completed it and nobody *)
(* changed a file before or during the replay: however the threads        *)
(* interleave, what the engine did is consistent with its files, and a    *)
(* lost, reordered or misbooked record is noticed.                        *)
ReplayDecides ==
  verdict # "none" => (verdict = "PASSED" <=> engineState = "completed" /\ ~damaged)

(* A batch size that was cut down recovers: over any stretch of low       *)
(* samples it grows by at least one per batch until it is at batch_max.   *)
LowPressureRecovers ==
  (Adaptive /\ ~damaged) =>
    \A g \in DOMAIN attempt.rows : \A h \in g..Len(attempt.rows) :
      (\A i \in g..h : ZoneOf(attempt.rows[i].ema) = "low") =>
        attempt.rows[h].target >=
          Smaller(BatchMax, (IF g = 1 THEN BatchInitial ELSE attempt.rows[g - 1].target) + (h - g + 1))
=============================================================================
