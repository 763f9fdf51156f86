----------------------------- MODULE StreamingProofs -----------------------------
(***************************************************************************)
(* For every batch range, every factors, thresholds, gain and queue, and   *)
(* for streams of any length: the batch size of an adaptive run recovers,  *)
(* and verify passes the files of a run if and only if the engine wrote    *)
(* them all and nobody changed them.                                       *)
(* For any number of invocations of the runner, crashing anywhere: success *)
(* leaves a directory of this invocation's files only.                     *)
(* For any number of executions of the reproduction, failing anywhere:     *)
(* PASS is about this one's manifests, digests and replay.                 *)
(***************************************************************************)
EXTENDS Streaming, RecursionLemmas, SequenceTheorems, TLAPS

Low(row) == ZoneOf(row.ema) = "low"

(* What the decision at a low sample owes to the size before it.          *)
Recovers(previous, row) == Low(row) => row.target >= Smaller(BatchMax, previous + 1)

(* The target a run of low samples beginning at g began with.             *)
TargetBefore(rows, g) == IF g = 1 THEN BatchInitial ELSE rows[g - 1].target
LastTarget(rows) == TargetBefore(rows, Len(rows) + 1)

IsSeq(s) == Len(s) \in Nat /\ s = [i \in 1..Len(s) |-> s[i]]

(* LowPressureRecovers, as a statement about the rows written.            *)
RowsRecover(rows) ==
  \A g \in DOMAIN rows : \A h \in g..Len(rows) :
    (\A i \in g..h : Low(rows[i])) =>
      rows[h].target >= Smaller(BatchMax, TargetBefore(rows, g) + (h - g + 1))

IsAttempt(a) ==
  a = [predictions |-> a.predictions, rows |-> a.rows, actions |-> a.actions,
       changes |-> a.changes, tails |-> a.tails]
IsRow(r) ==
  r = [gen |-> r.gen, occupied |-> r.occupied, ema |-> r.ema,
       target |-> r.target, count |-> r.count, tail |-> r.tail]

FilesInv ==
  /\ IsAttempt(attempt) /\ IsSeq(attempt.rows)
  /\ \A g \in DOMAIN attempt.rows : attempt.rows[g].target \in BatchSize
  /\ RowsRecover(attempt.rows)

(* While the engine runs, the controller's size is the target of the      *)
(* latest batch, be it written or still open.                             *)
BatcherInv ==
  engineState = "running" =>
    /\ batcher.controller.size \in BatchSize
    /\ batcher.open = NoBatch => batcher.controller.size = LastTarget(attempt.rows)
    /\ batcher.open # NoBatch =>
         /\ IsRow(batcher.open.row)
         /\ batcher.open.row.target = batcher.controller.size
         /\ Recovers(LastTarget(attempt.rows), batcher.open.row)

IInv == (Adaptive /\ ~damaged) => FilesInv /\ BatcherInv
-----------------------------------------------------------------------------
(* A sequence of anything, extended.                                      *)
LEMMA AppendFacts ==
  ASSUME NEW s, IsSeq(s), NEW e
  PROVE  /\ IsSeq(Append(s, e))
         /\ Len(Append(s, e)) = Len(s) + 1
         /\ \A i \in 1..Len(s) : Append(s, e)[i] = s[i]
         /\ Append(s, e)[Len(s) + 1] = e
<1> DEFINE S == {s[i] : i \in 1..Len(s)} \cup {e}
<1>1. s \in Seq(S) /\ e \in S
  BY DEF IsSeq
<1> HIDE DEF S
<1>2. /\ Append(s, e) \in Seq(S) /\ Len(Append(s, e)) = Len(s) + 1 /\ Len(s) \in Nat
      /\ \A i \in 1..Len(s) : Append(s, e)[i] = s[i]
      /\ Append(s, e)[Len(s) + 1] = e
  BY <1>1
<1>3. Append(s, e) = [i \in 1..Len(Append(s, e)) |-> Append(s, e)[i]]
  BY <1>2, LenProperties
<1> QED
  BY <1>2, <1>3 DEF IsSeq

(* A factor below one does not enlarge a size.                            *)
LEMMA ShrinkBound ==
  ASSUME NEW s \in Nat, NEW n \in Nat, NEW d \in Nat, n < d
  PROVE  (s * n) \div d \in Int /\ (s * n) \div d <= s
<1> DEFINE q == (s * n) \div d
<1>1. q \in Int /\ s * n \in Int /\ q * d <= s * n
  OBVIOUS
<1>2. s * n <= s * d
  OBVIOUS
<1>3. ASSUME q >= s + 1 PROVE FALSE
  <2>1. q * d >= (s + 1) * d
    BY <1>1, <1>3
  <2> QED
    BY <1>1, <1>2, <2>1
<1> QED
  BY <1>1, <1>3

(* The update law stays in the range, and at a low sample a size below    *)
(* the maximum grows.                                                     *)
LEMMA NextSize ==
  ASSUME NEW size \in BatchSize, NEW zone
  PROVE  /\ NextBatchSize(size, zone) \in BatchSize
         /\ zone = "low" => NextBatchSize(size, zone) >= Smaller(BatchMax, size + 1)
<1>1. size \in Nat /\ BatchMin \in Nat /\ BatchMax \in Nat /\ BatchMin <= size /\ size <= BatchMax
  BY BatchBoundsAssumption DEF BatchSize
<1>2. Shrunk(size) \in BatchSize
  <2>1. (size * ShrinkNum) \div ShrinkDen \in Int /\ (size * ShrinkNum) \div ShrinkDen <= size
    BY <1>1, ShrinkBound, BatchFactorsAssumption
  <2> QED
    BY <1>1, <2>1 DEF Shrunk, Larger, BatchSize
<1>3. ASSUME size < BatchMax
      PROVE  Grown(size) \in BatchSize /\ Grown(size) >= size + 1
  <2>1. (size * GrowNum) \div GrowDen \in Int
    BY <1>1, BatchFactorsAssumption
  <2> QED
    BY <1>1, <1>3, <2>1 DEF Grown, Smaller, Larger, BatchSize
<1> QED
  BY <1>1, <1>2, <1>3 DEF NextBatchSize, Smaller

(* Rows stay good when a row is added that recovers from the last one.    *)
LEMMA AddRow ==
  ASSUME NEW rows, IsSeq(rows), RowsRecover(rows),
         \A g \in DOMAIN rows : rows[g].target \in BatchSize,
         NEW row, row.target \in BatchSize, Recovers(LastTarget(rows), row)
  PROVE  /\ IsSeq(Append(rows, row))
         /\ \A g \in DOMAIN Append(rows, row) : Append(rows, row)[g].target \in BatchSize
         /\ RowsRecover(Append(rows, row))
         /\ LastTarget(Append(rows, row)) = row.target
<1> DEFINE new == Append(rows, row)
           n == Len(rows)
<1>1. /\ IsSeq(new) /\ Len(new) = n + 1 /\ n \in Nat
      /\ \A i \in 1..n : new[i] = rows[i]
      /\ new[n + 1] = row /\ DOMAIN new = 1..(n + 1) /\ DOMAIN rows = 1..n
  BY AppendFacts DEF IsSeq
<1> HIDE DEF new
<1>2. \A g \in DOMAIN new : new[g].target \in BatchSize
  BY <1>1
<1>3. LastTarget(new) = row.target
  BY <1>1 DEF LastTarget, TargetBefore
<1>4. \A g \in 1..(n + 1) : TargetBefore(new, g) = TargetBefore(rows, g)
  BY <1>1 DEF TargetBefore
<1>5. \A g \in 1..(n + 1) : TargetBefore(rows, g) \in BatchSize
  BY <1>1, BatchBoundsAssumption DEF TargetBefore, BatchSize
<1>6. ASSUME NEW g \in DOMAIN new, NEW h \in g..Len(new), \A i \in g..h : Low(new[i])
      PROVE  new[h].target >= Smaller(BatchMax, TargetBefore(new, g) + (h - g + 1))
  <2>1. CASE h <= n
    <3>1. g \in DOMAIN rows /\ h \in g..Len(rows) /\ \A i \in g..h : Low(rows[i])
      BY <1>1, <1>6, <2>1
    <3>2. rows[h].target >= Smaller(BatchMax, TargetBefore(rows, g) + (h - g + 1))
      BY <3>1 DEF RowsRecover
    <3> QED
      BY <1>1, <1>4, <2>1, <3>1, <3>2
  <2>2. CASE h = n + 1 /\ g = n + 1
    <3>1. Low(row) /\ row.target >= Smaller(BatchMax, TargetBefore(rows, n + 1) + 1)
      BY <1>1, <1>6, <2>2 DEF Recovers, LastTarget
    <3> QED
      BY <1>1, <1>4, <1>5, <2>2, <3>1
  <2>3. CASE h = n + 1 /\ g <= n
    <3>1. g \in DOMAIN rows /\ n \in g..Len(rows) /\ \A i \in g..n : Low(rows[i])
      BY <1>1, <1>6, <2>3
    <3>2. rows[n].target >= Smaller(BatchMax, TargetBefore(rows, g) + (n - g + 1))
      BY <3>1 DEF RowsRecover
    <3>3. TargetBefore(rows, n + 1) = rows[n].target
      BY <1>1, <3>1 DEF TargetBefore
    <3>4. Low(row) /\ row.target >= Smaller(BatchMax, rows[n].target + 1)
      BY <1>1, <1>6, <2>3, <3>3 DEF Recovers, LastTarget
    <3>5. /\ rows[n].target \in Int /\ row.target \in Int /\ BatchMax \in Int
          /\ TargetBefore(rows, g) \in Int
      BY <1>1, <1>5, <3>1, BatchBoundsAssumption, SMTT(30) DEF BatchSize
    <3> QED
      BY <1>1, <1>4, <2>3, <3>1, <3>2, <3>4, <3>5, SMTT(30) DEF Smaller
  <2> QED
    BY <1>1, <2>1, <2>2, <2>3
<1> QED
  BY <1>1, <1>2, <1>3, <1>6 DEF RowsRecover, new
-----------------------------------------------------------------------------
(* The row of an open batch is not the row of no batch.                   *)
LEMMA RowIsNotEmpty ==
  ASSUME NEW r, IsRow(r)
  PROVE  r # <<>>
<1>1. "gen" \in DOMAIN r
  BY DEF IsRow
<1>2. DOMAIN <<>> = {}
  OBVIOUS
<1> QED
  BY <1>1, <1>2

(* Writing a batch appends its row, with only count and tail changed.     *)
LEMMA WriteBatch ==
  ASSUME FilesInv, NEW open, IsRow(open.row), NEW tail,
         open.row.target \in BatchSize, Recovers(LastTarget(attempt.rows), open.row)
  PROVE  /\ IsAttempt(Written(open, tail)) /\ IsSeq(Written(open, tail).rows)
         /\ \A g \in DOMAIN Written(open, tail).rows : Written(open, tail).rows[g].target \in BatchSize
         /\ RowsRecover(Written(open, tail).rows)
         /\ LastTarget(Written(open, tail).rows) = open.row.target
<1> DEFINE row == [open.row EXCEPT !.count = Len(open.items), !.tail = tail]
           a == Written(open, tail)
<1>1. row.target = open.row.target /\ row.ema = open.row.ema
  BY DEF IsRow
<1>2. IsAttempt(a) /\ a.rows = Append(attempt.rows, row)
  <2>1. PICK predictions : a = [attempt EXCEPT !.rows = Append(@, row), !.predictions = predictions]
    BY Zenon DEF Written
  <2>2. IsAttempt(attempt)
    BY DEF FilesInv
  <2> HIDE DEF row, a
  <2> QED
    BY <2>1, <2>2 DEF IsAttempt
<1>3. Recovers(LastTarget(attempt.rows), row) /\ row.target \in BatchSize
  BY <1>1 DEF Recovers, Low
<1> HIDE DEF row, a
<1>4. /\ IsSeq(a.rows) /\ RowsRecover(a.rows) /\ LastTarget(a.rows) = row.target
      /\ \A g \in DOMAIN a.rows : a.rows[g].target \in BatchSize
  BY <1>2, <1>3, AddRow DEF FilesInv
<1> QED
  BY <1>1, <1>2, <1>4 DEF a

(* Nothing is in the files before the first batch.                        *)
LEMMA EmptyFiles ==
  ASSUME attempt = [predictions |-> <<>>, rows |-> <<>>, actions |-> 0, changes |-> 0, tails |-> 0]
  PROVE  FilesInv /\ LastTarget(attempt.rows) = BatchInitial
<1>1. attempt.rows = <<>> /\ Len(attempt.rows) = 0 /\ DOMAIN attempt.rows = {}
  OBVIOUS
<1>2. IsAttempt(attempt)
  BY DEF IsAttempt
<1>3. IsSeq(attempt.rows)
  BY <1>1 DEF IsSeq
<1> QED
  BY <1>1, <1>2, <1>3 DEF FilesInv, RowsRecover, LastTarget, TargetBefore

LEMMA InitInv == Init => IInv
<1> SUFFICES ASSUME Init PROVE IInv
  OBVIOUS
<1>1. PICK m, n : ReplayInit(m, n)
  BY Zenon DEF Init
<1>2. FilesInv /\ LastTarget(attempt.rows) = BatchInitial
  BY <1>1, EmptyFiles DEF ReplayInit
<1>3. BatcherInv
  BY <1>1, <1>2, BatchBoundsAssumption
     DEF ReplayInit, BatcherInv, NewController, NoBatch, BatchSize
<1> QED
  BY <1>2, <1>3 DEF IInv

(* The batcher's step, whether it opens, fills or completes a batch.      *)
LEMMA BatchedStep ==
  ASSUME FilesInv, BatcherInv, Adaptive, Batched
  PROVE  FilesInv' /\ BatcherInv'
<1>1. engineState = "running" /\ engineState' = engineState
  BY DEF Batched
<1>2. PICK occupied :
        LET first == batcher.open = NoBatch
            ema == IF first THEN Smoothed(batcher.ema, occupied) ELSE batcher.ema
            c == IF first /\ Adaptive THEN Controlled(batcher.controller, ema)
                 ELSE batcher.controller
            row == [gen |-> signal.gen + 1, occupied |-> occupied, ema |-> ema,
                    target |-> c.size, count |-> 0, tail |-> FALSE]
            open == [items |-> Append(batcher.open.items, Head(source.features)),
                     row |-> IF first THEN row ELSE batcher.open.row]
            full == Len(open.items) = c.size
        IN  /\ batcher' = [ema |-> ema, controller |-> c, open |-> IF full THEN NoBatch ELSE open]
            /\ attempt' = IF full THEN Written(open, FALSE) ELSE attempt
  BY Zenon DEF Batched
<1> DEFINE first == batcher.open = NoBatch
           ema == IF first THEN Smoothed(batcher.ema, occupied) ELSE batcher.ema
           c == IF first /\ Adaptive THEN Controlled(batcher.controller, ema)
                ELSE batcher.controller
           row == [gen |-> signal.gen + 1, occupied |-> occupied, ema |-> ema,
                   target |-> c.size, count |-> 0, tail |-> FALSE]
           open == [items |-> Append(batcher.open.items, Head(source.features)),
                    row |-> IF first THEN row ELSE batcher.open.row]
           full == Len(open.items) = c.size
<1>3. /\ batcher'.controller = c /\ batcher'.open = IF full THEN NoBatch ELSE open
      /\ attempt' = IF full THEN Written(open, FALSE) ELSE attempt
  BY <1>2
<1>4. /\ c.size \in BatchSize /\ IsRow(open.row) /\ open.row.target = c.size
      /\ Recovers(LastTarget(attempt.rows), open.row)
  <2>1. CASE first
    <3>1. batcher.controller.size \in BatchSize /\ batcher.controller.size = LastTarget(attempt.rows)
      BY <1>1, <2>1 DEF BatcherInv
    <3>2. c.size = NextBatchSize(batcher.controller.size, ZoneOf(ema))
      <4> DEFINE size == NextBatchSize(batcher.controller.size, ZoneOf(ema))
      <4>1. size \in Int /\ batcher.controller.size \in Int
        BY <3>1, NextSize, BatchBoundsAssumption DEF BatchSize
      <4>2. c = Controlled(batcher.controller, ema)
        BY <2>1
      <4> HIDE DEF c, ema, size
      <4>3. \/ c = batcher.controller /\ size = batcher.controller.size
            \/ c.size = size
        BY <4>1, <4>2 DEF Controlled, size
      <4> QED
        BY <4>3 DEF size
    <3>3. /\ c.size \in BatchSize
          /\ ZoneOf(ema) = "low" => c.size >= Smaller(BatchMax, LastTarget(attempt.rows) + 1)
      BY <3>1, <3>2, NextSize
    <3>4. open.row = row /\ row.ema = ema /\ row.target = c.size
      BY <2>1
    <3> QED
      BY <3>3, <3>4 DEF IsRow, Recovers, Low
  <2>2. CASE ~first
    BY <1>1, <2>2 DEF BatcherInv
  <2> QED
    BY <2>1, <2>2
<1> HIDE DEF open, c, full
<1>5. CASE full
  BY <1>3, <1>4, <1>5, WriteBatch DEF FilesInv, BatcherInv
<1>6. CASE ~full
  <2>1. open # NoBatch
    BY <1>4, RowIsNotEmpty DEF NoBatch
  <2> QED
    BY <1>3, <1>4, <1>6, <2>1 DEF FilesInv, BatcherInv
<1> QED
  BY <1>5, <1>6

(* The end of the stream writes the tail, if there is one.                *)
LEMMA CompleteStep ==
  ASSUME FilesInv, BatcherInv, Complete
  PROVE  FilesInv' /\ BatcherInv'
<1> DEFINE files == IF batcher.open # NoBatch THEN Written(batcher.open, TRUE) ELSE attempt
<1>1. /\ engineState = "running" /\ engineState' = "completed"
      /\ attempt' = [files EXCEPT !.actions = batcher.controller.actions,
                                  !.changes = batcher.controller.changes,
                                  !.tails = IF batcher.open # NoBatch THEN 1 ELSE 0]
  BY DEF Complete
<1>2. /\ IsAttempt(files) /\ IsSeq(files.rows) /\ RowsRecover(files.rows)
      /\ \A g \in DOMAIN files.rows : files.rows[g].target \in BatchSize
  BY <1>1, WriteBatch DEF FilesInv, BatcherInv
<1> HIDE DEF files
<1>3. IsAttempt(attempt') /\ attempt'.rows = files.rows
  BY <1>1, <1>2 DEF IsAttempt
<1> QED
  BY <1>1, <1>2, <1>3 DEF FilesInv, BatcherInv

LEMMA StepInv == IInv /\ [Next]_vars => IInv'
<1> SUFFICES ASSUME IInv, [Next]_vars, Adaptive', ~damaged'
             PROVE  FilesInv' /\ BatcherInv'
  BY DEF IInv
<1>1. CASE ReplayNext
  <2>1. CASE Damage
    BY <2>1 DEF Damage
  <2>2. CASE ~Damage
    <3>1. mode' = mode /\ damaged' = damaged
      BY <1>1, <2>2 DEF ReplayNext, engineVars, Extract, Batched, Complete, EngineStops,
         NoReceipt, DigestBefore, Replay, DigestAfter
    <3>2. Adaptive /\ FilesInv /\ BatcherInv
      BY <3>1 DEF IInv, Adaptive
    <3>3. CASE Batched
      BY <3>2, <3>3, BatchedStep
    <3>4. CASE Complete
      BY <3>2, <3>4, CompleteStep
    <3>5. CASE Extract \/ NoReceipt \/ DigestBefore \/ Replay \/ DigestAfter
      <4>1. UNCHANGED <<batcher, attempt, engineState>>
        BY <3>5 DEF Extract, NoReceipt, DigestBefore, Replay, DigestAfter, engineVars
      <4> QED
        BY <3>2, <4>1 DEF FilesInv, BatcherInv
    <3>6. CASE EngineStops
      BY <3>2, <3>6 DEF EngineStops, FilesInv, BatcherInv
    <3> QED
      BY <1>1, <2>2, <3>3, <3>4, <3>5, <3>6 DEF ReplayNext
  <2> QED
    BY <2>1, <2>2
<1>2. CASE UNCHANGED replayVars
  BY <1>2 DEF IInv, FilesInv, BatcherInv, Adaptive, replayVars, engineVars
<1> QED
  BY <1>1, <1>2, Zenon DEF Next, vars

LEMMA InvImplies == IInv => LowPressureRecovers
BY DEF IInv, FilesInv, RowsRecover, TargetBefore, Low, LowPressureRecovers

(* A batch size that was cut down recovers: at least one per batch over   *)
(* any stretch of low samples (MultiplicativeBatchController::update and  *)
(* its place in the batcher loop), for every length of the stream.        *)
THEOREM BatchSizeRecovers == Spec => []LowPressureRecovers
<1>1. Init => IInv
  BY InitInv
<1>2. IInv /\ [Next]_vars => IInv'
  BY StepInv
<1>3. IInv => LowPressureRecovers
  BY InvImplies
<1> QED
  BY <1>1, <1>2, <1>3, PTL DEF Spec
-----------------------------------------------------------------------------
(* What verify replays is what the engine decided and wrote.              *)
Observation == [value : Int, gen : Nat, available : BOOLEAN]
Snapshot == [seq : Nat, alpha : Int, used : Observation]
Row == [gen : Nat, occupied : Int, ema : Int, target : Int, count : Int, tail : BOOLEAN]
Prediction == [seq : Nat, alpha : Int, used : Observation, batch : Nat, size : Int]
Attempt == [predictions : Seq(Prediction), rows : Seq(Row), actions : Nat, changes : Nat, tails : Nat]

LEMMA UnitPositive == Unit \in Nat /\ Unit > 0 /\ \A o \in Int : Fraction(o) \in Int
<1> DEFINE n == MaxSamples
           step == [p \in (1..n) \X Nat |-> GainDen * p[2]]
           IsPower(f) == f = [i \in 0..n |-> IF i = 0 THEN QueueCap ELSE GainDen * f[i - 1]]
           power == CHOOSE f : IsPower(f)
<1>1. n \in Nat /\ QueueCap \in Nat /\ QueueCap > 0 /\ GainDen \in Nat /\ GainDen > 0
  BY ControllersAssumption
<1> HIDE DEF n
<1>2. \A i \in 1..n, v \in Nat : step[<<i, v>>] = GainDen * v /\ GainDen * v \in Nat
  BY <1>1
<1>a. QueueCap \in Nat /\ \A i \in 1..n, v \in Nat : step[<<i, v>>] \in Nat
  BY <1>1, <1>2
<1> HIDE DEF step
<1>3. PICK g : Recurs(g, n, QueueCap, step) /\ g \in [0..n -> Nat]
  BY <1>1, <1>a, RecursionExists
<1>4. IsPower(g)
  <2>1. ASSUME NEW i \in 0..n PROVE g[i] = IF i = 0 THEN QueueCap ELSE GainDen * g[i - 1]
    <3>1. i # 0 => i \in 1..n /\ i - 1 \in 0..n
      BY <1>1
    <3> QED BY <1>2, <1>3, <3>1 DEF Recurs
  <2> QED BY <1>3, <2>1
<1>5. IsPower(power)
  BY <1>4
<1> HIDE DEF power
<1>6. \A i \in 0..n : power[i] = IF i = 0 THEN QueueCap ELSE GainDen * power[i - 1]
  BY <1>5
<1> DEFINE T == {i \in 0..n : power[i] \in Nat /\ power[i] > 0}
<1>7. 0 \in T
  BY <1>1, <1>6
<1>8. ASSUME NEW i \in 0..(n - 1), i \in T PROVE i + 1 \in T
  <2>1. i + 1 \in 0..n /\ i + 1 # 0 /\ (i + 1) - 1 = i
    BY <1>1
  <2>2. power[i + 1] = GainDen * power[i] /\ power[i] \in Nat /\ power[i] > 0
    BY <1>6, <1>8, <2>1
  <2>3. GainDen * power[i] \in Nat /\ GainDen * power[i] > 0
    BY <1>1, <2>2
  <2> QED BY <2>1, <2>2, <2>3
<1>9. power[n] \in Nat /\ power[n] > 0
  <2> HIDE DEF T
  <2>1. n \in T
    BY <1>1, <1>7, <1>8, UpTo
  <2> QED BY <2>1 DEF T
<1>10. Unit = power[n]
  BY DEF Unit, power, n
<1>11. ASSUME NEW o \in Int PROVE Fraction(o) \in Int
  <2>1. Unit \div QueueCap \in Int
    BY <1>1, <1>9, <1>10
  <2> QED BY <2>1 DEF Fraction
<1> QED BY <1>9, <1>10, <1>11

LEMMA DivShift ==
  ASSUME NEW x \in Int, NEW y \in Int, NEW g \in Nat \ {0}
  PROVE  (x + g * y) \div g = x \div g + y
OBVIOUS

(* Both ways to smooth are the same.                                      *)
LEMMA SmoothedTwoWays ==
  ASSUME NEW value \in Int, NEW occupied \in Int
  PROVE  /\ Smoothed(value, occupied) = (Fraction(occupied) + (GainDen - 1) * value) \div GainDen
         /\ Smoothed(value, occupied) \in Int
<1> DEFINE F == Fraction(occupied)
           x == F - value
<1>1. F \in Int /\ GainDen \in Nat \ {0}
  BY UnitPositive, ControllersAssumption
<1> HIDE DEF F
<1>2. x \in Int /\ F + (GainDen - 1) * value = x + GainDen * value
  BY <1>1
<1>4. Smoothed(value, occupied) = value + x \div GainDen
  BY DEF Smoothed, F
<1> HIDE DEF x
<1>3. (x + GainDen * value) \div GainDen = x \div GainDen + value
  BY <1>1, <1>2, DivShift, Zenon
<1>5. x \div GainDen \in Int
  BY <1>1, <1>2
<1> QED BY <1>2, <1>3, <1>4, <1>5 DEF F

(* So are both ways to decide the size of a batch.                        *)
LEMMA DecidedTwoWays ==
  ASSUME NEW size \in BatchSize, NEW pressure \in Int
  PROVE  Adaptive => NextBatchSize(size, ZoneOf(pressure)) = ReplayTarget(size, pressure)
BY UnitPositive, ControllersAssumption, BatchBoundsAssumption, BatchFactorsAssumption
   DEF NextBatchSize, ZoneOf, ReplayTarget, Shrunk, Grown

(* And to limit a change of alpha.                                        *)
AlphaReplayed(alpha, pressure) ==
  LET goal == AlphaMin * Unit + (AlphaMax - AlphaMin) * pressure
      step == Smaller(AlphaDelta * Unit, Larger(-(AlphaDelta * Unit), goal - alpha))
  IN  Smaller(AlphaMax * Unit, Larger(AlphaMin * Unit, alpha + step))

LEMMA LimitedTwoWays ==
  ASSUME NEW alpha \in Int, NEW pressure \in Int
  PROVE  NextAlpha(alpha, pressure) = AlphaReplayed(alpha, pressure) /\ NextAlpha(alpha, pressure) \in Int
<1> DEFINE goal == AlphaMin * Unit + (AlphaMax - AlphaMin) * pressure
           delta == AlphaDelta * Unit
           low == AlphaMin * Unit
           high == AlphaMax * Unit
<1>1. Unit \in Nat /\ AlphaMin \in Nat /\ AlphaMax \in Nat /\ AlphaDelta \in Nat /\ AlphaMin <= AlphaMax
  BY UnitPositive, ControllersAssumption
<1>2. goal \in Int /\ delta \in Nat /\ low \in Int /\ high \in Int /\ low <= high
  BY <1>1
<1>3. /\ NextAlpha(alpha, pressure) = Clamped(alpha + Clamped(goal - alpha, -delta, delta), low, high)
      /\ AlphaReplayed(alpha, pressure)
         = Smaller(high, Larger(low, alpha + Smaller(delta, Larger(-delta, goal - alpha))))
  BY DEF NextAlpha, AlphaReplayed
<1> HIDE DEF goal, delta, low, high
<1>4. \A a, l, h \in Int : l <= h => Clamped(a, l, h) = Smaller(h, Larger(l, a)) /\ Clamped(a, l, h) \in Int
  BY DEF Clamped, Smaller, Larger
<1>5. goal - alpha \in Int /\ -delta \in Int /\ -delta <= delta
  BY <1>2
<1>6. /\ Clamped(goal - alpha, -delta, delta) = Smaller(delta, Larger(-delta, goal - alpha))
      /\ Clamped(goal - alpha, -delta, delta) \in Int
  BY <1>2, <1>4, <1>5
<1>7. alpha + Clamped(goal - alpha, -delta, delta) \in Int
  BY <1>6
<1> QED BY <1>2, <1>3, <1>4, <1>6, <1>7

(* The recursive functions of the replay, unfolded.                       *)
LEMMA ReplayTargetType ==
  ASSUME NEW t \in Int, NEW pressure \in Int
  PROVE  ReplayTarget(t, pressure) \in Int
<1>1. (t * ShrinkNum) \div ShrinkDen \in Int /\ (t * GrowNum) \div GrowDen \in Int
  BY BatchFactorsAssumption
<1> QED BY <1>1, BatchBoundsAssumption DEF ReplayTarget, Larger, Smaller

AlphaNext(adapts, alpha, used) ==
  IF adapts /\ used.available THEN AlphaReplayed(alpha, used.value) ELSE alpha

LEMMA EmaUnfolds ==
  ASSUME NEW a \in Attempt
  PROVE  /\ EmaAt(a)[0] = 0
         /\ \A g \in 1..Len(a.rows) :
              EmaAt(a)[g] = (Fraction(a.rows[g].occupied) + (GainDen - 1) * EmaAt(a)[g - 1]) \div GainDen
<1> DEFINE n == Len(a.rows)
           step == [p \in (1..n) \X Int |-> (Fraction(a.rows[p[1]].occupied) + (GainDen - 1) * p[2]) \div GainDen]
           Solves(f) == f = [g \in 0..n |-> IF g = 0 THEN 0 ELSE (Fraction(a.rows[g].occupied) + (GainDen - 1) * f[g - 1]) \div GainDen]
           chosen == CHOOSE f : Solves(f)
<1>1. n \in Nat /\ 0 \in Int /\ \A i \in 1..n : a.rows[i] \in Row
  BY LenProperties DEF Attempt
<1>2. ASSUME NEW g \in 1..n, NEW v \in Int
      PROVE  step[<<g, v>>] = (Fraction(a.rows[g].occupied) + (GainDen - 1) * v) \div GainDen /\ step[<<g, v>>] \in Int
  <2>1. (Fraction(a.rows[g].occupied) + (GainDen - 1) * v) \div GainDen \in Int
    <3>1. Fraction(a.rows[g].occupied) \in Int /\ GainDen \in Nat \ {0}
      BY <1>1, UnitPositive, ControllersAssumption DEF Row
    <3> QED BY <3>1
  <2> QED BY <1>1, <2>1
<1> HIDE DEF step
<1>3. PICK h : Recurs(h, n, 0, step) /\ h \in [0..n -> Int]
  BY <1>1, <1>2, RecursionExists
<1>4. Solves(h)
  <2>1. ASSUME NEW g \in 0..n PROVE h[g] = IF g = 0 THEN 0 ELSE (Fraction(a.rows[g].occupied) + (GainDen - 1) * h[g - 1]) \div GainDen
    <3>1. g # 0 => g \in 1..n /\ g - 1 \in 0..n
      BY <1>1
    <3>2. h[g] = IF g = 0 THEN 0 ELSE step[<<g, h[g - 1]>>]
      BY <1>3 DEF Recurs
    <3>3. g # 0 => h[g - 1] \in Int
      BY <1>3, <3>1
    <3> QED BY <1>2, <3>1, <3>2, <3>3
  <2> QED BY <1>3, <2>1
<1>5. Solves(chosen)
  BY <1>4
<1>6. EmaAt(a) = chosen
  BY DEF EmaAt, chosen, n
<1> HIDE DEF chosen
<1>7. \A g \in 0..n : chosen[g] = IF g = 0 THEN 0 ELSE (Fraction(a.rows[g].occupied) + (GainDen - 1) * chosen[g - 1]) \div GainDen
  BY <1>5
<1>8. 0 \in 0..n /\ \A i \in 1..n : i \in 0..n /\ i # 0
  BY <1>1
<1> QED BY <1>6, <1>7, <1>8

LEMMA TargetUnfolds ==
  ASSUME NEW a \in Attempt
  PROVE  /\ TargetAt(a)[0] = BatchInitial
         /\ \A g \in 1..Len(a.rows) :
              TargetAt(a)[g] = ReplayTarget(TargetAt(a)[g - 1], a.rows[g].ema)
<1> DEFINE n == Len(a.rows)
           step == [p \in (1..n) \X Int |-> ReplayTarget(p[2], a.rows[p[1]].ema)]
           Solves(f) == f = [g \in 0..n |-> IF g = 0 THEN BatchInitial ELSE ReplayTarget(f[g - 1], a.rows[g].ema)]
           chosen == CHOOSE f : Solves(f)
<1>1. n \in Nat /\ BatchInitial \in Int /\ \A i \in 1..n : a.rows[i] \in Row
  BY LenProperties, BatchBoundsAssumption DEF Attempt
<1>2. ASSUME NEW g \in 1..n, NEW v \in Int
      PROVE  step[<<g, v>>] = ReplayTarget(v, a.rows[g].ema) /\ step[<<g, v>>] \in Int
  <2>1. ReplayTarget(v, a.rows[g].ema) \in Int
    BY <1>1, ReplayTargetType DEF Row
  <2> QED BY <1>1, <2>1
<1> HIDE DEF step
<1>3. PICK h : Recurs(h, n, BatchInitial, step) /\ h \in [0..n -> Int]
  BY <1>1, <1>2, RecursionExists
<1>4. Solves(h)
  <2>1. ASSUME NEW g \in 0..n PROVE h[g] = IF g = 0 THEN BatchInitial ELSE ReplayTarget(h[g - 1], a.rows[g].ema)
    <3>1. g # 0 => g \in 1..n /\ g - 1 \in 0..n
      BY <1>1
    <3>2. h[g] = IF g = 0 THEN BatchInitial ELSE step[<<g, h[g - 1]>>]
      BY <1>3 DEF Recurs
    <3>3. g # 0 => h[g - 1] \in Int
      BY <1>3, <3>1
    <3> QED BY <1>2, <3>1, <3>2, <3>3
  <2> QED BY <1>3, <2>1
<1>5. Solves(chosen)
  BY <1>4
<1>6. TargetAt(a) = chosen
  BY DEF TargetAt, chosen, n
<1> HIDE DEF chosen
<1>7. \A g \in 0..n : chosen[g] = IF g = 0 THEN BatchInitial ELSE ReplayTarget(chosen[g - 1], a.rows[g].ema)
  BY <1>5
<1>8. 0 \in 0..n /\ \A i \in 1..n : i \in 0..n /\ i # 0
  BY <1>1
<1> QED BY <1>6, <1>7, <1>8

LEMMA OffsetUnfolds ==
  ASSUME NEW a \in Attempt
  PROVE  /\ OffsetAt(a)[0] = 0
         /\ \A g \in 1..Len(a.rows) :
              OffsetAt(a)[g] = OffsetAt(a)[g - 1] + a.rows[g].count
<1> DEFINE n == Len(a.rows)
           step == [p \in (1..n) \X Int |-> p[2] + a.rows[p[1]].count]
           Solves(f) == f = [g \in 0..n |-> IF g = 0 THEN 0 ELSE f[g - 1] + a.rows[g].count]
           chosen == CHOOSE f : Solves(f)
<1>1. n \in Nat /\ 0 \in Int /\ \A i \in 1..n : a.rows[i] \in Row
  BY LenProperties DEF Attempt
<1>2. ASSUME NEW g \in 1..n, NEW v \in Int
      PROVE  step[<<g, v>>] = v + a.rows[g].count /\ step[<<g, v>>] \in Int
  <2>1. v + a.rows[g].count \in Int
    BY <1>1 DEF Row
  <2> QED BY <1>1, <2>1
<1> HIDE DEF step
<1>3. PICK h : Recurs(h, n, 0, step) /\ h \in [0..n -> Int]
  BY <1>1, <1>2, RecursionExists
<1>4. Solves(h)
  <2>1. ASSUME NEW g \in 0..n PROVE h[g] = IF g = 0 THEN 0 ELSE h[g - 1] + a.rows[g].count
    <3>1. g # 0 => g \in 1..n /\ g - 1 \in 0..n
      BY <1>1
    <3>2. h[g] = IF g = 0 THEN 0 ELSE step[<<g, h[g - 1]>>]
      BY <1>3 DEF Recurs
    <3>3. g # 0 => h[g - 1] \in Int
      BY <1>3, <3>1
    <3> QED BY <1>2, <3>1, <3>2, <3>3
  <2> QED BY <1>3, <2>1
<1>5. Solves(chosen)
  BY <1>4
<1>6. OffsetAt(a) = chosen
  BY DEF OffsetAt, chosen, n
<1> HIDE DEF chosen
<1>7. \A g \in 0..n : chosen[g] = IF g = 0 THEN 0 ELSE chosen[g - 1] + a.rows[g].count
  BY <1>5
<1>8. 0 \in 0..n /\ \A i \in 1..n : i \in 0..n /\ i # 0
  BY <1>1
<1> QED BY <1>6, <1>7, <1>8

LEMMA AlphaUnfolds ==
  ASSUME NEW a \in Attempt
  PROVE  /\ AlphaAt(a)[0] = AlphaInitial * Unit
         /\ \A i \in 1..Len(a.predictions) :
              AlphaAt(a)[i] = AlphaNext(AlphaAdapts, AlphaAt(a)[i - 1], a.predictions[i].used)
<1> DEFINE n == Len(a.predictions)
           step == [p \in (1..n) \X Int |-> AlphaNext(AlphaAdapts, p[2], a.predictions[p[1]].used)]
           Solves(f) == f = [i \in 0..n |-> IF i = 0 THEN AlphaInitial * Unit ELSE AlphaNext(AlphaAdapts, f[i - 1], a.predictions[i].used)]
           chosen == CHOOSE f : Solves(f)
<1>1. n \in Nat /\ AlphaInitial * Unit \in Int /\ \A i \in 1..n : a.predictions[i] \in Prediction
  <2>1. AlphaInitial \in Nat /\ Unit \in Nat
    BY UnitPositive, ControllersAssumption
  <2> QED BY <2>1, LenProperties DEF Attempt
<1>2. ASSUME NEW i \in 1..n, NEW v \in Int
      PROVE  step[<<i, v>>] = AlphaNext(AlphaAdapts, v, a.predictions[i].used) /\ step[<<i, v>>] \in Int
  <2>1. AlphaNext(AlphaAdapts, v, a.predictions[i].used) \in Int
    BY <1>1, LimitedTwoWays DEF Prediction, Observation, AlphaNext
  <2> QED BY <1>1, <2>1
<1> HIDE DEF step
<1>3. PICK h : Recurs(h, n, AlphaInitial * Unit, step) /\ h \in [0..n -> Int]
  BY <1>1, <1>2, RecursionExists
<1>4. Solves(h)
  <2>1. ASSUME NEW i \in 0..n PROVE h[i] = IF i = 0 THEN AlphaInitial * Unit ELSE AlphaNext(AlphaAdapts, h[i - 1], a.predictions[i].used)
    <3>1. i # 0 => i \in 1..n /\ i - 1 \in 0..n
      BY <1>1
    <3>2. h[i] = IF i = 0 THEN AlphaInitial * Unit ELSE step[<<i, h[i - 1]>>]
      BY <1>3 DEF Recurs
    <3>3. i # 0 => h[i - 1] \in Int
      BY <1>3, <3>1
    <3> QED BY <1>2, <3>1, <3>2, <3>3
  <2> QED BY <1>3, <2>1
<1>5. Solves(chosen)
  BY <1>4
<1>6. AlphaAt(a) = chosen
  BY DEF AlphaAt, AlphaNext, AlphaReplayed, chosen, n
<1> HIDE DEF chosen
<1>7. \A i \in 0..n : chosen[i] = IF i = 0 THEN AlphaInitial * Unit ELSE AlphaNext(AlphaAdapts, chosen[i - 1], a.predictions[i].used)
  BY <1>5
<1>8. 0 \in 0..n /\ \A i \in 1..n : i \in 0..n /\ i # 0
  BY <1>1
<1> QED BY <1>6, <1>7, <1>8
-----------------------------------------------------------------------------
(* What one decision owes to the ones before it.                          *)
EmaBefore(rows, g) == IF g = 1 THEN 0 ELSE rows[g - 1].ema

NextTarget(adaptive, target, ema) == IF adaptive THEN NextBatchSize(target, ZoneOf(ema)) ELSE target

DecisionLaw(adaptive, rows) ==
  \A g \in 1..Len(rows) :
    /\ rows[g].gen = g
    /\ rows[g].ema = Smoothed(EmaBefore(rows, g), rows[g].occupied)
    /\ rows[g].target \in BatchSize
    /\ rows[g].target = NextTarget(adaptive, TargetBefore(rows, g), rows[g].ema)

StepsOf(rows) == [g \in 1..Len(rows) |-> rows[g].target - TargetBefore(rows, g)]
MovesOf(rows) == Picked(StepsOf(rows), {g \in 1..Len(rows) : StepsOf(rows)[g] # 0})
TurnsOf(moves) == {i \in 2..Len(moves) : (moves[i] > 0) # (moves[i - 1] > 0)}

Controller == [size : BatchSize, direction : {-1, 0, 1}, actions : Nat, changes : Nat]

(* What the controller has counted of these decisions.                    *)
CounterLaw(rows, c) ==
  LET moves == MovesOf(rows)
  IN  /\ c.actions = Len(moves) /\ c.changes = Cardinality(TurnsOf(moves))
      /\ c.direction = IF moves = <<>> THEN 0 ELSE IF moves[Len(moves)] > 0 THEN 1 ELSE -1

SameDecisions(rows, others) ==
  /\ Len(others) = Len(rows)
  /\ \A g \in 1..Len(rows) :
       /\ others[g].gen = rows[g].gen /\ others[g].occupied = rows[g].occupied
       /\ others[g].ema = rows[g].ema /\ others[g].target = rows[g].target

LEMMA TargetBeforeType ==
  ASSUME NEW rows, DecisionLaw(Adaptive, rows), Len(rows) \in Nat, NEW g \in 1..(Len(rows) + 1)
  PROVE  TargetBefore(rows, g) \in BatchSize
<1>1. g # 1 => g - 1 \in 1..Len(rows)
  OBVIOUS
<1> QED BY <1>1, BatchBoundsAssumption DEF TargetBefore, DecisionLaw, BatchSize

LEMMA DecisionsReplay ==
  ASSUME NEW a \in Attempt, DecisionLaw(Adaptive, a.rows)
  PROVE  /\ \A g \in 1..Len(a.rows) : EmaAt(a)[g] = a.rows[g].ema
         /\ \A g \in 0..Len(a.rows) : TargetAt(a)[g] = TargetBefore(a.rows, g + 1)
<1> DEFINE n == Len(a.rows)
           E == {g \in 0..n : EmaAt(a)[g] = EmaBefore(a.rows, g + 1)}
           T == {g \in 0..n : TargetAt(a)[g] = TargetBefore(a.rows, g + 1)}
<1>1. n \in Nat /\ \A g \in 1..n : a.rows[g] \in Row
  BY DEF Attempt
<1>2. 0 \in E /\ 0 \in T
  BY <1>1, EmaUnfolds, TargetUnfolds DEF EmaBefore, TargetBefore
<1>3. ASSUME NEW g \in 0..(n - 1) PROVE (g \in E => g + 1 \in E) /\ (g \in T => g + 1 \in T)
  <2>1. g + 1 \in 1..n /\ g + 1 \in 0..n /\ (g + 1) - 1 = g /\ ((g + 1) + 1) - 1 = g + 1 /\ (g + 1) + 1 # 1
    BY <1>1
  <2> DEFINE row == a.rows[g + 1]
  <2>2. row.ema \in Int /\ row.occupied \in Int /\ row.ema = Smoothed(EmaBefore(a.rows, g + 1), row.occupied)
        /\ row.target = NextTarget(Adaptive, TargetBefore(a.rows, g + 1), row.ema)
    BY <1>1, <2>1 DEF DecisionLaw, Row
  <2>3. EmaBefore(a.rows, g + 1) \in Int
    <3>1. g # 0 => g \in 1..n
      BY <1>1
    <3> QED BY <1>1, <2>1, <3>1 DEF EmaBefore, Row
  <2>4. TargetBefore(a.rows, g + 1) \in BatchSize
    <3>1. g + 1 \in 1..(n + 1)
      BY <1>1
    <3> QED BY <1>1, <3>1, TargetBeforeType
  <2>5. EmaBefore(a.rows, (g + 1) + 1) = row.ema /\ TargetBefore(a.rows, (g + 1) + 1) = row.target
    BY <2>1 DEF EmaBefore, TargetBefore
  <2>6. EmaAt(a)[g + 1] = (Fraction(row.occupied) + (GainDen - 1) * EmaAt(a)[g]) \div GainDen
        /\ TargetAt(a)[g + 1] = ReplayTarget(TargetAt(a)[g], row.ema)
    BY <2>1, EmaUnfolds, TargetUnfolds
  <2>7. ASSUME g \in E PROVE EmaAt(a)[g + 1] = row.ema
    <3>1. EmaAt(a)[g] = EmaBefore(a.rows, g + 1)
      BY <2>7
    <3>2. Smoothed(EmaBefore(a.rows, g + 1), row.occupied)
          = (Fraction(row.occupied) + (GainDen - 1) * EmaBefore(a.rows, g + 1)) \div GainDen
      BY <2>2, <2>3, SmoothedTwoWays
    <3> QED BY <2>2, <2>6, <3>1, <3>2
  <2>8. ASSUME g \in T PROVE TargetAt(a)[g + 1] = row.target
    <3>1. TargetAt(a)[g] = TargetBefore(a.rows, g + 1)
      BY <2>8
    <3>2. NextTarget(Adaptive, TargetBefore(a.rows, g + 1), row.ema) = ReplayTarget(TargetBefore(a.rows, g + 1), row.ema)
      <4>1. CASE Adaptive
        BY <2>2, <2>4, <4>1, DecidedTwoWays DEF NextTarget
      <4>2. CASE ~Adaptive
        BY <4>2 DEF NextTarget, ReplayTarget
      <4> QED BY <4>1, <4>2
    <3> QED BY <2>2, <2>6, <3>1, <3>2
  <2> QED BY <2>1, <2>5, <2>7, <2>8
<1> HIDE DEF E, T
<1>4. (\A g \in 0..n : g \in E) /\ (\A g \in 0..n : g \in T)
  <2>1. \A g \in 0..n : g \in E
    BY <1>1, <1>2, <1>3, UpTo
  <2>2. \A g \in 0..n : g \in T
    BY <1>1, <1>2, <1>3, UpTo
  <2> QED BY <2>1, <2>2
<1>5. \A g \in 1..n : g \in 0..n /\ g + 1 # 1 /\ (g + 1) - 1 = g
  BY <1>1
<1> QED BY <1>4, <1>5 DEF E, T, EmaBefore

(* So the moves of the replay are those of the targets in the file.       *)
LEMMA MovesReplay ==
  ASSUME NEW a \in Attempt, DecisionLaw(Adaptive, a.rows)
  PROVE  Moves(a) = MovesOf(a.rows)
<1> DEFINE n == Len(a.rows)
           steps == [g \in DOMAIN a.rows |-> TargetAt(a)[g] - TargetAt(a)[g - 1]]
<1>1. n \in Nat /\ DOMAIN a.rows = 1..n
  BY DEF Attempt
<1>2. ASSUME NEW g \in 1..n PROVE steps[g] = StepsOf(a.rows)[g]
  <2>1. g \in 0..n /\ g - 1 \in 0..n /\ (g - 1) + 1 = g /\ g + 1 # 1 /\ (g + 1) - 1 = g
    BY <1>1
  <2>2. TargetAt(a)[g] = a.rows[g].target /\ TargetAt(a)[g - 1] = TargetBefore(a.rows, g)
    BY <2>1, DecisionsReplay DEF TargetBefore
  <2> QED BY <1>1, <2>2 DEF StepsOf
<1>3. steps = StepsOf(a.rows)
  BY <1>1, <1>2 DEF StepsOf
<1>4. Moves(a) = Picked(steps, {g \in DOMAIN steps : steps[g] # 0})
  BY DEF Moves
<1>5. DOMAIN steps = 1..n
  BY <1>1
<1> QED BY <1>3, <1>4, <1>5 DEF MovesOf

LEMMA SameDecisionsLaw ==
  ASSUME NEW rows, NEW others, Len(rows) \in Nat, SameDecisions(rows, others), DecisionLaw(Adaptive, rows)
  PROVE  DecisionLaw(Adaptive, others) /\ MovesOf(others) = MovesOf(rows)
<1>1. ASSUME NEW g \in 1..Len(rows)
      PROVE  EmaBefore(others, g) = EmaBefore(rows, g) /\ TargetBefore(others, g) = TargetBefore(rows, g)
  <2>1. g # 1 => g - 1 \in 1..Len(rows)
    OBVIOUS
  <2> QED BY <2>1 DEF SameDecisions, EmaBefore, TargetBefore
<1>2. DecisionLaw(Adaptive, others)
  BY <1>1 DEF SameDecisions, DecisionLaw
<1>3. StepsOf(others) = StepsOf(rows)
  BY <1>1 DEF StepsOf, SameDecisions
<1>4. Len(others) = Len(rows)
  BY DEF SameDecisions
<1> QED BY <1>2, <1>3, <1>4 DEF MovesOf

LEMMA DecisionAdded ==
  ASSUME NEW rows \in Seq(Row), DecisionLaw(Adaptive, rows), NEW row \in Row,
         row.gen = Len(rows) + 1, row.ema = Smoothed(EmaBefore(rows, Len(rows) + 1), row.occupied),
         row.target \in BatchSize, row.target = NextTarget(Adaptive, LastTarget(rows), row.ema)
  PROVE  DecisionLaw(Adaptive, Append(rows, row))
<1> DEFINE n == Len(rows)
           new == Append(rows, row)
<1>1. n \in Nat /\ Len(new) = n + 1 /\ new[n + 1] = row /\ \A g \in 1..n : new[g] = rows[g]
  BY AppendProperties
<1> HIDE DEF new
<1>2. \A g \in 1..(n + 1) : EmaBefore(new, g) = EmaBefore(rows, g) /\ TargetBefore(new, g) = TargetBefore(rows, g)
  BY <1>1 DEF EmaBefore, TargetBefore
<1>3. ASSUME NEW g \in 1..(n + 1)
      PROVE  /\ new[g].gen = g /\ new[g].ema = Smoothed(EmaBefore(new, g), new[g].occupied)
             /\ new[g].target \in BatchSize
             /\ new[g].target = NextTarget(Adaptive, TargetBefore(new, g), new[g].ema)
  <2>1. CASE g \in 1..n
    BY <1>1, <1>2, <2>1 DEF DecisionLaw
  <2>2. CASE g = n + 1
    BY <1>1, <1>2, <2>2 DEF LastTarget
  <2> QED BY <1>1, <2>1, <2>2
<1> QED BY <1>1, <1>3 DEF DecisionLaw, new

(* One more move, and the turn it may be.                                 *)
LEMMA TurnsAdded ==
  ASSUME NEW moves \in Seq(Int), NEW step \in Int
  PROVE  /\ IsFiniteSet(TurnsOf(moves))
         /\ TurnsOf(Append(moves, step))
            = TurnsOf(moves) \cup (IF moves # <<>> /\ (step > 0) # (moves[Len(moves)] > 0)
                                   THEN {Len(moves) + 1} ELSE {})
         /\ Len(moves) + 1 \notin TurnsOf(moves)
<1> DEFINE n == Len(moves)
           new == Append(moves, step)
<1>1. n \in Nat /\ Len(new) = n + 1 /\ new[n + 1] = step /\ \A i \in 1..n : new[i] = moves[i]
  BY AppendProperties
<1>2. moves = <<>> <=> n = 0
  BY EmptySeq
<1> HIDE DEF new
<1>3. TurnsOf(moves) \subseteq 1..n /\ n + 1 \notin TurnsOf(moves)
  BY <1>1 DEF TurnsOf
<1>4. IsFiniteSet(TurnsOf(moves))
  <2>1. IsFiniteSet(1..n)
    BY <1>1, FS_Interval
  <2> QED BY <1>3, <2>1, FS_Subset
<1>5. ASSUME NEW i
      PROVE  i \in TurnsOf(new) <=> i \in TurnsOf(moves) \/ (n # 0 /\ (step > 0) # (moves[n] > 0) /\ i = n + 1)
  <2>1. CASE i \in 2..n
    <3>1. i \in 2..(n + 1) /\ i \in 1..n /\ i - 1 \in 1..n /\ i # n + 1
      BY <1>1, <2>1
    <3> QED BY <1>1, <2>1, <3>1 DEF TurnsOf
  <2>2. CASE i = n + 1
    <3>1. i \notin 2..n /\ (i \in 2..(n + 1) <=> n # 0) /\ i - 1 = n /\ (n # 0 => n \in 1..n)
      BY <1>1, <2>2
    <3> QED BY <1>1, <2>2, <3>1 DEF TurnsOf
  <2>3. CASE i \notin 2..n /\ i # n + 1
    <3>1. i \notin 2..(n + 1)
      BY <1>1, <2>3
    <3> QED BY <1>1, <2>3, <3>1 DEF TurnsOf
  <2> QED BY <2>1, <2>2, <2>3
<1> HIDE DEF n
<1>6. TurnsOf(new) = TurnsOf(moves) \cup (IF n # 0 /\ (step > 0) # (moves[n] > 0) THEN {n + 1} ELSE {})
  <2>1. CASE n # 0 /\ (step > 0) # (moves[n] > 0)
    BY <1>5, <2>1
  <2>2. CASE ~(n # 0 /\ (step > 0) # (moves[n] > 0))
    BY <1>5, <2>2
  <2> QED BY <2>1, <2>2
<1> QED BY <1>2, <1>3, <1>4, <1>6 DEF new, n

LEMMA MovesAdded ==
  ASSUME NEW rows \in Seq(Row), NEW row \in Row
  PROVE  /\ MovesOf(rows) \in Seq(Int)
         /\ row.target - LastTarget(rows) \in Int
         /\ MovesOf(Append(rows, row))
            = IF row.target # LastTarget(rows)
              THEN Append(MovesOf(rows), row.target - LastTarget(rows)) ELSE MovesOf(rows)
<1> DEFINE n == Len(rows)
           new == Append(rows, row)
           s == StepsOf(rows)
           x == row.target - LastTarget(rows)
<1>1. /\ n \in Nat /\ new \in Seq(Row) /\ Len(new) = n + 1 /\ new[n + 1] = row
      /\ \A g \in 1..n : new[g] = rows[g] /\ rows[g] \in Row
  BY AppendProperties
<1> HIDE DEF new
<1>t. row.target \in Int /\ \A g \in 1..n : rows[g].target \in Int
  BY <1>1 DEF Row
<1>2. \A g \in 1..(n + 1) : TargetBefore(new, g) = TargetBefore(rows, g)
  BY <1>1 DEF TargetBefore
<1>3. \A g \in 1..(n + 1) : TargetBefore(rows, g) \in Int
  <2>1. \A g \in 1..(n + 1) : g # 1 => g - 1 \in 1..n
    BY <1>1
  <2> QED BY <1>t, <2>1, BatchBoundsAssumption DEF TargetBefore
<1>4. LastTarget(rows) \in Int /\ x \in Int
  BY <1>t, <1>1, <1>3 DEF LastTarget
<1>5. s \in Seq(Int) /\ Len(s) = n
  <2>1. s = [g \in 1..n |-> rows[g].target - TargetBefore(rows, g)]
    BY DEF StepsOf
  <2>2. \A g \in 1..n : rows[g].target - TargetBefore(rows, g) \in Int
    BY <1>t, <1>3
  <2> QED BY <1>1, <2>1, <2>2
<1>6. StepsOf(new) = Append(s, x)
  <2>1. Append(s, x) \in Seq(Int) /\ Len(Append(s, x)) = n + 1 /\ Append(s, x)[n + 1] = x
        /\ \A g \in 1..n : Append(s, x)[g] = s[g]
    BY <1>4, <1>5, AppendProperties
  <2>2. StepsOf(new) = [g \in 1..(n + 1) |-> new[g].target - TargetBefore(new, g)]
    BY <1>1 DEF StepsOf
  <2>3. ASSUME NEW g \in 1..(n + 1) PROVE StepsOf(new)[g] = Append(s, x)[g]
    <3>1. CASE g \in 1..n
      BY <1>1, <1>2, <2>1, <2>2, <3>1 DEF StepsOf
    <3>2. CASE g = n + 1
      <4>1. TargetBefore(new, n + 1) = LastTarget(rows) /\ n + 1 \in 1..(n + 1)
        BY <1>1, <1>2 DEF LastTarget
      <4>2. StepsOf(new)[n + 1] = new[n + 1].target - TargetBefore(new, n + 1)
        BY <2>2, <4>1
      <4>3. StepsOf(new)[n + 1] = x
        BY <1>1, <4>1, <4>2
      <4>4. Append(s, x)[n + 1] = x
        BY <2>1
      <4> HIDE DEF s, x
      <4> QED BY <3>2, <4>3, <4>4
    <3>3. g \in 1..n \/ g = n + 1
      BY <1>1
    <3> QED BY <3>1, <3>2, <3>3, Zenon
  <2>4. DOMAIN Append(s, x) = 1..(n + 1) /\ Append(s, x) = [g \in 1..(n + 1) |-> Append(s, x)[g]]
    BY <2>1
  <2> QED BY <2>2, <2>3, <2>4
<1> DEFINE at == {g \in 1..(n + 1) : StepsOf(new)[g] # 0}
<1>7. MovesOf(new) = Picked(Append(s, x), at)
  BY <1>1, <1>6 DEF MovesOf
<1> HIDE DEF s, x
<1>8. Picked(Append(s, x), at) = IF n + 1 \in at THEN Append(Picked(s, at), x) ELSE Picked(s, at)
  BY <1>4, <1>5, PickedAppend
<1>9. /\ n + 1 \in at <=> x # 0
      /\ \A g \in 1..n : g \in at <=> s[g] # 0
  <2>1. Append(s, x)[n + 1] = x /\ \A g \in 1..n : Append(s, x)[g] = s[g]
    BY <1>4, <1>5, AppendProperties
  <2>2. n + 1 \in 1..(n + 1) /\ \A g \in 1..n : g \in 1..(n + 1)
    BY <1>1
  <2> QED BY <1>6, <2>1, <2>2
<1> HIDE DEF at
<1>10. Picked(s, at) = MovesOf(rows)
  <2> DEFINE old == {g \in 1..n : s[g] # 0}
  <2>1. \A g \in 1..Len(s) : g \in at <=> g \in old
    BY <1>5, <1>9
  <2>2. Len(s) \in Nat
    BY <1>1, <1>5
  <2> HIDE DEF old
  <2>3. Picked(s, at) = Picked(s, old)
    BY <2>1, <2>2, PickedSame
  <2> QED BY <2>3 DEF MovesOf, s, old
<1>11. MovesOf(rows) \in Seq(Int)
  BY <1>5, PickedType DEF MovesOf, s
<1>12. x # 0 <=> row.target # LastTarget(rows)
  BY <1>4, <1>t DEF x
<1> QED BY <1>4, <1>7, <1>8, <1>9, <1>10, <1>11, <1>12 DEF new, x

(* The counters stay right, whether the size changes or not.              *)
LEMMA CountersAdded ==
  ASSUME NEW rows \in Seq(Row), NEW row \in Row, NEW c \in Controller, NEW pressure \in Int,
         CounterLaw(rows, c), c.size = LastTarget(rows),
         NEW d, d = IF Adaptive THEN Controlled(c, pressure) ELSE c, row.target = d.size
  PROVE  /\ d \in Controller /\ d.size = NextTarget(Adaptive, c.size, pressure)
         /\ CounterLaw(Append(rows, row), d)
<1> DEFINE moves == MovesOf(rows)
           new == MovesOf(Append(rows, row))
           step == row.target - LastTarget(rows)
           size == NextBatchSize(c.size, ZoneOf(pressure))
           direction == IF size > c.size THEN 1 ELSE IF size < c.size THEN -1 ELSE 0
<1>1. /\ moves \in Seq(Int) /\ step \in Int /\ Len(moves) \in Nat
      /\ new = IF row.target # LastTarget(rows) THEN Append(moves, step) ELSE moves
  BY MovesAdded
<1>2. /\ IsFiniteSet(TurnsOf(moves)) /\ Len(moves) + 1 \notin TurnsOf(moves)
      /\ TurnsOf(Append(moves, step))
         = TurnsOf(moves) \cup (IF moves # <<>> /\ (step > 0) # (moves[Len(moves)] > 0)
                                THEN {Len(moves) + 1} ELSE {})
  BY <1>1, TurnsAdded
<1>3. /\ c.actions = Len(moves) /\ c.changes = Cardinality(TurnsOf(moves)) /\ c.changes \in Nat
      /\ c.direction = IF moves = <<>> THEN 0 ELSE IF moves[Len(moves)] > 0 THEN 1 ELSE -1
  BY DEF CounterLaw, Controller
<1>4. c.size \in BatchSize /\ c.size \in Int /\ size \in BatchSize /\ size \in Int
  <2>1. c.size \in BatchSize
    BY DEF Controller
  <2> QED BY <2>1, NextSize, BatchBoundsAssumption DEF BatchSize
<1>5. CASE row.target = LastTarget(rows)
  <2>1. d = c
    <3>1. CASE ~Adaptive
      BY <3>1
    <3>2. CASE Adaptive /\ direction = 0
      BY <3>2 DEF Controlled
    <3>3. CASE Adaptive /\ direction # 0
      <4>1. d.size = size
        BY <3>3 DEF Controlled
      <4> QED BY <1>4, <1>5, <3>3, <4>1
    <3> QED BY <3>1, <3>2, <3>3
  <2>2. d.size = NextTarget(Adaptive, c.size, pressure)
    <3>1. CASE Adaptive /\ direction = 0
      BY <1>4, <2>1, <3>1 DEF NextTarget
    <3>2. CASE Adaptive /\ direction # 0
      BY <3>2 DEF Controlled, NextTarget
    <3>3. CASE ~Adaptive
      BY <3>3 DEF NextTarget
    <3> QED BY <3>1, <3>2, <3>3
  <2>3. new = moves
    BY <1>1, <1>5
  <2> QED BY <2>1, <2>2, <2>3 DEF CounterLaw
<1>6. CASE row.target # LastTarget(rows)
  <2>1. Adaptive /\ direction # 0
    <3>1. d # c
      BY <1>6
    <3> QED BY <3>1 DEF Controlled
  <2>2. d = [size |-> size, direction |-> direction, actions |-> c.actions + 1,
             changes |-> c.changes + IF Turns(c.direction, direction) THEN 1 ELSE 0]
    BY <2>1 DEF Controlled
  <2>3. row.target = size /\ step = size - c.size
    BY <2>2
  <2>4. (direction = 1 <=> step > 0) /\ (direction = -1 <=> ~(step > 0)) /\ direction \in {-1, 1}
    BY <1>4, <2>1, <2>3
  <2>5. new = Append(moves, step) /\ Len(new) = Len(moves) + 1 /\ new[Len(new)] = step /\ new # <<>>
    BY <1>1, <1>6, AppendProperties
  <2>6. Turns(c.direction, direction) <=> moves # <<>> /\ (step > 0) # (moves[Len(moves)] > 0)
    BY <1>3, <2>4 DEF Turns
  <2>7. Cardinality(TurnsOf(new)) = c.changes + IF Turns(c.direction, direction) THEN 1 ELSE 0
    <3>1. CASE Turns(c.direction, direction)
      <4>1. TurnsOf(new) = TurnsOf(moves) \cup {Len(moves) + 1}
        BY <1>2, <2>5, <2>6, <3>1
      <4>2. Cardinality(TurnsOf(moves) \cup {Len(moves) + 1}) = Cardinality(TurnsOf(moves)) + 1
        <5> HIDE DEF moves
        <5> QED BY <1>2, FS_AddElement
      <4> QED BY <1>3, <3>1, <4>1, <4>2
    <3>2. CASE ~Turns(c.direction, direction)
      BY <1>2, <1>3, <2>5, <2>6, <3>2
    <3> QED BY <3>1, <3>2
  <2>8. d.actions = Len(new) /\ d.changes = Cardinality(TurnsOf(new)) /\ d.direction = direction
    BY <1>3, <2>2, <2>5, <2>7
  <2>9. d \in Controller
    BY <1>1, <1>3, <1>4, <2>2, <2>4 DEF Controller
  <2>10. d.direction = IF new = <<>> THEN 0 ELSE IF new[Len(new)] > 0 THEN 1 ELSE -1
    BY <2>4, <2>5, <2>8
  <2>11. d.size = NextTarget(Adaptive, c.size, pressure)
    BY <2>1, <2>2 DEF NextTarget
  <2> QED BY <2>8, <2>9, <2>10, <2>11 DEF CounterLaw
<1> QED BY <1>5, <1>6
-----------------------------------------------------------------------------
(* The rows book the predictions, batch by batch.                         *)
Booked(a) ==
  /\ OffsetAt(a)[Len(a.rows)] = Len(a.predictions)
  /\ \A g \in 1..Len(a.rows) :
       /\ 0 < a.rows[g].count
       /\ OffsetAt(a)[g - 1] \in Nat /\ OffsetAt(a)[g] \in 0..Len(a.predictions)
       /\ \A n \in (OffsetAt(a)[g - 1] + 1)..OffsetAt(a)[g] :
            a.predictions[n].batch = g /\ a.predictions[n].size = a.rows[g].count
  /\ \A i \in 1..Len(a.predictions) : a.predictions[i].used.gen <= a.predictions[i].batch

LEMMA OffsetsSame ==
  ASSUME NEW a \in Attempt, NEW b \in Attempt, NEW n \in Nat, n <= Len(a.rows), n <= Len(b.rows),
         \A g \in 1..n : b.rows[g].count = a.rows[g].count
  PROVE  \A g \in 0..n : OffsetAt(b)[g] = OffsetAt(a)[g]
<1> DEFINE T == {g \in 0..n : OffsetAt(b)[g] = OffsetAt(a)[g]}
<1>1. Len(a.rows) \in Nat /\ Len(b.rows) \in Nat
  BY DEF Attempt
<1>2. 0 \in T
  BY OffsetUnfolds
<1>3. ASSUME NEW g \in 0..(n - 1), g \in T PROVE g + 1 \in T
  <2>1. /\ g + 1 \in 1..n /\ g + 1 \in 1..Len(a.rows) /\ g + 1 \in 1..Len(b.rows) /\ g + 1 \in 0..n
        /\ (g + 1) - 1 = g
    BY <1>1
  <2>2. OffsetAt(a)[g + 1] = OffsetAt(a)[g] + a.rows[g + 1].count
    BY <2>1, OffsetUnfolds
  <2>3. OffsetAt(b)[g + 1] = OffsetAt(b)[g] + b.rows[g + 1].count
    BY <2>1, OffsetUnfolds
  <2> QED BY <1>3, <2>1, <2>2, <2>3
<1> HIDE DEF T
<1>4. \A g \in 0..n : g \in T
  BY <1>2, <1>3, UpTo
<1> QED BY <1>4 DEF T

(* A batch is written: its row, and the predictions of its items.         *)
Counted(row, n, tail) == [row EXCEPT !.count = n, !.tail = tail]
ScoredAs(item, row, n) == [seq |-> item.seq, alpha |-> item.alpha, used |-> item.used,
                           batch |-> row.gen, size |-> n]

LEMMA CountedFacts ==
  ASSUME NEW row \in Row, NEW n \in Int, NEW tail \in BOOLEAN
  PROVE  /\ Counted(row, n, tail) \in Row
         /\ Counted(row, n, tail).count = n /\ Counted(row, n, tail).tail = tail
         /\ Counted(row, n, tail).gen = row.gen /\ Counted(row, n, tail).ema = row.ema
         /\ Counted(row, n, tail).occupied = row.occupied /\ Counted(row, n, tail).target = row.target
         /\ row.gen \in Nat
BY DEF Counted, Row

Wrote(q, p, items, row) ==
  /\ Len(q) = Len(p) + Len(items)
  /\ \A j \in 1..Len(p) : q[j] = p[j]
  /\ \A j \in 1..Len(items) : q[Len(p) + j] = ScoredAs(items[j], row, Len(items))

WrittenAs(w, items, row, tail) ==
  /\ w \in Attempt
  /\ w.rows = Append(attempt.rows, Counted(row, Len(items), tail))
  /\ Counted(row, Len(items), tail) \in Row
  /\ Wrote(w.predictions, attempt.predictions, items, row)

LEMMA BatchWritten ==
  ASSUME attempt \in Attempt, NEW items \in Seq(Snapshot), Len(items) > 0, NEW row \in Row,
         NEW tail \in BOOLEAN, NEW open, open = [items |-> items, row |-> row],
         NEW w, w = Written(open, tail)
  PROVE  WrittenAs(w, items, row, tail)
<1> DEFINE done == Counted(row, Len(items), tail)
           scored == [i \in DOMAIN items |-> ScoredAs(items[i], row, Len(items))]
<1>1. attempt.rows \in Seq(Row) /\ attempt.predictions \in Seq(Prediction) /\ Len(items) \in Nat
  BY DEF Attempt
<1>2. done \in Row /\ done.gen = row.gen /\ done.count = Len(items) /\ row.gen \in Nat
  BY <1>1, CountedFacts
<1> HIDE DEF done
<1>3. scored \in Seq(Prediction) /\ Len(scored) = Len(items)
  <2>1. DOMAIN items = 1..Len(items) /\ \A i \in DOMAIN items : items[i] \in Snapshot
    OBVIOUS
  <2>2. ASSUME NEW i \in 1..Len(items) PROVE scored[i] \in Prediction
    <3>1. items[i] \in Snapshot /\ scored[i] = ScoredAs(items[i], row, Len(items))
      BY <2>1
    <3>2. /\ items[i].seq \in Nat /\ items[i].alpha \in Int /\ items[i].used \in Observation
          /\ row.gen \in Nat /\ Len(items) \in Int
      BY <1>1, <1>2, <3>1 DEF Snapshot
    <3> QED BY <3>1, <3>2 DEF Prediction, ScoredAs
  <2> QED BY <1>1, <2>1, <2>2
<1>4. w = [attempt EXCEPT !.rows = Append(@, done), !.predictions = @ \o scored]
  BY <1>2 DEF Written, Counted, ScoredAs, done
<1>5. Append(attempt.rows, done) \in Seq(Row)
  BY <1>1, <1>2, AppendProperties
<1>6. /\ attempt.predictions \o scored \in Seq(Prediction)
      /\ Len(attempt.predictions \o scored) = Len(attempt.predictions) + Len(items)
      /\ \A i \in 1..Len(attempt.predictions) : (attempt.predictions \o scored)[i] = attempt.predictions[i]
      /\ \A i \in 1..Len(items) : (attempt.predictions \o scored)[Len(attempt.predictions) + i] = scored[i]
  <2> HIDE DEF scored
  <2>1. Len(attempt.predictions) \in Nat
    BY <1>1
  <2>2. \A i \in 1..Len(items) :
          /\ Len(attempt.predictions) + i \in 1..Len(attempt.predictions) + Len(scored)
          /\ Len(attempt.predictions) + i > Len(attempt.predictions)
          /\ Len(attempt.predictions) + i - Len(attempt.predictions) = i
    BY <1>1, <1>3, <2>1
  <2>3. \A i \in 1..Len(attempt.predictions) + Len(scored) :
          (attempt.predictions \o scored)[i]
          = IF i <= Len(attempt.predictions) THEN attempt.predictions[i]
            ELSE scored[i - Len(attempt.predictions)]
    BY <1>1, <1>3, ConcatProperties
  <2>4. \A i \in 1..Len(attempt.predictions) :
          i \in 1..Len(attempt.predictions) + Len(scored) /\ i <= Len(attempt.predictions)
    BY <1>1, <1>3, <2>1
  <2>5. \A i \in 1..Len(items) : ~(Len(attempt.predictions) + i <= Len(attempt.predictions))
    BY <2>1
  <2>6. /\ attempt.predictions \o scored \in Seq(Prediction)
        /\ Len(attempt.predictions \o scored) = Len(attempt.predictions) + Len(items)
    <3>1. scored \in Seq(Prediction) /\ attempt.predictions \in Seq(Prediction)
      BY <1>1, <1>3
    <3>2. /\ attempt.predictions \o scored \in Seq(Prediction)
          /\ Len(attempt.predictions \o scored) = Len(attempt.predictions) + Len(scored)
      BY <3>1, ConcatProperties
    <3> QED BY <1>3, <3>2
  <2> QED BY <2>2, <2>3, <2>4, <2>5, <2>6
<1>7. /\ w.rows = Append(attempt.rows, done) /\ w.predictions = attempt.predictions \o scored
      /\ w.actions = attempt.actions /\ w.changes = attempt.changes /\ w.tails = attempt.tails
      /\ w = [predictions |-> w.predictions, rows |-> w.rows, actions |-> w.actions,
              changes |-> w.changes, tails |-> w.tails]
  BY <1>4 DEF Attempt
<1>8. w \in Attempt
  BY <1>5, <1>6, <1>7 DEF Attempt
<1>9. \A i \in 1..Len(items) :
        scored[i] = ScoredAs(items[i], row, Len(items))
  BY <1>1
<1> QED BY <1>2, <1>6, <1>7, <1>8, <1>9 DEF done, Wrote, WrittenAs

LEMMA BatchBooked ==
  ASSUME attempt \in Attempt, NEW items \in Seq(Snapshot), Len(items) > 0, NEW row \in Row,
         NEW tail \in BOOLEAN, NEW open, open = [items |-> items, row |-> row],
         NEW w, w = Written(open, tail),
         Booked(attempt), row.gen = Len(attempt.rows) + 1,
         \A i \in 1..Len(items) : items[i].used.gen <= row.gen
  PROVE  Booked(w)
<1> DEFINE n == Len(attempt.rows)
           m == Len(attempt.predictions)
           k == Len(items)
<1>1. /\ n \in Nat /\ m \in Nat /\ k \in Nat /\ k > 0
      /\ \A g \in 1..n : attempt.rows[g] \in Row
  BY DEF Attempt
<1>2. /\ w \in Attempt
      /\ w.rows = Append(attempt.rows, Counted(row, k, tail))
      /\ Counted(row, k, tail) \in Row
      /\ Len(w.predictions) = m + k
      /\ \A i \in 1..m : w.predictions[i] = attempt.predictions[i]
      /\ \A i \in 1..k :
              w.predictions[m + i]
              = ScoredAs(items[i], row, k)
  <2>1. WrittenAs(w, items, row, tail)
    BY BatchWritten
  <2> QED BY <2>1 DEF WrittenAs, Wrote
<1>3. Len(w.rows) = n + 1 /\ w.rows[n + 1].count = k /\ \A g \in 1..n : w.rows[g] = attempt.rows[g]
  <2>1. attempt.rows \in Seq(Row) /\ Counted(row, k, tail).count = k
    BY <1>1, CountedFacts DEF Attempt
  <2> DEFINE done == Counted(row, k, tail)
  <2>2. attempt.rows \in Seq(Row) /\ done \in Row /\ done.count = k /\ w.rows = Append(attempt.rows, done)
    BY <1>2, <2>1
  <2> HIDE DEF done
  <2>3. /\ Len(Append(attempt.rows, done)) = n + 1 /\ Append(attempt.rows, done)[n + 1] = done
        /\ \A g \in 1..n : Append(attempt.rows, done)[g] = attempt.rows[g]
    BY <2>2, AppendProperties
  <2> QED BY <2>2, <2>3
<1>4. \A g \in 0..n : OffsetAt(w)[g] = OffsetAt(attempt)[g]
  <2>1. n <= Len(attempt.rows) /\ n <= Len(w.rows) /\ \A g \in 1..n : w.rows[g].count = attempt.rows[g].count
    BY <1>1, <1>3
  <2> QED BY <1>1, <1>2, <2>1, OffsetsSame
<1>p. \A i \in 1..k :
        /\ w.predictions[m + i].batch = n + 1 /\ w.predictions[m + i].size = k
        /\ w.predictions[m + i].used.gen <= n + 1
  <2> SUFFICES ASSUME NEW i \in 1..k
               PROVE  /\ w.predictions[m + i].batch = n + 1 /\ w.predictions[m + i].size = k
                      /\ w.predictions[m + i].used.gen <= n + 1
    OBVIOUS
  <2>1. w.predictions[m + i] = ScoredAs(items[i], row, k) /\ items[i].used.gen <= row.gen
    BY <1>2
  <2> QED BY <2>1 DEF ScoredAs
<1>5. OffsetAt(attempt)[n] = m /\ OffsetAt(w)[n] = m /\ OffsetAt(w)[n + 1] = m + k
  <2>1. n + 1 \in 1..Len(w.rows) /\ (n + 1) - 1 = n /\ n \in 0..n
    BY <1>1, <1>3
  <2>2. OffsetAt(w)[n + 1] = OffsetAt(w)[n] + w.rows[n + 1].count
    BY <1>2, <2>1, OffsetUnfolds
  <2> QED BY <1>3, <1>4, <2>1, <2>2 DEF Booked
<1>6. ASSUME NEW g \in 1..(n + 1)
      PROVE  /\ 0 < w.rows[g].count
             /\ OffsetAt(w)[g - 1] \in Nat /\ OffsetAt(w)[g] \in 0..(m + k)
             /\ \A i \in (OffsetAt(w)[g - 1] + 1)..OffsetAt(w)[g] :
                  w.predictions[i].batch = g /\ w.predictions[i].size = w.rows[g].count
  <2>1. CASE g \in 1..n
    <3>1. g \in 0..n /\ g - 1 \in 0..n
      BY <1>1, <2>1
    <3>2. OffsetAt(w)[g - 1] = OffsetAt(attempt)[g - 1] /\ OffsetAt(w)[g] = OffsetAt(attempt)[g]
      BY <1>4, <3>1
    <3>3. /\ 0 < attempt.rows[g].count
          /\ OffsetAt(attempt)[g - 1] \in Nat /\ OffsetAt(attempt)[g] \in 0..m
          /\ \A i \in (OffsetAt(attempt)[g - 1] + 1)..OffsetAt(attempt)[g] :
               attempt.predictions[i].batch = g /\ attempt.predictions[i].size = attempt.rows[g].count
      BY <2>1 DEF Booked
    <3>4. \A i \in (OffsetAt(attempt)[g - 1] + 1)..OffsetAt(attempt)[g] : i \in 1..m
      BY <1>1, <3>3
    <3>7. \A x \in 0..m : x \in 0..(m + k)
      BY <1>1
    <3>5. w.rows[g] = attempt.rows[g] /\ OffsetAt(w)[g] \in 0..(m + k)
      BY <1>3, <2>1, <3>2, <3>3, <3>7
    <3>6. \A i \in (OffsetAt(w)[g - 1] + 1)..OffsetAt(w)[g] :
             w.predictions[i].batch = g /\ w.predictions[i].size = w.rows[g].count
      <4> SUFFICES ASSUME NEW i \in (OffsetAt(attempt)[g - 1] + 1)..OffsetAt(attempt)[g]
                   PROVE  w.predictions[i].batch = g /\ w.predictions[i].size = w.rows[g].count
        BY <3>2
      <4>1. i \in 1..m
        BY <3>4
      <4>2. w.predictions[i] = attempt.predictions[i]
        BY <1>2, <4>1
      <4> QED BY <3>3, <3>5, <4>2
    <3> QED BY <3>2, <3>3, <3>5, <3>6
  <2>2. CASE g = n + 1
    <3>1. g - 1 = n
      BY <1>1, <2>2
    <3>2. ASSUME NEW i \in (m + 1)..(m + k)
          PROVE  w.predictions[i].batch = g /\ w.predictions[i].size = w.rows[g].count
      <4>1. i - m \in 1..k /\ m + (i - m) = i
        BY <1>1
      <4> QED BY <1>p, <1>3, <2>2, <4>1
    <3>3. OffsetAt(w)[g - 1] = m /\ OffsetAt(w)[g] = m + k /\ w.rows[g].count = k /\ m + k \in 0..(m + k)
      BY <1>1, <1>3, <1>5, <2>2, <3>1
    <3> QED BY <1>1, <3>2, <3>3
  <2>3. g \in 1..n \/ g = n + 1
    BY <1>1
  <2> QED BY <2>1, <2>2, <2>3
<1>7. ASSUME NEW i \in 1..(m + k) PROVE w.predictions[i].used.gen <= w.predictions[i].batch
  <2>1. CASE i \in 1..m
    BY <1>2, <2>1 DEF Booked
  <2>2. CASE i \notin 1..m
    <3>1. i - m \in 1..k /\ m + (i - m) = i
      BY <1>1, <2>2
    <3>2. w.predictions[i].used.gen <= n + 1 /\ w.predictions[i].batch = n + 1
      BY <1>p, <3>1
    <3> QED BY <3>2
  <2> QED BY <2>1, <2>2
<1> QED BY <1>2, <1>3, <1>5, <1>6, <1>7 DEF Booked
-----------------------------------------------------------------------------
(* The rows decided so far, that of the open batch included.              *)
DecidedRows == IF batcher.open = NoBatch THEN attempt.rows ELSE Append(attempt.rows, batcher.open.row)

(* The i-th event is with its prediction, in the open batch or queued.    *)
Core(p) == [seq |-> p.seq, alpha |-> p.alpha, used |-> p.used]

PlaceOf(predictions, items, features, i) ==
  IF i <= Len(predictions) THEN Core(predictions[i])
  ELSE IF i <= Len(predictions) + Len(items) THEN items[i - Len(predictions)]
  ELSE features[i - Len(predictions) - Len(items)]

LEMMA PlaceQueued ==
  ASSUME NEW p, NEW items, NEW features, NEW i, ~(i <= Len(p)), ~(i <= Len(p) + Len(items))
  PROVE  PlaceOf(p, items, features, i) = features[i - Len(p) - Len(items)]
BY DEF PlaceOf

Stream == [i \in 1..source.read |->
             PlaceOf(attempt.predictions, batcher.open.items, source.features, i)]

UsedLaw(used, rows) ==
  IF used.available THEN used.gen \in 1..Len(rows) /\ used.value = rows[used.gen].ema
  ELSE used.gen = 0 /\ used.value = 0

AlphaBefore(s, i) == IF i = 1 THEN AlphaInitial * Unit ELSE s[i - 1].alpha

StreamLaw(adapts, s, rows) ==
  \A i \in 1..Len(s) :
    /\ s[i].seq = i
    /\ s[i].alpha = AlphaNext(adapts, AlphaBefore(s, i), s[i].used)
    /\ i > 1 => s[i - 1].used.gen <= s[i].used.gen
    /\ UsedLaw(s[i].used, rows)

LoopTypes ==
  /\ total \in Nat
  /\ source \in [read : Nat, alpha : Int, features : Seq(Snapshot)] /\ source.read <= total
  /\ signal \in Observation
  /\ batcher \in [ema : Int, controller : Controller,
                  open : {NoBatch} \cup [items : Seq(Snapshot), row : Row]]
  /\ attempt \in Attempt

DecidedInv ==
  /\ DecisionLaw(Adaptive, DecidedRows) /\ CounterLaw(DecidedRows, batcher.controller)
  /\ batcher.controller.size = LastTarget(DecidedRows)
  /\ batcher.ema = EmaBefore(DecidedRows, Len(DecidedRows) + 1)
  /\ signal = [value |-> batcher.ema, gen |-> Len(DecidedRows), available |-> Len(DecidedRows) > 0]

(* Only the last batch may stay below its target.                         *)
OpenInv ==
  /\ batcher.open # NoBatch =>
       0 < Len(batcher.open.items) /\ Len(batcher.open.items) < batcher.controller.size
  /\ \A g \in 1..Len(attempt.rows) :
       attempt.rows[g].count = attempt.rows[g].target /\ ~attempt.rows[g].tail

StreamInv ==
  /\ source.read = Len(attempt.predictions) + Len(batcher.open.items) + Len(source.features)
  /\ StreamLaw(AlphaAdapts, Stream, DecidedRows)
  /\ source.alpha = AlphaBefore(Stream, source.read + 1)

LoopInv ==
  engineState = "running" => LoopTypes /\ DecidedInv /\ OpenInv /\ StreamInv /\ Booked(attempt)

LEMMA DecidedRowsType ==
  ASSUME LoopTypes
  PROVE  /\ DecidedRows \in Seq(Row) /\ Len(DecidedRows) \in Nat
         /\ batcher.open.items \in Seq(Snapshot)
         /\ batcher.open # NoBatch => batcher.open = [items |-> batcher.open.items, row |-> batcher.open.row]
                                      /\ batcher.open.row \in Row
         /\ Len(DecidedRows) = Len(attempt.rows) + IF batcher.open = NoBatch THEN 0 ELSE 1
<1>1. attempt.rows \in Seq(Row)
  BY DEF LoopTypes, Attempt
<1>2. CASE batcher.open = NoBatch
  BY <1>1, <1>2 DEF DecidedRows, NoBatch
<1>3. CASE batcher.open # NoBatch
  <2>1. batcher.open \in [items : Seq(Snapshot), row : Row]
    BY <1>3 DEF LoopTypes
  <2>2. batcher.open.row \in Row /\ batcher.open.items \in Seq(Snapshot)
        /\ batcher.open = [items |-> batcher.open.items, row |-> batcher.open.row]
    BY <2>1
  <2>3. DecidedRows = Append(attempt.rows, batcher.open.row)
    BY <1>3 DEF DecidedRows
  <2> QED BY <1>1, <1>3, <2>2, <2>3, AppendProperties
<1> QED BY <1>2, <1>3

(* A head that becomes the last item keeps its place.                     *)
LEMMA HeadMoves ==
  ASSUME NEW p \in Seq(Prediction), NEW items \in Seq(Snapshot), NEW features \in Seq(Snapshot),
         features # <<>>, NEW i \in 1..(Len(p) + Len(items) + Len(features))
  PROVE  PlaceOf(p, Append(items, Head(features)), Tail(features), i) = PlaceOf(p, items, features, i)
<1> DEFINE n == Len(p)
           k == Len(items)
           more == Append(items, Head(features))
           rest == Tail(features)
<1>1. n \in Nat /\ k \in Nat /\ Len(features) \in Nat /\ Len(features) > 0
  BY EmptySeq
<1>2. /\ Len(more) = k + 1 /\ more[k + 1] = features[1] /\ \A j \in 1..k : more[j] = items[j]
  BY AppendProperties, HeadTailProperties
<1>3. Len(rest) = Len(features) - 1 /\ \A j \in 1..(Len(features) - 1) : rest[j] = features[j + 1]
  BY HeadTailProperties
<1> HIDE DEF more, rest
<1>4. CASE i <= n + k
  <2>1. ~(i <= n) => i - n \in 1..k
    BY <1>1, <1>4
  <2> QED BY <1>1, <1>2, <1>4, <2>1 DEF PlaceOf
<1>5. CASE i = n + k + 1
  <2>1. ~(i <= n) /\ ~(i <= n + k) /\ i <= n + (k + 1) /\ i - n = k + 1 /\ i - n - k = 1
    BY <1>1, <1>5
  <2>2. PlaceOf(p, items, features, i) = features[1]
    BY <2>1 DEF PlaceOf
  <2>3. PlaceOf(p, more, rest, i) = more[k + 1]
    BY <1>2, <2>1 DEF PlaceOf
  <2> QED BY <1>2, <2>2, <2>3 DEF more, rest
<1>6. CASE i > n + k + 1
  <2>1. /\ ~(i <= n) /\ ~(i <= n + k) /\ ~(i <= n + (k + 1))
        /\ i - n - (k + 1) \in 1..(Len(features) - 1) /\ (i - n - (k + 1)) + 1 = i - n - k
    BY <1>1, <1>6
  <2>2. PlaceOf(p, items, features, i) = features[i - n - k]
    BY <2>1 DEF PlaceOf
  <2>3. PlaceOf(p, more, rest, i) = rest[i - n - (k + 1)]
    BY <1>2, <2>1 DEF PlaceOf
  <2> QED BY <1>3, <2>1, <2>2, <2>3 DEF more, rest
<1>7. i <= n + k \/ i = n + k + 1 \/ i > n + k + 1
  BY <1>1
<1> QED BY <1>4, <1>5, <1>6, <1>7, Zenon

(* And so do the items of a batch that is written.                        *)
LEMMA BatchMoves ==
  ASSUME NEW p \in Seq(Prediction), NEW items \in Seq(Snapshot), NEW features, NEW row, NEW q,
         Wrote(q, p, items, row), NEW i \in Nat, i > 0
  PROVE  PlaceOf(q, <<>>, features, i) = PlaceOf(p, items, features, i)
<1> DEFINE k == Len(items)
<1>w. /\ Len(q) = Len(p) + k /\ \A j \in 1..Len(p) : q[j] = p[j]
      /\ \A j \in 1..k : q[Len(p) + j] = ScoredAs(items[j], row, k)
  BY DEF Wrote
<1>1. Len(p) \in Nat /\ Len(items) \in Nat /\ Len(q) \in Nat /\ Len(<<>>) = 0
  BY <1>w
<1>2. CASE i <= Len(p)
  BY <1>w, <1>1, <1>2 DEF PlaceOf
<1>3. CASE ~(i <= Len(p)) /\ i <= Len(p) + Len(items)
  <2>1. i - Len(p) \in 1..Len(items) /\ Len(p) + (i - Len(p)) = i
    BY <1>1, <1>3
  <2> DEFINE item == items[i - Len(p)]
  <2>2. q[i] = ScoredAs(item, row, k) /\ item \in Snapshot
    BY <1>w, <2>1
  <2>3. Core(q[i]) = item
    <3>1. item = [seq |-> item.seq, alpha |-> item.alpha, used |-> item.used]
      BY <2>2 DEF Snapshot
    <3>2. q[i].seq = item.seq /\ q[i].alpha = item.alpha /\ q[i].used = item.used
      BY <2>2 DEF ScoredAs
    <3> HIDE DEF item
    <3> QED BY <3>1, <3>2 DEF Core
  <2> QED BY <1>w, <1>1, <1>3, <2>3 DEF PlaceOf
<1>4. CASE ~(i <= Len(p) + Len(items))
  <2>1. ~(i <= Len(p)) /\ ~(i <= Len(q)) /\ ~(i <= Len(q) + 0) /\ i - Len(q) - 0 = i - Len(p) - Len(items)
    BY <1>w, <1>1, <1>4
  <2> QED BY <1>w, <1>1, <1>4, <2>1 DEF PlaceOf
<1> QED BY <1>2, <1>3, <1>4

LEMMA UsedLater ==
  ASSUME NEW rows, NEW later, Len(rows) \in Nat, Len(later) \in Nat, Len(rows) <= Len(later),
         \A g \in 1..Len(rows) : later[g].ema = rows[g].ema, NEW s, StreamLaw(AlphaAdapts, s, rows)
  PROVE  StreamLaw(AlphaAdapts, s, later)
<1>1. ASSUME NEW i \in 1..Len(s), UsedLaw(s[i].used, rows) PROVE UsedLaw(s[i].used, later)
  <2>1. \A g \in 1..Len(rows) : g \in 1..Len(later)
    OBVIOUS
  <2> QED BY <1>1, <2>1 DEF UsedLaw
<1> QED BY <1>1 DEF StreamLaw

LEMMA LoopInit == Init => LoopInv
<1> SUFFICES ASSUME Init, engineState = "running"
             PROVE  LoopTypes /\ DecidedInv /\ OpenInv /\ StreamInv /\ Booked(attempt)
  BY DEF LoopInv
<1>1. /\ total \in Nat
      /\ source = [read |-> 0, alpha |-> AlphaInitial * Unit, features |-> <<>>]
      /\ signal = NoObservation
      /\ batcher = [ema |-> 0, controller |-> NewController, open |-> NoBatch]
      /\ attempt = [predictions |-> <<>>, rows |-> <<>>, actions |-> 0, changes |-> 0, tails |-> 0]
  <2>1. PICK m : \E n \in Nat : ReplayInit(m, n)
    <3>1. \A n \in 1..MaxEvents : n \in Nat
      BY ReplayAssumption
    <3>2. 1 \in Nat
      OBVIOUS
    <3>3. CASE tool = "diagnostics" /\ \E m \in Modes, n \in 1..MaxEvents : ReplayInit(m, n)
      BY <3>1, <3>3
    <3>4. CASE ReplayInit("fixed", 1)
      BY <3>2, <3>4
    <3> QED BY <3>3, <3>4 DEF Init
  <2> QED BY <2>1 DEF ReplayInit
<1>2. AlphaInitial * Unit \in Int
  <2>1. AlphaInitial \in Nat /\ Unit \in Nat
    BY UnitPositive, ControllersAssumption
  <2> QED BY <2>1
<1>3. attempt \in Attempt
  BY <1>1 DEF Attempt
<1>4. NewController \in Controller
  BY BatchBoundsAssumption DEF NewController, Controller, BatchSize
<1>5. LoopTypes
  BY <1>1, <1>2, <1>3, <1>4 DEF LoopTypes, NoObservation, Observation
<1>6. DecidedRows = <<>> /\ Len(DecidedRows) = 0
  BY <1>1 DEF DecidedRows
<1>7. MovesOf(<<>>) = <<>> /\ TurnsOf(<<>>) = {}
  <2>1. StepsOf(<<>>) = <<>>
    BY DEF StepsOf
  <2> QED BY <2>1, PickedOfNothing DEF MovesOf, TurnsOf
<1>8. DecidedInv
  <2>1. CounterLaw(<<>>, NewController)
    BY <1>7, FS_EmptySet DEF CounterLaw, NewController
  <2>2. NewController.size = LastTarget(<<>>)
    BY DEF NewController, LastTarget, TargetBefore
  <2>3. DecisionLaw(Adaptive, <<>>)
    BY DEF DecisionLaw
  <2>4. EmaBefore(<<>>, 1) = 0
    BY DEF EmaBefore
  <2>5. (0 > 0) = FALSE /\ 0 + 1 = 1
    OBVIOUS
  <2>6. signal = [value |-> batcher.ema, gen |-> Len(DecidedRows), available |-> Len(DecidedRows) > 0]
    <3>1. (Len(DecidedRows) > 0) = FALSE /\ batcher.ema = 0
      BY <1>1, <1>6
    <3> QED BY <1>1, <1>6, <3>1 DEF NoObservation
  <2>7. batcher.ema = EmaBefore(DecidedRows, Len(DecidedRows) + 1)
    BY <1>1, <1>6, <2>4, <2>5
  <2> QED BY <1>1, <1>6, <2>1, <2>2, <2>3, <2>6, <2>7 DEF DecidedInv
<1>9. OpenInv
  BY <1>1 DEF OpenInv
<1>10. StreamInv
  <2>1. source.read = 0 /\ Stream = <<>> /\ batcher.open.items = <<>>
    BY <1>1 DEF Stream, NoBatch
  <2>2. source.read = Len(attempt.predictions) + Len(batcher.open.items) + Len(source.features)
    BY <1>1, <2>1
  <2>3. StreamLaw(AlphaAdapts, Stream, DecidedRows)
    BY <2>1 DEF StreamLaw
  <2>4. source.alpha = AlphaBefore(Stream, source.read + 1)
    BY <1>1, <2>1 DEF AlphaBefore
  <2> QED BY <2>2, <2>3, <2>4 DEF StreamInv
<1>11. Booked(attempt)
  <2>1. OffsetAt(attempt)[0] = 0
    BY <1>3, OffsetUnfolds
  <2> QED BY <1>1, <2>1 DEF Booked
<1> QED BY <1>5, <1>8, <1>9, <1>10, <1>11

LEMMA SignalUsable ==
  ASSUME LoopTypes, DecidedInv
  PROVE  UsedLaw(signal, DecidedRows)
<1> DEFINE rows == DecidedRows
           n == Len(rows)
<1>1. n \in Nat /\ signal = [value |-> batcher.ema, gen |-> n, available |-> n > 0]
      /\ batcher.ema = EmaBefore(rows, n + 1)
  BY DecidedRowsType DEF DecidedInv
<1> HIDE DEF rows
<1>2. CASE n = 0
  <2>1. (n > 0) = FALSE /\ n + 1 = 1
    BY <1>2
  <2>2. signal.available = FALSE /\ signal.gen = 0 /\ signal.value = EmaBefore(rows, 1)
    BY <1>1, <1>2, <2>1
  <2> QED BY <2>2 DEF UsedLaw, EmaBefore, rows
<1>3. CASE n # 0
  <2>1. n + 1 # 1 /\ (n + 1) - 1 = n /\ n \in 1..n /\ n > 0
    BY <1>1, <1>3
  <2>2. signal.available /\ signal.gen = n /\ signal.value = rows[n].ema
    BY <1>1, <2>1 DEF EmaBefore
  <2> QED BY <2>1, <2>2 DEF UsedLaw, rows
<1> QED BY <1>2, <1>3

LEMMA StreamGrows ==
  ASSUME NEW s, NEW t, NEW rows, Len(s) \in Nat, Len(t) = Len(s) + 1, Len(rows) \in Nat,
         \A i \in 1..Len(s) : t[i] = s[i], StreamLaw(AlphaAdapts, s, rows),
         NEW x, t[Len(s) + 1] = x, x.seq = Len(s) + 1,
         x.alpha = AlphaNext(AlphaAdapts, AlphaBefore(s, Len(s) + 1), x.used),
         UsedLaw(x.used, rows), x.used.gen = Len(rows)
  PROVE  StreamLaw(AlphaAdapts, t, rows)
<1> DEFINE n == Len(s)
<1>1. ASSUME NEW i \in 1..(n + 1)
      PROVE  /\ t[i].seq = i
             /\ t[i].alpha = AlphaNext(AlphaAdapts, AlphaBefore(t, i), t[i].used)
             /\ i > 1 => t[i - 1].used.gen <= t[i].used.gen
             /\ UsedLaw(t[i].used, rows)
  <2>1. i # 1 => i - 1 \in 1..n
    OBVIOUS
  <2>2. AlphaBefore(t, i) = AlphaBefore(s, i)
    BY <2>1 DEF AlphaBefore
  <2>3. CASE i \in 1..n
    <3>1. t[i] = s[i] /\ (i > 1 => t[i - 1] = s[i - 1])
      BY <2>1, <2>3
    <3> QED BY <2>2, <2>3, <3>1 DEF StreamLaw
  <2>4. CASE i = n + 1
    <3>1. t[i].seq = i /\ UsedLaw(t[i].used, rows) /\ t[i].alpha = AlphaNext(AlphaAdapts, AlphaBefore(t, i), t[i].used)
      BY <2>2, <2>4
    <3>2. ASSUME i > 1 PROVE t[i - 1].used.gen <= t[i].used.gen
      <4>1. i - 1 \in 1..n /\ t[i - 1] = s[i - 1]
        BY <2>1, <3>2
      <4>2. UsedLaw(s[i - 1].used, rows)
        BY <4>1 DEF StreamLaw
      <4>3. s[i - 1].used.gen \in 0..Len(rows)
        BY <4>2 DEF UsedLaw
      <4> QED BY <2>4, <4>1, <4>3
    <3> QED BY <3>1, <3>2
  <2>5. i \in 1..n \/ i = n + 1
    OBVIOUS
  <2> QED BY <2>3, <2>4, <2>5
<1> QED BY <1>1 DEF StreamLaw

LEMMA ExtractKeeps ==
  ASSUME LoopTypes, DecidedInv, OpenInv, StreamInv, Booked(attempt), Extract
  PROVE  LoopTypes' /\ DecidedInv' /\ OpenInv' /\ StreamInv' /\ Booked(attempt)'
<1> DEFINE alpha == IF AlphaAdapts /\ signal.available THEN NextAlpha(source.alpha, signal.value)
                    ELSE source.alpha
           x == [seq |-> source.read + 1, alpha |-> alpha, used |-> signal]
           n == source.read
<1>1. /\ source' = [read |-> n + 1, alpha |-> alpha, features |-> Append(source.features, x)]
      /\ n < total
      /\ total' = total /\ signal' = signal /\ batcher' = batcher /\ attempt' = attempt /\ mode' = mode
  BY DEF Extract
<1>2. /\ total \in Nat /\ n \in Nat /\ source.alpha \in Int /\ source.features \in Seq(Snapshot)
      /\ signal \in Observation /\ signal.value \in Int /\ attempt.predictions \in Seq(Prediction)
  BY DEF LoopTypes, Observation, Attempt
<1>3. alpha = AlphaNext(AlphaAdapts, source.alpha, signal) /\ alpha \in Int
  BY <1>2, LimitedTwoWays DEF AlphaNext
<1>4. x \in Snapshot
  BY <1>2, <1>3 DEF Snapshot
<1> HIDE DEF alpha, x
<1>5. Append(source.features, x) \in Seq(Snapshot)
  BY <1>2, <1>4
<1>6. LoopTypes'
  BY <1>1, <1>2, <1>3, <1>5 DEF LoopTypes
<1>7. DecidedRows' = DecidedRows
  BY <1>1 DEF DecidedRows
<1>m. Adaptive' = Adaptive /\ AlphaAdapts' = AlphaAdapts
  BY <1>1 DEF Adaptive, AlphaAdapts
<1>8. DecidedInv'
  BY <1>1, <1>7, <1>m DEF DecidedInv
<1>9. OpenInv'
  BY <1>1 DEF OpenInv
<1>10. Booked(attempt)'
  BY <1>1
<1>11. /\ batcher.open.items \in Seq(Snapshot) /\ Len(DecidedRows) \in Nat
       /\ n = Len(attempt.predictions) + Len(batcher.open.items) + Len(source.features)
  BY DecidedRowsType DEF StreamInv
<1> DEFINE p == Len(attempt.predictions)
           k == Len(batcher.open.items)
           f == Len(source.features)
<1>n. p \in Nat /\ k \in Nat /\ f \in Nat /\ n \in Nat /\ n = p + k + f
  <2>1. batcher.open.items \in Seq(Snapshot)
    BY <1>11
  <2>2. p \in Nat /\ k \in Nat /\ f \in Nat /\ n \in Nat
    BY <1>2, <2>1, LenProperties
  <2> QED BY <1>11, <2>2
<1> HIDE DEF p, k, f
<1>12. /\ source'.read = n + 1
       /\ source'.features = Append(source.features, x) /\ source'.alpha = alpha
  BY <1>1
<1>13. Len(Stream) = n /\ Len(Stream') = n + 1
  BY <1>2, <1>12 DEF Stream
<1>14. ASSUME NEW i \in 1..n PROVE Stream'[i] = Stream[i]
  <2>1. i \in 1..(n + 1)
    BY <1>2
  <2>2. ~(i <= p + k) => i - p - k \in 1..f
    BY <1>n
  <2>3. ~(i <= p + k) => Append(source.features, x)[i - p - k] = source.features[i - p - k]
    BY <1>2, <1>4, <2>2, AppendProperties DEF f
  <2>4. i <= p => i <= p + k
    BY <1>n
  <2>5. PlaceOf(attempt.predictions, batcher.open.items, Append(source.features, x), i)
        = PlaceOf(attempt.predictions, batcher.open.items, source.features, i)
    BY <2>3, <2>4 DEF PlaceOf, p, k
  <2> QED BY <1>1, <1>12, <2>1, <2>5 DEF Stream
<1>15. Stream'[n + 1] = x
  <2>1. n + 1 \in 1..(n + 1) /\ (n + 1) - p - k = f + 1 /\ ~(n + 1 <= p + k) /\ ~(n + 1 <= p)
    BY <1>n
  <2>2. Append(source.features, x)[f + 1] = x
    BY <1>2, <1>4, AppendProperties DEF f
  <2>3. PlaceOf(attempt.predictions, batcher.open.items, Append(source.features, x), n + 1)
        = Append(source.features, x)[(n + 1) - p - k]
    BY <2>1, PlaceQueued, Zenon DEF p, k
  <2> QED BY <1>1, <1>12, <2>1, <2>2, <2>3 DEF Stream
<1>16. /\ x.seq = n + 1 /\ x.used = signal /\ x.alpha = AlphaNext(AlphaAdapts, AlphaBefore(Stream, n + 1), x.used)
  BY <1>3 DEF x, StreamInv
<1>17. UsedLaw(signal, DecidedRows) /\ signal.gen = Len(DecidedRows)
  BY SignalUsable DEF DecidedInv
<1>18. StreamLaw(AlphaAdapts, Stream', DecidedRows)
  BY <1>2, <1>11, <1>13, <1>14, <1>15, <1>16, <1>17, StreamGrows DEF StreamInv
<1>19. source'.alpha = AlphaBefore(Stream', source'.read + 1)
  <2>1. (n + 1) + 1 # 1 /\ ((n + 1) + 1) - 1 = n + 1
    BY <1>2
  <2>2. AlphaBefore(Stream', (n + 1) + 1) = x.alpha
    BY <1>15, <2>1 DEF AlphaBefore
  <2> QED BY <1>12, <2>2 DEF x
<1>20. Len(Append(source.features, x)) = f + 1
  BY <1>2, <1>4, AppendProperties DEF f
<1>21. StreamInv'
  <2>1. source'.read = Len(attempt'.predictions) + Len(batcher'.open.items) + Len(source'.features)
    <3>1. Len(attempt'.predictions) = p /\ Len(batcher'.open.items) = k /\ Len(source'.features) = f + 1
      BY <1>1, <1>20 DEF p, k
    <3> QED BY <1>n, <1>12, <3>1
  <2> QED BY <1>7, <1>m, <1>18, <1>19, <2>1 DEF StreamInv
<1> QED BY <1>6, <1>8, <1>9, <1>10, <1>21

DecisionMade(ema, c, row, sig, rows) ==
  /\ row \in Row /\ row.gen = Len(attempt.rows) + 1 /\ row.target = c.size
  /\ c \in Controller /\ ema \in Int
  /\ rows \in Seq(Row) /\ Len(rows) = Len(attempt.rows) + 1
  /\ DecisionLaw(Adaptive, rows) /\ CounterLaw(rows, c) /\ c.size = LastTarget(rows)
  /\ ema = EmaBefore(rows, Len(rows) + 1)
  /\ sig = [value |-> ema, gen |-> Len(rows), available |-> TRUE]
  /\ Len(DecidedRows) <= Len(rows) /\ \A g \in 1..Len(DecidedRows) : rows[g].ema = DecidedRows[g].ema

(* The first item of a batch brings the decision, the others none.        *)
LEMMA BatchDecides ==
  ASSUME LoopTypes, DecidedInv, NEW occupied \in Int,
         NEW ema, ema = IF batcher.open = NoBatch THEN Smoothed(batcher.ema, occupied) ELSE batcher.ema,
         NEW c, c = IF batcher.open = NoBatch /\ Adaptive THEN Controlled(batcher.controller, ema)
                    ELSE batcher.controller,
         NEW row, row = IF batcher.open = NoBatch
                        THEN [gen |-> signal.gen + 1, occupied |-> occupied, ema |-> ema,
                              target |-> c.size, count |-> 0, tail |-> FALSE]
                        ELSE batcher.open.row,
         NEW sig, sig = IF batcher.open = NoBatch THEN Stored(signal, ema) ELSE signal,
         NEW rows, rows = Append(attempt.rows, row)
  PROVE  DecisionMade(ema, c, row, sig, rows)
<1> DEFINE n == Len(attempt.rows)
<1>1. attempt.rows \in Seq(Row) /\ n \in Nat /\ batcher.ema \in Int /\ batcher.controller \in Controller
  BY DEF LoopTypes, Attempt
<1>2. /\ DecisionLaw(Adaptive, DecidedRows) /\ CounterLaw(DecidedRows, batcher.controller)
      /\ batcher.controller.size = LastTarget(DecidedRows)
      /\ batcher.ema = EmaBefore(DecidedRows, Len(DecidedRows) + 1)
      /\ signal = [value |-> batcher.ema, gen |-> Len(DecidedRows), available |-> Len(DecidedRows) > 0]
  BY DEF DecidedInv
<1>3. ASSUME row \in Row
      PROVE  /\ rows \in Seq(Row) /\ Len(rows) = n + 1 /\ LastTarget(rows) = row.target
             /\ EmaBefore(rows, Len(rows) + 1) = row.ema /\ \A g \in 1..n : rows[g] = attempt.rows[g]
  <2>1. /\ rows \in Seq(Row) /\ Len(rows) = n + 1 /\ rows[n + 1] = row
        /\ \A g \in 1..n : rows[g] = attempt.rows[g]
    BY <1>1, <1>3, AppendProperties
  <2>2. (n + 1) + 1 # 1 /\ ((n + 1) + 1) - 1 = n + 1
    BY <1>1
  <2> QED BY <2>1, <2>2 DEF LastTarget, TargetBefore, EmaBefore
<1>4. CASE batcher.open = NoBatch
  <2>1. DecidedRows = attempt.rows
    BY <1>4 DEF DecidedRows
  <2>2. /\ ema = Smoothed(EmaBefore(attempt.rows, n + 1), occupied) /\ ema \in Int
        /\ c = IF Adaptive THEN Controlled(batcher.controller, ema) ELSE batcher.controller
        /\ row = [gen |-> n + 1, occupied |-> occupied, ema |-> ema,
                  target |-> c.size, count |-> 0, tail |-> FALSE]
    BY <1>1, <1>2, <1>4, <2>1, SmoothedTwoWays
  <2>3. c.size \in BatchSize
    <3>1. batcher.controller.size \in BatchSize
      BY <1>1 DEF Controller
    <3>2. NextBatchSize(batcher.controller.size, ZoneOf(ema)) \in BatchSize
      BY <3>1, NextSize
    <3> QED BY <2>2, <3>1, <3>2 DEF Controlled
  <2>4. row \in Row
    <3>1. c.size \in Int
      BY <2>3, BatchBoundsAssumption DEF BatchSize
    <3>2. n + 1 \in Nat /\ 0 \in Int /\ FALSE \in BOOLEAN
      BY <1>1
    <3>3. row = [gen |-> n + 1, occupied |-> occupied, ema |-> ema,
                 target |-> c.size, count |-> 0, tail |-> FALSE] /\ ema \in Int
      BY <2>2
    <3> DEFINE k == n + 1
               target == c.size
               no == FALSE
    <3>4. k \in Nat /\ target \in Int /\ no \in BOOLEAN
      BY <3>1, <3>2
    <3> HIDE DEF k, target, no
    <3>5. row = [gen |-> k, occupied |-> occupied, ema |-> ema,
                 target |-> target, count |-> 0, tail |-> no]
      BY <3>3 DEF k, target, no
    <3> QED BY <3>2, <3>3, <3>4, <3>5 DEF Row
  <2>5. row.gen = n + 1 /\ row.ema = ema /\ row.occupied = occupied /\ row.target = c.size
    BY <2>2
  <2>6. /\ c \in Controller /\ c.size = NextTarget(Adaptive, batcher.controller.size, ema)
        /\ CounterLaw(rows, c)
    <3> DEFINE old == batcher.controller
    <3>1. old \in Controller /\ CounterLaw(attempt.rows, old) /\ old.size = LastTarget(attempt.rows)
      BY <1>1, <1>2, <2>1
    <3>2. c = IF Adaptive THEN Controlled(old, ema) ELSE old
      BY <2>2
    <3> HIDE DEF old
    <3>3. /\ c \in Controller /\ c.size = NextTarget(Adaptive, old.size, ema)
          /\ CounterLaw(Append(attempt.rows, row), c)
      BY <1>1, <2>2, <2>4, <2>5, <3>1, <3>2, CountersAdded
    <3> QED BY <3>3 DEF old
  <2>7. DecisionLaw(Adaptive, rows)
    BY <1>1, <1>2, <2>1, <2>2, <2>3, <2>4, <2>5, <2>6, DecisionAdded
  <2>8. sig = [value |-> ema, gen |-> n + 1, available |-> TRUE]
    BY <1>2, <1>4, <2>1 DEF Stored
  <2>9. Len(DecidedRows) <= n + 1 /\ \A g \in 1..Len(DecidedRows) : rows[g].ema = DecidedRows[g].ema
    BY <1>1, <1>3, <2>1, <2>4
  <2> QED BY <1>3, <2>2, <2>4, <2>5, <2>6, <2>7, <2>8, <2>9 DEF DecisionMade
<1>5. CASE batcher.open # NoBatch
  <2>1. /\ row = batcher.open.row /\ ema = batcher.ema /\ c = batcher.controller /\ sig = signal
        /\ DecidedRows = rows
    BY <1>5 DEF DecidedRows
  <2>2. row \in Row
    BY <1>5, <2>1, DecidedRowsType
  <2>3. Len(rows) > 0 /\ Len(rows) \in Nat
    BY <1>1, <1>3, <2>2
  <2>4. row.gen = n + 1
    <3>1. n + 1 \in 1..Len(rows) /\ rows[n + 1] = row
      BY <1>1, <1>3, <2>2, AppendProperties
    <3> QED BY <1>2, <2>1, <3>1 DEF DecisionLaw
  <2>5. sig = [value |-> ema, gen |-> Len(rows), available |-> TRUE]
    BY <1>2, <2>1, <2>3
  <2>6. Len(DecidedRows) <= Len(rows) /\ \A g \in 1..Len(DecidedRows) : rows[g].ema = DecidedRows[g].ema
    BY <2>1, <2>3
  <2>7. c \in Controller /\ ema \in Int /\ DecisionLaw(Adaptive, rows) /\ CounterLaw(rows, c)
        /\ c.size = LastTarget(rows) /\ ema = EmaBefore(rows, Len(rows) + 1)
    BY <1>1, <1>2, <2>1
  <2>8. row.target = c.size /\ rows \in Seq(Row) /\ Len(rows) = n + 1
    BY <1>3, <2>2, <2>7
  <2> QED BY <2>2, <2>4, <2>5, <2>6, <2>7, <2>8 DEF DecisionMade
<1> QED BY <1>4, <1>5

(* Counting a row's items does not change what was decided.               *)
LEMMA SameDecisionsKeep ==
  ASSUME NEW rows, Len(rows) \in Nat, Len(rows) > 0, NEW others, SameDecisions(rows, others),
         DecisionLaw(Adaptive, rows), NEW c, CounterLaw(rows, c)
  PROVE  /\ DecisionLaw(Adaptive, others) /\ CounterLaw(others, c)
         /\ LastTarget(others) = LastTarget(rows) /\ Len(others) = Len(rows)
         /\ EmaBefore(others, Len(others) + 1) = EmaBefore(rows, Len(rows) + 1)
<1>1. DecisionLaw(Adaptive, others) /\ MovesOf(others) = MovesOf(rows)
  BY SameDecisionsLaw
<1>2. CounterLaw(others, c)
  BY <1>1 DEF CounterLaw
<1>3. Len(rows) \in 1..Len(rows) /\ (Len(rows) + 1) - 1 = Len(rows) /\ Len(others) = Len(rows)
  BY DEF SameDecisions
<1> QED BY <1>1, <1>2, <1>3 DEF SameDecisions, LastTarget, TargetBefore, EmaBefore

LEMMA BatchedKeeps ==
  ASSUME LoopTypes, DecidedInv, OpenInv, StreamInv, Booked(attempt), Batched
  PROVE  LoopTypes' /\ DecidedInv' /\ OpenInv' /\ StreamInv' /\ Booked(attempt)'
<1> DEFINE first == batcher.open = NoBatch
           old == batcher.open.items
           more == Append(old, Head(source.features))
           p == Len(attempt.predictions)
           n == Len(attempt.rows)
<1>1. PICK occupied \in (IF first THEN 0..QueueCap ELSE {0}) :
        LET ema == IF first THEN Smoothed(batcher.ema, occupied) ELSE batcher.ema
            c == IF first /\ Adaptive THEN Controlled(batcher.controller, ema)
                 ELSE batcher.controller
            row == [gen |-> signal.gen + 1, occupied |-> occupied, ema |-> ema,
                    target |-> c.size, count |-> 0, tail |-> FALSE]
            open == [items |-> more, row |-> IF first THEN row ELSE batcher.open.row]
            full == Len(open.items) = c.size
        IN  /\ signal' = IF first THEN Stored(signal, ema) ELSE signal
            /\ batcher' = [ema |-> ema, controller |-> c, open |-> IF full THEN NoBatch ELSE open]
            /\ attempt' = IF full THEN Written(open, FALSE) ELSE attempt
  BY DEF Batched
<1> DEFINE ema == IF first THEN Smoothed(batcher.ema, occupied) ELSE batcher.ema
           c == IF first /\ Adaptive THEN Controlled(batcher.controller, ema) ELSE batcher.controller
           row == IF first THEN [gen |-> signal.gen + 1, occupied |-> occupied, ema |-> ema,
                                 target |-> c.size, count |-> 0, tail |-> FALSE]
                  ELSE batcher.open.row
           open == [items |-> more, row |-> row]
           rows == Append(attempt.rows, row)
<1>2. /\ signal' = IF first THEN Stored(signal, ema) ELSE signal
      /\ batcher' = [ema |-> ema, controller |-> c, open |-> IF Len(more) = c.size THEN NoBatch ELSE open]
      /\ attempt' = IF Len(more) = c.size THEN Written(open, FALSE) ELSE attempt
  BY <1>1
<1>3. /\ source' = [source EXCEPT !.features = Tail(@)] /\ source.features # <<>>
      /\ total' = total /\ mode' = mode
  BY DEF Batched
<1>4. occupied \in Int
  BY ControllersAssumption
<1>e. /\ ema = (IF batcher.open = NoBatch THEN Smoothed(batcher.ema, occupied) ELSE batcher.ema)
      /\ c = (IF batcher.open = NoBatch /\ Adaptive THEN Controlled(batcher.controller, ema)
              ELSE batcher.controller)
      /\ row = (IF batcher.open = NoBatch
                THEN [gen |-> signal.gen + 1, occupied |-> occupied, ema |-> ema,
                      target |-> c.size, count |-> 0, tail |-> FALSE]
                ELSE batcher.open.row)
      /\ rows = Append(attempt.rows, row)
      /\ signal' = (IF batcher.open = NoBatch THEN Stored(signal, ema) ELSE signal)
  BY <1>2
<1> HIDE DEF ema, c, row, rows
<1>5. /\ row \in Row /\ row.gen = n + 1 /\ row.target = c.size
      /\ c \in Controller /\ ema \in Int
      /\ rows \in Seq(Row) /\ Len(rows) = n + 1
      /\ DecisionLaw(Adaptive, rows) /\ CounterLaw(rows, c) /\ c.size = LastTarget(rows)
      /\ ema = EmaBefore(rows, Len(rows) + 1)
      /\ signal' = [value |-> ema, gen |-> Len(rows), available |-> TRUE]
      /\ Len(DecidedRows) <= Len(rows) /\ \A g \in 1..Len(DecidedRows) : rows[g].ema = DecidedRows[g].ema
  <2> DEFINE sig == signal'
  <2>1. sig = (IF batcher.open = NoBatch THEN Stored(signal, ema) ELSE signal)
    BY <1>e
  <2> HIDE DEF sig
  <2>2. DecisionMade(ema, c, row, sig, rows)
    BY <1>4, <1>e, <2>1, BatchDecides
  <2> QED BY <2>2 DEF sig, DecisionMade
<1> DEFINE k == Len(old)
           f == Len(source.features)
           rest == Tail(source.features)
<1>6. /\ source \in [read : Nat, alpha : Int, features : Seq(Snapshot)] /\ source.read <= total /\ total \in Nat
      /\ attempt \in Attempt /\ attempt.rows \in Seq(Row) /\ attempt.predictions \in Seq(Prediction)
      /\ old \in Seq(Snapshot)
  BY DecidedRowsType DEF LoopTypes, Attempt
<1>f. source.features \in Seq(Snapshot) /\ source.read \in Nat /\ source.alpha \in Int
  BY <1>6
<1>8. /\ rest \in Seq(Snapshot) /\ Head(source.features) \in Snapshot
      /\ more \in Seq(Snapshot) /\ Len(more) = k + 1 /\ Len(rest) = f - 1
      /\ f \in Nat /\ f > 0 /\ k \in Nat /\ p \in Nat /\ n \in Nat /\ Len(rows) \in Nat /\ Len(rows) > 0
  <2>1. /\ rest \in Seq(Snapshot) /\ Head(source.features) \in Snapshot /\ Len(rest) = f - 1
        /\ f \in Nat /\ f # 0
    BY <1>3, <1>f, HeadTailProperties, EmptySeq
  <2>2. k \in Nat /\ p \in Nat /\ n \in Nat /\ f > 0
    <3>1. k \in Nat
      BY <1>6, LenProperties
    <3>2. p \in Nat
      BY <1>6, LenProperties
    <3>3. n \in Nat
      BY <1>6, LenProperties
    <3>4. f > 0
      BY <2>1
    <3> QED BY <3>1, <3>2, <3>3, <3>4
  <2>3. more \in Seq(Snapshot) /\ Len(more) = k + 1
    BY <1>6, <2>1, AppendProperties
  <2>4. Len(rows) \in Nat /\ Len(rows) > 0
    BY <1>5, <2>2
  <2> QED BY <2>1, <2>2, <2>3, <2>4
<1>7. /\ source'.read = source.read /\ source'.alpha = source.alpha /\ source'.features = rest
      /\ source' \in [read : Nat, alpha : Int, features : Seq(Snapshot)]
  <2>1. source' = [read |-> source.read, alpha |-> source.alpha, features |-> rest]
    BY <1>3, <1>6
  <2> QED BY <1>f, <1>8, <2>1
<1>r. source.read = p + k + f
  BY DEF StreamInv
<1> HIDE DEF p, n, k, f, rest, more
<1>10. c.size \in Nat /\ c.size > 0 /\ Len(more) <= c.size /\ Len(more) \in Nat /\ Len(more) > 0
  <2>1. c.size \in BatchSize
    BY <1>5 DEF Controller
  <2>2. c.size \in Nat /\ c.size > 0
    BY <2>1, BatchBoundsAssumption DEF BatchSize
  <2>3. CASE first
    <3>1. k = 0
      BY <2>3 DEF NoBatch, k
    <3> QED BY <1>8, <2>2, <3>1
  <2>4. CASE ~first
    <3>1. k < batcher.controller.size /\ c = batcher.controller
      BY <2>4 DEF OpenInv, c, k
    <3> QED BY <1>8, <2>2, <3>1
  <2> QED BY <2>2, <2>3, <2>4
<1>11. \A i \in 1..source.read : PlaceOf(attempt.predictions, more, rest, i) = Stream[i]
  <2> SUFFICES ASSUME NEW i \in 1..source.read
               PROVE  PlaceOf(attempt.predictions, more, rest, i) = Stream[i]
    OBVIOUS
  <2>1. i \in 1..(p + k + f)
    BY <1>r
  <2>2. PlaceOf(attempt.predictions, more, rest, i)
        = PlaceOf(attempt.predictions, old, source.features, i)
    BY <1>3, <1>6, <1>f, <2>1, HeadMoves DEF p, k, f, more, rest
  <2> QED BY <2>2 DEF Stream
<1>12. \A i \in 1..Len(more) : more[i].used.gen <= row.gen
  <2> SUFFICES ASSUME NEW i \in 1..Len(more) PROVE more[i].used.gen <= row.gen
    OBVIOUS
  <2> DEFINE j == p + i
  <2>1. j \in 1..source.read /\ ~(j <= p) /\ j <= p + Len(more) /\ j - p = i
    BY <1>8, <1>r
  <2> HIDE DEF j
  <2>2. PlaceOf(attempt.predictions, more, rest, j) = more[i]
    <3>1. ~(j <= Len(attempt.predictions)) /\ j <= Len(attempt.predictions) + Len(more)
          /\ j - Len(attempt.predictions) = i
      BY <2>1 DEF p
    <3> QED BY <3>1 DEF PlaceOf
  <2>3. more[i] = Stream[j]
    BY <1>11, <2>1, <2>2
  <2>4. UsedLaw(Stream[j].used, DecidedRows)
    <3>1. Len(Stream) = source.read
      BY <1>f DEF Stream
    <3> QED BY <2>1, <3>1 DEF StreamInv, StreamLaw
  <2> DEFINE gen == Stream[j].used.gen
             d == Len(DecidedRows)
  <2>5. d \in Nat /\ gen \in 0..d
    <3>1. d \in Nat
      BY DecidedRowsType
    <3>2. (gen \in 1..d) \/ gen = 0
      BY <2>4 DEF UsedLaw
    <3> QED BY <3>1, <3>2
  <2>6. d <= n + 1 /\ row.gen = n + 1 /\ n + 1 \in Nat
    BY <1>5, <1>8
  <2>7. more[i].used.gen = gen
    BY <2>3
  <2> HIDE DEF gen, d
  <2> QED BY <2>5, <2>6, <2>7
<1>13. Adaptive' = Adaptive /\ AlphaAdapts' = AlphaAdapts
  BY <1>3 DEF Adaptive, AlphaAdapts
(* What remains is the same whether the batch is full or not.             *)
<1>14. SUFFICES /\ attempt' \in Attempt /\ Booked(attempt')
                /\ batcher'.open \in {NoBatch} \cup [items : Seq(Snapshot), row : Row]
                /\ SameDecisions(rows, DecidedRows')
                /\ OpenInv'
                /\ source.read = Len(attempt'.predictions) + Len(batcher'.open.items)
                                 + Len(rest)
                /\ \A i \in 1..source.read :
                     PlaceOf(attempt'.predictions, batcher'.open.items, rest, i)
                     = Stream[i]
  <2> HIDE DEF first, old, open
  <2>1. batcher'.ema = ema /\ batcher'.controller = c
        /\ batcher' = [ema |-> ema, controller |-> c, open |-> batcher'.open]
    BY <1>2
  <2>2. LoopTypes'
    <3>1. signal' \in Observation
      BY <1>5 DEF Observation
    <3>2. batcher' \in [ema : Int, controller : Controller,
                        open : {NoBatch} \cup [items : Seq(Snapshot), row : Row]]
      BY <1>5, <1>14, <2>1
    <3> QED BY <1>3, <1>6, <1>7, <1>14, <3>1, <3>2 DEF LoopTypes
  <2>3. /\ DecisionLaw(Adaptive, DecidedRows') /\ CounterLaw(DecidedRows', c)
        /\ LastTarget(DecidedRows') = c.size /\ Len(DecidedRows') = Len(rows)
        /\ EmaBefore(DecidedRows', Len(DecidedRows') + 1) = ema
    <3>1. Len(rows) \in Nat /\ Len(rows) > 0
      BY <1>8
    <3> QED BY <1>5, <1>14, <3>1, SameDecisionsKeep
  <2>4. DecidedInv'
    <3>1. (Len(DecidedRows') > 0) = TRUE
      BY <1>8, <2>3
    <3>2. signal' = [value |-> ema, gen |-> Len(DecidedRows'), available |-> Len(DecidedRows') > 0]
      BY <1>5, <2>3, <3>1
    <3> QED BY <1>13, <2>1, <2>3, <3>2 DEF DecidedInv
  <2>5. Stream' = Stream
    BY <1>7, <1>14 DEF Stream
  <2>6. StreamLaw(AlphaAdapts, Stream, DecidedRows')
    <3>1. /\ Len(DecidedRows) \in Nat /\ Len(DecidedRows') \in Nat /\ Len(DecidedRows) <= Len(DecidedRows')
          /\ \A g \in 1..Len(DecidedRows) : g \in 1..Len(rows)
      BY <1>5, <1>6, <2>3, DecidedRowsType
    <3>2. \A g \in 1..Len(DecidedRows) : DecidedRows'[g].ema = DecidedRows[g].ema
      BY <1>5, <1>14, <3>1 DEF SameDecisions
    <3> QED BY <3>1, <3>2, UsedLater DEF StreamInv
  <2>7. StreamInv'
    BY <1>7, <1>13, <1>14, <2>5, <2>6 DEF StreamInv
  <2> QED BY <1>14, <2>2, <2>4, <2>7
<1>15. CASE Len(more) = c.size
  <2> DEFINE w == attempt'
             size == Len(more)
             done == Counted(row, size, FALSE)
             no == FALSE
  <2>1. w = Written(open, FALSE) /\ batcher'.open = NoBatch /\ no \in BOOLEAN
        /\ open = [items |-> more, row |-> row]
    BY <1>2, <1>15
  <2> HIDE DEF w, no, open, size
  <2>s. size \in Nat /\ size > 0 /\ size = Len(more) /\ size = k + 1 /\ size \in Int
    BY <1>8, <1>10 DEF size
  <2>2. /\ w \in Attempt /\ w.rows = Append(attempt.rows, done) /\ done \in Row
        /\ Len(w.predictions) = p + size /\ Wrote(w.predictions, attempt.predictions, more, row)
    <3>1. w = Written(open, no) /\ Len(more) > 0
      BY <2>1, <2>s DEF no
    <3>2. /\ w \in Attempt /\ w.rows = Append(attempt.rows, Counted(row, Len(more), no))
          /\ Counted(row, Len(more), no) \in Row
          /\ Wrote(w.predictions, attempt.predictions, more, row)
      <4>1. /\ attempt \in Attempt /\ more \in Seq(Snapshot) /\ Len(more) > 0 /\ row \in Row
            /\ no \in BOOLEAN /\ open = [items |-> more, row |-> row] /\ w = Written(open, no)
        BY <1>5, <1>6, <1>8, <2>1, <3>1
      <4>2. WrittenAs(w, more, row, no)
        BY <4>1, BatchWritten
      <4> QED BY <4>2 DEF WrittenAs
    <3>3. w.rows = Append(attempt.rows, done) /\ done \in Row
      BY <3>2, <2>s DEF no
    <3>4. Len(w.predictions) = p + size
      BY <3>2, <2>s DEF Wrote, p
    <3> QED BY <3>2, <3>3, <3>4
  <2>3. Booked(w)
    <3>1. w = Written(open, no) /\ Len(more) > 0 /\ row.gen = Len(attempt.rows) + 1
      BY <1>5, <2>1, <2>s DEF no, n
    <3> QED BY <1>5, <1>6, <1>8, <1>12, <2>1, <3>1, BatchBooked
  <2>4. /\ done.gen = row.gen /\ done.occupied = row.occupied /\ done.ema = row.ema
        /\ done.target = row.target /\ done.count = size /\ done.tail = FALSE
    <3>1. /\ Counted(row, size, no).gen = row.gen /\ Counted(row, size, no).occupied = row.occupied
          /\ Counted(row, size, no).ema = row.ema /\ Counted(row, size, no).target = row.target
          /\ Counted(row, size, no).count = size /\ Counted(row, size, no).tail = no
      BY <1>5, <2>1, <2>s, CountedFacts
    <3> QED BY <3>1 DEF no
  <2> HIDE DEF done
  <2>5. /\ DecidedRows' = w.rows /\ Len(w.rows) = n + 1
        /\ w.rows[n + 1] = done /\ rows[n + 1] = row
        /\ \A g \in 1..n : w.rows[g] = attempt.rows[g] /\ rows[g] = attempt.rows[g]
    <3>1. DecidedRows' = w.rows
      BY <2>1, <2>2 DEF DecidedRows, w
    <3>2. \A x \in Row : /\ Len(Append(attempt.rows, x)) = n + 1 /\ Append(attempt.rows, x)[n + 1] = x
                         /\ \A g \in 1..n : Append(attempt.rows, x)[g] = attempt.rows[g]
      BY <1>6, AppendProperties DEF n
    <3>3. rows = Append(attempt.rows, row) /\ row \in Row /\ w.rows = Append(attempt.rows, done) /\ done \in Row
      BY <1>5, <1>e, <2>2
    <3>4. Len(w.rows) = n + 1 /\ w.rows[n + 1] = done /\ \A g \in 1..n : w.rows[g] = attempt.rows[g]
      <4> DEFINE all == Append(attempt.rows, done)
      <4>1. Len(all) = n + 1 /\ all[n + 1] = done /\ \A g \in 1..n : all[g] = attempt.rows[g]
        BY <3>2, <3>3
      <4>2. w.rows = all
        BY <3>3
      <4> HIDE DEF all
      <4> QED BY <4>1, <4>2
    <3>5. rows[n + 1] = row /\ \A g \in 1..n : rows[g] = attempt.rows[g]
      BY <3>2, <3>3, Zenon
    <3> QED BY <3>1, <3>4, <3>5
  <2>6. SameDecisions(rows, DecidedRows')
    <3>1. ASSUME NEW g \in 1..(n + 1)
          PROVE  /\ w.rows[g].gen = rows[g].gen /\ w.rows[g].occupied = rows[g].occupied
                 /\ w.rows[g].ema = rows[g].ema /\ w.rows[g].target = rows[g].target
      <4>1. CASE g \in 1..n
        <5>1. w.rows[g] = rows[g]
          BY <2>5, <4>1
        <5> QED BY <5>1
      <4>2. CASE g = n + 1
        <5>1. w.rows[g] = done /\ rows[g] = row
          BY <2>5, <4>2
        <5> QED BY <2>4, <5>1
      <4>3. g \in 1..n \/ g = n + 1
        BY <1>8
      <4> QED BY <4>1, <4>2, <4>3
    <3> QED BY <1>5, <2>5, <3>1 DEF SameDecisions
  <2>7. OpenInv'
    <3>1. ASSUME NEW g \in 1..(n + 1)
          PROVE  w.rows[g].count = w.rows[g].target /\ ~w.rows[g].tail
      <4>1. CASE g \in 1..n
        BY <2>5, <4>1 DEF OpenInv, n
      <4>2. CASE g = n + 1
        <5>1. w.rows[g] = done
          BY <2>5, <4>2
        <5>2. size = c.size
          BY <1>15, <2>s
        <5> QED BY <1>5, <2>4, <5>1, <5>2
      <4>3. g \in 1..n \/ g = n + 1
        BY <1>8
      <4> QED BY <4>1, <4>2, <4>3
    <3> QED BY <2>1, <2>5, <3>1 DEF OpenInv, w
  <2>8. batcher'.open.items = <<>> /\ Len(<<>>) = 0
    BY <2>1 DEF NoBatch
  <2>9. source.read = Len(w.predictions) + 0 + Len(rest)
    BY <1>8, <1>r, <2>2, <2>s
  <2>10. ASSUME NEW i \in 1..source.read
         PROVE  PlaceOf(w.predictions, <<>>, rest, i) = Stream[i]
    <3>1. i \in Nat /\ i > 0
      BY <1>f
    <3>2. PlaceOf(w.predictions, <<>>, rest, i)
          = PlaceOf(attempt.predictions, more, rest, i)
      <4> DEFINE q == w.predictions
      <4>1. Wrote(q, attempt.predictions, more, row)
        BY <2>2
      <4> HIDE DEF q
      <4>2. PlaceOf(q, <<>>, rest, i) = PlaceOf(attempt.predictions, more, rest, i)
        BY <1>6, <1>8, <3>1, <4>1, BatchMoves
      <4> QED BY <4>2 DEF q
    <3> QED BY <1>11, <3>2
  <2> QED BY <2>1, <2>2, <2>3, <2>6, <2>7, <2>8, <2>9, <2>10 DEF w
<1>16. CASE Len(more) # c.size
  <2>1. attempt' = attempt /\ batcher'.open = open /\ batcher'.controller = c
    BY <1>2, <1>16
  <2>2. open # NoBatch /\ open.items = more /\ open.row = row /\ open \in [items : Seq(Snapshot), row : Row]
    <3>1. more # <<>>
      BY <1>10
    <3> QED BY <1>5, <1>8, <3>1 DEF NoBatch
  <2> HIDE DEF open
  <2>3. DecidedRows' = rows
    BY <1>e, <2>1, <2>2 DEF DecidedRows
  <2>4. SameDecisions(rows, DecidedRows')
    BY <2>3 DEF SameDecisions
  <2>5. OpenInv'
    <3>1. 0 < Len(more) /\ Len(more) < c.size
      BY <1>10, <1>16
    <3> QED BY <2>1, <2>2, <3>1 DEF OpenInv
  <2>6. source.read = Len(attempt'.predictions) + Len(batcher'.open.items) + Len(rest)
    <3>1. source.read = p + Len(more) + Len(rest)
      BY <1>8, <1>r
    <3> QED BY <2>1, <2>2, <3>1 DEF p
  <2> QED BY <1>6, <1>11, <2>1, <2>2, <2>4, <2>5, <2>6
<1> QED BY <1>15, <1>16

(* The files of a run that fit its decisions and its stream replay.       *)
TailLaw(rows) ==
  \A g \in 1..Len(rows) :
    /\ rows[g].count <= rows[g].target
    /\ (rows[g].count < rows[g].target) = rows[g].tail
    /\ rows[g].tail => g = Len(rows)

TailsOf(rows) == {g \in 1..Len(rows) : rows[g].tail}

HasStream(predictions, s) ==
  Len(predictions) = Len(s) /\ \A i \in 1..Len(s) : Core(predictions[i]) = s[i]

LEMMA AlphaReplays ==
  ASSUME NEW a \in Attempt, NEW s, StreamLaw(AlphaAdapts, s, a.rows), HasStream(a.predictions, s)
  PROVE  \A i \in 1..Len(a.predictions) : AlphaAt(a)[i] = a.predictions[i].alpha
<1> DEFINE m == Len(a.predictions)
           T == {i \in 0..m : AlphaAt(a)[i] = AlphaBefore(s, i + 1)}
<1>1. m \in Nat
  BY DEF Attempt
<1>2. 0 \in T
  BY <1>1, AlphaUnfolds DEF AlphaBefore
<1>h. Len(s) = m /\ \A i \in 1..m : Core(a.predictions[i]) = s[i]
  BY DEF HasStream
<1> HIDE DEF m
<1>3. ASSUME NEW i \in 0..(m - 1), i \in T PROVE i + 1 \in T
  <2>1. i + 1 \in 1..m /\ i + 1 \in 0..m /\ (i + 1) - 1 = i /\ ((i + 1) + 1) - 1 = i + 1 /\ (i + 1) + 1 # 1
    BY <1>1
  <2>2. s[i + 1].used = a.predictions[i + 1].used
    BY <1>h, <2>1 DEF Core
  <2>3. s[i + 1].alpha = AlphaNext(AlphaAdapts, AlphaBefore(s, i + 1), s[i + 1].used)
    BY <1>h, <2>1 DEF StreamLaw
  <2>4. AlphaAt(a)[i + 1] = AlphaNext(AlphaAdapts, AlphaAt(a)[i], a.predictions[i + 1].used)
    BY <2>1, AlphaUnfolds DEF m
  <2>5. AlphaBefore(s, (i + 1) + 1) = s[i + 1].alpha
    BY <2>1 DEF AlphaBefore
  <2> QED BY <1>3, <2>1, <2>2, <2>3, <2>4, <2>5
<1> HIDE DEF T
<1>4. \A i \in 0..m : i \in T
  BY <1>1, <1>2, <1>3, UpTo
<1>5. ASSUME NEW i \in 1..m PROVE AlphaAt(a)[i] = a.predictions[i].alpha
  <2>1. i \in 0..m /\ i + 1 # 1 /\ (i + 1) - 1 = i
    BY <1>1
  <2>2. AlphaAt(a)[i] = s[i].alpha
    BY <1>4, <2>1 DEF T, AlphaBefore
  <2> QED BY <1>h, <2>2 DEF Core
<1> QED BY <1>5 DEF m

LEMMA FilesReplay ==
  ASSUME NEW a \in Attempt, Len(a.predictions) = total, Booked(a),
         DecisionLaw(Adaptive, a.rows), NEW c, CounterLaw(a.rows, c),
         a.actions = c.actions, a.changes = c.changes,
         TailLaw(a.rows), a.tails = Cardinality(TailsOf(a.rows)),
         NEW s, StreamLaw(AlphaAdapts, s, a.rows), HasStream(a.predictions, s)
  PROVE  Replays(a)
<1> DEFINE n == Len(a.rows)
           m == Len(a.predictions)
<1>1. /\ n \in Nat /\ m \in Nat /\ DOMAIN a.rows = 1..n /\ DOMAIN a.predictions = 1..m
      /\ \A g \in 1..n : a.rows[g] \in Row
  BY DEF Attempt
<1>2. /\ OffsetAt(a)[n] = m
      /\ \A g \in 1..n :
           /\ 0 < a.rows[g].count
           /\ OffsetAt(a)[g - 1] \in Nat /\ OffsetAt(a)[g] \in 0..m
           /\ \A i \in (OffsetAt(a)[g - 1] + 1)..OffsetAt(a)[g] :
                a.predictions[i].batch = g /\ a.predictions[i].size = a.rows[g].count
      /\ \A i \in 1..m : a.predictions[i].used.gen <= a.predictions[i].batch
  BY DEF Booked
<1>3. ASSUME NEW g \in 1..n
      PROVE  /\ a.rows[g].gen = g /\ a.rows[g].ema = EmaAt(a)[g] /\ a.rows[g].target = TargetAt(a)[g]
             /\ 0 < a.rows[g].count /\ a.rows[g].count <= a.rows[g].target
             /\ (a.rows[g].count < a.rows[g].target) = a.rows[g].tail /\ (a.rows[g].tail => g = n)
             /\ OffsetAt(a)[g] <= m
             /\ \A i \in (OffsetAt(a)[g - 1] + 1)..OffsetAt(a)[g] :
                  a.predictions[i].batch = g /\ a.predictions[i].size = a.rows[g].count
  <2>1. a.rows[g].gen = g
    BY DEF DecisionLaw
  <2>2. a.rows[g].ema = EmaAt(a)[g]
    BY DecisionsReplay
  <2>3. a.rows[g].target = TargetAt(a)[g]
    <3>1. g \in 0..n /\ g + 1 # 1 /\ (g + 1) - 1 = g
      BY <1>1
    <3> QED BY <3>1, DecisionsReplay DEF TargetBefore
  <2>4. /\ a.rows[g].count <= a.rows[g].target
        /\ (a.rows[g].count < a.rows[g].target) = a.rows[g].tail /\ (a.rows[g].tail => g = n)
    BY DEF TailLaw
  <2>5. OffsetAt(a)[g] <= m
    <3>1. \A x \in 0..m : x <= m
      BY <1>1
    <3> QED BY <1>2, <3>1
  <2> QED BY <1>2, <2>1, <2>2, <2>3, <2>4, <2>5
<1>4. RowsReplay(a)
  BY <1>1, <1>3, Zenon DEF RowsReplay
<1>5. CountersReplay(a)
  <2>1. Moves(a) = MovesOf(a.rows)
    BY MovesReplay
  <2>2. a.actions = Len(MovesOf(a.rows)) /\ a.changes = Cardinality(TurnsOf(MovesOf(a.rows)))
    BY DEF CounterLaw
  <2> QED BY <1>1, <2>1, <2>2 DEF CountersReplay, TurnsOf, TailsOf
<1>6. ASSUME NEW i \in 1..m
      PROVE  /\ a.predictions[i].seq = i /\ a.predictions[i].alpha = AlphaAt(a)[i]
             /\ i > 1 => a.predictions[i - 1].used.gen <= a.predictions[i].used.gen
             /\ IF a.predictions[i].used.available
                THEN /\ a.predictions[i].used.gen \in 1..n
                     /\ a.predictions[i].used.value = a.rows[a.predictions[i].used.gen].ema
                     /\ a.predictions[i].used.gen <= a.predictions[i].batch
                ELSE a.predictions[i].used.gen = 0 /\ a.predictions[i].used.value = 0
  <2>1. Len(s) = m /\ \A j \in 1..m : s[j].seq = a.predictions[j].seq /\ s[j].used = a.predictions[j].used
    <3>1. Len(s) = m /\ \A j \in 1..m : Core(a.predictions[j]) = s[j]
      BY DEF HasStream
    <3>2. \A j \in 1..m : /\ Core(a.predictions[j]).seq = a.predictions[j].seq
                         /\ Core(a.predictions[j]).used = a.predictions[j].used
      BY DEF Core
    <3> QED BY <3>1, <3>2
  <2>2. s[i].seq = i /\ UsedLaw(s[i].used, a.rows) /\ (i > 1 => s[i - 1].used.gen <= s[i].used.gen)
    BY <2>1 DEF StreamLaw
  <2>3. i > 1 => i - 1 \in 1..m
    BY <1>1
  <2>4. i > 1 => a.predictions[i - 1].used.gen <= a.predictions[i].used.gen
    BY <2>1, <2>2, <2>3
  <2>5. UsedLaw(a.predictions[i].used, a.rows) /\ a.predictions[i].seq = i
    BY <2>1, <2>2
  <2>6. a.predictions[i].alpha = AlphaAt(a)[i]
    BY AlphaReplays
  <2> QED BY <1>2, <2>4, <2>5, <2>6 DEF UsedLaw
<1>7. PredictionsReplay(a)
  BY <1>1, <1>6, Zenon DEF PredictionsReplay
<1> QED BY <1>2, <1>4, <1>5, <1>7 DEF Replays

LEMMA FlushFits ==
  ASSUME LoopTypes, DecidedInv, OpenInv, StreamInv, Booked(attempt),
         source.read = total, source.features = <<>>,
         NEW w, w = IF batcher.open # NoBatch THEN Written(batcher.open, TRUE) ELSE attempt
  PROVE  /\ w \in Attempt /\ Booked(w) /\ SameDecisions(DecidedRows, w.rows) /\ TailLaw(w.rows)
         /\ TailsOf(w.rows) = IF batcher.open # NoBatch THEN {Len(w.rows)} ELSE {}
         /\ HasStream(w.predictions, Stream) /\ Len(Stream) = total
<1> DEFINE n == Len(attempt.rows)
           p == Len(attempt.predictions)
           items == batcher.open.items
           k == Len(items)
           row == batcher.open.row
<1>1. /\ attempt \in Attempt /\ attempt.rows \in Seq(Row) /\ attempt.predictions \in Seq(Prediction)
      /\ items \in Seq(Snapshot) /\ total \in Nat
  BY DecidedRowsType DEF LoopTypes, Attempt
<1>2. n \in Nat /\ p \in Nat /\ k \in Nat
  <2>1. n \in Nat
    BY <1>1, LenProperties
  <2>2. p \in Nat
    BY <1>1, LenProperties
  <2>3. k \in Nat
    BY <1>1, LenProperties
  <2> QED BY <2>1, <2>2, <2>3
<1>3. total = p + k
  <2>1. total = p + k + Len(source.features) /\ Len(<<>>) = 0
    BY DEF StreamInv
  <2> HIDE DEF p, k
  <2> QED BY <1>2, <2>1
<1>4. Len(Stream) = total /\ \A i \in 1..total : Stream[i] = PlaceOf(attempt.predictions, items, <<>>, i)
  BY <1>1 DEF Stream
<1>5. CASE batcher.open = NoBatch
  <2>1. w = attempt /\ k = 0 /\ DecidedRows = attempt.rows
    BY <1>5 DEF NoBatch, DecidedRows
  <2>2. total = p
    BY <1>2, <1>3, <2>1
  <2>3. ASSUME NEW i \in 1..total PROVE Core(attempt.predictions[i]) = Stream[i]
    <3>1. i <= p
      BY <1>2, <2>2
    <3> QED BY <1>4, <3>1 DEF PlaceOf
  <2>4. HasStream(w.predictions, Stream)
    BY <1>4, <2>1, <2>2, <2>3 DEF HasStream
  <2>5. ASSUME NEW g \in 1..n
        PROVE  /\ attempt.rows[g].count <= attempt.rows[g].target
               /\ (attempt.rows[g].count < attempt.rows[g].target) = attempt.rows[g].tail
               /\ ~attempt.rows[g].tail
    <3>1. attempt.rows[g].count = attempt.rows[g].target /\ ~attempt.rows[g].tail
      BY DEF OpenInv
    <3>2. attempt.rows[g] \in Row
      BY <1>1
    <3>3. attempt.rows[g].count \in Int /\ attempt.rows[g].tail = FALSE
      BY <3>1, <3>2 DEF Row
    <3>4. \A x \in Int : x <= x /\ (x < x) = FALSE
      OBVIOUS
    <3> QED BY <3>1, <3>3, <3>4, Zenon
  <2>6. TailLaw(w.rows) /\ TailsOf(w.rows) = {}
    BY <2>1, <2>5 DEF TailLaw, TailsOf
  <2>7. SameDecisions(DecidedRows, w.rows)
    BY <2>1 DEF SameDecisions
  <2> QED BY <1>1, <1>4, <1>5, <2>1, <2>4, <2>6, <2>7
<1>6. CASE batcher.open # NoBatch
  <2> DEFINE open == batcher.open
             yes == TRUE
             done == Counted(row, k, TRUE)
  <2>1. /\ open = [items |-> items, row |-> row] /\ row \in Row /\ yes \in BOOLEAN
        /\ w = Written(open, yes) /\ DecidedRows = Append(attempt.rows, row)
    BY <1>6, DecidedRowsType DEF DecidedRows
  <2>2. 0 < k /\ k < batcher.controller.size
    BY <1>6 DEF OpenInv
  <2>3. /\ Len(DecidedRows) = n + 1 /\ DecidedRows[n + 1] = row /\ DecidedRows \in Seq(Row)
        /\ \A g \in 1..n : DecidedRows[g] = attempt.rows[g]
    BY <1>1, <2>1, AppendProperties
  <2>4. row.gen = n + 1 /\ row.target = batcher.controller.size
    <3>1. n + 1 \in 1..Len(DecidedRows) /\ (n + 1) + 1 # 1 /\ ((n + 1) + 1) - 1 = n + 1
      BY <1>2, <2>3
    <3>2. row.gen = n + 1
      BY <2>3, <3>1 DEF DecidedInv, DecisionLaw
    <3>3. LastTarget(DecidedRows) = row.target
      BY <2>3, <3>1 DEF LastTarget, TargetBefore
    <3> QED BY <3>2, <3>3 DEF DecidedInv
  <2> HIDE DEF n, p, k, items, row, open, yes, done
  <2>5. Len(items) > 0 /\ k = Len(items)
    BY <2>2, <1>2 DEF k
  <2>6. \A i \in 1..Len(items) : items[i].used.gen <= row.gen
    <3> SUFFICES ASSUME NEW i \in 1..k PROVE items[i].used.gen <= row.gen
      BY DEF k
    <3> DEFINE j == p + i
    <3>1. j \in 1..total /\ ~(j <= p) /\ j <= p + k /\ j - p = i
      BY <1>2, <1>3
    <3> HIDE DEF j
    <3>2. PlaceOf(attempt.predictions, items, <<>>, j) = items[i]
      BY <3>1 DEF PlaceOf, p, k
    <3>3. Stream[j] = items[i]
      BY <1>4, <3>1, <3>2
    <3>4. UsedLaw(items[i].used, DecidedRows)
      BY <1>4, <3>1, <3>3 DEF StreamInv, StreamLaw
    <3> DEFINE gen == items[i].used.gen
    <3>5. gen \in 1..(n + 1) \/ gen = 0
      BY <2>3, <3>4 DEF UsedLaw
    <3> HIDE DEF gen
    <3>6. gen <= n + 1
      BY <1>2, <3>5
    <3> QED BY <2>4, <3>6 DEF gen
  <2>7. /\ w \in Attempt /\ w.rows = Append(attempt.rows, Counted(row, Len(items), yes))
        /\ Counted(row, Len(items), yes) \in Row /\ Wrote(w.predictions, attempt.predictions, items, row)
    <3>1. /\ attempt \in Attempt /\ items \in Seq(Snapshot) /\ Len(items) > 0 /\ row \in Row
          /\ yes \in BOOLEAN /\ open = [items |-> items, row |-> row] /\ w = Written(open, yes)
      BY <1>1, <2>1, <2>5
    <3>2. WrittenAs(w, items, row, yes)
      BY <3>1, BatchWritten
    <3> QED BY <3>2 DEF WrittenAs
  <2>8. Booked(w)
    <3>1. row.gen = Len(attempt.rows) + 1
      BY <2>4 DEF n
    <3> QED BY <1>1, <2>1, <2>5, <2>6, <3>1, BatchBooked
  <2>9. /\ done.gen = row.gen /\ done.occupied = row.occupied /\ done.ema = row.ema
        /\ done.target = row.target /\ done.count = k /\ done.tail = TRUE
    <3>1. k \in Int /\ TRUE \in BOOLEAN
      BY <1>2
    <3> QED BY <2>1, <3>1, CountedFacts DEF done
  <2>10. Len(w.rows) = n + 1 /\ w.rows[n + 1] = done /\ \A g \in 1..n : w.rows[g] = attempt.rows[g]
    <3>1. w.rows = Append(attempt.rows, done) /\ done \in Row
      BY <2>5, <2>7 DEF done, yes
    <3> DEFINE all == Append(attempt.rows, done)
    <3>2. Len(all) = n + 1 /\ all[n + 1] = done /\ \A g \in 1..n : all[g] = attempt.rows[g]
      BY <1>1, <3>1, AppendProperties DEF n
    <3> HIDE DEF all
    <3>3. w.rows = all
      BY <3>1 DEF all
    <3> QED BY <3>2, <3>3
  <2>11. ASSUME NEW g \in 1..(n + 1)
         PROVE  /\ w.rows[g].gen = DecidedRows[g].gen /\ w.rows[g].occupied = DecidedRows[g].occupied
                /\ w.rows[g].ema = DecidedRows[g].ema /\ w.rows[g].target = DecidedRows[g].target
                /\ w.rows[g].count <= w.rows[g].target
                /\ (w.rows[g].count < w.rows[g].target) = w.rows[g].tail
                /\ w.rows[g].tail <=> g = n + 1
    <3>1. CASE g \in 1..n
      <4>1. w.rows[g] = DecidedRows[g] /\ w.rows[g] = attempt.rows[g] /\ w.rows[g] \in Row
        <5>1. w.rows[g] = attempt.rows[g] /\ DecidedRows[g] = attempt.rows[g]
          BY <2>3, <2>10, <3>1
        <5>2. attempt.rows[g] \in Row
          BY <1>1, <3>1 DEF n
        <5> QED BY <5>1, <5>2
      <4>2. w.rows[g].count = w.rows[g].target /\ ~w.rows[g].tail
        BY <3>1, <4>1 DEF OpenInv, n
      <4>3. w.rows[g].count \in Int /\ w.rows[g].tail = FALSE
        BY <4>1, <4>2 DEF Row
      <4>4. g # n + 1
        BY <1>2, <3>1
      <4>5. /\ w.rows[g].count <= w.rows[g].target
            /\ (w.rows[g].count < w.rows[g].target) = FALSE
        <5>1. \A x \in Int : x <= x /\ (x < x) = FALSE
          OBVIOUS
        <5> QED BY <4>2, <4>3, <5>1, Zenon
      <4> QED BY <4>1, <4>3, <4>4, <4>5
    <3>2. CASE g = n + 1
      <4>1. w.rows[g] = done /\ DecidedRows[g] = row
        BY <2>3, <2>10, <3>2
      <4>2. k < row.target /\ k \in Int /\ row.target \in Int
        BY <1>2, <2>1, <2>2, <2>4 DEF Row
      <4>3. k <= row.target /\ (k < row.target) = TRUE
        BY <4>2
      <4> QED BY <2>9, <3>2, <4>1, <4>3
    <3>3. g \in 1..n \/ g = n + 1
      BY <1>2
    <3> QED BY <3>1, <3>2, <3>3
  <2>12. SameDecisions(DecidedRows, w.rows) /\ TailLaw(w.rows)
    BY <2>3, <2>10, <2>11 DEF SameDecisions, TailLaw
  <2>13. TailsOf(w.rows) = {n + 1}
    <3>1. n + 1 \in 1..(n + 1)
      BY <1>2
    <3> QED BY <2>10, <2>11, <3>1 DEF TailsOf
  <2>14. HasStream(w.predictions, Stream)
    <3> DEFINE q == w.predictions
    <3>1. Wrote(q, attempt.predictions, items, row)
      BY <2>7
    <3> HIDE DEF q
    <3>2. Len(q) = total
      BY <1>3, <3>1 DEF Wrote, p, k
    <3>3. ASSUME NEW i \in 1..total PROVE Core(q[i]) = Stream[i]
      <4>1. i \in Nat /\ i > 0 /\ i <= Len(q)
        BY <1>1, <3>2
      <4>2. PlaceOf(q, <<>>, <<>>, i) = PlaceOf(attempt.predictions, items, <<>>, i)
        BY <1>1, <3>1, <4>1, BatchMoves
      <4>3. PlaceOf(q, <<>>, <<>>, i) = Core(q[i])
        BY <4>1 DEF PlaceOf
      <4> QED BY <1>4, <4>2, <4>3
    <3> QED BY <1>4, <3>2, <3>3 DEF HasStream, q
  <2> QED BY <1>4, <1>6, <2>7, <2>8, <2>10, <2>12, <2>13, <2>14
<1> QED BY <1>5, <1>6

LEMMA CompleteReplays ==
  ASSUME LoopTypes, DecidedInv, OpenInv, StreamInv, Booked(attempt), Complete
  PROVE  attempt' \in Attempt /\ Replays(attempt')
<1> DEFINE tail == batcher.open # NoBatch
           w == IF tail THEN Written(batcher.open, TRUE) ELSE attempt
           c == batcher.controller
           b == attempt'
<1>1. /\ b = [w EXCEPT !.actions = c.actions, !.changes = c.changes,
                       !.tails = IF tail THEN 1 ELSE 0]
      /\ source.read = total /\ source.features = <<>>
  BY DEF Complete
<1>2. /\ w \in Attempt /\ Booked(w) /\ SameDecisions(DecidedRows, w.rows) /\ TailLaw(w.rows)
      /\ TailsOf(w.rows) = (IF tail THEN {Len(w.rows)} ELSE {})
      /\ HasStream(w.predictions, Stream) /\ Len(Stream) = total
  <2> DEFINE files == w
  <2>1. files = IF batcher.open # NoBatch THEN Written(batcher.open, TRUE) ELSE attempt
    OBVIOUS
  <2> HIDE DEF files
  <2>2. /\ files \in Attempt /\ Booked(files) /\ SameDecisions(DecidedRows, files.rows) /\ TailLaw(files.rows)
        /\ TailsOf(files.rows) = (IF batcher.open # NoBatch THEN {Len(files.rows)} ELSE {})
        /\ HasStream(files.predictions, Stream) /\ Len(Stream) = total
    BY <1>1, <2>1, FlushFits
  <2> QED BY <2>2 DEF files
<1>3. c \in Controller /\ c.actions \in Nat /\ c.changes \in Nat
  BY DEF LoopTypes, Controller
<1> HIDE DEF w, c, b
<1>4. /\ b \in Attempt /\ b.rows = w.rows /\ b.predictions = w.predictions
      /\ b.actions = c.actions /\ b.changes = c.changes /\ b.tails = IF tail THEN 1 ELSE 0
  <2>1. (IF tail THEN 1 ELSE 0) \in Nat
    OBVIOUS
  <2> HIDE DEF tail
  <2>2. w = [predictions |-> w.predictions, rows |-> w.rows, actions |-> w.actions,
             changes |-> w.changes, tails |-> w.tails]
        /\ w.rows \in Seq(Row) /\ w.predictions \in Seq(Prediction)
    BY <1>2 DEF Attempt
  <2>3. b = [predictions |-> w.predictions, rows |-> w.rows, actions |-> c.actions,
             changes |-> c.changes, tails |-> IF tail THEN 1 ELSE 0]
    BY <1>1, <2>2
  <2> QED BY <1>3, <2>1, <2>2, <2>3 DEF Attempt
<1>5. DecisionLaw(Adaptive, b.rows) /\ CounterLaw(b.rows, c)
  <2>1. DecisionLaw(Adaptive, DecidedRows) /\ CounterLaw(DecidedRows, c) /\ Len(DecidedRows) \in Nat
    BY DecidedRowsType DEF DecidedInv, c
  <2>2. DecisionLaw(Adaptive, w.rows) /\ MovesOf(w.rows) = MovesOf(DecidedRows)
    BY <1>2, <2>1, SameDecisionsLaw
  <2>3. CounterLaw(w.rows, c)
    BY <2>1, <2>2 DEF CounterLaw
  <2> QED BY <1>4, <2>2, <2>3
<1>6. StreamLaw(AlphaAdapts, Stream, b.rows)
  <2>1. /\ Len(DecidedRows) \in Nat /\ Len(b.rows) \in Nat /\ Len(DecidedRows) <= Len(b.rows)
        /\ \A g \in 1..Len(DecidedRows) : b.rows[g].ema = DecidedRows[g].ema
    <3>1. /\ Len(w.rows) = Len(DecidedRows)
          /\ \A g \in 1..Len(DecidedRows) : w.rows[g].ema = DecidedRows[g].ema
      BY <1>2 DEF SameDecisions
    <3>2. Len(DecidedRows) \in Nat
      BY DecidedRowsType
    <3>3. \A x \in Nat : x <= x
      OBVIOUS
    <3> QED BY <1>4, <3>1, <3>2, <3>3, Zenon
  <2> QED BY <2>1, UsedLater DEF StreamInv
<1>7. b.tails = Cardinality(TailsOf(b.rows)) /\ TailLaw(b.rows) /\ HasStream(b.predictions, Stream)
      /\ Len(b.predictions) = total
  <2>1. Cardinality({Len(w.rows)}) = 1 /\ Cardinality({}) = 0
    BY FS_Singleton, FS_EmptySet
  <2>2. b.tails = Cardinality(TailsOf(b.rows))
    BY <1>2, <1>4, <2>1
  <2> QED BY <1>2, <1>4, <2>2 DEF HasStream
<1>8. Booked(b)
  <2>1. Len(w.rows) \in Nat /\ Len(w.rows) <= Len(b.rows)
        /\ \A g \in 1..Len(w.rows) : b.rows[g].count = w.rows[g].count
    BY <1>2, <1>4 DEF Attempt
  <2>2. \A g \in 0..Len(w.rows) : OffsetAt(b)[g] = OffsetAt(w)[g]
    BY <1>2, <1>4, <2>1, OffsetsSame
  <2>3. \A g \in 1..Len(w.rows) : g \in 0..Len(w.rows) /\ g - 1 \in 0..Len(w.rows)
    BY <2>1
  <2>4. Len(w.rows) \in 0..Len(w.rows)
    BY <2>1
  <2>5. /\ OffsetAt(w)[Len(w.rows)] = Len(w.predictions)
        /\ \A g \in 1..Len(w.rows) :
             /\ 0 < w.rows[g].count
             /\ OffsetAt(w)[g - 1] \in Nat /\ OffsetAt(w)[g] \in 0..Len(w.predictions)
             /\ \A i \in (OffsetAt(w)[g - 1] + 1)..OffsetAt(w)[g] :
                  w.predictions[i].batch = g /\ w.predictions[i].size = w.rows[g].count
        /\ \A i \in 1..Len(w.predictions) : w.predictions[i].used.gen <= w.predictions[i].batch
    BY <1>2 DEF Booked
  <2>6. /\ OffsetAt(b)[Len(w.rows)] = OffsetAt(w)[Len(w.rows)]
        /\ \A g \in 1..Len(w.rows) : OffsetAt(b)[g - 1] = OffsetAt(w)[g - 1] /\ OffsetAt(b)[g] = OffsetAt(w)[g]
    BY <2>2, <2>3, <2>4
  <2>7. \A g \in 1..Len(w.rows) :
          /\ 0 < w.rows[g].count
          /\ OffsetAt(b)[g - 1] \in Nat /\ OffsetAt(b)[g] \in 0..Len(w.predictions)
          /\ \A i \in (OffsetAt(b)[g - 1] + 1)..OffsetAt(b)[g] :
               w.predictions[i].batch = g /\ w.predictions[i].size = w.rows[g].count
    <3> SUFFICES ASSUME NEW g \in 1..Len(w.rows)
                 PROVE  /\ 0 < w.rows[g].count
                        /\ OffsetAt(b)[g - 1] \in Nat /\ OffsetAt(b)[g] \in 0..Len(w.predictions)
                        /\ \A i \in (OffsetAt(b)[g - 1] + 1)..OffsetAt(b)[g] :
                             w.predictions[i].batch = g /\ w.predictions[i].size = w.rows[g].count
      OBVIOUS
    <3>1. OffsetAt(b)[g - 1] = OffsetAt(w)[g - 1] /\ OffsetAt(b)[g] = OffsetAt(w)[g]
      BY <2>6
    <3> QED BY <2>5, <3>1
  <2> QED BY <1>4, <2>5, <2>6, <2>7 DEF Booked
<1>9. Replays(b)
  BY <1>4, <1>5, <1>6, <1>7, <1>8, FilesReplay
<1> QED BY <1>4, <1>9 DEF b
-----------------------------------------------------------------------------
(* A changed file no longer replays.                                      *)
LEMMA ReplayFacts ==
  ASSUME NEW a \in Attempt, Replays(a)
  PROVE  /\ Len(a.predictions) = total /\ OffsetAt(a)[Len(a.rows)] = Len(a.predictions)
         /\ \A g \in 1..Len(a.rows) :
              /\ a.rows[g] \in Row /\ a.rows[g].gen = g /\ a.rows[g].target = TargetAt(a)[g]
              /\ 0 < a.rows[g].count /\ a.rows[g].count <= a.rows[g].target
              /\ (a.rows[g].count < a.rows[g].target) = a.rows[g].tail
              /\ a.rows[g].tail => g = Len(a.rows)
         /\ \A i \in 1..Len(a.predictions) : a.predictions[i] \in Prediction /\ a.predictions[i].seq = i
         /\ a.actions = Len(Moves(a)) /\ a.changes = Cardinality(TurnsOf(Moves(a)))
<1>1. /\ a.rows \in Seq(Row) /\ a.predictions \in Seq(Prediction)
      /\ DOMAIN a.rows = 1..Len(a.rows) /\ DOMAIN a.predictions = 1..Len(a.predictions)
  BY DEF Attempt
<1>2. RowsReplay(a) /\ CountersReplay(a) /\ PredictionsReplay(a)
      /\ Len(a.predictions) = total /\ OffsetAt(a)[Len(a.rows)] = Len(a.predictions)
  BY DEF Replays
<1>3. \A g \in 1..Len(a.rows) :
        /\ a.rows[g].gen = g /\ a.rows[g].target = TargetAt(a)[g]
        /\ 0 < a.rows[g].count /\ a.rows[g].count <= a.rows[g].target
        /\ (a.rows[g].count < a.rows[g].target) = a.rows[g].tail
        /\ a.rows[g].tail => g = Len(a.rows)
  BY <1>1, <1>2 DEF RowsReplay
<1>4. \A i \in 1..Len(a.predictions) : a.predictions[i].seq = i
  BY <1>1, <1>2 DEF PredictionsReplay
<1>5. a.actions = Len(Moves(a)) /\ a.changes = Cardinality(TurnsOf(Moves(a)))
  BY <1>2 DEF CountersReplay, TurnsOf
<1>6. (\A g \in 1..Len(a.rows) : a.rows[g] \in Row)
      /\ \A i \in 1..Len(a.predictions) : a.predictions[i] \in Prediction
  BY <1>1
<1> QED BY <1>2, <1>3, <1>4, <1>5, <1>6

LEMMA TargetsSame ==
  ASSUME NEW a \in Attempt, NEW b \in Attempt, NEW n \in Nat, n <= Len(a.rows), n <= Len(b.rows),
         \A g \in 1..n : b.rows[g].ema = a.rows[g].ema
  PROVE  \A g \in 0..n : TargetAt(b)[g] = TargetAt(a)[g]
<1> DEFINE T == {g \in 0..n : TargetAt(b)[g] = TargetAt(a)[g]}
<1>1. Len(a.rows) \in Nat /\ Len(b.rows) \in Nat
  BY DEF Attempt
<1>2. 0 \in T
  BY TargetUnfolds
<1>3. ASSUME NEW g \in 0..(n - 1), g \in T PROVE g + 1 \in T
  <2>1. /\ g + 1 \in 1..n /\ g + 1 \in 1..Len(a.rows) /\ g + 1 \in 1..Len(b.rows) /\ g + 1 \in 0..n
        /\ (g + 1) - 1 = g
    BY <1>1
  <2>2. TargetAt(a)[g + 1] = ReplayTarget(TargetAt(a)[g], a.rows[g + 1].ema)
    BY <2>1, TargetUnfolds
  <2>3. TargetAt(b)[g + 1] = ReplayTarget(TargetAt(b)[g], b.rows[g + 1].ema)
    BY <2>1, TargetUnfolds
  <2> QED BY <1>3, <2>1, <2>2, <2>3
<1> HIDE DEF T
<1>4. \A g \in 0..n : g \in T
  BY <1>2, <1>3, UpTo
<1> QED BY <1>4 DEF T

LEMMA WithoutIndexIs ==
  ASSUME NEW S, NEW s \in Seq(S), NEW i \in 1..Len(s)
  PROVE  /\ WithoutIndex(s, i) \in Seq(S) /\ Len(WithoutIndex(s, i)) = Len(s) - 1
         /\ \A j \in 1..(i - 1) : WithoutIndex(s, i)[j] = s[j]
         /\ i < Len(s) => WithoutIndex(s, i)[i] = s[i + 1]
<1> DEFINE n == Len(s)
           left == SubSeq(s, 1, i - 1)
           right == SubSeq(s, i + 1, n)
<1>1. n \in Nat /\ i \in Nat /\ i >= 1 /\ i <= n
  OBVIOUS
<1>2. /\ left \in Seq(S) /\ Len(left) = i - 1
      /\ \A j \in 1..(i - 1) : left[j] = s[j]
  <2>1. \A j \in 1..(i - 1) : j \in 1..n
    BY <1>1
  <2>2. \A j \in 1..(i - 1) : s[j] \in S
    BY <2>1
  <2>3. (IF 1 <= i - 1 THEN (i - 1) - 1 + 1 ELSE 0) = i - 1 /\ 1 \in Int /\ i - 1 \in Int
    BY <1>1
  <2> HIDE DEF n
  <2> QED BY <2>1, <2>2, <2>3
<1>3. right \in Seq(S) /\ Len(right) = n - i /\ (i < n => right[1] = s[i + 1])
  <2>1. \A j \in (i + 1)..n : s[j] \in S
    BY <1>1
  <2> QED BY <1>1, <2>1
<1> HIDE DEF left, right, n
<1>4. WithoutIndex(s, i) = left \o right
  BY DEF WithoutIndex, left, right, n
<1>5. /\ left \o right \in Seq(S) /\ Len(left \o right) = Len(left) + Len(right)
      /\ \A j \in 1..Len(left) + Len(right) :
           (left \o right)[j] = IF j <= Len(left) THEN left[j] ELSE right[j - Len(left)]
  BY <1>2, <1>3, ConcatProperties
<1>6. Len(left \o right) = n - 1
  BY <1>1, <1>2, <1>3, <1>5
<1>7. ASSUME NEW j \in 1..(i - 1) PROVE (left \o right)[j] = s[j]
  <2>1. j \in 1..Len(left) + Len(right) /\ j <= Len(left)
    BY <1>1, <1>2, <1>3
  <2> QED BY <1>2, <1>5, <2>1
<1>8. ASSUME i < n PROVE (left \o right)[i] = s[i + 1]
  <2>1. i \in 1..Len(left) + Len(right) /\ ~(i <= Len(left)) /\ i - Len(left) = 1
    BY <1>1, <1>2, <1>3, <1>8
  <2>2. (left \o right)[i] = right[1]
    BY <1>5, <2>1
  <2> QED BY <1>3, <1>8, <2>2
<1> QED BY <1>4, <1>5, <1>6, <1>7, <1>8 DEF n

LEMMA LostRowSeen ==
  ASSUME NEW a \in Attempt, Replays(a), NEW i \in 1..Len(a.rows),
         NEW b, b = [a EXCEPT !.rows = WithoutIndex(@, i)], Replays(b)
  PROVE  FALSE
<1> DEFINE n == Len(a.rows)
           rows == WithoutIndex(a.rows, i)
<1>1. a.rows \in Seq(Row) /\ a.predictions \in Seq(Prediction) /\ n \in Nat
  BY DEF Attempt
<1>2. /\ rows \in Seq(Row) /\ Len(rows) = n - 1
      /\ \A j \in 1..(i - 1) : rows[j] = a.rows[j]
      /\ i < n => rows[i] = a.rows[i + 1]
  BY <1>1, WithoutIndexIs
<1> HIDE DEF rows
<1>3. b \in Attempt /\ b.rows = rows /\ b.predictions = a.predictions
  <2>1. b = [a EXCEPT !.rows = rows]
    BY DEF rows
  <2> QED BY <1>2, <2>1 DEF Attempt
<1>4. CASE i < n
  <2>1. i \in 1..(n - 1) /\ i + 1 \in 1..n
    BY <1>1, <1>4
  <2>2. b.rows[i].gen = i
    BY <1>2, <1>3, <2>1, ReplayFacts
  <2>3. a.rows[i + 1].gen = i + 1
    BY <2>1, ReplayFacts
  <2>4. i + 1 # i
    BY <1>1
  <2> QED BY <1>2, <1>3, <1>4, <2>2, <2>3, <2>4
<1>5. CASE ~(i < n)
  <2>1. i = n /\ n \in 1..n /\ n - 1 \in Nat /\ n - 1 \in 0..(n - 1) /\ n - 1 <= n
    BY <1>1, <1>5
  <2>2. \A g \in 1..(n - 1) : b.rows[g].count = a.rows[g].count
    BY <1>2, <1>3, <2>1
  <2>3. OffsetAt(b)[n - 1] = OffsetAt(a)[n - 1]
    <3> DEFINE k == n - 1
    <3>1. k \in Nat /\ k <= Len(a.rows) /\ k <= Len(b.rows) /\ k \in 0..k
      BY <1>2, <1>3, <2>1
    <3>2. \A g \in 1..k : b.rows[g].count = a.rows[g].count
      BY <2>2
    <3> HIDE DEF k
    <3>3. OffsetAt(b)[k] = OffsetAt(a)[k]
      BY <1>3, <3>1, <3>2, OffsetsSame
    <3> QED BY <3>3 DEF k
  <2>4. OffsetAt(a)[n] = OffsetAt(a)[n - 1] + a.rows[n].count
    BY <2>1, OffsetUnfolds
  <2>5. OffsetAt(a)[n] = Len(a.predictions) /\ a.rows[n].count > 0 /\ a.rows[n].count \in Int
    BY <2>1, ReplayFacts DEF Row
  <2>6. OffsetAt(b)[n - 1] = Len(a.predictions)
    BY <1>2, <1>3, ReplayFacts
  <2> DEFINE m == Len(a.predictions)
             x == a.rows[n].count
  <2>7. m \in Nat /\ x \in Int /\ x > 0 /\ m = m + x
    BY <1>1, <2>3, <2>4, <2>5, <2>6
  <2> HIDE DEF m, x
  <2> QED BY <2>7
<1> QED BY <1>4, <1>5

LEMMA LostPredictionSeen ==
  ASSUME NEW a \in Attempt, Replays(a), NEW i \in 1..Len(a.predictions),
         NEW b, b = [a EXCEPT !.predictions = WithoutIndex(@, i)], Replays(b)
  PROVE  FALSE
<1> DEFINE predictions == WithoutIndex(a.predictions, i)
<1>1. a.predictions \in Seq(Prediction) /\ Len(a.predictions) \in Nat
  BY DEF Attempt
<1>2. predictions \in Seq(Prediction) /\ Len(predictions) = Len(a.predictions) - 1
  BY <1>1, WithoutIndexIs
<1>3. b.predictions = predictions
  BY DEF Attempt
<1> HIDE DEF predictions
<1>4. Len(b.predictions) = total /\ Len(a.predictions) = total
  BY DEF Replays
<1> QED BY <1>1, <1>2, <1>3, <1>4

LEMMA SwappedSeen ==
  ASSUME NEW a \in Attempt, Replays(a), NEW b, Replays(b),
         \/ \E i \in 1..(Len(a.rows) - 1) : b = [a EXCEPT !.rows = Swapped(@, i)]
         \/ \E i \in 1..(Len(a.predictions) - 1) : b = [a EXCEPT !.predictions = Swapped(@, i)]
  PROVE  FALSE
<1>1. a.rows \in Seq(Row) /\ a.predictions \in Seq(Prediction)
  BY DEF Attempt
<1>2. ASSUME NEW S, NEW s \in Seq(S), NEW i \in 1..(Len(s) - 1)
      PROVE  /\ Swapped(s, i) \in Seq(S) /\ Swapped(s, i)[i] = s[i + 1] /\ Len(Swapped(s, i)) = Len(s)
             /\ i \in 1..Len(s) /\ i + 1 \in 1..Len(s) /\ i + 1 # i
  BY DEF Swapped
<1>3. ASSUME NEW i \in 1..(Len(a.rows) - 1), b = [a EXCEPT !.rows = Swapped(@, i)] PROVE FALSE
  <2> DEFINE rows == Swapped(a.rows, i)
  <2>1. rows \in Seq(Row) /\ rows[i] = a.rows[i + 1] /\ Len(rows) = Len(a.rows)
        /\ i \in 1..Len(a.rows) /\ i + 1 \in 1..Len(a.rows) /\ i + 1 # i
    BY <1>1, <1>2
  <2>2. b = [a EXCEPT !.rows = rows]
    BY <1>3
  <2> HIDE DEF rows
  <2>3. b \in Attempt /\ b.rows = rows
    BY <2>1, <2>2 DEF Attempt
  <2>4. b.rows[i].gen = i /\ a.rows[i + 1].gen = i + 1
    BY <2>1, <2>3, ReplayFacts
  <2> QED BY <2>1, <2>3, <2>4
<1>4. ASSUME NEW i \in 1..(Len(a.predictions) - 1), b = [a EXCEPT !.predictions = Swapped(@, i)] PROVE FALSE
  <2> DEFINE predictions == Swapped(a.predictions, i)
  <2>1. predictions \in Seq(Prediction) /\ predictions[i] = a.predictions[i + 1]
        /\ Len(predictions) = Len(a.predictions)
        /\ i \in 1..Len(a.predictions) /\ i + 1 \in 1..Len(a.predictions) /\ i + 1 # i
    BY <1>1, <1>2
  <2>2. b = [a EXCEPT !.predictions = predictions]
    BY <1>4
  <2> HIDE DEF predictions
  <2>3. b \in Attempt /\ b.predictions = predictions
    BY <2>1, <2>2 DEF Attempt
  <2>4. b.predictions[i].seq = i /\ a.predictions[i + 1].seq = i + 1
    BY <2>1, <2>3, ReplayFacts
  <2> QED BY <2>1, <2>3, <2>4
<1> QED BY <1>3, <1>4

MisbookedAt(a, b, i, t) ==
  \/ i < Len(a.rows) /\ b = [a EXCEPT !.rows = Recounted(@, i)]
  \/ b = [a EXCEPT !.rows[i].target = t]
  \/ b = [a EXCEPT !.rows[i].tail = ~@]

LEMMA MisbookedSeen ==
  ASSUME NEW a \in Attempt, Replays(a), NEW b, b # a, Replays(b),
         NEW i \in 1..Len(a.rows), NEW t \in BatchSize, MisbookedAt(a, b, i, t)
  PROVE  FALSE
<1> DEFINE n == Len(a.rows)
           row == a.rows[i]
<1>1. a.rows \in Seq(Row) /\ n \in Nat /\ row \in Row
  BY DEF Attempt
<1>2. /\ row.target = TargetAt(a)[i] /\ 0 < row.count /\ row.count <= row.target
      /\ (row.count < row.target) = row.tail /\ (row.tail => i = n)
      /\ row.count \in Int /\ row.target \in Int /\ row.tail \in BOOLEAN
  BY <1>1, ReplayFacts DEF Row
<1>3. ASSUME i < n, b = [a EXCEPT !.rows = Recounted(@, i)] PROVE FALSE
  <2> DEFINE rows == Recounted(a.rows, i)
             next == a.rows[i + 1]
             x == row.count + 1
             y == next.count - 1
             more == [row EXCEPT !.count = x]
             less == [next EXCEPT !.count = y]
  <2>1. next \in Row /\ i + 1 \in 1..n /\ i + 1 # i
    BY <1>1, <1>3
  <2>2. x \in Int /\ y \in Int
    BY <1>2, <2>1 DEF Row
  <2>3. rows = [a.rows EXCEPT ![i] = more, ![i + 1] = less]
    BY <1>1, <2>1 DEF Recounted
  <2>4. b = [a EXCEPT !.rows = rows]
    BY <1>3
  <2> HIDE DEF x, y, next
  <2>5. more \in Row /\ less \in Row /\ more.count = x /\ more.target = row.target
    <3>1. more \in Row /\ more.count = x /\ more.target = row.target
      BY <1>1, <2>2 DEF Row
    <3>2. less \in Row
      BY <2>1, <2>2 DEF Row
    <3> QED BY <3>1, <3>2
  <2> HIDE DEF more, less, rows
  <2>6. rows \in Seq(Row) /\ Len(rows) = n /\ rows[i] = more
    BY <1>1, <2>1, <2>3, <2>5
  <2>a. b \in Attempt /\ b.rows = rows
    BY <2>4, <2>6 DEF Attempt
  <2>b. more.count <= more.target
    BY <2>6, <2>a, ReplayFacts
  <2>7. row.count = row.target
    BY <1>1, <1>2, <1>3
  <2>8. row.count + 1 <= row.count /\ row.count \in Int
    BY <1>2, <2>5, <2>7, <2>b DEF x
  <2> QED BY <2>8
<1>4. ASSUME b = [a EXCEPT !.rows[i].target = t] PROVE FALSE
  <2> DEFINE new == [row EXCEPT !.target = t]
             rows == [a.rows EXCEPT ![i] = new]
  <2>1. t \in Int
    BY BatchBoundsAssumption DEF BatchSize
  <2>2. new \in Row /\ new.target = t /\ new.ema = row.ema
    BY <1>1, <2>1 DEF Row
  <2>3. b = [a EXCEPT !.rows = rows]
    BY <1>1, <1>4
  <2>4. t # row.target
    <3>1. ASSUME t = row.target PROVE FALSE
      <4>1. new = row
        BY <1>1, <3>1 DEF Row
      <4>2. rows = a.rows
        BY <1>1, <4>1
      <4>3. [a EXCEPT !.rows = a.rows] = a
        BY DEF Attempt
      <4> QED BY <2>3, <4>2, <4>3
    <3> QED BY <3>1
  <2> HIDE DEF new
  <2>5. rows \in Seq(Row) /\ Len(rows) = n /\ rows[i] = new /\ \A g \in 1..n : g # i => rows[g] = a.rows[g]
    BY <1>1, <2>2
  <2> HIDE DEF rows
  <2>6. b \in Attempt /\ b.rows = rows
    BY <2>3, <2>5 DEF Attempt
  <2>7. \A g \in 1..n : b.rows[g].ema = a.rows[g].ema
    BY <2>2, <2>5, <2>6
  <2>8. TargetAt(b)[i] = TargetAt(a)[i]
    <3>1. n <= Len(a.rows) /\ n <= Len(b.rows) /\ i \in 0..n
      BY <1>1, <2>5, <2>6
    <3> QED BY <1>1, <2>6, <2>7, <3>1, TargetsSame
  <2>9. new.target = TargetAt(b)[i]
    BY <2>5, <2>6, ReplayFacts
  <2> QED BY <1>2, <2>2, <2>4, <2>8, <2>9
<1>5. ASSUME b = [a EXCEPT !.rows[i].tail = ~@] PROVE FALSE
  <2> DEFINE new == [row EXCEPT !.tail = ~@]
             rows == [a.rows EXCEPT ![i] = new]
  <2>1. new \in Row /\ new.target = row.target /\ new.count = row.count /\ new.tail = ~row.tail
    BY <1>1 DEF Row
  <2>2. b = [a EXCEPT !.rows = rows]
    BY <1>1, <1>5
  <2> HIDE DEF new
  <2>3. rows \in Seq(Row) /\ Len(rows) = n /\ rows[i] = new
    BY <1>1, <2>1
  <2> HIDE DEF rows
  <2>4. b \in Attempt /\ b.rows = rows
    BY <2>2, <2>3 DEF Attempt
  <2>5. (new.count < new.target) = new.tail
    BY <2>3, <2>4, ReplayFacts
  <2>6. row.tail = ~row.tail
    BY <1>2, <2>1, <2>5
  <2> QED BY <1>2, <2>6
<1> QED BY <1>3, <1>4, <1>5 DEF MisbookedAt

LEMMA CountersSeen ==
  ASSUME NEW a \in Attempt, Replays(a), NEW b, Replays(b),
         b = [a EXCEPT !.changes = @ + 1] \/ b = [a EXCEPT !.actions = @ + 1]
  PROVE  FALSE
<1>1. /\ a.rows \in Seq(Row) /\ a.actions \in Nat /\ a.changes \in Nat
      /\ Len(a.rows) \in Nat /\ DOMAIN a.rows = 1..Len(a.rows)
  BY DEF Attempt
<1>2. b \in Attempt /\ b.rows = a.rows /\ (b.changes = a.changes + 1 \/ b.actions = a.actions + 1)
  <2> DEFINE x == a.changes + 1
             y == a.actions + 1
  <2>1. x \in Nat /\ y \in Nat
    BY <1>1
  <2>2. b = [a EXCEPT !.changes = x] \/ b = [a EXCEPT !.actions = y]
    OBVIOUS
  <2> HIDE DEF x, y
  <2>3. CASE b = [a EXCEPT !.changes = x]
    <3>1. b \in Attempt /\ b.rows = a.rows /\ b.changes = x
      BY <2>1, <2>3 DEF Attempt
    <3> QED BY <3>1 DEF x
  <2>4. CASE b = [a EXCEPT !.actions = y]
    <3>1. b \in Attempt /\ b.rows = a.rows /\ b.actions = y
      BY <2>1, <2>4 DEF Attempt
    <3> QED BY <3>1 DEF y
  <2> QED BY <2>2, <2>3, <2>4
<1>3. Moves(b) = Moves(a)
  <2> DEFINE n == Len(a.rows)
             before0 == [g \in DOMAIN a.rows |-> TargetAt(a)[g] - TargetAt(a)[g - 1]]
             after0 == [g \in DOMAIN b.rows |-> TargetAt(b)[g] - TargetAt(b)[g - 1]]
  <2>1. \A g \in 0..n : TargetAt(b)[g] = TargetAt(a)[g]
    <3>1. n \in Nat /\ n <= Len(a.rows) /\ n <= Len(b.rows)
      BY <1>1, <1>2
    <3> QED BY <1>2, <3>1, TargetsSame
  <2>2. \A g \in 1..n : g \in 0..n /\ g - 1 \in 0..n
    BY <1>1
  <2>3. \A g \in 1..n : TargetAt(b)[g] - TargetAt(b)[g - 1] = TargetAt(a)[g] - TargetAt(a)[g - 1]
    BY <2>1, <2>2
  <2>4. after0 = before0
    BY <1>1, <1>2, <2>3
  <2>5. Moves(a) = Picked(before0, {g \in DOMAIN before0 : before0[g] # 0})
    BY DEF Moves
  <2>6. Moves(b) = Picked(after0, {g \in DOMAIN after0 : after0[g] # 0})
    BY DEF Moves
  <2> HIDE DEF before0, after0
  <2> QED BY <2>4, <2>5, <2>6
<1>4. b.actions = a.actions /\ b.changes = a.changes
  BY <1>2, <1>3, ReplayFacts
<1> QED BY <1>1, <1>2, <1>4

LEMMA DamageSeen ==
  ASSUME NEW a \in Attempt, Replays(a),
         NEW b \in (LostRecord(a) \cup Reordered(a) \cup Misbooked(a)) \ {a}
  PROVE  ~Replays(b)
<1> SUFFICES ASSUME Replays(b) PROVE FALSE
  OBVIOUS
<1>1. DOMAIN a.rows = 1..Len(a.rows) /\ DOMAIN a.predictions = 1..Len(a.predictions) /\ b # a
      /\ Len(a.rows) \in Nat
  BY DEF Attempt
<1>2. CASE b \in LostRecord(a)
  <2>1. \/ \E i \in 1..Len(a.rows) : b = [a EXCEPT !.rows = WithoutIndex(@, i)]
        \/ \E i \in 1..Len(a.predictions) : b = [a EXCEPT !.predictions = WithoutIndex(@, i)]
    BY <1>1, <1>2 DEF LostRecord
  <2> QED BY <2>1, LostRowSeen, LostPredictionSeen
<1>3. CASE b \in Reordered(a)
  <2>1. \/ \E i \in 1..(Len(a.rows) - 1) : b = [a EXCEPT !.rows = Swapped(@, i)]
        \/ \E i \in 1..(Len(a.predictions) - 1) : b = [a EXCEPT !.predictions = Swapped(@, i)]
    BY <1>3 DEF Reordered
  <2> QED BY <2>1, SwappedSeen
<1>4. CASE b \in Misbooked(a)
  <2>1. \/ \E i \in 1..(Len(a.rows) - 1) :
             b = [a EXCEPT !.rows = Recounted(@, i)]
        \/ \E i \in 1..Len(a.rows), t \in BatchSize : b = [a EXCEPT !.rows[i].target = t]
        \/ \E i \in 1..Len(a.rows) : b = [a EXCEPT !.rows[i].tail = ~@]
        \/ b = [a EXCEPT !.changes = @ + 1] \/ b = [a EXCEPT !.actions = @ + 1]
    BY <1>1, <1>4 DEF Misbooked
  <2>2. BatchInitial \in BatchSize /\ \A i \in 1..(Len(a.rows) - 1) : i \in 1..Len(a.rows) /\ i < Len(a.rows)
    BY <1>1, BatchBoundsAssumption DEF BatchSize
  <2>3. CASE \E i \in 1..(Len(a.rows) - 1) : b = [a EXCEPT !.rows = Recounted(@, i)]
    <3>1. PICK i \in 1..Len(a.rows) : MisbookedAt(a, b, i, BatchInitial)
      BY <2>2, <2>3 DEF MisbookedAt
    <3> QED BY <1>1, <2>2, <3>1, MisbookedSeen
  <2>4. CASE \E i \in 1..Len(a.rows), t \in BatchSize : b = [a EXCEPT !.rows[i].target = t]
    <3>1. PICK i \in 1..Len(a.rows), t \in BatchSize : MisbookedAt(a, b, i, t)
      BY <2>4 DEF MisbookedAt
    <3> QED BY <1>1, <3>1, MisbookedSeen
  <2>5. CASE \E i \in 1..Len(a.rows) : b = [a EXCEPT !.rows[i].tail = ~@]
    <3>1. PICK i \in 1..Len(a.rows) : MisbookedAt(a, b, i, BatchInitial)
      BY <2>5 DEF MisbookedAt
    <3> QED BY <1>1, <2>2, <3>1, MisbookedSeen
  <2>6. CASE b = [a EXCEPT !.changes = @ + 1] \/ b = [a EXCEPT !.actions = @ + 1]
    BY <2>6, CountersSeen
  <2> QED BY <2>1, <2>3, <2>4, <2>5, <2>6
<1> QED BY <1>2, <1>3, <1>4
-----------------------------------------------------------------------------
(* While the engine runs, LoopInv; once it is done, whether its files      *)
(* replay says whether somebody changed them.                             *)
VerifyInv ==
  /\ engineState \in {"running", "completed", "failed"}
  /\ engineState = "running" => verdict = "none" /\ ~damaged
  /\ engineState = "completed" /\ ~damaged => attempt \in Attempt /\ Replays(attempt)
  /\ damaged => engineState = "completed" /\ ~Replays(attempt)
  /\ before # <<>> => engineState = "completed"
  /\ before # <<>> /\ ~damaged => before = <<attempt>>
  /\ replayed => before # <<>> /\ (damaged => before # <<attempt>>)
  /\ ReplayDecides

ReplayInv == LoopInv /\ VerifyInv

(* The mode and the number of events stay, so a replay is the same later. *)
TargetReplayed(adaptive, target, pressure) ==
  IF ~adaptive THEN target
  ELSE IF 10 * pressure > HighTenths * Unit /\ target > BatchMin
  THEN Larger(BatchMin, (target * ShrinkNum) \div ShrinkDen)
  ELSE IF 10 * pressure < LowTenths * Unit /\ target < BatchMax
  THEN Smaller(BatchMax, Larger(target + 1, (target * GrowNum) \div GrowDen))
  ELSE target

TargetsOf(adaptive, a) ==
  LET t[g \in 0..Len(a.rows)] ==
        IF g = 0 THEN BatchInitial ELSE TargetReplayed(adaptive, t[g - 1], a.rows[g].ema)
  IN  t

AlphasOf(adapts, a) ==
  LET x[i \in 0..Len(a.predictions)] ==
        IF i = 0 THEN AlphaInitial * Unit ELSE AlphaNext(adapts, x[i - 1], a.predictions[i].used)
  IN  x

LEMMA ReplaysLater ==
  ASSUME mode' = mode, total' = total
  PROVE  Replays(attempt)' <=> Replays(attempt')
<1> DEFINE steps == [g \in DOMAIN attempt'.rows |-> TargetAt(attempt')[g] - TargetAt(attempt')[g - 1]]
           later == [g \in DOMAIN attempt'.rows |-> TargetAt(attempt)'[g] - TargetAt(attempt)'[g - 1]]
<1>1. Adaptive' = Adaptive /\ AlphaAdapts' = AlphaAdapts
  BY DEF Adaptive, AlphaAdapts
<1>2. TargetAt(attempt)' = TargetAt(attempt')
  <2>1. TargetAt(attempt)' = TargetsOf(Adaptive', attempt')
    BY DEF TargetAt, TargetsOf, ReplayTarget, TargetReplayed
  <2>2. TargetAt(attempt') = TargetsOf(Adaptive, attempt')
    BY DEF TargetAt, TargetsOf, ReplayTarget, TargetReplayed
  <2> QED BY <1>1, <2>1, <2>2
<1>3. AlphaAt(attempt)' = AlphaAt(attempt')
  <2>1. AlphaAt(attempt)' = AlphasOf(AlphaAdapts', attempt')
    BY DEF AlphaAt, AlphasOf, AlphaNext, AlphaReplayed
  <2>2. AlphaAt(attempt') = AlphasOf(AlphaAdapts, attempt')
    BY DEF AlphaAt, AlphasOf, AlphaNext, AlphaReplayed
  <2> QED BY <1>1, <2>1, <2>2
<1>4. Moves(attempt)' = Moves(attempt')
  <2>1. Moves(attempt)' = Picked(later, {g \in DOMAIN later : later[g] # 0})
    BY DEF Moves
  <2>2. Moves(attempt') = Picked(steps, {g \in DOMAIN steps : steps[g] # 0})
    BY DEF Moves
  <2>3. later = steps
    BY <1>2
  <2> HIDE DEF later, steps
  <2> QED BY <2>1, <2>2, <2>3
<1>5. RowsReplay(attempt)' <=> RowsReplay(attempt')
  BY <1>2 DEF RowsReplay
<1>6. CountersReplay(attempt)' <=> CountersReplay(attempt')
  BY <1>4 DEF CountersReplay
<1>7. PredictionsReplay(attempt)' <=> PredictionsReplay(attempt')
  BY <1>3 DEF PredictionsReplay
<1> QED BY <1>5, <1>6, <1>7 DEF Replays

LEMMA ReplayStays ==
  ASSUME ReplayInv, UNCHANGED replayVars
  PROVE  ReplayInv'
<1>1. /\ mode' = mode /\ total' = total /\ source' = source /\ signal' = signal
      /\ batcher' = batcher /\ attempt' = attempt /\ engineState' = engineState /\ damaged' = damaged
      /\ before' = before /\ replayed' = replayed /\ verdict' = verdict
  BY DEF replayVars, engineVars, verifyVars
<1>2. Replays(attempt)' <=> Replays(attempt)
  BY <1>1, ReplaysLater
<1>3. VerifyInv'
  BY <1>1, <1>2 DEF ReplayInv, VerifyInv, ReplayDecides
<1>4. LoopInv'
  <2> SUFFICES ASSUME engineState = "running"
               PROVE  LoopTypes' /\ DecidedInv' /\ OpenInv' /\ StreamInv' /\ Booked(attempt)'
    BY <1>1 DEF LoopInv
  <2>1. LoopTypes /\ DecidedInv /\ OpenInv /\ StreamInv /\ Booked(attempt)
    BY DEF ReplayInv, LoopInv
  <2>2. DecidedRows' = DecidedRows /\ Stream' = Stream
    BY <1>1 DEF DecidedRows, Stream
  <2>3. Adaptive' = Adaptive /\ AlphaAdapts' = AlphaAdapts
    BY <1>1 DEF Adaptive, AlphaAdapts
  <2>4. LoopTypes'
    BY <1>1, <2>1 DEF LoopTypes
  <2>5. DecidedInv'
    BY <1>1, <2>1, <2>2, <2>3 DEF DecidedInv
  <2>6. OpenInv' /\ Booked(attempt)'
    BY <1>1, <2>1 DEF OpenInv
  <2>7. StreamInv'
    BY <1>1, <2>1, <2>2, <2>3 DEF StreamInv
  <2> QED BY <2>4, <2>5, <2>6, <2>7
<1> QED BY <1>3, <1>4 DEF ReplayInv

LEMMA ReplayStep ==
  ASSUME ReplayInv, [Next]_vars
  PROVE  ReplayInv'
<1> USE DEF ReplayInv
<1>1. CASE Extract
  <2>1. /\ engineState = "running" /\ UNCHANGED <<mode, total, attempt, engineState, damaged, before, replayed, verdict>>
    BY <1>1 DEF Extract, verifyVars
  <2>2. LoopInv'
    BY <1>1, <2>1, ExtractKeeps DEF LoopInv
  <2>3. VerifyInv'
    BY <2>1 DEF VerifyInv, ReplayDecides
  <2> QED BY <2>2, <2>3
<1>2. CASE Batched
  <2>1. /\ engineState = "running" /\ UNCHANGED <<mode, total, engineState, damaged, before, replayed, verdict>>
    BY <1>2 DEF Batched, verifyVars
  <2>2. LoopInv'
    BY <1>2, <2>1, BatchedKeeps DEF LoopInv
  <2>3. VerifyInv'
    BY <2>1 DEF VerifyInv, ReplayDecides
  <2> QED BY <2>2, <2>3
<1>3. CASE Complete
  <2>1. /\ engineState = "running" /\ engineState' = "completed"
        /\ UNCHANGED <<mode, total, damaged, before, replayed, verdict>>
    BY <1>3 DEF Complete, verifyVars
  <2>2. attempt' \in Attempt /\ Replays(attempt)'
    BY <1>3, <2>1, CompleteReplays, ReplaysLater DEF LoopInv
  <2>3. VerifyInv'
    BY <2>1, <2>2 DEF VerifyInv, ReplayDecides
  <2>4. LoopInv'
    BY <2>1 DEF LoopInv
  <2> QED BY <2>3, <2>4
<1>4. CASE EngineStops
  <2>1. /\ engineState = "running" /\ engineState' = "failed"
        /\ UNCHANGED <<mode, total, attempt, damaged, before, replayed, verdict>>
    BY <1>4 DEF EngineStops, verifyVars
  <2> QED BY <2>1 DEF VerifyInv, ReplayDecides, LoopInv
<1>5. CASE Damage
  <2>1. /\ engineState = "completed" /\ verdict = "none" /\ ~damaged /\ damaged'
        /\ attempt' \in (LostRecord(attempt) \cup Reordered(attempt) \cup Misbooked(attempt)) \ {attempt}
        /\ UNCHANGED <<mode, total, engineState, before, replayed, verdict>>
    BY <1>5 DEF Damage, engineVars, verifyVars
  <2>2. attempt \in Attempt /\ Replays(attempt) /\ (before # <<>> => before = <<attempt>>)
    BY <2>1 DEF VerifyInv
  <2>3. ~Replays(attempt') /\ attempt' # attempt
    BY <2>1, <2>2, DamageSeen
  <2>4. ~Replays(attempt)'
    BY <2>1, <2>3, ReplaysLater
  <2>5. before # <<>> => before # <<attempt'>>
    BY <2>2, <2>3
  <2> QED BY <2>1, <2>4, <2>5 DEF VerifyInv, ReplayDecides, LoopInv
<1>6. ASSUME UNCHANGED <<engineVars, attempt, damaged>>
      PROVE  /\ (Replays(attempt)' <=> Replays(attempt)) /\ (engineState # "running" => LoopInv')
             /\ UNCHANGED <<engineState, attempt, damaged>>
  <2>1. mode' = mode /\ total' = total /\ attempt' = attempt /\ engineState' = engineState /\ damaged' = damaged
    BY <1>6 DEF engineVars
  <2> QED BY <2>1, ReplaysLater DEF LoopInv
<1>7. CASE NoReceipt
  <2>1. /\ engineState = "failed" /\ verdict' = "REJECTED" /\ UNCHANGED <<before, replayed>>
        /\ UNCHANGED <<engineVars, attempt, damaged>>
    BY <1>7 DEF NoReceipt
  <2> QED BY <1>6, <2>1 DEF VerifyInv, ReplayDecides
<1>8. CASE DigestBefore
  <2>1. /\ engineState = "completed" /\ verdict = "none" /\ before = <<>> /\ before' = <<attempt>>
        /\ UNCHANGED <<replayed, verdict>> /\ UNCHANGED <<engineVars, attempt, damaged>>
    BY <1>8 DEF DigestBefore
  <2> QED BY <1>6, <2>1 DEF VerifyInv, ReplayDecides
<1>9. CASE Replay
  <2>1. /\ before # <<>> /\ before' = before /\ verdict = "none"
        /\ IF Replays(attempt) THEN replayed' = TRUE /\ UNCHANGED verdict
           ELSE verdict' = "REJECTED" /\ UNCHANGED replayed
        /\ UNCHANGED <<engineVars, attempt, damaged>>
    BY <1>9 DEF Replay
  <2> QED BY <1>6, <2>1 DEF VerifyInv, ReplayDecides
<1>10. CASE DigestAfter
  <2>1. /\ replayed /\ verdict' = (IF before = <<attempt>> THEN "PASSED" ELSE "REJECTED")
        /\ UNCHANGED <<before, replayed>> /\ UNCHANGED <<engineVars, attempt, damaged>>
    BY <1>10 DEF DigestAfter
  <2> QED BY <1>6, <2>1 DEF VerifyInv, ReplayDecides
<1>11. CASE UNCHANGED replayVars
  BY <1>11, ReplayStays
<1>12. \/ Extract \/ Batched \/ Complete \/ EngineStops \/ Damage
       \/ NoReceipt \/ DigestBefore \/ Replay \/ DigestAfter \/ UNCHANGED replayVars
  BY DEF Next, ReplayNext, vars
<1> QED BY <1>1, <1>2, <1>3, <1>4, <1>5, <1>7, <1>8, <1>9, <1>10, <1>11, <1>12

(* verify passes an attempt exactly if the engine completed it and nobody *)
(* changed a file: tools/verify_engine_diagnostics.py, verify.            *)
THEOREM ReplayIsExact == Spec => []ReplayDecides
<1>1. Init => ReplayInv
  <2> SUFFICES ASSUME Init PROVE VerifyInv
    BY LoopInit DEF ReplayInv
  <2>1. engineState = "running" /\ damaged = FALSE /\ before = <<>> /\ replayed = FALSE /\ verdict = "none"
    BY DEF Init, ReplayInit
  <2> QED BY <2>1 DEF VerifyInv, ReplayDecides
<1>2. ReplayInv => ReplayDecides
  BY DEF ReplayInv, VerifyInv
<1> QED BY <1>1, <1>2, ReplayStep, PTL DEF Spec
-----------------------------------------------------------------------------
(* A file written by invocation k; the scored events must also be         *)
(* complete.                                                              *)
IsBy(file, k) == file # <<>> /\ file[1].by = k

Good(file, f, k) == IsBy(file, k) /\ (f = "scored" => file[1].rows = eventCount)

(* What an engine that succeeds leaves.                                   *)
Outputs == {"scored", "trace", "receipt"}

EngineStates == {"none", "creating", "opening", "writing", "receipting", "renaming",
                 "failed", "succeeded"}

(* Shapes; and what is to be promoted is promoted from an engine_out.     *)
RunnerTypes ==
  /\ runDir = [f \in RunFiles |-> runDir[f]]
  /\ engineOut # <<>> =>
       engineOut = <<engineOut[1]>> /\ engineOut[1] = [f \in EngineFiles |-> engineOut[1][f]]
  /\ engines \in [1..MaxRuns -> EngineStates]
  /\ runner = [k |-> runner.k, pc |-> runner.pc, code |-> runner.code, todo |-> runner.todo,
               child |-> runner.child]
  /\ runner.k \in 0..MaxRuns /\ runner.todo \in SUBSET EngineFiles
  /\ runner.pc \in {"returned", "dead"} \/ runner.k # 0
  /\ runner.pc \in {"promoting", "moving"} => engineOut # <<>>
  /\ runner.pc = "moving" => runner.child \in EngineFiles \ runner.todo

(* Without an overlap no engine but the latest is alive.                  *)
LoneEngine == ~overlapped => \A j \in 1..MaxRuns : j # runner.k => ~Alive(j)

Untainted == \/ runner.pc = "waiting"
             \/ ~overlapped /\ runner.code = 0 /\ runner.pc # "dead" /\ runner.k # 0

(* Failure records and pending receipts are of invocations so far; in the *)
(* run directory they are of earlier ones while the runner waits, and     *)
(* still after a success.                                                 *)
Bygone ==
  /\ \A j \in 1..MaxRuns : j > runner.k => engines[j] = "none"
  /\ \A f \in Unfinished :
       /\ runDir[f] # <<>> => runDir[f][1].by \in 0..runner.k
       /\ engineOut # <<>> /\ engineOut[1][f] # <<>> => engineOut[1][f][1].by \in 0..runner.k
       /\ Untainted /\ runDir[f] # <<>> => runDir[f][1].by < runner.k

(* While its runner waits, what the engine has done is in engine_out.     *)
EngineProgress ==
  ~overlapped /\ runner.pc = "waiting" =>
    LET k == runner.k
        s == engines[k]
    IN  /\ s \in {"opening", "writing", "receipting", "renaming", "succeeded"} =>
             engineOut # <<>> /\ engineOut[1]["failure"] = <<>>
        /\ s \in {"writing", "receipting", "renaming", "succeeded"} =>
             IsBy(engineOut[1]["scored"], k) /\ IsBy(engineOut[1]["trace"], k)
        /\ s \in {"receipting", "renaming", "succeeded"} =>
             Good(engineOut[1]["scored"], "scored", k)
        /\ s = "renaming" => IsBy(engineOut[1]["pending"], k)
        /\ s = "succeeded" => IsBy(engineOut[1]["receipt"], k) /\ engineOut[1]["pending"] = <<>>

(* After a success, where each file of this invocation is.                *)
Delivered(f) == Good(runDir[f], f, runner.k)
ToDeliver(f) == engineOut # <<>> /\ Good(engineOut[1][f], f, runner.k)
Underway == IF runner.pc = "moving" THEN runner.todo \cup {runner.child} ELSE runner.todo

SuccessProgress ==
  ~overlapped /\ runner.code = 0 /\ runner.pc \notin {"waiting", "dead"} =>
    /\ runner.k # 0 /\ engines[runner.k] = "succeeded"
    /\ runner.pc = "listing" =>
         /\ \A f \in Outputs : ToDeliver(f)
         /\ \A f \in Unfinished : engineOut[1][f] = <<>>
    /\ runner.pc \in {"promoting", "moving"} =>
         /\ Underway \subseteq Outputs
         /\ \A f \in Outputs : IF f \in Underway THEN ToDeliver(f) ELSE Delivered(f)
    /\ runner.pc \in {"predicting", "telemetry", "reporting", "returned"} =>
         \A f \in Outputs : Delivered(f)
    /\ runner.pc \in {"telemetry", "reporting", "returned"} => Delivered("predictions")
    /\ runner.pc \in {"reporting", "returned"} => Delivered("telemetry")
    /\ runner.pc = "returned" => Delivered("result")

RunnerInv == RunnerTypes /\ LoneEngine /\ Bygone /\ EngineProgress /\ SuccessProgress

SuccessIsOwn == (runner.pc = "returned" /\ runner.code = 0 /\ ~overlapped) => OwnFiles

LEMMA RunStart ==
  ASSUME NEW rows, NEW ids, NEW cadence, NEW n, NEW splits, RunInit(rows, ids, cadence, n, splits)
  PROVE  RunnerInv
<1>1. /\ runDir = [f \in RunFiles |-> <<>>] /\ engineOut = <<>>
      /\ engines = [k \in 1..MaxRuns |-> "none"]
      /\ runner = [k |-> 0, pc |-> "returned", code |-> -1, todo |-> {}, child |-> "none"]
  BY DEF RunInit, NoFiles
<1>2. RunnerTypes
  BY <1>1, RunnerAssumption DEF RunnerTypes, EngineStates
<1>3. Bygone
  BY <1>1 DEF Bygone, Untainted, Unfinished, RunFiles, EngineFiles
<1>4. LoneEngine /\ EngineProgress /\ SuccessProgress
  BY <1>1 DEF LoneEngine, Alive, EngineProgress, SuccessProgress
<1> QED BY <1>2, <1>3, <1>4 DEF RunnerInv

LEMMA InvokeKeeps == RunnerInv /\ Invoke => RunnerInv'
<1> SUFFICES ASSUME RunnerInv, Invoke PROVE RunnerInv'
  OBVIOUS
<1> DEFINE k == runner.k + 1
<1>1. /\ k \in 1..MaxRuns /\ k # 0 /\ runner.k # k
      /\ UNCHANGED <<runDir, engineOut>>
  BY RunnerAssumption DEF Invoke, RunnerInv, RunnerTypes
<1>a. ~overlapped' => ~overlapped /\ \A j \in 1..runner.k : ~Alive(j)
  BY Zenon DEF Invoke
<1>2. /\ runner' = [k |-> k, pc |-> runner'.pc, code |-> runner'.code, todo |-> {}, child |-> "none"]
      /\ runner'.pc \in {"returned", "listing"} => runner'.code # 0 /\ engines' = engines
      /\ runner'.pc = "waiting" => engines' = [engines EXCEPT ![k] = "creating"]
      /\ runner'.pc \in {"waiting", "returned", "listing"}
  BY DEF Invoke
<1>b. /\ runner.k \in Nat /\ \A j \in 1..MaxRuns : j > k => j > runner.k
      /\ \A by \in 0..runner.k : by \in 0..k /\ by < k
  BY RunnerAssumption DEF RunnerInv, RunnerTypes
<1> HIDE DEF k
<1>3. RunnerTypes'
  BY <1>1, <1>2 DEF RunnerInv, RunnerTypes, EngineStates
<1>4. LoneEngine'
  <2> SUFFICES ASSUME ~overlapped', NEW j \in 1..MaxRuns, j # k PROVE ~Alive(j)'
    BY <1>2 DEF LoneEngine
  <2>1. ~Alive(j)
    <3>1. CASE j = runner.k
      <4>1. runner.k \in 1..runner.k
        BY <3>1 DEF RunnerInv, RunnerTypes
      <4> QED BY <1>a, <3>1, <4>1
    <3>2. CASE j # runner.k
      BY <1>a, <3>2 DEF RunnerInv, LoneEngine
    <3> QED BY <3>1, <3>2
  <2> QED BY <1>2, <2>1 DEF Alive, RunnerInv, RunnerTypes
<1>5. Bygone'
  <2>1. ASSUME NEW j \in 1..MaxRuns, j > k PROVE engines'[j] = "none"
    <3>1. engines[j] = "none" /\ j # k
      BY <1>1, <1>b, <2>1 DEF RunnerInv, Bygone
    <3> QED BY <1>2, <3>1 DEF RunnerInv, RunnerTypes
  <2>2. ASSUME NEW f \in Unfinished
        PROVE  /\ runDir[f] # <<>> => runDir[f][1].by \in 0..k /\ runDir[f][1].by < k
               /\ engineOut # <<>> /\ engineOut[1][f] # <<>> => engineOut[1][f][1].by \in 0..k
    BY <1>b DEF RunnerInv, Bygone
  <2> QED BY <1>1, <1>2, <2>1, <2>2 DEF Bygone
<1>6. EngineProgress'
  <2> SUFFICES ASSUME runner'.pc = "waiting" PROVE EngineProgress'
    BY DEF EngineProgress
  <2>1. runner'.k = k
    BY <1>2
  <2>2. engines' = [engines EXCEPT ![k] = "creating"]
    BY <1>2
  <2>3. k \in DOMAIN engines
    BY <1>1 DEF RunnerInv, RunnerTypes
  <2>4. engines'[k] = "creating"
    BY <2>2, <2>3
  <2> QED BY <2>1, <2>4 DEF EngineProgress
<1>7. SuccessProgress'
  BY <1>2 DEF SuccessProgress
<1> QED BY <1>3, <1>4, <1>5, <1>6, <1>7 DEF RunnerInv

(* A living engine without an overlap is the latest, and no success has   *)
(* been seen.                                                             *)
LEMMA EngineIsLatest ==
  ASSUME RunnerInv, NEW j \in 1..MaxRuns, Alive(j), ~overlapped
  PROVE  j = runner.k /\ (runner.code = 0 => runner.pc \in {"waiting", "dead"})
BY DEF RunnerInv, LoneEngine, SuccessProgress, Alive

(* What an engine's steps have in common: it leaves what the run directory*)
(* has of failures alone, and signs its own with its number.              *)
LEMMA EngineFrame ==
  ASSUME RunnerInv, NEW j \in 1..MaxRuns, Alive(j), UNCHANGED <<runner, overlapped>>,
         NEW s \in EngineStates, engines' = [engines EXCEPT ![j] = s],
         \A f \in Unfinished :
           /\ runDir'[f] = runDir[f]
           /\ engineOut' # <<>> /\ engineOut'[1][f] # <<>> =>
                \/ engineOut # <<>> /\ engineOut'[1][f] = engineOut[1][f]
                \/ engineOut'[1][f] = <<[by |-> j]>>
  PROVE  LoneEngine' /\ Bygone' /\ SuccessProgress'
<1>1. LoneEngine'
  BY DEF RunnerInv, RunnerTypes, LoneEngine, Alive
<1>2. SuccessProgress'
  <2>1. ~overlapped => (runner.code = 0 => runner.pc \in {"waiting", "dead"})
    BY EngineIsLatest
  <2> QED BY <2>1 DEF SuccessProgress
<1>3. Bygone'
  <2>1. j \in 0..runner.k
    BY RunnerAssumption DEF RunnerInv, RunnerTypes, Bygone, Alive
  <2>2. \A i \in 1..MaxRuns : i > runner.k => engines'[i] = "none"
    BY <2>1, RunnerAssumption DEF RunnerInv, RunnerTypes, Bygone
  <2>3. ASSUME NEW f \in Unfinished, engineOut' # <<>>, engineOut'[1][f] # <<>>
        PROVE  engineOut'[1][f][1].by \in 0..runner.k
    BY <2>1, <2>3 DEF RunnerInv, Bygone
  <2>4. Untainted' = Untainted
    BY DEF Untainted
  <2> QED BY <2>2, <2>3, <2>4 DEF RunnerInv, Bygone
<1> QED BY <1>1, <1>2, <1>3

LEMMA EngineCreatesKeeps ==
  ASSUME RunnerInv, NEW j \in 1..MaxRuns, EngineCreates(j)
  PROVE  RunnerInv'
<1>1. /\ engines[j] = "creating" /\ Alive(j) /\ UNCHANGED <<runner, overlapped, runDir, eventCount>>
      /\ engines' = [engines EXCEPT ![j] = "opening"]
      /\ engineOut' = <<[f \in EngineFiles |-> <<>>]>>
  BY DEF EngineCreates, EngineAt, Alive, inputs
<1>2. LoneEngine' /\ Bygone' /\ SuccessProgress'
  BY <1>1, EngineFrame DEF EngineStates, Unfinished, EngineFiles
<1>3. RunnerTypes'
  BY <1>1 DEF RunnerInv, RunnerTypes, EngineStates
<1>4. EngineProgress'
  <2> SUFFICES ASSUME ~overlapped, runner.pc = "waiting" PROVE EngineProgress'
    BY <1>1 DEF EngineProgress
  <2>1. j = runner.k
    BY <1>1, EngineIsLatest
  <2>2. engineOut' # <<>> /\ engineOut'[1]["failure"] = <<>>
    BY <1>1 DEF EngineFiles
  <2>3. engines'[j] = "opening"
    BY <1>1 DEF RunnerInv, RunnerTypes
  <2> QED BY <1>1, <2>1, <2>2, <2>3 DEF EngineProgress
<1> QED BY <1>2, <1>3, <1>4 DEF RunnerInv

(* An engine that writes into engine_out leaves the files of other names. *)
EngineEdits(j, from, to, rest) ==
  /\ engines[j] = from /\ UNCHANGED <<runner, overlapped, eventCount>>
  /\ engines' = [engines EXCEPT ![j] = to]
  /\ engineOut # <<>> /\ engineOut' # <<>>
  /\ engineOut' = <<engineOut'[1]>> /\ engineOut'[1] = [f \in EngineFiles |-> engineOut'[1][f]]
  /\ \A f \in rest : engineOut'[1][f] = engineOut[1][f]

LEMMA EngineOpensKeeps ==
  ASSUME RunnerInv, NEW j \in 1..MaxRuns, EngineOpens(j)
  PROVE  RunnerInv'
<1>1. /\ EngineEdits(j, "opening", "writing", EngineFiles \ {"scored", "trace"})
      /\ Alive(j) /\ runDir' = runDir
      /\ IsBy(engineOut'[1]["scored"], j) /\ IsBy(engineOut'[1]["trace"], j)
  BY DEF EngineOpens, EngineAt, EngineEdits, Alive, inputs, IsBy, EngineFiles, RunnerInv, RunnerTypes
<1>2. LoneEngine' /\ Bygone' /\ SuccessProgress'
  BY <1>1, EngineFrame DEF EngineEdits, EngineStates, Unfinished, EngineFiles
<1>3. RunnerTypes'
  BY <1>1 DEF EngineEdits, RunnerInv, RunnerTypes, EngineStates
<1>4. EngineProgress'
  <2> SUFFICES ASSUME ~overlapped, runner.pc = "waiting" PROVE EngineProgress'
    BY <1>1 DEF EngineProgress, EngineEdits
  <2>1. j = runner.k
    BY <1>1, EngineIsLatest
  <2>2. engineOut'[1]["failure"] = <<>>
    BY <1>1, <2>1 DEF RunnerInv, EngineProgress, EngineEdits, EngineFiles
  <2>3. engines'[j] = "writing"
    BY <1>1 DEF EngineEdits, RunnerInv, RunnerTypes
  <2> QED BY <1>1, <2>1, <2>2, <2>3 DEF EngineProgress, EngineEdits
<1> QED BY <1>2, <1>3, <1>4 DEF RunnerInv

LEMMA EngineWritesKeeps ==
  ASSUME RunnerInv, NEW j \in 1..MaxRuns, EngineWrites(j)
  PROVE  RunnerInv'
<1>1. /\ engines[j] = "writing" /\ Alive(j) /\ UNCHANGED <<runner, overlapped, eventCount>>
      /\ engines' = [engines EXCEPT ![j] = "receipting"]
      /\ runDir' = [runDir EXCEPT !["scored"] = Filled(runDir["scored"], j)]
      /\ engineOut' = IF engineOut = <<>> THEN <<>>
                      ELSE <<[engineOut[1] EXCEPT !["scored"] = Filled(engineOut[1]["scored"], j)]>>
  BY DEF EngineWrites, EngineAt, Alive, inputs
<1>a. \A f \in Unfinished :
        /\ runDir'[f] = runDir[f]
        /\ engineOut' # <<>> => engineOut # <<>> /\ engineOut'[1][f] = engineOut[1][f]
  BY <1>1 DEF RunnerInv, RunnerTypes, Unfinished, RunFiles, EngineFiles
<1>2. LoneEngine' /\ Bygone' /\ SuccessProgress'
  BY <1>1, <1>a, EngineFrame DEF EngineStates
<1>3. RunnerTypes'
  <2>1. engineOut' # <<>> => engineOut' = <<engineOut'[1]>>
                           /\ engineOut'[1] = [f \in EngineFiles |-> engineOut'[1][f]]
    BY <1>1 DEF RunnerInv, RunnerTypes, EngineFiles
  <2>2. runDir' = [f \in RunFiles |-> runDir'[f]]
    BY <1>1 DEF RunnerInv, RunnerTypes
  <2>3. engineOut # <<>> => engineOut' # <<>>
    BY <1>1
  <2> QED BY <1>1, <2>1, <2>2, <2>3 DEF RunnerInv, RunnerTypes, EngineStates
<1>4. EngineProgress'
  <2> SUFFICES ASSUME ~overlapped, runner.pc = "waiting" PROVE EngineProgress'
    BY <1>1 DEF EngineProgress
  <2>1. j = runner.k
    BY <1>1, EngineIsLatest
  <2>2. /\ engineOut # <<>> /\ engineOut[1]["failure"] = <<>>
        /\ IsBy(engineOut[1]["scored"], j) /\ IsBy(engineOut[1]["trace"], j)
    BY <1>1, <2>1 DEF RunnerInv, EngineProgress
  <2>3. /\ engineOut' # <<>> /\ engineOut'[1]["failure"] = <<>>
        /\ engineOut'[1]["scored"] = <<[by |-> j, rows |-> eventCount]>>
        /\ engineOut'[1]["trace"] = engineOut[1]["trace"]
    BY <1>1, <2>2 DEF Filled, IsBy, RunnerInv, RunnerTypes, EngineFiles
  <2>4. engines'[j] = "receipting"
    BY <1>1 DEF RunnerInv, RunnerTypes
  <2> QED BY <1>1, <2>1, <2>2, <2>3, <2>4 DEF EngineProgress, Good, IsBy
<1> QED BY <1>2, <1>3, <1>4 DEF RunnerInv

LEMMA EngineDraftsKeeps ==
  ASSUME RunnerInv, NEW j \in 1..MaxRuns, EngineDrafts(j)
  PROVE  RunnerInv'
<1>1. /\ EngineEdits(j, "receipting", "renaming", EngineFiles \ {"pending"})
      /\ Alive(j) /\ runDir' = runDir /\ engineOut'[1]["pending"] = <<[by |-> j]>>
  BY DEF EngineDrafts, Writes, EngineAt, EngineEdits, Alive, inputs, EngineFiles,
         RunnerInv, RunnerTypes
<1>2. LoneEngine' /\ Bygone' /\ SuccessProgress'
  BY <1>1, EngineFrame DEF EngineEdits, EngineStates, Unfinished, EngineFiles
<1>3. RunnerTypes'
  BY <1>1 DEF EngineEdits, RunnerInv, RunnerTypes, EngineStates
<1>4. EngineProgress'
  <2> SUFFICES ASSUME ~overlapped, runner.pc = "waiting" PROVE EngineProgress'
    BY <1>1 DEF EngineProgress, EngineEdits
  <2>1. j = runner.k
    BY <1>1, EngineIsLatest
  <2>2. /\ engineOut[1]["failure"] = <<>> /\ IsBy(engineOut[1]["trace"], j)
        /\ Good(engineOut[1]["scored"], "scored", j)
    BY <1>1, <2>1 DEF RunnerInv, EngineProgress, EngineEdits
  <2>3. /\ engineOut'[1]["failure"] = <<>> /\ IsBy(engineOut'[1]["trace"], j)
        /\ IsBy(engineOut'[1]["scored"], j) /\ engineOut'[1]["scored"][1].rows = eventCount'
    BY <1>1, <2>2 DEF EngineEdits, EngineFiles, IsBy, Good
  <2>4. engines'[j] = "renaming" /\ IsBy(engineOut'[1]["pending"], j)
    BY <1>1 DEF EngineEdits, RunnerInv, RunnerTypes, IsBy
  <2> QED BY <1>1, <2>1, <2>3, <2>4 DEF EngineProgress, EngineEdits, Good
<1> QED BY <1>2, <1>3, <1>4 DEF RunnerInv

LEMMA EngineRenamesKeeps ==
  ASSUME RunnerInv, NEW j \in 1..MaxRuns, EngineRenames(j)
  PROVE  RunnerInv'
<1>1. /\ EngineEdits(j, "renaming", "succeeded", EngineFiles \ {"pending", "receipt"})
      /\ Alive(j) /\ runDir' = runDir
      /\ engineOut'[1]["pending"] = <<>> /\ engineOut'[1]["receipt"] = engineOut[1]["pending"]
  BY DEF EngineRenames, EngineAt, EngineEdits, Alive, inputs, EngineFiles, RunnerInv, RunnerTypes
<1>2. LoneEngine' /\ Bygone' /\ SuccessProgress'
  BY <1>1, EngineFrame DEF EngineEdits, EngineStates, Unfinished, EngineFiles
<1>3. RunnerTypes'
  BY <1>1 DEF EngineEdits, RunnerInv, RunnerTypes, EngineStates
<1>4. EngineProgress'
  <2> SUFFICES ASSUME ~overlapped, runner.pc = "waiting" PROVE EngineProgress'
    BY <1>1 DEF EngineProgress, EngineEdits
  <2>1. j = runner.k
    BY <1>1, EngineIsLatest
  <2>2. /\ engineOut[1]["failure"] = <<>> /\ IsBy(engineOut[1]["trace"], j)
        /\ Good(engineOut[1]["scored"], "scored", j) /\ IsBy(engineOut[1]["pending"], j)
    BY <1>1, <2>1 DEF RunnerInv, EngineProgress, EngineEdits
  <2>3. /\ engineOut'[1]["failure"] = <<>> /\ IsBy(engineOut'[1]["trace"], j)
        /\ IsBy(engineOut'[1]["scored"], j) /\ engineOut'[1]["scored"][1].rows = eventCount'
    BY <1>1, <2>2 DEF EngineEdits, EngineFiles, IsBy, Good
  <2>4. engines'[j] = "succeeded" /\ IsBy(engineOut'[1]["receipt"], j)
    BY <1>1, <2>2 DEF EngineEdits, RunnerInv, RunnerTypes, IsBy
  <2> QED BY <1>1, <2>1, <2>3, <2>4 DEF EngineProgress, EngineEdits, Good
<1> QED BY <1>2, <1>3, <1>4 DEF RunnerInv

LEMMA EngineFailsKeeps ==
  ASSUME RunnerInv, NEW j \in 1..MaxRuns, EngineFails(j)
  PROVE  RunnerInv'
<1>1. /\ Alive(j) /\ UNCHANGED <<runner, overlapped, runDir, eventCount>>
      /\ engines' = [engines EXCEPT ![j] = "failed"]
      /\ \/ engineOut' = engineOut
         \/ engineOut # <<>> /\ engineOut' = <<[engineOut[1] EXCEPT !["failure"] = <<[by |-> j]>>]>>
  BY DEF EngineFails, Writes, inputs
<1>a. \A f \in Unfinished : engineOut' # <<>> =>
        \/ engineOut # <<>> /\ engineOut'[1][f] = engineOut[1][f]
        \/ engineOut'[1][f] = <<[by |-> j]>>
  BY <1>1 DEF RunnerInv, RunnerTypes, Unfinished, EngineFiles
<1>2. LoneEngine' /\ Bygone' /\ SuccessProgress'
  BY <1>1, <1>a, EngineFrame DEF EngineStates
<1>3. RunnerTypes'
  <2>1. engineOut' # <<>> => /\ engineOut' = <<engineOut'[1]>>
                             /\ engineOut'[1] = [f \in EngineFiles |-> engineOut'[1][f]]
    BY <1>1 DEF RunnerInv, RunnerTypes
  <2>2. engineOut # <<>> => engineOut' # <<>>
    BY <1>1
  <2> QED BY <1>1, <2>1, <2>2 DEF RunnerInv, RunnerTypes, EngineStates
<1>4. EngineProgress'
  <2> SUFFICES ASSUME ~overlapped, runner.pc = "waiting" PROVE EngineProgress'
    BY <1>1 DEF EngineProgress
  <2>1. j = runner.k
    BY <1>1, EngineIsLatest
  <2>2. engines'[j] = "failed"
    BY <1>1 DEF RunnerInv, RunnerTypes
  <2> QED BY <1>1, <2>1, <2>2 DEF EngineProgress
<1> QED BY <1>2, <1>3, <1>4 DEF RunnerInv

(* The steps of the runner.                                               *)
LEMMA ExitedKeeps == RunnerInv /\ EngineExited => RunnerInv'
<1> SUFFICES ASSUME RunnerInv, EngineExited PROVE RunnerInv'
  OBVIOUS
<1> DEFINE code == IF engines[runner.k] = "succeeded" THEN 0 ELSE 1
<1>1. /\ runner.pc = "waiting" /\ UNCHANGED <<runDir, engineOut, engines, overlapped, eventCount>>
      /\ runner' = [runner EXCEPT !.pc = "listing", !.code = code]
  BY DEF EngineExited, inputs
<1>2. runner' = [k |-> runner.k, pc |-> "listing", code |-> code, todo |-> runner.todo,
                 child |-> runner.child]
  BY <1>1 DEF RunnerInv, RunnerTypes
<1>3. RunnerTypes'
  BY <1>1, <1>2 DEF RunnerInv, RunnerTypes
<1>4. LoneEngine' /\ EngineProgress'
  BY <1>1, <1>2 DEF RunnerInv, LoneEngine, EngineProgress, Alive
<1>5. Bygone'
  BY <1>1, <1>2 DEF RunnerInv, Bygone, Untainted
<1>6. SuccessProgress'
  <2> SUFFICES ASSUME ~overlapped, code = 0 PROVE SuccessProgress'
    BY <1>1, <1>2 DEF SuccessProgress
  <2>1. engines[runner.k] = "succeeded" /\ runner.k # 0
    BY <1>1 DEF RunnerInv, RunnerTypes
  <2>2. /\ \A f \in Outputs : ToDeliver(f)
        /\ \A f \in Unfinished : engineOut[1][f] = <<>>
    BY <1>1, <2>1 DEF RunnerInv, EngineProgress, ToDeliver, Outputs, Unfinished, Good
  <2> QED BY <1>1, <1>2, <2>1, <2>2 DEF SuccessProgress, ToDeliver, Good
<1> QED BY <1>3, <1>4, <1>5, <1>6 DEF RunnerInv

LEMMA TimeoutKeeps == RunnerInv /\ Timeout => RunnerInv'
<1> SUFFICES ASSUME RunnerInv, Timeout PROVE RunnerInv'
  OBVIOUS
<1> DEFINE s == IF Alive(runner.k) THEN "failed" ELSE engines[runner.k]
<1>1. /\ runner.pc = "waiting" /\ UNCHANGED <<runDir, engineOut, overlapped>>
      /\ engines' = [engines EXCEPT ![runner.k] = s]
      /\ runner' = [runner EXCEPT !.pc = "listing", !.code = -9]
  BY DEF Timeout
<1>2. runner' = [k |-> runner.k, pc |-> "listing", code |-> -9, todo |-> runner.todo,
                 child |-> runner.child]
  BY <1>1 DEF RunnerInv, RunnerTypes
<1>3. runner.k \in 1..MaxRuns
  BY <1>1, RunnerAssumption DEF RunnerInv, RunnerTypes
<1>4. RunnerTypes'
  <2>1. engines' \in [1..MaxRuns -> EngineStates]
    BY <1>1, <1>3 DEF RunnerInv, RunnerTypes, EngineStates
  <2> QED BY <1>1, <1>2, <1>3, <2>1 DEF RunnerInv, RunnerTypes
<1>5. LoneEngine'
  BY <1>1, <1>2 DEF RunnerInv, RunnerTypes, LoneEngine, Alive
<1>6. Bygone'
  <2>1. \A j \in 1..MaxRuns : j > runner.k => engines'[j] = engines[j]
    BY <1>1, <1>3 DEF RunnerInv, RunnerTypes
  <2> QED BY <1>1, <1>2, <2>1 DEF RunnerInv, Bygone, Untainted
<1>7. EngineProgress' /\ SuccessProgress'
  BY <1>2 DEF EngineProgress, SuccessProgress
<1> QED BY <1>4, <1>5, <1>6, <1>7 DEF RunnerInv

LEMMA ListKeeps == RunnerInv /\ List => RunnerInv'
<1> SUFFICES ASSUME RunnerInv, List PROVE RunnerInv'
  OBVIOUS
<1> DEFINE pc == IF engineOut = <<>> THEN AfterPromotion ELSE "promoting"
           todo == IF engineOut = <<>> THEN runner.todo ELSE Present
<1>1. /\ runner.pc = "listing" /\ UNCHANGED <<runDir, engineOut, engines, overlapped, eventCount>>
      /\ runner' = [runner EXCEPT !.pc = pc, !.todo = todo]
  BY DEF List, inputs, RunnerInv, RunnerTypes
<1>2. /\ runner' = [k |-> runner.k, pc |-> pc, code |-> runner.code, todo |-> todo,
                    child |-> runner.child]
      /\ pc \in {"predicting", "returned", "promoting"}
  BY <1>1 DEF RunnerInv, RunnerTypes, AfterPromotion
<1>3. RunnerTypes'
  <2>1. todo \in SUBSET EngineFiles /\ (pc = "promoting" => engineOut # <<>>) /\ runner.k # 0
    BY <1>1 DEF RunnerInv, RunnerTypes, Present, AfterPromotion
  <2> QED BY <1>1, <1>2, <2>1 DEF RunnerInv, RunnerTypes
<1>4. LoneEngine' /\ EngineProgress'
  BY <1>1, <1>2 DEF RunnerInv, LoneEngine, EngineProgress, Alive
<1>5. Bygone'
  BY <1>1, <1>2 DEF RunnerInv, Bygone, Untainted
<1>6. SuccessProgress'
  <2> SUFFICES ASSUME ~overlapped, runner.code = 0 PROVE SuccessProgress'
    BY <1>1, <1>2 DEF SuccessProgress
  <2>1. /\ engines[runner.k] = "succeeded" /\ runner.k # 0
        /\ \A f \in Outputs : ToDeliver(f)
        /\ \A f \in Unfinished : engineOut[1][f] = <<>>
    BY <1>1 DEF RunnerInv, SuccessProgress
  <2>2. engineOut # <<>> /\ Present = Outputs
    BY <2>1 DEF Present, ToDeliver, Good, IsBy, Outputs, Unfinished, EngineFiles
  <2>3. pc = "promoting" /\ Underway' = Outputs
    BY <1>2, <2>2 DEF Underway
  <2>4. \A f \in Outputs : ToDeliver(f)'
    BY <1>1, <1>2, <2>1 DEF ToDeliver, Good
  <2> QED BY <1>1, <1>2, <2>1, <2>3, <2>4 DEF SuccessProgress
<1> QED BY <1>3, <1>4, <1>5, <1>6 DEF RunnerInv

LEMMA UnlinkKeeps ==
  ASSUME RunnerInv, NEW f \in EngineFiles, Unlink(f)
  PROVE  RunnerInv'
<1>1. /\ runner.pc = "promoting" /\ f \in runner.todo
      /\ UNCHANGED <<engineOut, engines, overlapped, eventCount>>
      /\ runDir' = [runDir EXCEPT ![f] = <<>>]
      /\ runner' = [runner EXCEPT !.pc = "moving", !.child = f, !.todo = runner.todo \ {f}]
  BY DEF Unlink, inputs
<1>2. runner' = [k |-> runner.k, pc |-> "moving", code |-> runner.code,
                 todo |-> runner.todo \ {f}, child |-> f]
  BY <1>1 DEF RunnerInv, RunnerTypes
<1>3. /\ runDir' = [g \in RunFiles |-> runDir'[g]] /\ runDir'[f] = <<>>
      /\ \A g \in RunFiles : g # f => runDir'[g] = runDir[g]
  BY <1>1 DEF RunnerInv, RunnerTypes, RunFiles
<1>4. RunnerTypes'
  <2>1. /\ runner'.k = runner.k /\ runner'.todo \in SUBSET EngineFiles
        /\ runner'.child \in EngineFiles \ runner'.todo /\ runner'.pc = "moving"
    BY <1>2 DEF RunnerInv, RunnerTypes
  <2>2. runner' = [k |-> runner'.k, pc |-> runner'.pc, code |-> runner'.code,
                   todo |-> runner'.todo, child |-> runner'.child]
    BY <1>2
  <2>3. runner.k # 0 /\ engineOut # <<>>
    BY <1>1 DEF RunnerInv, RunnerTypes
  <2> QED BY <1>1, <1>3, <2>1, <2>2, <2>3 DEF RunnerInv, RunnerTypes
<1>5. LoneEngine' /\ EngineProgress'
  BY <1>1, <1>2 DEF RunnerInv, LoneEngine, EngineProgress, Alive
<1>6. Bygone'
  <2>1. \A g \in Unfinished : g \in RunFiles
    BY DEF Unfinished, RunFiles, EngineFiles
  <2>2. Untainted' => Untainted
    BY <1>1, <1>2 DEF Untainted
  <2> QED BY <1>1, <1>2, <1>3, <2>1, <2>2 DEF RunnerInv, Bygone
<1>7. SuccessProgress'
  <2> SUFFICES ASSUME ~overlapped, runner.code = 0 PROVE SuccessProgress'
    BY <1>1, <1>2 DEF SuccessProgress
  <2>1. /\ engines[runner.k] = "succeeded" /\ runner.k # 0
        /\ Underway \subseteq Outputs
        /\ \A g \in Outputs : IF g \in Underway THEN ToDeliver(g) ELSE Delivered(g)
    BY <1>1 DEF RunnerInv, SuccessProgress
  <2>2. Underway = runner.todo /\ Underway' = runner.todo
    BY <1>1, <1>2 DEF Underway
  <2>3. ASSUME NEW g \in Outputs
        PROVE  IF g \in Underway' THEN ToDeliver(g)' ELSE Delivered(g)'
    <3>1. CASE g \in runner.todo
      BY <1>1, <1>2, <2>1, <2>2, <3>1 DEF ToDeliver, Good
    <3>2. CASE g \notin runner.todo
      <4>1. g # f /\ g \in RunFiles
        BY <1>1, <3>2 DEF Outputs, RunFiles, EngineFiles
      <4>2. Delivered(g)
        BY <2>1, <2>2, <3>2
      <4>3. Delivered(g)'
        BY <1>1, <1>2, <1>3, <4>1, <4>2 DEF Delivered, Good
      <4> QED BY <2>2, <3>2, <4>3
    <3> QED BY <3>1, <3>2
  <2> QED BY <1>1, <1>2, <2>1, <2>2, <2>3 DEF SuccessProgress
<1> QED BY <1>4, <1>5, <1>6, <1>7 DEF RunnerInv

LEMMA MoveKeeps == RunnerInv /\ Move => RunnerInv'
<1> SUFFICES ASSUME RunnerInv, Move PROVE RunnerInv'
  OBVIOUS
<1> DEFINE f == runner.child
<1>1. /\ runner.pc = "moving" /\ engineOut # <<>> /\ f \in EngineFiles \ runner.todo
      /\ UNCHANGED <<engines, overlapped, eventCount>>
  BY DEF Move, inputs, RunnerInv, RunnerTypes
<1>2. CASE engineOut[1][f] = <<>>
  <2>1. UNCHANGED <<runDir, engineOut>> /\ runner' = [runner EXCEPT !.pc = "dead"]
    BY <1>2 DEF Move, Goes
  <2>2. runner' = [k |-> runner.k, pc |-> "dead", code |-> runner.code, todo |-> runner.todo,
                   child |-> runner.child]
    BY <2>1 DEF RunnerInv, RunnerTypes
  <2> QED BY <1>1, <2>1, <2>2 DEF RunnerInv, RunnerTypes, LoneEngine, Alive, Bygone, Untainted,
             EngineProgress, SuccessProgress
<1>3. CASE engineOut[1][f] # <<>>
  <2>1. /\ runDir' = [runDir EXCEPT ![f] = engineOut[1][f]]
        /\ engineOut' = <<[engineOut[1] EXCEPT ![f] = <<>>]>>
        /\ runner' = [runner EXCEPT !.pc = "promoting"]
    BY <1>3 DEF Move, Goes
  <2>2. runner' = [k |-> runner.k, pc |-> "promoting", code |-> runner.code,
                   todo |-> runner.todo, child |-> f]
    BY <2>1 DEF RunnerInv, RunnerTypes
  <2>3. /\ runDir' = [g \in RunFiles |-> runDir'[g]] /\ runDir'[f] = engineOut[1][f]
        /\ \A g \in RunFiles : g # f => runDir'[g] = runDir[g]
    BY <1>1, <2>1 DEF RunnerInv, RunnerTypes, RunFiles
  <2>4. engineOut = <<engineOut[1]>> /\ engineOut[1] = [g \in EngineFiles |-> engineOut[1][g]]
    BY <1>1 DEF RunnerInv, RunnerTypes
  <2>5. /\ engineOut' = <<engineOut'[1]>> /\ engineOut' # <<>>
        /\ engineOut'[1] = [g \in EngineFiles |-> engineOut'[1][g]]
        /\ engineOut'[1][f] = <<>>
        /\ \A g \in EngineFiles : g # f => engineOut'[1][g] = engineOut[1][g]
    BY <1>1, <2>1, <2>4
  <2>6. RunnerTypes'
    BY <1>1, <2>2, <2>3, <2>5 DEF RunnerInv, RunnerTypes
  <2>7. LoneEngine' /\ EngineProgress'
    BY <1>1, <2>2 DEF RunnerInv, LoneEngine, EngineProgress, Alive
  <2>8. Untainted => f \in Outputs
    BY <1>1 DEF Untainted, Underway, RunnerInv, SuccessProgress
  <2>9. Bygone'
    <3>1. \A g \in Unfinished : g \in RunFiles /\ g \in EngineFiles /\ g \notin Outputs
      BY DEF Unfinished, RunFiles, EngineFiles, Outputs
    <3>2. Untainted' => Untainted
      BY <1>1, <2>2 DEF Untainted
    <3>3. ASSUME NEW g \in Unfinished
          PROVE  /\ runDir'[g] # <<>> => runDir'[g][1].by \in 0..runner.k
                 /\ engineOut'[1][g] # <<>> => engineOut'[1][g][1].by \in 0..runner.k
                 /\ Untainted' /\ runDir'[g] # <<>> => runDir'[g][1].by < runner.k
      <4>1. CASE g = f
        BY <1>1, <1>3, <2>3, <2>5, <2>8, <3>1, <3>2, <4>1 DEF RunnerInv, Bygone
      <4>2. CASE g # f
        BY <1>1, <2>3, <2>5, <3>1, <3>2, <4>2 DEF RunnerInv, Bygone
      <4> QED BY <4>1, <4>2
    <3> QED BY <1>1, <2>2, <3>3 DEF RunnerInv, Bygone
  <2>10. SuccessProgress'
    <3> SUFFICES ASSUME ~overlapped, runner.code = 0 PROVE SuccessProgress'
      BY <1>1, <2>2 DEF SuccessProgress
    <3>1. /\ engines[runner.k] = "succeeded" /\ runner.k # 0
          /\ Underway \subseteq Outputs
          /\ \A g \in Outputs : IF g \in Underway THEN ToDeliver(g) ELSE Delivered(g)
      BY <1>1 DEF RunnerInv, SuccessProgress
    <3>2. Underway = runner.todo \cup {f} /\ Underway' = runner.todo
      BY <1>1, <2>2 DEF Underway
    <3>3. ASSUME NEW g \in Outputs
          PROVE  IF g \in Underway' THEN ToDeliver(g)' ELSE Delivered(g)'
      <4>1. g \in RunFiles /\ g \in EngineFiles
        BY DEF Outputs, RunFiles, EngineFiles
      <4>2. CASE g = f
        <5>1. Good(engineOut[1][g], g, runner.k)
          BY <3>1, <3>2, <4>2 DEF ToDeliver
        <5>2. Delivered(g)'
          BY <1>1, <2>2, <2>3, <4>2, <5>1 DEF Delivered, Good
        <5> QED BY <1>1, <3>2, <4>2, <5>2
      <4>3. CASE g # f
        <5>1. ToDeliver(g) => ToDeliver(g)'
          BY <1>1, <2>2, <2>5, <4>1, <4>3 DEF ToDeliver, Good
        <5>2. Delivered(g) => Delivered(g)'
          BY <1>1, <2>2, <2>3, <4>1, <4>3 DEF Delivered, Good
        <5> QED BY <3>1, <3>2, <4>3, <5>1, <5>2
      <4> QED BY <4>2, <4>3
    <3> QED BY <1>1, <2>2, <3>1, <3>2, <3>3 DEF SuccessProgress
  <2> QED BY <2>6, <2>7, <2>9, <2>10 DEF RunnerInv
<1> QED BY <1>2, <1>3

LEMMA PromotedKeeps == RunnerInv /\ Promoted => RunnerInv'
<1> SUFFICES ASSUME RunnerInv, Promoted PROVE RunnerInv'
  OBVIOUS
<1>1. /\ runner.pc = "promoting" /\ runner.todo = {}
      /\ UNCHANGED <<runDir, engines, overlapped, eventCount>>
      /\ engineOut' = IF Present = {} THEN <<>> ELSE engineOut
      /\ runner' = [runner EXCEPT !.pc = AfterPromotion]
  BY DEF Promoted, Goes, inputs
<1>2. runner' = [k |-> runner.k, pc |-> AfterPromotion, code |-> runner.code,
                 todo |-> runner.todo, child |-> runner.child]
  BY <1>1 DEF RunnerInv, RunnerTypes
<1>a. AfterPromotion \in {"predicting", "returned"} /\ (runner.code = 0 => AfterPromotion = "predicting")
  BY DEF AfterPromotion
<1>3. RunnerTypes'
  BY <1>1, <1>2, <1>a DEF RunnerInv, RunnerTypes
<1>4. LoneEngine' /\ EngineProgress'
  BY <1>1, <1>2, <1>a DEF RunnerInv, LoneEngine, EngineProgress, Alive
<1>5. Bygone'
  BY <1>1, <1>2, <1>a DEF RunnerInv, Bygone, Untainted
<1>6. SuccessProgress'
  BY <1>1, <1>2, <1>a DEF RunnerInv, SuccessProgress, Underway, Delivered, Good
<1> QED BY <1>3, <1>4, <1>5, <1>6 DEF RunnerInv

(* A file of its own is written by the runner, or it dies.                *)
WritesOwn(f, from, to) ==
  /\ runner.pc = from /\ UNCHANGED <<engineOut, engines, overlapped, eventCount>>
  /\ \/ Goes("dead") /\ UNCHANGED runDir
     \/ Goes(to) /\ \E file : /\ file # <<>> /\ file[1].by = runner.k
                              /\ runDir' = [runDir EXCEPT ![f] = file]

LEMMA WritesOwnKeeps ==
  ASSUME RunnerInv, NEW f, NEW from, NEW to, WritesOwn(f, from, to),
         <<f, from, to>> \in {<<"predictions", "predicting", "telemetry">>,
                              <<"telemetry", "telemetry", "reporting">>,
                              <<"result", "reporting", "returned">>}
  PROVE  RunnerInv'
<1>0. \/ f = "predictions" /\ from = "predicting" /\ to = "telemetry"
      \/ f = "telemetry" /\ from = "telemetry" /\ to = "reporting"
      \/ f = "result" /\ from = "reporting" /\ to = "returned"
  OBVIOUS
<1>1. PICK pc : /\ runner.pc = from /\ UNCHANGED <<engineOut, engines, overlapped, eventCount>>
                /\ runner' = [runner EXCEPT !.pc = pc]
                /\ \/ pc = "dead" /\ runDir' = runDir
                   \/ pc = to /\ \E file : /\ file # <<>> /\ file[1].by = runner.k
                                           /\ runDir' = [runDir EXCEPT ![f] = file]
  BY DEF WritesOwn, Goes
<1>2. runner' = [k |-> runner.k, pc |-> pc, code |-> runner.code, todo |-> runner.todo,
                 child |-> runner.child]
  BY <1>1 DEF RunnerInv, RunnerTypes
<1>a. /\ runDir' = [g \in RunFiles |-> runDir'[g]]
      /\ \A g \in RunFiles : g # f => runDir'[g] = runDir[g]
      /\ pc # "dead" => IsBy(runDir'[f], runner.k)
  BY <1>0, <1>1 DEF RunnerInv, RunnerTypes, RunFiles, IsBy
<1>3. RunnerTypes'
  BY <1>0, <1>1, <1>2, <1>a DEF RunnerInv, RunnerTypes
<1>4. LoneEngine' /\ EngineProgress'
  BY <1>0, <1>1, <1>2 DEF RunnerInv, LoneEngine, EngineProgress, Alive
<1>b. Bygone'
  <2>1. \A g \in Unfinished : g \in RunFiles /\ g # f
    BY <1>0 DEF Unfinished, RunFiles, EngineFiles
  <2>2. Untainted' => Untainted
    BY <1>0, <1>1, <1>2 DEF Untainted
  <2> QED BY <1>1, <1>2, <1>a, <2>1, <2>2 DEF RunnerInv, Bygone
<1>5. SuccessProgress'
  <2> SUFFICES ASSUME ~overlapped, runner.code = 0, pc = to PROVE SuccessProgress'
    BY <1>0, <1>1, <1>2 DEF SuccessProgress
  <2>1. /\ engines[runner.k] = "succeeded" /\ runner.k # 0
        /\ \A g \in Outputs : Delivered(g)
        /\ from \in {"telemetry", "reporting"} => Delivered("predictions")
        /\ from = "reporting" => Delivered("telemetry")
    BY <1>0, <1>1 DEF RunnerInv, SuccessProgress
  <2>2. \A g \in RunFiles : g # f /\ Delivered(g) => Delivered(g)'
    BY <1>1, <1>2, <1>a DEF Delivered, Good
  <2>3. Delivered(f)'
    BY <1>0, <1>1, <1>2, <1>a DEF Delivered, Good
  <2>4. \A g \in Outputs : g # f /\ g \in RunFiles
    BY <1>0 DEF Outputs, EngineFiles, RunFiles
  <2> QED BY <1>0, <1>1, <1>2, <2>1, <2>2, <2>3, <2>4 DEF SuccessProgress, RunFiles
<1> QED BY <1>3, <1>4, <1>b, <1>5 DEF RunnerInv

LEMMA WritesKeep == RunnerInv /\ (WritePredictions \/ WriteTelemetry \/ WriteResult) => RunnerInv'
<1> SUFFICES ASSUME RunnerInv PROVE WritePredictions \/ WriteTelemetry \/ WriteResult => RunnerInv'
  OBVIOUS
<1>1. ASSUME WritePredictions PROVE RunnerInv'
  <2>1. WritesOwn("predictions", "predicting", "telemetry")
    BY <1>1 DEF WritePredictions, WritesOwn, inputs
  <2> QED BY <2>1, WritesOwnKeeps
<1>2. ASSUME WriteTelemetry PROVE RunnerInv'
  <2>1. WritesOwn("telemetry", "telemetry", "reporting")
    BY <1>2 DEF WriteTelemetry, WritesOwn, inputs
  <2> QED BY <2>1, WritesOwnKeeps
<1>3. ASSUME WriteResult PROVE RunnerInv'
  <2>1. WritesOwn("result", "reporting", "returned")
    BY <1>3 DEF WriteResult, WritesOwn, inputs
  <2> QED BY <2>1, WritesOwnKeeps
<1> QED BY <1>1, <1>2, <1>3

LEMMA CrashKeeps == RunnerInv /\ Crash => RunnerInv'
<1> SUFFICES ASSUME RunnerInv, Crash PROVE RunnerInv'
  OBVIOUS
<1>1. runner' = [runner EXCEPT !.pc = "dead"] /\ UNCHANGED <<runDir, engineOut, engines, overlapped>>
  BY DEF Crash, Goes
<1>2. runner' = [k |-> runner.k, pc |-> "dead", code |-> runner.code, todo |-> runner.todo,
                 child |-> runner.child]
  BY <1>1 DEF RunnerInv, RunnerTypes
<1> QED BY <1>1, <1>2
        DEF RunnerInv, RunnerTypes, LoneEngine, Alive, Bygone, Untainted, EngineProgress,
            SuccessProgress

(* Nothing that the invariant is about changes.                           *)
LEMMA RunnerUntouched ==
  RunnerInv /\ UNCHANGED <<eventCount, runDir, engineOut, engines, runner, overlapped>> => RunnerInv'
<1> SUFFICES ASSUME RunnerInv, UNCHANGED <<eventCount, runDir, engineOut, engines, runner, overlapped>>
             PROVE  RunnerInv'
  OBVIOUS
<1>1. RunnerTypes'
  BY DEF RunnerInv, RunnerTypes
<1>2. LoneEngine'
  BY DEF RunnerInv, LoneEngine, Alive
<1>3. Bygone'
  BY DEF RunnerInv, Bygone, Untainted
<1>4. EngineProgress'
  BY DEF RunnerInv, EngineProgress, Good, IsBy
<1>5. SuccessProgress'
  BY DEF RunnerInv, SuccessProgress, Delivered, ToDeliver, Underway, Good, IsBy
<1> QED BY <1>1, <1>2, <1>3, <1>4, <1>5 DEF RunnerInv

LEMMA LeftKeeps == RunnerInv /\ Left => RunnerInv'
<1> SUFFICES ASSUME RunnerInv, Left PROVE RunnerInv'
  OBVIOUS
<1>1. /\ runDir' = [NoFiles EXCEPT !["predictions"] = runDir'["predictions"]]
      /\ engineOut' = <<>> /\ engines' = [k \in 1..MaxRuns |-> "none"]
      /\ runner' = [k |-> MaxRuns, pc |-> "returned", code |-> -1, todo |-> {}, child |-> "none"]
  BY DEF Left, NoFiles
<1>2. RunnerTypes'
  BY <1>1, RunnerAssumption DEF RunnerTypes, NoFiles, RunFiles, EngineStates
<1>a. Bygone'
  BY <1>1 DEF Bygone, Untainted, NoFiles, Unfinished, RunFiles, EngineFiles
<1>3. LoneEngine' /\ Bygone' /\ EngineProgress' /\ SuccessProgress'
  BY <1>1, <1>a DEF LoneEngine, Alive, EngineProgress, SuccessProgress
<1> QED BY <1>2, <1>3 DEF RunnerInv

LEMMA RunnerStep == RunnerInv /\ [Next]_vars => RunnerInv'
<1> SUFFICES ASSUME RunnerInv, [Next]_vars PROVE RunnerInv'
  OBVIOUS
<1>1. CASE RunNext
  <2>1. CASE \E f \in EngineFiles : Unlink(f)
    BY <2>1, UnlinkKeeps
  <2>2. CASE \E k \in 1..MaxRuns : \/ EngineCreates(k) \/ EngineOpens(k) \/ EngineWrites(k)
                                   \/ EngineDrafts(k) \/ EngineRenames(k) \/ EngineFails(k)
    BY <2>2, EngineCreatesKeeps, EngineOpensKeeps, EngineWritesKeeps, EngineDraftsKeeps,
       EngineRenamesKeeps, EngineFailsKeeps
  <2>3. CASE Audit
    BY <2>3, RunnerUntouched DEF Audit, inputs
  <2> QED BY <1>1, <2>1, <2>2, <2>3, InvokeKeeps, ExitedKeeps, TimeoutKeeps, ListKeeps,
             MoveKeeps, PromotedKeeps, WritesKeep, CrashKeeps DEF RunNext
<1>2. CASE ReproNext
  <2>1. CASE RunsEnd
    BY <2>1, LeftKeeps DEF RunsEnd
  <2>2. CASE ~RunsEnd
    <3>1. UNCHANGED runVars
      BY <1>2, <2>2 DEF ReproNext, Reproduce, CheckDigests, BuildAndTest, Regenerate, Loads,
         WriteManifest, WritePerNumber, Summarise, Interrupted, KeepsRest
    <3> QED BY <3>1, RunnerUntouched DEF runVars, inputs
  <2> QED BY <2>1, <2>2
<1>3. CASE UNCHANGED runVars
  BY <1>3, RunnerUntouched DEF runVars, inputs
<1> QED BY <1>1, <1>2, <1>3 DEF Next, vars

(* When a runner has returned 0, the engine's outputs and receipt and the *)
(* runner's own files are of its invocation, its engine has scored the    *)
(* whole events file, and a failure record or pending receipt beside them *)
(* is an earlier invocation's: whatever crashed, failed or timed out      *)
(* before in the directory, for any number of invocations, if no engine   *)
(* of an earlier one was alive when a later one began.                    *)
THEOREM SuccessLeavesOwnFiles == Spec => []SuccessIsOwn
<1>1. Init => RunnerInv
  <2> SUFFICES ASSUME Init PROVE RunnerInv
    OBVIOUS
  <2>1. \E rows, ids, cadence, n, splits : RunInit(rows, ids, cadence, n, splits)
    BY Zenon DEF Init
  <2> QED BY <2>1, RunStart
<1>2. RunnerInv => SuccessIsOwn
  <2> SUFFICES ASSUME RunnerInv, runner.pc = "returned", runner.code = 0, ~overlapped
               PROVE  OwnFiles
    BY DEF SuccessIsOwn
  <2>1. \A f \in RunFiles \ Unfinished : Delivered(f)
    BY DEF RunnerInv, SuccessProgress, RunFiles, EngineFiles, Unfinished, Outputs
  <2>2. "scored" \in RunFiles \ Unfinished
    BY DEF RunFiles, EngineFiles, Unfinished
  <2>3. \A f \in Unfinished : runDir[f] # <<>> => runDir[f][1].by < runner.k
    BY DEF RunnerInv, SuccessProgress, Bygone, Untainted
  <2> QED BY <2>1, <2>2, <2>3 DEF OwnFiles, Delivered, Good, IsBy
<1> QED BY <1>1, <1>2, RunnerStep, PTL DEF Spec

-----------------------------------------------------------------------------
(* The steps of an execution of the reproduction verifier, and what has   *)
(* been established by each of them.                                      *)
DigestsChecked ==
  /\ digests \in [{"cohort", "model"} -> Digest]
  /\ scripted /\ ~regenerated /\ repro \notin {"idle", "left", "failed", "digests"} => DigestsMatch

ManifestIsOwn ==
  repro \in {"cataloguing", "summarising", "passed"} =>
    /\ manifest # <<>> /\ manifest[1].by = attemptNo
    /\ manifest[1].replay = published[1] /\ RawRunAgrees

PerNumberIsOwn ==
  repro \in {"summarising", "passed"} => perNumber # <<>> /\ perNumber[1].by = attemptNo

ReproInv == DigestsChecked /\ ManifestIsOwn /\ PerNumberIsOwn

(* PassMeansReplayed, in terms of the AP the verifier itself computes.    *)
PassIsOwn ==
  repro = "passed" =>
    /\ manifest # <<>> /\ manifest[1].by = attemptNo
    /\ perNumber # <<>> /\ perNumber[1].by = attemptNo
    /\ manifest[1].replay = published[1]
    /\ runDir.predictions # <<>> => RawRunReadable /\ manifest[1].replay = RawAP
    /\ scripted /\ ~regenerated => digests = [cohort |-> "match", model |-> "match"]

LEMMA ReproStep == ReproInv /\ [Next]_vars => ReproInv'
<1> SUFFICES ASSUME ReproInv, [Next]_vars PROVE ReproInv'
  OBVIOUS
<1>1. CASE ReproNext
  <2>1. CASE RunsEnd
    BY <2>1 DEF RunsEnd, At, ReproInv, DigestsChecked, ManifestIsOwn, PerNumberIsOwn
  <2>2. CASE Reproduce
    <3>1. /\ repro' \in {"digests", "verifying"} /\ (scripted' => repro' = "digests")
          /\ digests' \in [{"cohort", "model"} -> Digest]
      BY <2>2 DEF Reproduce, ReproInv, DigestsChecked
    <3> QED BY <3>1 DEF ReproInv, DigestsChecked, ManifestIsOwn, PerNumberIsOwn
  <2>3. CASE CheckDigests \/ BuildAndTest \/ Loads \/ Interrupted
    <3>1. /\ UNCHANGED <<digests, regenerated, scripted>>
          /\ repro' \in {"building", "verifying", "comparing", "failed"}
          /\ repro' # "failed" => DigestsMatch \/ repro \in {"building", "verifying"}
      BY <2>3 DEF CheckDigests, BuildAndTest, Loads, Interrupted, At, KeepsRest
    <3> QED BY <3>1 DEF ReproInv, DigestsChecked, ManifestIsOwn, PerNumberIsOwn, DigestsMatch
  <2>4. CASE Regenerate
    <3>1. /\ repro \in {"building", "verifying"} /\ repro' = repro /\ regenerated'
          /\ digests' \in [{"cohort", "model"} -> Digest]
      BY <2>4 DEF Regenerate, ReproInv, DigestsChecked, Digest
    <3> QED BY <3>1 DEF ReproInv, DigestsChecked, ManifestIsOwn, PerNumberIsOwn
  <2>5. CASE WriteManifest
    <3>1. /\ UNCHANGED <<digests, regenerated, scripted, runDir, published, attemptNo>>
          /\ repro = "comparing" /\ repro' \in {"cataloguing", "failed"}
          /\ repro' = "cataloguing" =>
               RawRunAgrees /\ manifest' = <<[by |-> attemptNo, original |-> HeadlineAP,
                                              replay |-> published[1]]>>
      BY <2>5 DEF WriteManifest, At, KeepsRest, runVars
    <3>2. RawRunAgrees' <=> RawRunAgrees
      BY <3>1 DEF RawRunAgrees, RawRunReadable, RawAP
    <3>3. DigestsChecked'
      BY <3>1 DEF ReproInv, DigestsChecked, DigestsMatch
    <3>4. ManifestIsOwn' /\ PerNumberIsOwn'
      BY <3>1, <3>2 DEF ManifestIsOwn, PerNumberIsOwn
    <3> QED BY <3>3, <3>4 DEF ReproInv
  <2>6. CASE WritePerNumber \/ Summarise
    <3>1. /\ UNCHANGED <<digests, regenerated, scripted, runDir, published, attemptNo, manifest>>
          /\ repro \in {"cataloguing", "summarising"} /\ repro' \in {"summarising", "passed"}
          /\ perNumber' # <<>> /\ perNumber'[1].by = attemptNo
      BY <2>6 DEF WritePerNumber, Summarise, At, KeepsRest, runVars, ReproInv, PerNumberIsOwn
    <3>2. RawRunAgrees' <=> RawRunAgrees
      BY <3>1 DEF RawRunAgrees, RawRunReadable, RawAP
    <3>3. DigestsChecked'
      BY <3>1 DEF ReproInv, DigestsChecked, DigestsMatch
    <3>4. ManifestIsOwn' /\ PerNumberIsOwn'
      BY <3>1, <3>2 DEF ReproInv, ManifestIsOwn, PerNumberIsOwn
    <3> QED BY <3>3, <3>4 DEF ReproInv
  <2> QED BY <1>1, <2>1, <2>2, <2>3, <2>4, <2>5, <2>6 DEF ReproNext
<1>2. CASE RunNext /\ repro = "idle" /\ UNCHANGED reproVars
  BY <1>2 DEF reproVars, ReproInv, DigestsChecked, DigestsMatch, ManifestIsOwn, PerNumberIsOwn
<1>3. CASE UNCHANGED <<runVars, reproVars>>
  <2>1. RawRunAgrees' <=> RawRunAgrees
    BY <1>3 DEF RawRunAgrees, RawRunReadable, RawAP, runVars, reproVars
  <2> QED BY <1>3, <2>1 DEF runVars, reproVars, ReproInv, DigestsChecked, DigestsMatch,
                            ManifestIsOwn, PerNumberIsOwn
<1> QED BY <1>1, <1>2, <1>3 DEF Next, vars

(* "PASS" stands for this execution: both manifests are of it, the        *)
(* replayed AP is the published one and the one recomputed from the raw   *)
(* predictions, and the digests matched if reproduce_all.sh checked them  *)
(* and nothing was rewritten since; whatever executions failed or were    *)
(* interrupted before, and whatever files they left.                      *)
THEOREM PassIsOfThisExecution == Spec => []PassIsOwn
<1>1. Init => ReproInv
  BY DEF Init, ReproInit, ReproInv, DigestsChecked, Digest, ManifestIsOwn, PerNumberIsOwn
<1>2. ReproInv => PassIsOwn
  <2> SUFFICES ASSUME ReproInv, repro = "passed" PROVE PassIsOwn
    BY DEF PassIsOwn
  <2>1. scripted /\ ~regenerated => digests = [cohort |-> "match", model |-> "match"]
    BY DEF ReproInv, DigestsChecked, DigestsMatch
  <2> QED BY <2>1 DEF PassIsOwn, ReproInv, ManifestIsOwn, PerNumberIsOwn, RawRunAgrees
<1> QED BY <1>1, <1>2, ReproStep, PTL DEF Spec
=============================================================================
