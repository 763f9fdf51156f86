----------------------------- MODULE PipelineProofs -----------------------------
(***************************************************************************)
(* run_pipeline (include/bpfeat/pipeline.hpp) for any number of events, any*)
(* room of the two queues, any set of exceptions and batch sizes: an       *)
(* inductive invariant of its four threads. It says what each thread holds *)
(* at each of its locations, where every place of the pipeline stands in   *)
(* the stream, which pressure generation each record carries, and why a    *)
(* worker may have left its loop. From it follow all safety properties of  *)
(* Pipeline, and that Pipeline implements EventStream.                     *)
(***************************************************************************)
EXTENDS Pipeline, RecursionLemmas

(* The records the threads exchange, without the bounds TypeOK puts on    *)
(* them: those follow from the counters.                                  *)
Entry == [seq : Nat, gen : Nat]
Bundle == [items : Seq(Entry), gen : Nat, target : Nat]
Row == [gen : Nat, count : Nat, target : Nat, tail : BOOLEAN]

SourcePc == WorkerPc \cup {"next", "push", "retry", "closing", "close"}
BatcherPc == WorkerPc \cup {"start", "trace", "flush", "retry", "finishing", "end"}
ScorerPc == WorkerPc \cup {"item", "flush"}

Shape ==
  /\ features \in Seq(Entry) /\ batches \in Seq(Bundle)
  /\ featuresClosed \in BOOLEAN /\ batchesClosed \in BOOLEAN
  /\ generation \in Nat
  /\ cancelled \in BOOLEAN /\ expired \in BOOLEAN
  /\ firstError \in {NoError, "main", "source", "batcher", "scorer"}
  /\ main \in [pc : {"launch", "cancel", "join"} \cup Verdicts, launched : 0..3]
  /\ src \in [pc : SourcePc, item : Entry]
  /\ bat \in [pc : BatcherPc, item : Entry, batch : Bundle, size : BatchSize,
              tail : BOOLEAN]
  /\ scr \in [pc : ScorerPc, batch : Bundle, i : Nat \ {0}]
  /\ stats \in [Counters -> Nat]
  /\ predictions \in Seq(Nat) /\ trace \in Seq(Row)

Failed == firstError # NoError

(* A worker is unborn exactly until the main thread launches it; the main *)
(* thread waits for fewer than three only after an error, and judges the  *)
(* run only when the workers it waited for are gone.                      *)
LaunchInv ==
  /\ scr.pc = "unborn" <=> main.launched < 1
  /\ bat.pc = "unborn" <=> main.launched < 2
  /\ src.pc = "unborn" <=> main.launched < 3
  /\ main.pc = "launch" => main.launched < 3
  /\ main.pc # "launch" => main.launched = 3 \/ Failed
  /\ main.pc \in Verdicts => {src.pc, bat.pc, scr.pc} \subseteq {"unborn", "exited"}

(* Why a worker may leave its loop: its input is closed and drained, or   *)
(* an error is recorded.                                                  *)
CauseInv ==
  /\ cancelled => Failed
  /\ "cancel" \in {main.pc, src.pc, bat.pc, scr.pc} => Failed
  /\ src.pc \in {"closing", "close"} \/ featuresClosed
       => stats["read"] = Events \/ Failed
  /\ src.pc = "exited" => featuresClosed \/ Failed
  /\ bat.pc \in {"finishing", "end", "exited"} \/ bat.tail
       => (featuresClosed /\ features = <<>>) \/ Failed
  /\ bat.pc = "exited" => batchesClosed \/ Failed
  /\ scr.pc \in {"flush", "exited"} => (batchesClosed /\ batches = <<>>) \/ Failed

(* What a thread holds, by its location.                                  *)
SourceInv ==
  /\ src.pc \in {"unborn", "check", "next", "closing", "close"} => src.item = NoItem
  /\ src.pc = "exited" => src.item = NoItem \/ Failed
  /\ src.pc \in {"push", "retry"} => src.item # NoItem
  /\ stats["read"] <= Events /\ stats["extracted"] <= stats["read"]
  /\ stats["extracted"] # stats["read"] =>
       src.pc \in {"throw", "cancel"} \/ (src.pc = "exited" /\ Failed)

Filling == IF bat.batch.items = <<>> THEN 0 ELSE 1

BatcherInv ==
  /\ bat.pc # "start" => bat.item = NoItem
  /\ bat.pc \in {"unborn", "start", "end"} => bat.batch.items = <<>>
  /\ bat.pc = "exited" => bat.batch.items = <<>> \/ Failed
  /\ bat.batch.items = <<>> => bat.batch = NoBatch
  /\ bat.batch.items # <<>> => /\ bat.batch.gen = generation
                               /\ bat.batch.target \in BatchSize
                               /\ Len(bat.batch.items) <= bat.batch.target
  /\ bat.pc \in {"check", "pop", "eof", "finishing"} /\ bat.batch.items # <<>>
       => Len(bat.batch.items) < bat.batch.target
  /\ bat.pc \in {"trace", "flush", "retry"} =>
       /\ bat.batch.items # <<>>
       /\ bat.tail <=> Len(bat.batch.items) < bat.batch.target
  /\ bat.tail => bat.pc \in {"trace", "flush", "retry", "end", "throw", "cancel", "exited"}
  /\ generation = stats["batches"] + Filling
  /\ generation <= stats["batched"]
  /\ bat.tail => stats["batched"] > 0
  /\ stats["tails"] = IF bat.tail THEN 1 ELSE 0

(* A batch on its way to, or at, the scorer.                              *)
WellFormed(b, latest) ==
  /\ 0 < Len(b.items) /\ Len(b.items) <= b.target
  /\ b.target \in BatchSize
  /\ b.gen <= latest

ScorerInv ==
  /\ \A k \in 1..Len(batches) : WellFormed(batches[k], generation)
  /\ scr.batch.items # <<>> => WellFormed(scr.batch, generation)
  /\ scr.batch.items = <<>> => scr.batch = NoBatch /\ scr.i = 1
  /\ scr.batch.items # <<>> => scr.i <= Len(scr.batch.items)
  /\ scr.pc \in {"unborn", "check", "pop", "eof", "flush"} => scr.batch.items = <<>>
  /\ scr.pc = "item" => scr.batch.items # <<>>
  /\ scr.pc = "exited" => scr.batch.items = <<>> \/ Failed
  /\ stats["scored"] \in {stats["written"], stats["written"] + 1}
  /\ stats["scored"] # stats["written"] =>
       /\ scr.batch.items # <<>>
       /\ scr.pc \in {"throw", "cancel"} \/ (scr.pc = "exited" /\ Failed)

(* Where each place of the pipeline stands in the stream.  The batcher's  *)
(* counter anchors the features and the batch being filled; from the      *)
(* scorer's counter the queued batches follow one another up to it.       *)
InHand == IF bat.pc = "start" THEN 1 ELSE 0
ScorerEnd == stats["written"] + Len(scr.batch.items) + 1 - scr.i
LastSeq(b) == b.items[Len(b.items)].seq
Boundary(end, queue, k) == IF k = 0 THEN end ELSE LastSeq(queue[k])

SourceOrder ==
  /\ src.item # NoItem =>
       /\ src.item.seq = stats["extracted"]
       /\ stats["extracted"] = stats["batched"] + InHand + Len(features) + 1
  /\ src.item = NoItem =>
       stats["extracted"] = stats["batched"] + InHand + Len(features)

FeatureOrder ==
  \A j \in 1..Len(features) : features[j].seq = stats["batched"] + InHand + j

FillingOrder ==
  /\ bat.pc = "start" => bat.item.seq = stats["batched"] + 1
  /\ Len(bat.batch.items) <= stats["batched"]
  /\ \A j \in 1..Len(bat.batch.items) :
       bat.batch.items[j].seq = stats["batched"] - Len(bat.batch.items) + j

FrontInv == SourceOrder /\ FeatureOrder /\ FillingOrder

RestOrder ==
  \A j \in scr.i..Len(scr.batch.items) :
    scr.batch.items[j].seq = stats["written"] + 1 + j - scr.i

Ordered(end, queue) ==
  \A k \in 1..Len(queue) : \A j \in 1..Len(queue[k].items) :
    queue[k].items[j].seq = Boundary(end, queue, k - 1) + j

BackInv ==
  /\ RestOrder
  /\ Ordered(ScorerEnd, batches)
  /\ Boundary(ScorerEnd, batches, Len(batches)) = stats["batched"] - Len(bat.batch.items)

OutputInv ==
  /\ Len(predictions) = stats["written"]
  /\ \A i \in 1..Len(predictions) : predictions[i] = i
  /\ main.pc = "returned" => stats["written"] = Events
  /\ main.pc # "conservation_failure"

(* Pressure generations never decrease along the stream.                  *)
Causal(b) ==
  \A i \in 1..Len(b.items) :
    /\ b.items[i].gen <= b.gen
    /\ i = 1 => b.items[i].gen < b.gen
    /\ i > 1 => b.items[i - 1].gen <= b.items[i].gen

StreamGenerations ==
  /\ src.item.gen <= generation /\ bat.item.gen <= generation
  /\ \A j \in 1..Len(features) : features[j].gen <= generation
  /\ \A i, j \in 1..Len(features) : i < j => features[i].gen <= features[j].gen
  /\ src.item # NoItem =>
       /\ \A j \in 1..Len(features) : features[j].gen <= src.item.gen
       /\ \A i \in 1..Len(bat.batch.items) : bat.batch.items[i].gen <= src.item.gen
       /\ bat.item.gen <= src.item.gen
  /\ \A i \in 1..Len(bat.batch.items), j \in 1..Len(features) :
       bat.batch.items[i].gen <= features[j].gen
  /\ \A j \in 1..Len(features) : bat.item.gen <= features[j].gen

CausalBatches ==
  /\ Causal(bat.batch) /\ Causal(scr.batch)
  /\ \A k \in 1..Len(batches) : Causal(batches[k])

GenerationInv == StreamGenerations /\ CausalBatches

TraceInv ==
  /\ bat.pc \in {"unborn", "check", "pop", "eof", "start", "trace", "finishing", "end"}
       => Len(trace) = stats["batches"]
  /\ bat.pc \in {"flush", "retry"} => Len(trace) = stats["batches"] + 1
  /\ bat.pc = "exited" => Len(trace) = stats["batches"] \/ Failed
  /\ \A i \in 1..Len(trace) :
       /\ trace[i].gen = i
       /\ trace[i].count <= trace[i].target
       /\ ~trace[i].tail <=> trace[i].count = trace[i].target
       /\ trace[i].tail => i = Len(trace) /\ bat.tail /\ bat.pc # "trace"
  /\ bat.tail /\ bat.pc \in {"flush", "retry", "end", "exited"} =>
       Failed \/ (Len(trace) > 0 /\ trace[Len(trace)].tail)

(* The room of the queues, and every counter within the batcher's.        *)
Bounded(b) == \A j \in 1..Len(b.items) : b.items[j].seq <= stats["batched"]

BoundInv ==
  /\ Len(features) <= FeatureRoom /\ Len(batches) <= BatchRoom
  /\ Bounded(scr.batch)
  /\ \A k \in 1..Len(batches) : Bounded(batches[k])
  /\ stats["written"] <= stats["batched"]

IInv == /\ Shape /\ LaunchInv /\ CauseInv /\ SourceInv /\ BatcherInv /\ ScorerInv
        /\ FrontInv /\ BackInv /\ OutputInv /\ GenerationInv /\ TraceInv
        /\ BoundInv
-----------------------------------------------------------------------------
(* The controller's next batch size stays within batch_min..batch_max     *)
(* (adaptive_batcher.hpp), whatever the pressure zone.                    *)
LEMMA BatchSizeStays ==
  ASSUME NEW size \in BatchSize, NEW zone \in Zone
  PROVE  NextBatchSize(size, zone) \in BatchSize
<1>1. size \in Nat /\ size > 0 /\ BatchMin \in Nat /\ BatchMax \in Nat
  BY BatchBoundsAssumption DEF BatchSize
<1>2. Shrunk(size) \in BatchSize
  <2>1. (size * ShrinkNum) \div ShrinkDen \in Nat /\ (size * ShrinkNum) \div ShrinkDen <= size
    <3>1. size * ShrinkNum \in Nat /\ size * ShrinkNum <= size * ShrinkDen
      BY <1>1, BatchFactorsAssumption
    <3>2. ASSUME NEW a \in Nat, NEW d \in Nat \ {0}, a <= size * d
          PROVE  a \div d \in Nat /\ a \div d <= size
      BY <3>2, <1>1
    <3> QED BY <3>1, <3>2, BatchFactorsAssumption
  <2> QED BY <1>1, <2>1, BatchBoundsAssumption DEF Shrunk, Larger, BatchSize
<1>3. Grown(size) \in BatchSize
  <2>1. (size * GrowNum) \div GrowDen \in Int
    <3>1. size * GrowNum \in Nat
      BY <1>1, BatchFactorsAssumption
    <3> QED BY <3>1, BatchFactorsAssumption
  <2> QED BY <1>1, <2>1, BatchBoundsAssumption DEF Grown, Larger, Smaller, BatchSize
<1> QED BY <1>2, <1>3 DEF NextBatchSize

(* The pipeline starts in a state of the invariant.                       *)
LEMMA InitOK == Init => IInv
<1> SUFFICES ASSUME Init PROVE IInv
  OBVIOUS
<1> USE PipelineAssumption, BatchBoundsAssumption DEF Init, NoItem, NoBatch, NoError
<1>1. Shape
  <2> USE DEF Entry, Bundle, WorkerPc
  <2>1. NoItem \in Entry /\ NoBatch \in Bundle
    OBVIOUS
  <2>2. bat \in [pc : BatcherPc, item : Entry, batch : Bundle, size : BatchSize,
                tail : BOOLEAN]
    BY <2>1 DEF BatcherPc, BatchSize
  <2>3. main \in [pc : {"launch", "cancel", "join"} \cup Verdicts, launched : 0..3]
    OBVIOUS
  <2>4. src \in [pc : SourcePc, item : Entry] /\ scr \in [pc : ScorerPc, batch : Bundle, i : Nat \ {0}]
    BY <2>1 DEF SourcePc, ScorerPc
  <2>5. stats \in [Counters -> Nat] /\ features \in Seq(Entry) /\ batches \in Seq(Bundle)
        /\ predictions \in Seq(Nat) /\ trace \in Seq(Row)
    OBVIOUS
  <2> QED BY <2>2, <2>3, <2>4, <2>5 DEF Shape
<1>2. LaunchInv BY DEF LaunchInv
<1>3. CauseInv BY DEF CauseInv
<1>4. SourceInv /\ BatcherInv /\ ScorerInv
  BY DEF SourceInv, BatcherInv, ScorerInv, Filling, Counters
<1>5. FrontInv /\ BackInv
  BY DEF FrontInv, SourceOrder, FeatureOrder, FillingOrder, BackInv, RestOrder, Ordered,
         Boundary, ScorerEnd, InHand, Counters
<1>6. OutputInv BY DEF OutputInv, Counters
<1>7. GenerationInv /\ TraceInv
  BY DEF GenerationInv, StreamGenerations, CausalBatches, TraceInv, Causal, Counters
<1>8. BoundInv BY DEF BoundInv, Bounded, Counters
<1> QED BY <1>1, <1>2, <1>3, <1>4, <1>5, <1>6, <1>7, <1>8 DEF IInv
-----------------------------------------------------------------------------
(* Queues of records of a type keep that type.                            *)
LEMMA SequenceTypes ==
  ASSUME NEW S, NEW s \in Seq(S)
  PROVE  /\ \A e \in S : Append(s, e) \in Seq(S)
         /\ s # <<>> => Tail(s) \in Seq(S) /\ Head(s) \in S
         /\ \A j \in 1..Len(s) : s[j] \in S
BY AppendProperties, HeadTailProperties, ElementOfSeq

(* Every record has its fields.                                           *)
LEMMA Fields ==
  ASSUME Shape
  PROVE  /\ DOMAIN main = {"pc", "launched"} /\ DOMAIN src = {"pc", "item"}
         /\ DOMAIN bat = {"pc", "item", "batch", "size", "tail"}
         /\ DOMAIN scr = {"pc", "batch", "i"}
         /\ DOMAIN stats = Counters
         /\ DOMAIN bat.batch = {"items", "gen", "target"}
         /\ bat.tail \in BOOLEAN /\ cancelled \in BOOLEAN
BY DEF Shape, Bundle

(* What the steps of one thread leave alone.                              *)
LEMMA Counting ==
  ASSUME Shape, NEW names \in SUBSET Counters, Count(names)
  PROVE  /\ stats' \in [Counters -> Nat]
         /\ \A c \in names : stats'[c] = stats[c] + 1
         /\ \A c \in Counters \ names : stats'[c] = stats[c]
BY DEF Shape, Count

(* What a step of the source thread leaves alone, and what it can only do *)
(* to an open queue.                                                      *)
LEMMA SourceFrame ==
  ASSUME Shape, Source
  PROVE  /\ src.pc \notin {"unborn", "exited"} /\ src'.pc # "unborn"
         /\ UNCHANGED <<batches, batchesClosed, generation, expired, main, bat, scr,
                        predictions, trace>>
         /\ \A c \in Counters \ {"read", "extracted"} : stats'[c] = stats[c]
         /\ Failed => Failed'
         /\ features' = features \/ ~featuresClosed
         /\ featuresClosed => featuresClosed'
<1>0. src.pc \notin {"unborn", "exited"} /\ src'.pc # "unborn"
  <2> USE Fields
    <2>1. CASE SourceCheck
    BY <2>1 DEF SourceCheck, Check, AfterAppend
  <2>2. CASE SourceNext
    BY <2>2 DEF SourceNext, Check, AfterAppend
  <2>3. CASE SourcePush
    BY <2>3 DEF SourcePush, Check, AfterAppend
  <2>4. CASE SourcePushRefused
    BY <2>4 DEF SourcePushRefused, Check, AfterAppend
  <2>5. CASE SourceRetry
    BY <2>5 DEF SourceRetry, Check, AfterAppend
  <2>6. CASE SourceClosing
    BY <2>6 DEF SourceClosing, Check, AfterAppend
  <2>7. CASE SourceClose
    BY <2>7 DEF SourceClose, Check, AfterAppend
  <2>8. CASE SourceRecord
    BY <2>8 DEF SourceRecord, Check, AfterAppend
  <2>9. CASE SourceCancel
    BY <2>9 DEF SourceCancel, Check, AfterAppend
  <2> QED BY <2>1, <2>2, <2>3, <2>4, <2>5, <2>6, <2>7, <2>8, <2>9 DEF Source
<1>1. \A c \in Counters \ {"read", "extracted"} : stats'[c] = stats[c]
  BY Counting DEF Source, SourceCheck, SourceNext, SourcePush, SourcePushRefused, SourceRetry,
     SourceClosing, SourceClose, SourceRecord, SourceCancel, Counters
<1>2. Failed => Failed'
  BY DEF Source, SourceCheck, SourceNext, SourcePush, SourcePushRefused, SourceRetry,
     SourceClosing, SourceClose, SourceRecord, SourceCancel, Record, Failed, NoError, errorVars
<1>3. UNCHANGED <<batches, batchesClosed, generation, expired, main, bat, scr,
                  predictions, trace>>
  BY DEF Source, SourceCheck, SourceNext, SourcePush, SourcePushRefused, SourceRetry,
     SourceClosing, SourceClose, SourceRecord, SourceCancel, queueVars, fileVars
<1>4. /\ features' = features \/ ~featuresClosed
      /\ featuresClosed => featuresClosed'
  BY DEF Source, SourceCheck, SourceNext, SourcePush, SourcePushRefused, SourceRetry,
     SourceClosing, SourceClose, SourceRecord, SourceCancel, queueVars
<1> QED BY <1>0, <1>1, <1>2, <1>3, <1>4

(* The same of the batcher thread ...                                     *)
LEMMA BatcherFrame ==
  ASSUME Shape, Batcher
  PROVE  /\ bat.pc \notin {"unborn", "exited"} /\ bat'.pc # "unborn"
         /\ UNCHANGED <<featuresClosed, expired, main, src, scr, predictions>>
         /\ \A c \in {"read", "extracted", "scored", "written"} : stats'[c] = stats[c]
         /\ Failed => Failed'
         /\ features' = features \/ (features # <<>> /\ features' = Tail(features))
         /\ batches' = batches \/ (~batchesClosed /\ batchesClosed' = batchesClosed)
         /\ batchesClosed => batchesClosed'
<1>0. bat.pc \notin {"unborn", "exited"} /\ bat'.pc # "unborn"
  <2> USE Fields
    <2>1. CASE BatcherCheck
    BY <2>1 DEF BatcherCheck, Check, AfterAppend
  <2>2. CASE BatcherPop
    BY <2>2 DEF BatcherPop, Check, AfterAppend
  <2>3. CASE BatcherPopRefused
    BY <2>3 DEF BatcherPopRefused, Check, AfterAppend
  <2>4. CASE BatcherNotEof
    BY <2>4 DEF BatcherNotEof, Check, AfterAppend
  <2>5. CASE BatcherEof
    BY <2>5 DEF BatcherEof, Check, AfterAppend
  <2>6. CASE BatcherStart
    BY <2>6 DEF BatcherStart, Check, AfterAppend
  <2>7. CASE BatcherTrace
    BY <2>7 DEF BatcherTrace, Check, AfterAppend
  <2>8. CASE BatcherPush
    BY <2>8 DEF BatcherPush, Check, AfterAppend
  <2>9. CASE BatcherPushRefused
    BY <2>9 DEF BatcherPushRefused, Check, AfterAppend
  <2>10. CASE BatcherRetry
    BY <2>10 DEF BatcherRetry, Check, AfterAppend
  <2>11. CASE BatcherFinishing
    BY <2>11 DEF BatcherFinishing, Check, AfterAppend
  <2>12. CASE BatcherClose
    BY <2>12 DEF BatcherClose, Check, AfterAppend
  <2>13. CASE BatcherRecord
    BY <2>13 DEF BatcherRecord, Check, AfterAppend
  <2>14. CASE BatcherCancel
    BY <2>14 DEF BatcherCancel, Check, AfterAppend
  <2> QED BY <2>1, <2>2, <2>3, <2>4, <2>5, <2>6, <2>7, <2>8, <2>9, <2>10, <2>11, <2>12, <2>13,
     <2>14 DEF Batcher
<1>1. \A c \in {"read", "extracted", "scored", "written"} : stats'[c] = stats[c]
  <2>1. ASSUME NEW names \in SUBSET {"batched", "batches", "tails"}, Count(names)
        PROVE  \A c \in {"read", "extracted", "scored", "written"} : stats'[c] = stats[c]
    BY <2>1, Counting DEF Counters
  <2>2. \/ UNCHANGED stats
        \/ Count({"batched"}) \/ Count({"batches"}) \/ Count({"tails"})
    BY DEF Batcher, BatcherCheck, BatcherPop, BatcherPopRefused, BatcherNotEof, BatcherEof,
       BatcherStart, BatcherTrace, BatcherPush, BatcherPushRefused, BatcherRetry,
       BatcherFinishing, BatcherClose, BatcherRecord, BatcherCancel
  <2> QED BY <2>1, <2>2
<1>2. Failed => Failed'
  BY DEF Batcher, BatcherCheck, BatcherPop, BatcherPopRefused, BatcherNotEof, BatcherEof,
     BatcherStart, BatcherTrace, BatcherPush, BatcherPushRefused, BatcherRetry, BatcherFinishing,
     BatcherClose, BatcherRecord, BatcherCancel, Record, Failed, NoError, errorVars
<1>3. UNCHANGED <<featuresClosed, expired, main, src, scr, predictions>>
  BY DEF Batcher, BatcherCheck, BatcherPop, BatcherPopRefused, BatcherNotEof, BatcherEof,
     BatcherStart, BatcherTrace, BatcherPush, BatcherPushRefused, BatcherRetry, BatcherFinishing,
     BatcherClose, BatcherRecord, BatcherCancel, queueVars, fileVars
<1>4. /\ features' = features \/ (features # <<>> /\ features' = Tail(features))
      /\ batches' = batches \/ (~batchesClosed /\ batchesClosed' = batchesClosed)
      /\ batchesClosed => batchesClosed'
  BY DEF Batcher, BatcherCheck, BatcherPop, BatcherPopRefused, BatcherNotEof, BatcherEof,
     BatcherStart, BatcherTrace, BatcherPush, BatcherPushRefused, BatcherRetry, BatcherFinishing,
     BatcherClose, BatcherRecord, BatcherCancel, queueVars, Shape
<1> QED BY <1>0, <1>1, <1>2, <1>3, <1>4

(* ... of the scorer thread ...                                           *)
LEMMA ScorerFrame ==
  ASSUME Shape, Scorer
  PROVE  /\ scr.pc \notin {"unborn", "exited"} /\ scr'.pc # "unborn"
         /\ UNCHANGED <<features, featuresClosed, batchesClosed, generation, expired,
                        main, src, bat, trace>>
         /\ \A c \in Counters \ {"scored", "written"} : stats'[c] = stats[c]
         /\ Failed => Failed'
         /\ batches' = batches \/ (batches # <<>> /\ batches' = Tail(batches))
<1>0. scr.pc \notin {"unborn", "exited"} /\ scr'.pc # "unborn"
  <2> USE Fields
    <2>1. CASE ScorerCheck
    BY <2>1 DEF ScorerCheck, Check, AfterAppend
  <2>2. CASE ScorerPop
    BY <2>2 DEF ScorerPop, Check, AfterAppend
  <2>3. CASE ScorerPopRefused
    BY <2>3 DEF ScorerPopRefused, Check, AfterAppend
  <2>4. CASE ScorerNotEof
    BY <2>4 DEF ScorerNotEof, Check, AfterAppend
  <2>5. CASE ScorerEof
    BY <2>5 DEF ScorerEof, Check, AfterAppend
  <2>6. CASE ScorerItem
    BY <2>6 DEF ScorerItem, Check, AfterAppend
  <2>7. CASE ScorerFlush
    BY <2>7 DEF ScorerFlush, Check, AfterAppend
  <2>8. CASE ScorerRecord
    BY <2>8 DEF ScorerRecord, Check, AfterAppend
  <2>9. CASE ScorerCancel
    BY <2>9 DEF ScorerCancel, Check, AfterAppend
  <2> QED BY <2>1, <2>2, <2>3, <2>4, <2>5, <2>6, <2>7, <2>8, <2>9 DEF Scorer
<1>1. \A c \in Counters \ {"scored", "written"} : stats'[c] = stats[c]
  BY Counting DEF Scorer, ScorerCheck, ScorerPop, ScorerPopRefused, ScorerNotEof, ScorerEof,
     ScorerItem, ScorerFlush, ScorerRecord, ScorerCancel, Counters
<1>2. Failed => Failed'
  BY DEF Scorer, ScorerCheck, ScorerPop, ScorerPopRefused, ScorerNotEof, ScorerEof, ScorerItem,
     ScorerFlush, ScorerRecord, ScorerCancel, Record, Failed, NoError, errorVars
<1>3. UNCHANGED <<features, featuresClosed, batchesClosed, generation, expired,
                  main, src, bat, trace>>
  BY DEF Scorer, ScorerCheck, ScorerPop, ScorerPopRefused, ScorerNotEof, ScorerEof, ScorerItem,
     ScorerFlush, ScorerRecord, ScorerCancel, queueVars, fileVars
<1>4. batches' = batches \/ (batches # <<>> /\ batches' = Tail(batches))
  BY DEF Scorer, ScorerCheck, ScorerPop, ScorerPopRefused, ScorerNotEof, ScorerEof, ScorerItem,
     ScorerFlush, ScorerRecord, ScorerCancel, queueVars
<1> QED BY <1>0, <1>1, <1>2, <1>3, <1>4

(* The main thread only starts workers and records its verdict.           *)
LEMMA MainFrame ==
  ASSUME Shape, LaunchInv, Main
  PROVE  /\ UNCHANGED <<features, featuresClosed, batches, batchesClosed, generation,
                        expired, stats, predictions, trace>>
         /\ Failed => Failed'
         /\ src' = src \/ (src.pc = "unborn" /\ src' = [src EXCEPT !.pc = "check"])
         /\ bat' = bat \/ (bat.pc = "unborn" /\ bat' = [bat EXCEPT !.pc = "check"])
         /\ scr' = scr \/ (scr.pc = "unborn" /\ scr' = [scr EXCEPT !.pc = "check"])
<1>1. Failed => Failed'
  BY DEF Main, MainLaunch, MainLaunchFails, MainCancel, MainJoin, Record, Failed, NoError, errorVars
<1>2. UNCHANGED <<features, featuresClosed, batches, batchesClosed, generation,
                  expired, stats, predictions, trace>>
  BY DEF Main, MainLaunch, MainLaunchFails, MainCancel, MainJoin, queueVars, fileVars
<1>3. /\ src' = src \/ (src.pc = "unborn" /\ src' = [src EXCEPT !.pc = "check"])
      /\ bat' = bat \/ (bat.pc = "unborn" /\ bat' = [bat EXCEPT !.pc = "check"])
      /\ scr' = scr \/ (scr.pc = "unborn" /\ scr' = [scr EXCEPT !.pc = "check"])
  BY DEF Main, MainLaunch, MainLaunchFails, MainCancel, MainJoin, LaunchInv, Shape
<1> QED BY <1>1, <1>2, <1>3

(* ... and of the passing of the deadline.                                *)
LEMMA IdleFrame ==
  ASSUME Expire \/ UNCHANGED vars
  PROVE  UNCHANGED <<features, featuresClosed, batches, batchesClosed, generation,
                     cancelled, firstError, main, src, bat, scr, stats, predictions, trace>>
BY DEF Expire, vars, queueVars, errorVars, fileVars

(* One lemma per part of the invariant, by the thread that moves: first   *)
(* what the main thread has launched and joined.                          *)
LEMMA LaunchStep == IInv /\ [Next]_vars => LaunchInv'
<1> SUFFICES ASSUME Shape, LaunchInv, [Next]_vars PROVE LaunchInv'
  BY DEF IInv
<1>1. CASE Main
  <2> USE Fields DEF LaunchInv
  <2>0. main.launched \in 0..3
    BY DEF Shape
  <2>1. CASE MainLaunch
    <3>1. main.launched < 3
      BY <2>1 DEF MainLaunch
    <3>2. main'.launched = main.launched + 1
          /\ main'.pc = (IF main.launched = 2 THEN "join" ELSE "launch")
      BY <2>1 DEF MainLaunch
    <3>3. CASE main.launched = 0
      BY <2>1, <3>2, <3>3 DEF MainLaunch, Verdicts
    <3>4. CASE main.launched = 1
      BY <2>1, <3>2, <3>4 DEF MainLaunch, Verdicts
    <3>5. CASE main.launched = 2
      BY <2>1, <3>2, <3>5 DEF MainLaunch, Verdicts
    <3> QED BY <2>0, <3>1, <3>3, <3>4, <3>5
  <2>2. CASE MainLaunchFails \/ MainCancel
    BY <2>0, <2>2 DEF MainLaunchFails, MainCancel, Record, errorVars, Verdicts, Failed, NoError
  <2>3. CASE MainJoin
    BY <2>0, <2>3 DEF MainJoin, Verdict, errorVars, Verdicts, Failed
  <2> QED BY <1>1, <2>1, <2>2, <2>3 DEF Main
<1>2. CASE Source
  BY <1>2, SourceFrame DEF LaunchInv
<1>3. CASE Batcher
  BY <1>3, BatcherFrame DEF LaunchInv
<1>4. CASE Scorer
  BY <1>4, ScorerFrame DEF LaunchInv
<1>5. CASE Expire \/ UNCHANGED vars
  BY <1>5, IdleFrame DEF LaunchInv, Failed
<1> QED BY <1>1, <1>2, <1>3, <1>4, <1>5 DEF Next, Finished
-----------------------------------------------------------------------------
(* Why a worker may leave its loop.                                       *)
LEMMA CauseStep == IInv /\ [Next]_vars => CauseInv'
<1> SUFFICES ASSUME Shape, LaunchInv, CauseInv, SourceInv, [Next]_vars PROVE CauseInv'
  BY DEF IInv
<1>1. CASE Main
  <2>1. /\ cancelled' => Failed'
        /\ main'.pc = "cancel" => Failed'
    <3>1. CASE MainLaunch \/ MainCancel
      BY <3>1 DEF MainLaunch, MainCancel, CauseInv, Failed, Shape, errorVars
    <3>2. CASE MainLaunchFails
      BY <3>2 DEF MainLaunchFails, CauseInv, Record, Failed, NoError, Shape, errorVars
    <3>3. CASE MainJoin
      <4>1. main'.pc = Verdict /\ UNCHANGED <<cancelled, firstError>>
        BY <3>3 DEF MainJoin, Shape, errorVars
      <4>2. Verdict # "cancel"
        BY DEF Verdict
      <4> QED BY <4>1, <4>2 DEF CauseInv, Failed
    <3> QED BY <1>1, <3>1, <3>2, <3>3 DEF Main
  <2> QED BY <1>1, <2>1, MainFrame, Fields DEF CauseInv
<1>2. CASE Source
  <2>1. /\ cancelled' => Failed'
        /\ src'.pc = "cancel" => Failed'
        /\ src'.pc = "exited" => featuresClosed' \/ Failed'
        /\ src'.pc \in {"closing", "close"} \/ featuresClosed'
             => stats'["read"] = Events \/ Failed'
    <3>1. CASE SourceNext
      <4>1. src'.pc \in {"push", "throw", "closing"}
            /\ (src'.pc = "closing" => stats' = stats /\ stats["read"] = Events)
            /\ featuresClosed' = featuresClosed /\ Failed' = Failed /\ cancelled' = cancelled
        BY <3>1 DEF SourceNext, Shape, queueVars, errorVars, Failed
      <4>2. featuresClosed => stats' = stats \/ Failed
        BY <3>1 DEF SourceNext, CauseInv, PipelineAssumption, Shape, Counters
      <4> QED BY <4>1, <4>2 DEF CauseInv
    <3>2. CASE SourceCheck \/ SourcePush \/ SourcePushRefused \/ SourceRetry
      BY <3>2 DEF SourceCheck, SourcePush, SourcePushRefused, SourceRetry, Check, Shape,
         queueVars, errorVars, Failed, CauseInv
    <3>3. CASE SourceClosing \/ SourceClose \/ SourceRecord \/ SourceCancel
      BY <3>3 DEF SourceClosing, SourceClose, SourceRecord, SourceCancel, Shape, queueVars,
         errorVars, Failed, NoError, Record, CauseInv
    <3> QED BY <1>2, <3>1, <3>2, <3>3 DEF Source
  <2>2. features' = features \/ ~featuresClosed
    BY <1>2, SourceFrame
  <2> QED BY <1>2, <2>1, <2>2, SourceFrame DEF CauseInv
<1>3. CASE Batcher
  <2>1. /\ cancelled' => Failed'
        /\ bat'.pc = "cancel" => Failed'
        /\ bat'.pc = "exited" => batchesClosed' \/ Failed'
    <3> USE Fields DEF Failed, NoError, errorVars
    <3>0. (cancelled => Failed) /\ (bat.pc = "cancel" => Failed)
      BY DEF CauseInv
    <3> USE <3>0
    <3>1. CASE BatcherCheck
      BY <3>1 DEF BatcherCheck, Check, AfterAppend, Record
    <3>2. CASE BatcherPop
      BY <3>2 DEF BatcherPop, Check, AfterAppend, Record
    <3>3. CASE BatcherPopRefused
      BY <3>3 DEF BatcherPopRefused, Check, AfterAppend, Record
    <3>4. CASE BatcherNotEof
      BY <3>4 DEF BatcherNotEof, Check, AfterAppend, Record
    <3>5. CASE BatcherEof
      BY <3>5 DEF BatcherEof, Check, AfterAppend, Record
    <3>6. CASE BatcherStart
      BY <3>6 DEF BatcherStart, Check, AfterAppend, Record
    <3>7. CASE BatcherTrace
      BY <3>7 DEF BatcherTrace, Check, AfterAppend, Record
    <3>8. CASE BatcherPush
      BY <3>8 DEF BatcherPush, Check, AfterAppend, Record
    <3>9. CASE BatcherPushRefused
      BY <3>9 DEF BatcherPushRefused, Check, AfterAppend, Record
    <3>10. CASE BatcherRetry
      BY <3>10 DEF BatcherRetry, Check, AfterAppend, Record
    <3>11. CASE BatcherFinishing
      BY <3>11 DEF BatcherFinishing, Check, AfterAppend, Record
    <3>12. CASE BatcherClose
      BY <3>12 DEF BatcherClose, Check, AfterAppend, Record
    <3>13. CASE BatcherRecord
      BY <3>13 DEF BatcherRecord, Check, AfterAppend, Record
    <3>14. CASE BatcherCancel
      BY <3>14 DEF BatcherCancel, Check, AfterAppend, Record
    <3> QED BY <1>3, <3>1, <3>2, <3>3, <3>4, <3>5, <3>6, <3>7, <3>8, <3>9, <3>10, <3>11, <3>12,
       <3>13, <3>14 DEF Batcher
  <2>2. bat'.pc \in {"finishing", "end", "exited"} \/ bat'.tail
          => \/ featuresClosed /\ features = <<>>
             \/ Failed'
             \/ bat.pc \in {"finishing", "end", "exited"} \/ bat.tail
    <3> USE Fields DEF CauseInv, Failed, NoError, errorVars
    <3>1. CASE BatcherCheck \/ BatcherPop \/ BatcherPopRefused \/ BatcherNotEof \/ BatcherEof
      BY <3>1 DEF BatcherCheck, BatcherPop, BatcherPopRefused, BatcherNotEof, BatcherEof, Check,
         AfterAppend
    <3>2. CASE BatcherStart \/ BatcherTrace \/ BatcherPush \/ BatcherPushRefused \/ BatcherRetry
      BY <3>2, ZenonT(30) DEF BatcherStart, BatcherTrace, BatcherPush, BatcherPushRefused,
         BatcherRetry, Check, AfterAppend
    <3>3. CASE BatcherFinishing \/ BatcherClose \/ BatcherRecord \/ BatcherCancel
      BY <3>3 DEF BatcherFinishing, BatcherClose, BatcherRecord, BatcherCancel, Record
    <3> QED BY <1>3, <3>1, <3>2, <3>3 DEF Batcher
  <2>3. features = <<>> => features' = <<>>
    BY <1>3, BatcherFrame
  <2> QED BY <1>3, <2>1, <2>2, <2>3, BatcherFrame DEF CauseInv, Counters
<1>4. CASE Scorer
  <2>1. /\ cancelled' => Failed'
        /\ scr'.pc = "cancel" => Failed'
    BY <1>4 DEF Scorer, ScorerCheck, ScorerPop, ScorerPopRefused, ScorerNotEof, ScorerEof,
       ScorerItem, ScorerFlush, ScorerRecord, ScorerCancel, CauseInv, Record, Check, Failed,
       NoError, Shape, errorVars
  <2>2. scr'.pc \in {"flush", "exited"}
          => (batchesClosed /\ batches = <<>>) \/ Failed'
    BY <1>4 DEF Scorer, ScorerCheck, ScorerPop, ScorerPopRefused, ScorerNotEof, ScorerEof,
       ScorerItem, ScorerFlush, ScorerRecord, ScorerCancel, CauseInv, Record, Check, Failed,
       NoError, Shape, errorVars
  <2>3. batches = <<>> => batches' = <<>>
    BY <1>4, ScorerFrame
  <2> QED BY <1>4, <2>1, <2>2, <2>3, ScorerFrame DEF CauseInv, Counters
<1>5. CASE Expire \/ UNCHANGED vars
  BY <1>5, IdleFrame DEF CauseInv, Failed
<1> QED BY <1>1, <1>2, <1>3, <1>4, <1>5 DEF Next, Finished
-----------------------------------------------------------------------------
(* What the source thread holds.                                          *)
LEMMA SourceStep == IInv /\ [Next]_vars => SourceInv'
<1> SUFFICES ASSUME Shape, LaunchInv, CauseInv, SourceInv, [Next]_vars PROVE SourceInv'
  BY DEF IInv
<1>0. DOMAIN stats = Counters /\ stats["read"] \in Nat /\ stats["extracted"] \in Nat
  BY DEF Shape, Counters
<1>1. CASE Main
  BY <1>1, MainFrame, Fields DEF SourceInv
<1>2. CASE Source
  <2> USE Fields, PipelineAssumption DEF SourceInv, Failed, NoError, errorVars
  <2>0. (cancelled => Failed) /\ (src.pc = "cancel" => Failed)
    BY DEF CauseInv
  <2> USE <1>0, <2>0
    <2>1. CASE SourceCheck
    BY <2>1 DEF SourceCheck, Check, Record, Count, Counters, NoItem
  <2>2. CASE SourceNext
    BY <2>2 DEF SourceNext, Check, Record, Count, Counters, NoItem
  <2>3. CASE SourcePush
    BY <2>3 DEF SourcePush, Check, Record, Count, Counters, NoItem
  <2>4. CASE SourcePushRefused
    BY <2>4 DEF SourcePushRefused, Check, Record, Count, Counters, NoItem
  <2>5. CASE SourceRetry
    BY <2>5 DEF SourceRetry, Check, Record, Count, Counters, NoItem
  <2>6. CASE SourceClosing
    BY <2>6 DEF SourceClosing, Check, Record, Count, Counters, NoItem
  <2>7. CASE SourceClose
    BY <2>7 DEF SourceClose, Check, Record, Count, Counters, NoItem
  <2>8. CASE SourceRecord
    BY <2>8 DEF SourceRecord, Check, Record, Count, Counters, NoItem
  <2>9. CASE SourceCancel
    BY <2>9 DEF SourceCancel, Check, Record, Count, Counters, NoItem
  <2> QED BY <1>2, <2>1, <2>2, <2>3, <2>4, <2>5, <2>6, <2>7, <2>8, <2>9 DEF Source
<1>3. CASE Batcher
  BY <1>3, BatcherFrame DEF SourceInv
<1>4. CASE Scorer
  BY <1>4, ScorerFrame DEF SourceInv, Counters
<1>5. CASE Expire \/ UNCHANGED vars
  BY <1>5, IdleFrame DEF SourceInv, Failed
<1> QED BY <1>1, <1>2, <1>3, <1>4, <1>5 DEF Next, Finished

(* When every worker is gone and no error is recorded, nothing is left    *)
(* anywhere in the pipeline and the counters agree.                       *)
LEMMA JoinConserves ==
  ASSUME IInv, main.pc = "join", \A w \in {src, bat, scr} : w.pc \in {"unborn", "exited"},
         ~Failed
  PROVE  Conserved
<1> USE DEF IInv
<1>1. src.pc = "exited" /\ bat.pc = "exited" /\ scr.pc = "exited"
  BY Fields DEF LaunchInv
<1>2. Drained
  BY <1>1 DEF CauseInv, Drained
<1>3. src.item = NoItem /\ stats["extracted"] = stats["read"]
  BY <1>1 DEF SourceInv
<1>4. bat.batch.items = <<>>
  BY <1>1 DEF BatcherInv
<1>5. scr.batch.items = <<>> /\ scr.i = 1 /\ stats["scored"] = stats["written"]
  BY <1>1 DEF ScorerInv
<1>6. stats["extracted"] = stats["batched"]
  BY <1>1, <1>2, <1>3 DEF FrontInv, SourceOrder, FeatureOrder, FillingOrder, InHand, Drained,
     Shape, Counters
<1>7. stats["written"] = stats["batched"]
  BY <1>2, <1>4, <1>5 DEF BackInv, RestOrder, Ordered, Boundary, ScorerEnd, Drained, Shape, Counters
<1> QED BY <1>2, <1>3, <1>5, <1>6, <1>7 DEF Conserved

(* A scorer step writes the next row of the stream, or none.              *)
LEMMA ScorerRows ==
  ASSUME IInv, Scorer
  PROVE  \/ predictions' = predictions /\ stats'["written"] = stats["written"]
         \/ /\ stats'["written"] = stats["written"] + 1
            /\ predictions' = Append(predictions, Len(predictions) + 1)
<1> USE DEF IInv
<1>0. stats["written"] \in Nat
  BY DEF Shape, Counters
<1>1. \/ predictions' = predictions /\ stats'["written"] = stats["written"]
      \/ /\ scr.pc = "item" /\ stats'["written"] = stats["written"] + 1
         /\ predictions' = Append(predictions, scr.batch.items[scr.i].seq)
  <2>1. CASE ScorerItem
    BY <2>1, Fields, Counting DEF ScorerItem, Counters, Count
  <2>2. CASE ~ScorerItem
    BY <2>2 DEF Scorer, ScorerCheck, ScorerPop, ScorerPopRefused, ScorerNotEof, ScorerEof,
       ScorerItem, ScorerFlush, ScorerRecord, ScorerCancel, fileVars
  <2> QED BY <2>1, <2>2
<1>2. scr.pc = "item" => scr.batch.items[scr.i].seq = stats["written"] + 1
  <2>1. scr.i \in Nat /\ Len(scr.batch.items) \in Nat
    BY DEF Shape, Bundle
  <2>2. scr.pc = "item" => scr.i \in scr.i..Len(scr.batch.items)
    BY <2>1 DEF ScorerInv, Shape
  <2>3. \A j \in scr.i..Len(scr.batch.items) :
          scr.batch.items[j].seq = stats["written"] + 1 + j - scr.i
    BY DEF BackInv, RestOrder
  <2>4. scr.pc = "item" =>
          scr.batch.items[scr.i].seq = stats["written"] + 1 + scr.i - scr.i
    BY <2>2, <2>3, Zenon
  <2> QED BY <1>0, <2>1, <2>4
<1> QED BY <1>1, <1>2 DEF OutputInv

(* What has been written, and what verify_pipeline finds.                 *)
LEMMA OutputStep == IInv /\ [Next]_vars => OutputInv'
<1> SUFFICES ASSUME IInv, [Next]_vars PROVE OutputInv'
  OBVIOUS
<1> USE DEF IInv
<1>0. stats["written"] \in Nat /\ predictions \in Seq(Nat)
  BY DEF Shape, Counters
<1>1. CASE Main
  <2>1. CASE MainLaunch \/ MainLaunchFails \/ MainCancel
    <3>1. main'.pc \notin {"returned", "conservation_failure"}
      BY <2>1, Fields DEF MainLaunch, MainLaunchFails, MainCancel
    <3> QED BY <1>1, <3>1, MainFrame DEF OutputInv
  <2>2. CASE MainJoin
    <3>1. main'.pc = Verdict
      BY <2>2, Fields DEF MainJoin
    <3>2. ~Failed => Conserved
      BY <2>2, JoinConserves DEF MainJoin
    <3>3. ~Failed /\ Conserved => stats["written"] = Events
      BY DEF Conserved, Drained, CauseInv
    <3> QED BY <1>1, <3>1, <3>2, <3>3, MainFrame DEF OutputInv, Verdict, Failed
  <2> QED BY <1>1, <2>1, <2>2 DEF Main
<1>2. CASE Source
  BY <1>2, SourceFrame DEF OutputInv, Counters
<1>3. CASE Batcher
  BY <1>3, BatcherFrame DEF OutputInv
<1>4. CASE Scorer
  <2>1. \/ predictions' = predictions /\ stats'["written"] = stats["written"]
        \/ /\ stats'["written"] = stats["written"] + 1
           /\ predictions' = Append(predictions, Len(predictions) + 1)
    BY <1>4, ScorerRows
  <2>2. main' = main
    BY <1>4, ScorerFrame
  <2>4. main.pc # "returned"
    BY <1>4, ScorerFrame DEF LaunchInv, Verdicts
  <2>5. CASE predictions' = predictions /\ stats'["written"] = stats["written"]
    BY <2>2, <2>5 DEF OutputInv
  <2>6. CASE /\ stats'["written"] = stats["written"] + 1
             /\ predictions' = Append(predictions, Len(predictions) + 1)
    <3>1. \A i \in 1..Len(predictions') : predictions'[i] = i
      BY <1>0, <2>6 DEF OutputInv
    <3> QED BY <1>0, <2>2, <2>4, <2>6, <3>1 DEF OutputInv
  <2> QED BY <2>1, <2>5, <2>6
<1>5. CASE Expire \/ UNCHANGED vars
  BY <1>5, IdleFrame DEF OutputInv
<1> QED BY <1>1, <1>2, <1>3, <1>4, <1>5 DEF Next, Finished
-----------------------------------------------------------------------------
(* The types of what each thread writes.                                  *)
LEMMA ShapeStep == IInv /\ [Next]_vars => Shape'
<1> SUFFICES ASSUME Shape, LaunchInv, ScorerInv, [Next]_vars PROVE Shape'
  BY DEF IInv
<1>0a. /\ NoItem \in Entry /\ NoBatch \in Bundle
  BY DEF NoItem, NoBatch, Entry, Bundle
<1>0b. /\ bat.item \in Entry /\ bat.batch \in Bundle /\ bat.size \in BatchSize
       /\ src.item \in Entry /\ scr.batch \in Bundle /\ generation \in Nat
       /\ bat.tail \in BOOLEAN /\ scr.i \in Nat \ {0}
  BY DEF Shape
<1>0c. /\ features \in Seq(Entry) /\ batches \in Seq(Bundle) /\ trace \in Seq(Row)
       /\ predictions \in Seq(Nat)
  BY DEF Shape
<1>0d. stats["read"] \in Nat
  BY DEF Shape, Counters
<1>0e. /\ bat.batch.items \in Seq(Entry) /\ bat.batch.gen \in Nat /\ bat.batch.target \in Nat
       /\ scr.batch.items \in Seq(Entry)
  BY <1>0b DEF Bundle
<1>0f. Len(bat.batch.items) \in Nat
  BY <1>0e
<1>1. CASE Main
  <2>1. cancelled' \in BOOLEAN /\ firstError' \in {NoError, "main", "source", "batcher", "scorer"}
    BY <1>1 DEF Main, MainLaunch, MainLaunchFails, MainCancel, MainJoin, Record, Shape, errorVars
  <2>2. main' \in [pc : {"launch", "cancel", "join"} \cup Verdicts, launched : 0..3]
    <3>1. CASE MainLaunch \/ MainLaunchFails \/ MainCancel
      BY <3>1 DEF MainLaunch, MainLaunchFails, MainCancel, LaunchInv, Shape
    <3>2. CASE MainJoin
      BY <3>2 DEF MainJoin, Verdict, Verdicts, Shape
    <3> QED BY <1>1, <3>1, <3>2 DEF Main
  <2>3. /\ src' \in [pc : SourcePc, item : Entry]
        /\ bat' \in [pc : BatcherPc, item : Entry, batch : Bundle, size : BatchSize,
                    tail : BOOLEAN]
        /\ scr' \in [pc : ScorerPc, batch : Bundle, i : Nat \ {0}]
    BY <1>1, MainFrame, ZenonT(30) DEF Shape, SourcePc, BatcherPc, ScorerPc, WorkerPc
  <2> QED BY <1>1, <2>1, <2>2, <2>3, MainFrame DEF Shape
<1>2. CASE Source
  <2>1. cancelled' \in BOOLEAN /\ featuresClosed' \in BOOLEAN
        /\ firstError' \in {NoError, "main", "source", "batcher", "scorer"}
    BY <1>2 DEF Source, SourceCheck, SourceNext, SourcePush, SourcePushRefused, SourceRetry,
       SourceClosing, SourceClose, SourceRecord, SourceCancel, Record, Shape, errorVars, queueVars
  <2>2. src' \in [pc : SourcePc, item : Entry]
    <3> DEFINE T == [pc : SourcePc, item : Entry]
    <3> USE <1>0a DEF SourcePc, WorkerPc
    <3>0. src \in T
      BY DEF Shape
    <3>1. CASE SourceNext
      <4>1. [seq |-> stats["read"] + 1, gen |-> generation] \in Entry
        BY <1>0b, <1>0d DEF Entry
      <4> QED BY <3>0, <3>1, <4>1 DEF SourceNext
    <3>2. CASE ~SourceNext
      BY <1>2, <3>0, <3>2 DEF Source, SourceCheck, SourceNext, SourcePush, SourcePushRefused,
         SourceRetry, SourceClosing, SourceClose, SourceRecord, SourceCancel, Check
    <3> QED BY <3>1, <3>2
  <2>3. stats' \in [Counters -> Nat]
    BY <1>2, Counting DEF Source, SourceCheck, SourceNext, SourcePush, SourcePushRefused,
       SourceRetry, SourceClosing, SourceClose, SourceRecord, SourceCancel, Shape, Counters
  <2>4. features' \in Seq(Entry)
    <3>1. features' = features \/ features' = Append(features, src.item)
      BY <1>2 DEF Source, SourceCheck, SourceNext, SourcePush, SourcePushRefused, SourceRetry,
         SourceClosing, SourceClose, SourceRecord, SourceCancel, queueVars
    <3>2. Append(features, src.item) \in Seq(Entry)
      BY <1>0b, <1>0c, AppendProperties, Zenon
    <3> QED BY <1>0c, <3>1, <3>2
  <2> QED BY <1>2, <2>1, <2>2, <2>3, <2>4, SourceFrame DEF Shape
<1>3. CASE Batcher
  <2>1. /\ cancelled' \in BOOLEAN /\ batchesClosed' \in BOOLEAN /\ generation' \in Nat
        /\ firstError' \in {NoError, "main", "source", "batcher", "scorer"}
    <3>1. cancelled \in BOOLEAN /\ batchesClosed \in BOOLEAN
          /\ firstError \in {NoError, "main", "source", "batcher", "scorer"}
      BY DEF Shape
    <3>2. generation' = generation \/ generation' = generation + 1
      BY <1>3 DEF Batcher, BatcherCheck, BatcherPop, BatcherPopRefused, BatcherNotEof, BatcherEof,
         BatcherStart, BatcherTrace, BatcherPush, BatcherPushRefused, BatcherRetry,
         BatcherFinishing, BatcherClose, BatcherRecord, BatcherCancel
    <3>3. generation' \in Nat
      BY <1>0b, <3>2
    <3>4. cancelled' \in BOOLEAN /\ batchesClosed' \in BOOLEAN
      BY <1>3, <3>1 DEF Batcher, BatcherCheck, BatcherPop, BatcherPopRefused, BatcherNotEof,
         BatcherEof, BatcherStart, BatcherTrace, BatcherPush, BatcherPushRefused, BatcherRetry,
         BatcherFinishing, BatcherClose, BatcherRecord, BatcherCancel, errorVars, queueVars
    <3>5. firstError' = firstError \/ firstError' = "batcher"
      BY <1>3 DEF Batcher, BatcherCheck, BatcherPop, BatcherPopRefused, BatcherNotEof, BatcherEof,
         BatcherStart, BatcherTrace, BatcherPush, BatcherPushRefused, BatcherRetry,
         BatcherFinishing, BatcherClose, BatcherRecord, BatcherCancel, Record, errorVars
    <3> QED BY <3>1, <3>3, <3>4, <3>5
  <2>2. stats' \in [Counters -> Nat]
    <3>1. \/ UNCHANGED stats
          \/ Count({"batched"}) \/ Count({"batches"}) \/ Count({"tails"})
      BY <1>3 DEF Batcher, BatcherCheck, BatcherPop, BatcherPopRefused, BatcherNotEof, BatcherEof,
         BatcherStart, BatcherTrace, BatcherPush, BatcherPushRefused, BatcherRetry,
         BatcherFinishing, BatcherClose, BatcherRecord, BatcherCancel
    <3> QED BY <3>1, Counting DEF Shape, Counters
  <2>3. features' \in Seq(Entry)
    BY <1>0c, <1>3, BatcherFrame, SequenceTypes
  <2>4. batches' \in Seq(Bundle)
    <3>1. batches' = batches \/ batches' = Append(batches, bat.batch)
      BY <1>3 DEF Batcher, BatcherCheck, BatcherPop, BatcherPopRefused, BatcherNotEof, BatcherEof,
         BatcherStart, BatcherTrace, BatcherPush, BatcherPushRefused, BatcherRetry,
         BatcherFinishing, BatcherClose, BatcherRecord, BatcherCancel, queueVars
    <3>2. Append(batches, bat.batch) \in Seq(Bundle)
      BY <1>0b, <1>0c, AppendProperties, Zenon
    <3> QED BY <1>0c, <3>1, <3>2
  <2>5. trace' \in Seq(Row)
    <3>1. \/ trace' = trace
          \/ trace' = Append(trace, [gen |-> bat.batch.gen, count |-> Len(bat.batch.items),
                                     target |-> bat.batch.target, tail |-> bat.tail])
      <4>1. CASE BatcherTrace
        BY <4>1 DEF BatcherTrace
      <4>2. CASE ~BatcherTrace
        BY <1>3, <4>2 DEF Batcher, BatcherCheck, BatcherPop, BatcherPopRefused, BatcherNotEof,
           BatcherEof, BatcherStart, BatcherTrace, BatcherPush, BatcherPushRefused, BatcherRetry,
           BatcherFinishing, BatcherClose, BatcherRecord, BatcherCancel, fileVars
      <4> QED BY <4>1, <4>2
    <3>2. [gen |-> bat.batch.gen, count |-> Len(bat.batch.items),
           target |-> bat.batch.target, tail |-> bat.tail] \in Row
      BY <1>0b, <1>0e, <1>0f DEF Row
    <3> QED BY <1>0c, <3>1, <3>2, SequenceTypes
  <2>6. bat' \in [pc : BatcherPc, item : Entry, batch : Bundle, size : BatchSize,
                  tail : BOOLEAN]
    <3> DEFINE T == [pc : BatcherPc, item : Entry, batch : Bundle, size : BatchSize,
                     tail : BOOLEAN]
    <3> USE <1>0a, <1>0b DEF BatcherPc, WorkerPc, Check
    <3>0. bat \in T
      BY DEF Shape
    <3>1. CASE BatcherPop
      <4>1. features # <<>> => Head(features) \in Entry
        BY <1>0c, SequenceTypes
      <4>2. CASE bat.batch.items = <<>>
        BY <3>0, <3>1, <4>1, <4>2 DEF BatcherPop
      <4>3. CASE bat.batch.items # <<>>
        <5> DEFINE b == [bat.batch EXCEPT !.items = Append(@, Head(features))]
        <5>1. b \in Bundle
          <6>1. Append(bat.batch.items, Head(features)) \in Seq(Entry)
            BY <1>0e, <3>1, <4>1, SequenceTypes DEF BatcherPop
          <6> QED BY <1>0b, <6>1 DEF Bundle
        <5>2. bat' = [bat EXCEPT !.pc = AfterAppend(b), !.batch = b]
          BY <3>1, <4>3 DEF BatcherPop
        <5>3. AfterAppend(b) \in BatcherPc
          BY DEF AfterAppend
        <5> QED BY <3>0, <5>1, <5>2, <5>3
      <4> QED BY <4>2, <4>3
    <3>2. CASE BatcherStart
      <4>1. PICK zone \in Zone :
              LET size == IF Adaptive THEN NextBatchSize(bat.size, zone) ELSE BatchInitial
                  b == [items |-> <<bat.item>>, gen |-> generation + 1, target |-> size]
              IN  bat' = [bat EXCEPT !.pc = AfterAppend(b), !.item = NoItem,
                                     !.batch = b, !.size = size]
        BY <3>2 DEF BatcherStart, LoadAfterStore
      <4> DEFINE size == IF Adaptive THEN NextBatchSize(bat.size, zone) ELSE BatchInitial
                 b == [items |-> <<bat.item>>, gen |-> generation + 1, target |-> size]
      <4>2. size \in BatchSize
        BY BatchSizeStays, BatchBoundsAssumption DEF BatchSize
      <4>3. b \in Bundle
        BY <4>2, BatchBoundsAssumption DEF Bundle, BatchSize
      <4>4. AfterAppend(b) \in BatcherPc
        BY DEF AfterAppend
      <4> HIDE DEF size, b
      <4>5. bat' = [bat EXCEPT !.pc = AfterAppend(b), !.item = NoItem,
                               !.batch = b, !.size = size]
        BY <4>1 DEF size, b
      <4> QED BY <3>0, <4>2, <4>3, <4>4, <4>5
    <3>3. CASE ~BatcherPop /\ ~BatcherStart
      BY <1>3, <3>0, <3>3, ZenonT(30) DEF Batcher, BatcherCheck, BatcherPop, BatcherPopRefused,
         BatcherNotEof, BatcherEof, BatcherStart, BatcherTrace, BatcherPush, BatcherPushRefused,
         BatcherRetry, BatcherFinishing, BatcherClose, BatcherRecord, BatcherCancel
    <3> QED BY <3>1, <3>2, <3>3
  <2> QED BY <1>3, <2>1, <2>2, <2>3, <2>4, <2>5, <2>6, BatcherFrame DEF Shape
<1>4. CASE Scorer
  <2>1. /\ cancelled' \in BOOLEAN
        /\ firstError' \in {NoError, "main", "source", "batcher", "scorer"}
    BY <1>4 DEF Scorer, ScorerCheck, ScorerPop, ScorerPopRefused, ScorerNotEof, ScorerEof,
       ScorerItem, ScorerFlush, ScorerRecord, ScorerCancel, Record, Shape, errorVars
  <2>2. stats' \in [Counters -> Nat]
    BY <1>4, Counting DEF Scorer, ScorerCheck, ScorerPop, ScorerPopRefused, ScorerNotEof,
       ScorerEof, ScorerItem, ScorerFlush, ScorerRecord, ScorerCancel, Shape, Counters
  <2>3. batches' \in Seq(Bundle)
    <3>1. batches' = batches \/ (batches # <<>> /\ batches' = Tail(batches))
      BY <1>4, ScorerFrame
    <3> QED BY <1>0c, <3>1, SequenceTypes
  <2>4. predictions' \in Seq(Nat)
    <3>1. \/ predictions' = predictions
          \/ /\ scr.pc = "item"
             /\ predictions' = Append(predictions, scr.batch.items[scr.i].seq)
      BY <1>4 DEF Scorer, ScorerCheck, ScorerPop, ScorerPopRefused, ScorerNotEof, ScorerEof,
         ScorerItem, ScorerFlush, ScorerRecord, ScorerCancel, fileVars
    <3>2. scr.pc = "item" => scr.batch.items[scr.i].seq \in Nat
      <4>1. scr.pc = "item" => scr.i \in 1..Len(scr.batch.items)
        BY DEF ScorerInv, Shape
      <4>2. scr.pc = "item" => scr.batch.items[scr.i] \in Entry
        BY <1>0e, <4>1, SequenceTypes
      <4> QED BY <4>2 DEF Entry
    <3> QED BY <1>0c, <3>1, <3>2, SequenceTypes
  <2>5. scr' \in [pc : ScorerPc, batch : Bundle, i : Nat \ {0}]
    <3> DEFINE T == [pc : ScorerPc, batch : Bundle, i : Nat \ {0}]
    <3> USE <1>0a, <1>0b DEF ScorerPc, WorkerPc, Check
    <3>0. scr \in T
      BY DEF Shape
    <3>1. CASE ScorerPop
      <4>1. Head(batches) \in Bundle
        BY <1>0c, <3>1, SequenceTypes DEF ScorerPop
      <4> QED BY <3>1, <4>1 DEF ScorerPop
    <3>2. CASE ScorerItem
      BY <3>0, <3>2 DEF ScorerItem
    <3>3. CASE ~ScorerPop /\ ~ScorerItem
      BY <1>4, <3>0, <3>3 DEF Scorer, ScorerCheck, ScorerPop, ScorerPopRefused, ScorerNotEof,
         ScorerEof, ScorerItem, ScorerFlush, ScorerRecord, ScorerCancel
    <3> QED BY <3>1, <3>2, <3>3
  <2> QED BY <1>4, <2>1, <2>2, <2>3, <2>4, <2>5, ScorerFrame DEF Shape
<1>5. CASE Expire \/ UNCHANGED vars
  <2>1. expired' \in BOOLEAN
    BY <1>5 DEF Expire, vars, Shape
  <2> QED BY <1>5, <2>1, IdleFrame DEF Shape
<1> QED BY <1>1, <1>2, <1>3, <1>4, <1>5 DEF Next, Finished
-----------------------------------------------------------------------------
(* What each kind of batcher step does to the batch being filled.         *)
LEMMA PopFirstEffect ==
  ASSUME Shape, BatcherPop, bat.batch.items = <<>>
  PROVE  /\ bat.pc = "pop" /\ features # <<>> /\ features' = Tail(features)
         /\ bat'.pc = "start" /\ bat'.item = Head(features)
         /\ bat'.batch = bat.batch /\ bat'.tail = bat.tail
         /\ UNCHANGED <<stats, generation, batches, trace>> /\ Failed' = Failed
BY Fields DEF BatcherPop, fileVars, errorVars, Failed

(* A pop that continues a batch appends the head of the feature queue.    *)
LEMMA PopNextEffect ==
  ASSUME Shape, BatcherPop, bat.batch.items # <<>>
  PROVE  /\ bat.pc = "pop" /\ features # <<>> /\ features' = Tail(features)
         /\ bat'.pc = IF Len(bat.batch.items) + 1 = bat.batch.target THEN "trace" ELSE "check"
         /\ bat'.batch.items = Append(bat.batch.items, Head(features))
         /\ bat'.batch.gen = bat.batch.gen /\ bat'.batch.target = bat.batch.target
         /\ bat'.item = bat.item /\ bat'.tail = bat.tail
         /\ stats'["batched"] = stats["batched"] + 1
         /\ stats'["batches"] = stats["batches"] /\ stats'["tails"] = stats["tails"]
         /\ UNCHANGED <<generation, batches, trace>> /\ Failed' = Failed
<1> DEFINE b == [bat.batch EXCEPT !.items = Append(@, Head(features))]
<1>1. /\ bat' = [bat EXCEPT !.pc = AfterAppend(b), !.batch = b] /\ Count({"batched"})
      /\ features # <<>>
  BY DEF BatcherPop
<1>2. b.items = Append(bat.batch.items, Head(features)) /\ b.gen = bat.batch.gen
      /\ b.target = bat.batch.target
  BY Fields
<1>3. Len(b.items) = Len(bat.batch.items) + 1
  <2>1. bat.batch.items \in Seq(Entry) /\ Head(features) \in Entry
    BY <1>1, SequenceTypes DEF Shape, Bundle
  <2> QED BY <1>2, <2>1, AppendProperties
<1> HIDE DEF b
<1>4. bat'.pc = AfterAppend(b) /\ bat'.batch = b /\ bat'.item = bat.item /\ bat'.tail = bat.tail
  BY <1>1, Fields
<1>5. /\ stats'["batched"] = stats["batched"] + 1
      /\ stats'["batches"] = stats["batches"] /\ stats'["tails"] = stats["tails"]
  BY <1>1, Counting DEF Counters
<1>6. /\ bat.pc = "pop" /\ features' = Tail(features)
      /\ UNCHANGED <<generation, batches, trace>> /\ Failed' = Failed
  BY DEF BatcherPop, fileVars, errorVars, Failed
<1> QED BY <1>1, <1>2, <1>3, <1>4, <1>5, <1>6 DEF AfterAppend

(* Starting a batch takes a generation, a pressure sample and a target.   *)
LEMMA StartEffect ==
  ASSUME Shape, BatcherStart
  PROVE  /\ bat.pc = "start" /\ features' = features
         /\ bat'.batch.target \in BatchSize
         /\ bat'.pc = IF bat'.batch.target = 1 THEN "trace" ELSE "check"
         /\ bat'.batch.items = <<bat.item>> /\ bat'.batch.gen = generation + 1
         /\ bat'.item = NoItem /\ bat'.tail = bat.tail
         /\ generation' = generation + 1
         /\ stats'["batched"] = stats["batched"] + 1
         /\ stats'["batches"] = stats["batches"] /\ stats'["tails"] = stats["tails"]
         /\ UNCHANGED <<batches, trace>> /\ Failed' = Failed
<1>1. PICK zone \in Zone :
        LET size == IF Adaptive THEN NextBatchSize(bat.size, zone) ELSE BatchInitial
            b == [items |-> <<bat.item>>, gen |-> generation + 1, target |-> size]
        IN  bat' = [bat EXCEPT !.pc = AfterAppend(b), !.item = NoItem,
                               !.batch = b, !.size = size]
  BY DEF BatcherStart, LoadAfterStore
<1> DEFINE size == IF Adaptive THEN NextBatchSize(bat.size, zone) ELSE BatchInitial
           b == [items |-> <<bat.item>>, gen |-> generation + 1, target |-> size]
<1>2. size \in BatchSize
  <2>1. bat.size \in BatchSize
    BY DEF Shape
  <2> QED BY <2>1, BatchSizeStays, BatchBoundsAssumption DEF BatchSize
<1>3. b.items = <<bat.item>> /\ b.gen = generation + 1 /\ b.target = size
  OBVIOUS
<1>4. AfterAppend(b) = IF b.target = 1 THEN "trace" ELSE "check"
  BY <1>3 DEF AfterAppend
<1> HIDE DEF size, b
<1>5. bat' = [bat EXCEPT !.pc = AfterAppend(b), !.item = NoItem, !.batch = b, !.size = size]
  BY <1>1 DEF size, b
<1>6. bat'.pc = AfterAppend(b) /\ bat'.batch = b /\ bat'.item = NoItem /\ bat'.tail = bat.tail
  BY <1>5, Fields
<1>7. Count({"batched"})
  BY DEF BatcherStart
<1>8. /\ stats'["batched"] = stats["batched"] + 1
      /\ stats'["batches"] = stats["batches"] /\ stats'["tails"] = stats["tails"]
  BY <1>7, Counting DEF Counters
<1>9. /\ bat.pc = "start" /\ features' = features /\ generation' = generation + 1
      /\ UNCHANGED <<batches, trace>> /\ Failed' = Failed
  BY DEF BatcherStart, fileVars, queueVars, errorVars, Failed
<1> QED BY <1>2, <1>3, <1>4, <1>6, <1>8, <1>9

(* A successful push moves the batch into the queue of the scorer.        *)
LEMMA PushEffect ==
  ASSUME Shape, BatcherPush
  PROVE  /\ bat.pc = "flush" /\ batches' = Append(batches, bat.batch) /\ ~batchesClosed
         /\ Len(batches) < BatchRoom
         /\ bat'.pc = IF bat.tail THEN "end" ELSE "check"
         /\ bat'.batch = NoBatch /\ bat'.item = bat.item /\ bat'.tail = bat.tail
         /\ stats'["batches"] = stats["batches"] + 1
         /\ stats'["batched"] = stats["batched"] /\ stats'["tails"] = stats["tails"]
         /\ UNCHANGED <<features, generation, trace>> /\ Failed' = Failed
<1>1. Count({"batches"})
  BY DEF BatcherPush
<1>2. /\ stats'["batches"] = stats["batches"] + 1
      /\ stats'["batched"] = stats["batched"] /\ stats'["tails"] = stats["tails"]
  BY <1>1, Counting DEF Counters
<1> QED BY <1>2, Fields DEF BatcherPush, fileVars, errorVars, Failed

(* A trace row is written for the batch in hand, or writing it throws.    *)
LEMMA TraceEffect ==
  ASSUME Shape, BatcherTrace
  PROVE  /\ bat.pc = "trace" /\ bat'.pc \in {"flush", "throw"}
         /\ bat'.pc = "flush" =>
              trace' = Append(trace, [gen |-> bat.batch.gen, count |-> Len(bat.batch.items),
                                      target |-> bat.batch.target, tail |-> bat.tail])
         /\ bat'.pc = "throw" => trace' = trace
         /\ bat'.batch = bat.batch /\ bat'.item = bat.item /\ bat'.tail = bat.tail
         /\ UNCHANGED <<features, generation, batches, stats>> /\ Failed' = Failed
BY Fields DEF BatcherTrace, queueVars, errorVars, Failed

(* After the last feature: cancelled, a tail to flush, or nothing left.   *)
LEMMA FinishingEffect ==
  ASSUME Shape, BatcherFinishing
  PROVE  /\ bat.pc = "finishing"
         /\ bat'.batch = bat.batch /\ bat'.item = bat.item
         /\ UNCHANGED <<features, generation, batches, trace>> /\ Failed' = Failed
         /\ stats'["batched"] = stats["batched"] /\ stats'["batches"] = stats["batches"]
         /\ \/ /\ cancelled /\ bat'.pc = "exited"
               /\ bat'.tail = bat.tail /\ stats'["tails"] = stats["tails"]
            \/ /\ bat.batch.items # <<>> /\ bat'.pc = "trace" /\ bat'.tail
               /\ stats'["tails"] = stats["tails"] + 1
            \/ /\ bat.batch.items = <<>> /\ bat'.pc = "end"
               /\ bat'.tail = bat.tail /\ stats'["tails"] = stats["tails"]
<1>1. /\ stats'["batched"] = stats["batched"] /\ stats'["batches"] = stats["batches"]
      /\ \/ /\ cancelled /\ bat' = [bat EXCEPT !.pc = "exited"]
            /\ stats'["tails"] = stats["tails"]
         \/ /\ bat.batch.items # <<>> /\ bat' = [bat EXCEPT !.pc = "trace", !.tail = TRUE]
            /\ stats'["tails"] = stats["tails"] + 1
         \/ /\ bat.batch.items = <<>> /\ bat' = [bat EXCEPT !.pc = "end"]
            /\ stats'["tails"] = stats["tails"]
  BY Counting DEF BatcherFinishing, HasTail, Counters
<1> QED BY <1>1, Fields DEF BatcherFinishing, queueVars, fileVars, errorVars, Failed

BatcherQuietMoves ==
  {"check", "eof"} \X {"pop", "finishing"}
  \cup {<<"pop", "eof">>, <<"eof", "check">>, <<"check", "throw">>, <<"flush", "retry">>,
        <<"retry", "flush">>, <<"retry", "throw">>, <<"end", "exited">>,
        <<"end", "throw">>, <<"throw", "cancel">>}

BatcherQuiet == Batcher /\ ~BatcherPop /\ ~BatcherStart /\ ~BatcherPush /\ ~BatcherTrace
                /\ ~BatcherFinishing

(* The other steps only move the program counter.                         *)
LEMMA QuietEffect ==
  ASSUME Shape, CauseInv, BatcherQuiet
  PROVE  /\ bat'.batch = bat.batch /\ bat'.item = bat.item /\ bat'.tail = bat.tail
         /\ UNCHANGED <<features, generation, batches, stats, trace>>
         /\ Failed => Failed'
         /\ \/ <<bat.pc, bat'.pc>> \in BatcherQuietMoves
            \/ bat.pc \in {"retry", "cancel"} /\ bat'.pc = "exited" /\ Failed'
<1> USE Fields
<1>0. (cancelled => Failed) /\ (bat.pc = "cancel" => Failed)
  BY DEF CauseInv
<1>1. Batcher
  BY DEF BatcherQuiet
<1>2. /\ bat'.batch = bat.batch /\ bat'.item = bat.item /\ bat'.tail = bat.tail
      /\ UNCHANGED <<features, generation, batches, stats, trace>>
  BY <1>1, ZenonT(30) DEF BatcherQuiet, Batcher, BatcherCheck, BatcherPop, BatcherPopRefused,
     BatcherNotEof, BatcherEof, BatcherStart, BatcherTrace, BatcherPush, BatcherPushRefused,
     BatcherRetry, BatcherFinishing, BatcherClose, BatcherRecord, BatcherCancel, queueVars, fileVars
<1>3. \/ <<bat.pc, bat'.pc>> \in BatcherQuietMoves
      \/ bat.pc \in {"retry", "cancel"} /\ bat'.pc = "exited" /\ Failed'
  <2> USE <1>0 DEF Failed, errorVars, Check, BatcherQuietMoves
  <2>1. CASE BatcherCheck BY <2>1 DEF BatcherCheck
  <2>2. CASE BatcherPopRefused BY <2>2 DEF BatcherPopRefused
  <2>3. CASE BatcherNotEof BY <2>3 DEF BatcherNotEof
  <2>4. CASE BatcherEof BY <2>4 DEF BatcherEof
  <2>5. CASE BatcherPushRefused BY <2>5 DEF BatcherPushRefused
  <2>6. CASE BatcherRetry BY <2>6 DEF BatcherRetry
  <2>7. CASE BatcherClose BY <2>7 DEF BatcherClose
  <2>8. CASE BatcherRecord BY <2>8 DEF BatcherRecord
  <2>9. CASE BatcherCancel BY <2>9 DEF BatcherCancel
  <2> QED BY <1>1, <2>1, <2>2, <2>3, <2>4, <2>5, <2>6, <2>7, <2>8, <2>9 DEF Batcher, BatcherQuiet
<1> QED BY <1>1, <1>2, <1>3, BatcherFrame
-----------------------------------------------------------------------------
(* What the batcher holds, and the counters of batches and tails.         *)
LEMMA BatcherStep == IInv /\ [Next]_vars => BatcherInv'
<1> SUFFICES ASSUME Shape, LaunchInv, CauseInv, SourceInv, BatcherInv, [Next]_vars
             PROVE  BatcherInv'
  BY DEF IInv
<1>0. /\ stats["batched"] \in Nat /\ stats["batches"] \in Nat /\ stats["tails"] \in Nat
      /\ generation \in Nat /\ bat.batch.items \in Seq(Entry) /\ Len(bat.batch.items) \in Nat
      /\ bat.batch.target \in Nat /\ bat.tail \in BOOLEAN
  BY SMTT(30) DEF Shape, Counters, Bundle
<1>1. CASE Main
  BY <1>1, MainFrame, Fields DEF BatcherInv, Filling
<1>2. CASE Source
  BY <1>2, SourceFrame DEF BatcherInv, Filling, Counters
<1>3. CASE Batcher
  <2> USE <1>0 DEF BatcherInv, Filling
  <2>1. CASE BatcherPop /\ bat.batch.items = <<>>
    BY <2>1, PopFirstEffect
  <2>2. CASE BatcherPop /\ bat.batch.items # <<>>
    <3>1. Len(bat'.batch.items) = Len(bat.batch.items) + 1 /\ bat'.batch.items # <<>>
      <4>1. Head(features) \in Entry
        BY <2>2, PopNextEffect, SequenceTypes DEF Shape
      <4> QED BY <2>2, <4>1, PopNextEffect, AppendProperties, SMTT(30)
    <3>2. bat.pc = "pop" /\ ~bat.tail /\ Len(bat.batch.items) < bat.batch.target
      BY <2>2, PopNextEffect
    <3>3. /\ bat'.tail = bat.tail /\ bat'.item = bat.item /\ generation' = generation
          /\ bat'.batch.gen = bat.batch.gen /\ bat'.batch.target = bat.batch.target
          /\ bat'.pc \in {"trace", "check"}
          /\ bat'.pc = "trace" <=> Len(bat'.batch.items) = bat.batch.target
          /\ stats'["batched"] = stats["batched"] + 1
          /\ stats'["batches"] = stats["batches"] /\ stats'["tails"] = stats["tails"]
      BY <2>2, <3>1, PopNextEffect
    <3> QED BY <2>2, <3>1, <3>2, <3>3, SMTT(30)
  <2>3. CASE BatcherStart
    <3>1. Len(bat'.batch.items) = 1 /\ bat'.batch.items # <<>>
      <4>1. Len(<<bat.item>>) = 1 /\ <<bat.item>> # <<>>
        OBVIOUS
      <4> QED BY <2>3, <4>1, StartEffect
    <3>2. bat'.batch.target \in Nat \ {0}
      BY <2>3, StartEffect, BatchBoundsAssumption DEF BatchSize
    <3> QED BY <2>3, <3>1, <3>2, StartEffect, SMTT(30)
  <2>4. CASE BatcherPush
    <3>1. NoBatch.items = <<>>
      BY DEF NoBatch
    <3> QED BY <2>4, <3>1, PushEffect
  <2>5. CASE BatcherTrace
    BY <2>5, TraceEffect
  <2>6. CASE BatcherFinishing
    <3>1. bat.batch.items # <<>> => stats["batched"] > 0
      OBVIOUS
    <3>2. ~bat.tail
      BY <2>6, FinishingEffect
    <3> QED BY <2>6, <3>1, <3>2, FinishingEffect DEF CauseInv
  <2>7. CASE BatcherQuiet
    BY <2>7, QuietEffect DEF BatcherQuietMoves
  <2> QED BY <1>3, <2>1, <2>2, <2>3, <2>4, <2>5, <2>6, <2>7 DEF BatcherQuiet
<1>4. CASE Scorer
  BY <1>4, ScorerFrame DEF BatcherInv, Filling, Counters
<1>5. CASE Expire \/ UNCHANGED vars
  BY <1>5, IdleFrame DEF BatcherInv, Filling, Failed
<1> QED BY <1>1, <1>2, <1>3, <1>4, <1>5 DEF Next, Finished
-----------------------------------------------------------------------------
(* What a scorer step does to the batches.                                *)
LEMMA ScorerPopEffect ==
  ASSUME Shape, ScorerPop
  PROVE  /\ scr.pc = "pop" /\ batches # <<>> /\ batches' = Tail(batches)
         /\ scr'.batch = Head(batches) /\ scr'.i = 1
         /\ scr'.pc = IF Len(Head(batches).items) \in 1..BatchMax THEN "item" ELSE "throw"
         /\ stats' = stats /\ Failed' = Failed
BY DEF ScorerPop, errorVars, Failed

(* Writing a prediction advances both counters of the scorer by one.      *)
LEMMA ScorerWriteEffect ==
  ASSUME Shape, ScorerItem, stats'["written"] # stats["written"]
  PROVE  /\ scr.pc = "item" /\ batches' = batches /\ Failed' = Failed
         /\ stats'["written"] = stats["written"] + 1
         /\ stats'["scored"] = stats["scored"] + 1
         /\ \/ /\ scr.i < Len(scr.batch.items) /\ scr'.pc = "item"
               /\ scr'.batch = scr.batch /\ scr'.i = scr.i + 1
            \/ /\ ~(scr.i < Len(scr.batch.items)) /\ scr'.pc = "check"
               /\ scr'.batch = NoBatch /\ scr'.i = 1
<1>1. Count({"scored", "written"})
      /\ scr' = IF scr.i < Len(scr.batch.items)
                THEN [scr EXCEPT !.i = scr.i + 1]
                ELSE [pc |-> "check", batch |-> NoBatch, i |-> 1]
  BY Counting DEF ScorerItem, Counters
<1>2. /\ stats'["written"] = stats["written"] + 1
      /\ stats'["scored"] = stats["scored"] + 1
  BY <1>1, Counting DEF Counters
<1> QED BY <1>1, <1>2, Fields DEF ScorerItem, queueVars, errorVars, Failed

ScorerQuietMoves ==
  {<<"check", "flush">>, <<"check", "pop">>, <<"check", "throw">>, <<"pop", "eof">>,
   <<"eof", "check">>, <<"eof", "flush">>, <<"item", "throw">>,
   <<"flush", "throw">>, <<"throw", "cancel">>}

(* Any other step of the scorer, its pop apart, keeps its batch; only an  *)
(* exception may leave a scored event unwritten.                          *)
LEMMA ScorerQuietEffect ==
  ASSUME Shape, CauseInv, Scorer, ~ScorerPop, stats'["written"] = stats["written"]
  PROVE  /\ scr'.batch = scr.batch /\ scr'.i = scr.i /\ batches' = batches
         /\ Failed => Failed'
         /\ \/ stats'["scored"] = stats["scored"]
            \/ /\ stats'["scored"] = stats["scored"] + 1
               /\ scr.pc = "item" /\ scr'.pc = "throw"
         /\ \/ <<scr.pc, scr'.pc>> \in ScorerQuietMoves
            \/ scr.pc \in {"item", "cancel"} /\ scr'.pc = "exited" /\ Failed'
            \/ scr.pc = "flush" /\ scr'.pc = "exited"
<1> USE Fields
<1>0. (cancelled => Failed) /\ (scr.pc = "cancel" => Failed)
  BY DEF CauseInv
<1>1. CASE ScorerItem
  <2>1. \/ /\ scr' = [scr EXCEPT !.pc = Check("exited", "score")] /\ UNCHANGED stats
           /\ Check("exited", "score") # "score"
        \/ scr' = [scr EXCEPT !.pc = "throw"] /\ Count({"scored"})
        \/ scr' = [scr EXCEPT !.pc = "throw"] /\ UNCHANGED stats
    <3>1. ~Count({"scored", "written"})
      <4> SUFFICES ASSUME Count({"scored", "written"}) PROVE FALSE
        OBVIOUS
      <4>1. stats'["written"] = stats["written"] + 1
        BY Counting DEF Counters
      <4>2. stats["written"] \in Nat
        BY DEF Counters, Shape
      <4> QED BY <4>1, <4>2
    <3> QED BY <1>1, <3>1 DEF ScorerItem
  <2>2. stats'["scored"] = stats["scored"] \/ stats'["scored"] = stats["scored"] + 1
    BY <2>1, Counting DEF Counters
  <2>3. scr.pc = "item" /\ batches' = batches /\ Failed' = Failed
    BY <1>1 DEF ScorerItem, queueVars, errorVars, Failed
  <2> QED BY <1>0, <2>1, <2>2, <2>3 DEF Check, ScorerQuietMoves
<1>2. CASE ~ScorerItem
  <2>1. UNCHANGED <<batches, stats>> /\ scr'.batch = scr.batch /\ scr'.i = scr.i
    BY <1>2 DEF Scorer, ScorerCheck, ScorerPop, ScorerPopRefused, ScorerNotEof, ScorerEof,
       ScorerItem, ScorerFlush, ScorerRecord, ScorerCancel, queueVars
  <2>2. \/ <<scr.pc, scr'.pc>> \in ScorerQuietMoves
        \/ scr.pc \in {"item", "cancel"} /\ scr'.pc = "exited" /\ Failed'
        \/ scr.pc = "flush" /\ scr'.pc = "exited"
    <3> USE <1>0 DEF Failed, errorVars, Check, ScorerQuietMoves
    <3>1. CASE ScorerCheck BY <3>1 DEF ScorerCheck
    <3>2. CASE ScorerPopRefused BY <3>2 DEF ScorerPopRefused
    <3>3. CASE ScorerNotEof BY <3>3 DEF ScorerNotEof
    <3>4. CASE ScorerEof BY <3>4 DEF ScorerEof
    <3>5. CASE ScorerFlush BY <3>5 DEF ScorerFlush
    <3>6. CASE ScorerRecord BY <3>6 DEF ScorerRecord
    <3>7. CASE ScorerCancel BY <3>7 DEF ScorerCancel
    <3> QED BY <1>2, <3>1, <3>2, <3>3, <3>4, <3>5, <3>6, <3>7 DEF Scorer
  <2> QED BY <2>1, <2>2, ScorerFrame
<1> QED BY <1>1, <1>2

(* What the scorer holds, and its counters.                               *)
LEMMA ScorerStep == IInv /\ [Next]_vars => ScorerInv'
<1> SUFFICES ASSUME Shape, LaunchInv, CauseInv, BatcherInv, ScorerInv, [Next]_vars
             PROVE  ScorerInv'
  BY DEF IInv
<1>0. /\ stats["scored"] \in Nat /\ stats["written"] \in Nat /\ scr.i \in Nat \ {0}
      /\ generation \in Nat /\ Len(scr.batch.items) \in Nat /\ Len(batches) \in Nat
      /\ batches \in Seq(Bundle) /\ bat.batch \in Bundle /\ scr.batch \in Bundle
  BY SMTT(30) DEF Shape, Counters, Bundle
<1>1. CASE Main
  BY <1>1, MainFrame, Fields DEF ScorerInv
<1>2. CASE Source
  BY <1>2, SourceFrame DEF ScorerInv, Counters
<1>3. CASE Batcher
  <2>1. generation' \in Nat /\ generation' >= generation
    <3>1. generation' = generation \/ generation' = generation + 1
      BY <1>3 DEF Batcher, BatcherCheck, BatcherPop, BatcherPopRefused, BatcherNotEof, BatcherEof,
         BatcherStart, BatcherTrace, BatcherPush, BatcherPushRefused, BatcherRetry,
         BatcherFinishing, BatcherClose, BatcherRecord, BatcherCancel
    <3> QED BY <1>0, <3>1
  <2>2. \A b \in Bundle : WellFormed(b, generation) => WellFormed(b, generation')
    BY <1>0, <2>1 DEF WellFormed, Bundle
  <2>3. \A k \in 1..Len(batches') : WellFormed(batches'[k], generation')
    <3>1. CASE BatcherPush
      <4>1. batches' = Append(batches, bat.batch)
        BY <3>1, PushEffect
      <4>2. WellFormed(bat.batch, generation)
        <5>1. bat.batch.items # <<>> /\ bat.batch.items \in Seq(Entry)
          BY <3>1, PushEffect DEF BatcherInv, Shape, Bundle
        <5> QED BY <1>0, <5>1 DEF BatcherInv, WellFormed
      <4>3. \A k \in 1..Len(batches) : batches[k] \in Bundle /\ WellFormed(batches[k], generation)
        BY <1>0, SequenceTypes DEF ScorerInv
      <4> QED BY <1>0, <2>2, <4>1, <4>2, <4>3, AppendProperties, SMTT(30)
    <3>2. CASE ~BatcherPush
      <4>1. batches' = batches
        BY <1>3, <3>2 DEF Batcher, BatcherCheck, BatcherPop, BatcherPopRefused, BatcherNotEof,
           BatcherEof, BatcherStart, BatcherTrace, BatcherPush, BatcherPushRefused, BatcherRetry,
           BatcherFinishing, BatcherClose, BatcherRecord, BatcherCancel, queueVars
      <4>2. \A k \in 1..Len(batches) : batches[k] \in Bundle /\ WellFormed(batches[k], generation)
        BY <1>0, SequenceTypes DEF ScorerInv
      <4> QED BY <2>2, <4>1, <4>2
    <3> QED BY <3>1, <3>2
  <2>4. scr.batch.items # <<>> => WellFormed(scr.batch, generation')
    BY <1>0, <2>2 DEF ScorerInv
  <2> QED BY <1>3, <2>3, <2>4, BatcherFrame DEF ScorerInv
<1>4. CASE Scorer
  <2>0. generation' = generation
    BY <1>4, ScorerFrame
  <2>1. CASE ScorerPop
    <3>1. WellFormed(Head(batches), generation)
      <4>1. Len(batches) > 0 /\ Head(batches) = batches[1]
        BY <1>0, <2>1, ScorerPopEffect
      <4> QED BY <1>0, <4>1 DEF ScorerInv
    <3>2. Head(batches).items # <<>> /\ Len(Head(batches).items) \in 1..BatchMax
      <4>1. Head(batches).items \in Seq(Entry)
        <5>1. Head(batches) \in Bundle
          BY <1>0, <2>1, ScorerPopEffect, SequenceTypes
        <5> QED BY <5>1 DEF Bundle
      <4>2. Len(Head(batches).items) \in Nat
        BY <4>1
      <4> QED BY <3>1, <4>1, <4>2, BatchBoundsAssumption DEF WellFormed, BatchSize
    <3>3. \A k \in 1..Len(Tail(batches)) : WellFormed(Tail(batches)[k], generation)
      <4>1. \A k \in 1..Len(Tail(batches)) : Tail(batches)[k] = batches[k + 1]
                                           /\ k + 1 \in 1..Len(batches)
        BY <1>0, <2>1, ScorerPopEffect, HeadTailProperties
      <4> QED BY <4>1 DEF ScorerInv
    <3>4. scr'.pc = "item" /\ stats' = stats /\ batches' = Tail(batches)
          /\ scr'.batch = Head(batches) /\ scr'.i = 1
      BY <2>1, <3>2, ScorerPopEffect
    <3>5. stats["scored"] = stats["written"]
      BY <2>1, ScorerPopEffect DEF ScorerInv
    <3>6. Len(Head(batches).items) >= 1
      BY <3>2
    <3> QED BY <2>0, <3>1, <3>2, <3>3, <3>4, <3>5, <3>6 DEF ScorerInv
  <2>2. CASE stats'["written"] # stats["written"]
    <3>1. ScorerItem
      BY <1>4, <2>2 DEF Scorer, ScorerCheck, ScorerPop, ScorerPopRefused, ScorerNotEof, ScorerEof,
         ScorerItem, ScorerFlush, ScorerRecord, ScorerCancel
    <3>2. NoBatch.items = <<>>
      BY DEF NoBatch
    <3>3. stats["scored"] = stats["written"]
      BY <2>2, <3>1, ScorerWriteEffect DEF ScorerInv
    <3> QED BY <1>0, <2>0, <2>2, <3>1, <3>2, <3>3, ScorerWriteEffect DEF ScorerInv
  <2>3. CASE ~ScorerPop /\ stats'["written"] = stats["written"]
    BY <1>0, <1>4, <2>0, <2>3, ScorerQuietEffect DEF ScorerInv, ScorerQuietMoves
  <2> QED BY <2>1, <2>2, <2>3
<1>5. CASE Expire \/ UNCHANGED vars
  BY <1>5, IdleFrame DEF ScorerInv, Failed
<1> QED BY <1>1, <1>2, <1>3, <1>4, <1>5 DEF Next, Finished
-----------------------------------------------------------------------------
(* Unless it extracts or pushes, the source keeps its event.              *)
LEMMA SourceKeeps ==
  ASSUME Shape, Source, ~SourcePush, stats'["extracted"] = stats["extracted"]
  PROVE  features' = features /\ src'.item = src.item
<1>1. CASE SourceNext
  <2>1. \/ Count({"read", "extracted"})
        \/ src' = [src EXCEPT !.pc = "throw"] \/ src' = [src EXCEPT !.pc = "closing"]
    BY <1>1 DEF SourceNext
  <2>2. ~Count({"read", "extracted"})
    <3> SUFFICES ASSUME Count({"read", "extracted"}) PROVE FALSE
      OBVIOUS
    <3>1. stats'["extracted"] = stats["extracted"] + 1
      BY Counting DEF Counters
    <3>2. stats["extracted"] \in Nat
      BY DEF Shape, Counters
    <3> QED BY <3>1, <3>2
  <2> QED BY <1>1, <2>1, <2>2, Fields DEF SourceNext, queueVars
<1>2. CASE ~SourceNext
  BY <1>2, Fields DEF Source, SourceCheck, SourceNext, SourcePush, SourcePushRefused, SourceRetry,
     SourceClosing, SourceClose, SourceRecord, SourceCancel, queueVars
<1> QED BY <1>1, <1>2

(* The stream position of everything in flight.                           *)
LEMMA FrontStep == IInv /\ [Next]_vars => FrontInv'
<1> SUFFICES ASSUME IInv, [Next]_vars PROVE FrontInv'
  OBVIOUS
<1> USE DEF IInv
<1>0. /\ stats["batched"] \in Nat /\ stats["extracted"] \in Nat /\ stats["read"] \in Nat
      /\ bat.batch.items \in Seq(Entry) /\ Len(bat.batch.items) \in Nat
      /\ features \in Seq(Entry) /\ Len(features) \in Nat /\ src.item \in Entry
  BY SMTT(30) DEF Shape, Counters, Bundle
<1>a. InHand \in 0..1
  BY DEF InHand
<1>b. \A j \in 1..Len(features) : features[j].seq = stats["batched"] + InHand + j
  BY DEF FrontInv, FeatureOrder
<1>c. /\ bat.pc = "start" => bat.item.seq = stats["batched"] + 1
      /\ Len(bat.batch.items) <= stats["batched"]
      /\ \A j \in 1..Len(bat.batch.items) :
           bat.batch.items[j].seq = stats["batched"] - Len(bat.batch.items) + j
  BY DEF FrontInv, FillingOrder
<1>1. CASE Main
  BY <1>1, MainFrame, Fields DEF FrontInv, SourceOrder, FeatureOrder, FillingOrder, InHand,
     SourceInv
<1>2. CASE Source
  <2>0. UNCHANGED bat /\ stats'["batched"] = stats["batched"] /\ InHand' = InHand
    BY <1>2, SourceFrame DEF Counters, InHand
  <2>f. FillingOrder'
    BY <1>c, <2>0 DEF FillingOrder
  <2>1. CASE SourceNext /\ stats'["extracted"] # stats["extracted"]
    <3>1. /\ src.pc = "next" /\ features' = features
          /\ Count({"read", "extracted"})
          /\ src' = [pc |-> "push", item |-> [seq |-> stats["read"] + 1, gen |-> generation]]
      BY <2>1, Counting DEF SourceNext, Counters, queueVars
    <3>2. src.item = NoItem /\ stats["extracted"] = stats["read"]
      BY <3>1 DEF SourceInv
    <3>3. stats'["extracted"] = stats["extracted"] + 1
      BY <3>1, Counting DEF Counters
    <3>4. src'.item.seq = stats["extracted"] + 1 /\ src'.item # NoItem
      BY <1>0, <3>1, <3>2 DEF NoItem
    <3>5. FeatureOrder'
      BY <1>b, <2>0, <3>1 DEF FeatureOrder
    <3>6. SourceOrder'
      BY <1>0, <1>a, <2>0, <3>1, <3>2, <3>3, <3>4 DEF FrontInv, SourceOrder
    <3> QED BY <2>f, <3>5, <3>6 DEF FrontInv
  <2>2. CASE SourcePush
    <3>1. features' = Append(features, src.item) /\ src'.item = NoItem /\ src.item # NoItem
          /\ stats' = stats
      BY <2>2 DEF SourcePush, SourceInv
    <3>2. Len(features') = Len(features) + 1 /\ features'[Len(features) + 1] = src.item
          /\ \A j \in 1..Len(features) : features'[j] = features[j]
      BY <1>0, <3>1, AppendProperties
    <3>3. /\ src.item.seq = stats["batched"] + InHand + Len(features) + 1
          /\ stats["extracted"] = stats["batched"] + InHand + Len(features) + 1
      BY <3>1 DEF FrontInv, SourceOrder
    <3>4. SourceOrder'
      BY <1>0, <1>a, <2>0, <3>1, <3>2, <3>3, SMTT(30) DEF SourceOrder
    <3>5. FeatureOrder'
      <4>1. \A j \in 1..Len(features') : j \in 1..Len(features) \/ j = Len(features) + 1
        BY <1>0, <3>2
      <4>2. features'[Len(features) + 1].seq = stats["batched"] + InHand + (Len(features) + 1)
        BY <1>0, <1>a, <3>2, <3>3
      <4>3. \A j \in 1..Len(features') : features'[j].seq = stats["batched"] + InHand + j
        BY <1>b, <3>2, <4>1, <4>2
      <4> QED BY <2>0, <4>3 DEF FeatureOrder
    <3> QED BY <2>f, <3>4, <3>5 DEF FrontInv
  <2>3. CASE ~SourcePush /\ stats'["extracted"] = stats["extracted"]
    <3>1. features' = features /\ src'.item = src.item
      BY <1>2, <2>3, SourceKeeps
    <3> QED BY <2>0, <2>f, <2>3, <3>1 DEF FrontInv, SourceOrder, FeatureOrder
  <2>4. SourceNext \/ stats'["extracted"] = stats["extracted"]
    BY <1>2 DEF Source, SourceCheck, SourceNext, SourcePush, SourcePushRefused, SourceRetry,
       SourceClosing, SourceClose, SourceRecord, SourceCancel
  <2> QED BY <2>1, <2>2, <2>3, <2>4
<1>3. CASE Batcher
  <2>0. src' = src /\ stats'["extracted"] = stats["extracted"]
    BY <1>3, BatcherFrame
  <2>a. features # <<>> => /\ Head(features) = features[1] /\ Head(features) \in Entry
                           /\ Len(features) > 0
                           /\ Len(Tail(features)) = Len(features) - 1
                           /\ \A j \in 1..Len(features) - 1 : Tail(features)[j] = features[j + 1]
    BY <1>0, HeadTailProperties
  <2>b. features # <<>> /\ InHand = 0 =>
          /\ Head(features).seq = stats["batched"] + 1
          /\ \A j \in 1..Len(Tail(features)) : Tail(features)[j].seq = stats["batched"] + 1 + j
    <3> SUFFICES ASSUME features # <<>>, InHand = 0
                 PROVE  /\ Head(features).seq = stats["batched"] + 1
                        /\ \A j \in 1..Len(Tail(features)) :
                             Tail(features)[j].seq = stats["batched"] + 1 + j
      OBVIOUS
    <3>1. features[1].seq = stats["batched"] + 1
      BY <1>0, <1>b, <2>a
    <3>2. ASSUME NEW j \in 1..Len(Tail(features))
          PROVE  Tail(features)[j].seq = stats["batched"] + 1 + j
      <4>1. j \in 1..Len(features) - 1 /\ j + 1 \in 1..Len(features) /\ j \in Nat
        BY <1>0, <2>a
      <4>2. Tail(features)[j] = features[j + 1]
        BY <2>a, <4>1
      <4>3. features[j + 1].seq = stats["batched"] + 0 + (j + 1)
        BY <1>b, <4>1
      <4>4. \A n \in Nat, i \in Nat : n + 0 + (i + 1) = n + 1 + i
        OBVIOUS
      <4>5. stats["batched"] + 0 + (j + 1) = stats["batched"] + 1 + j
        BY <1>0, <4>1, <4>4
      <4> QED BY <4>2, <4>3, <4>5
    <3> QED BY <2>a, <3>1, <3>2
  <2>1. CASE BatcherPop /\ bat.batch.items = <<>>
    <3>1. /\ InHand = 0 /\ InHand' = 1 /\ features # <<>> /\ features' = Tail(features)
          /\ stats' = stats /\ bat'.item = Head(features) /\ bat'.batch = bat.batch
          /\ bat'.pc = "start"
      BY <2>1, PopFirstEffect DEF InHand
    <3>2. SourceOrder'
      <4>1. Len(features') = Len(features) - 1
        BY <2>a, <3>1
      <4>2. stats'["extracted"] = stats["extracted"] /\ stats'["batched"] = stats["batched"]
        BY <3>1
      <4> QED BY <1>0, <2>0, <3>1, <4>1, <4>2 DEF FrontInv, SourceOrder
    <3>3. FeatureOrder'
      BY <2>b, <3>1 DEF FeatureOrder
    <3>4. FillingOrder'
      BY <1>c, <2>b, <3>1 DEF FillingOrder
    <3> QED BY <3>2, <3>3, <3>4 DEF FrontInv
  <2>2. CASE BatcherPop /\ bat.batch.items # <<>>
    <3>0. bat'.batch.items = Append(bat.batch.items, Head(features)) /\ features # <<>>
      BY <2>2, PopNextEffect
    <3>1. /\ Len(bat'.batch.items) = Len(bat.batch.items) + 1
          /\ bat'.batch.items[Len(bat.batch.items) + 1] = Head(features)
          /\ \A j \in 1..Len(bat.batch.items) : bat'.batch.items[j] = bat.batch.items[j]
      BY <1>0, <2>a, <3>0, AppendProperties
    <3>2. /\ InHand = 0 /\ InHand' = 0 /\ features' = Tail(features)
          /\ stats'["batched"] = stats["batched"] + 1 /\ bat'.pc # "start"
      BY <2>2, PopNextEffect DEF InHand
    <3>3. SourceOrder'
      BY <1>0, <2>0, <2>a, <3>0, <3>2, SMTT(30) DEF FrontInv, SourceOrder
    <3>4. FeatureOrder'
      <4>1. \A j \in 1..Len(Tail(features)) : Tail(features)[j].seq = stats'["batched"] + 0 + j
        BY <1>0, <2>b, <3>0, <3>2
      <4> QED BY <3>2, <4>1 DEF FeatureOrder
    <3>5. FillingOrder'
      <4>1. ASSUME NEW j \in 1..Len(bat'.batch.items)
            PROVE  bat'.batch.items[j].seq = stats["batched"] - Len(bat.batch.items) + j
        <5>1. CASE j = Len(bat.batch.items) + 1
          <6>1. bat'.batch.items[j] = Head(features) /\ Head(features).seq = stats["batched"] + 1
            BY <2>b, <3>0, <3>1, <3>2, <5>1
          <6>2. stats["batched"] + 1 = stats["batched"] - Len(bat.batch.items) + j
            BY <1>0, <5>1
          <6> QED BY <6>1, <6>2
        <5>2. CASE j # Len(bat.batch.items) + 1
          <6>1. j \in 1..Len(bat.batch.items)
            BY <1>0, <3>1, <5>2
          <6> QED BY <1>c, <3>1, <6>1
        <5> QED BY <5>1, <5>2
      <4>2. stats'["batched"] - Len(bat'.batch.items) = stats["batched"] - Len(bat.batch.items)
        <5>1. \A m, n \in Nat : (m + 1) - (n + 1) = m - n
          OBVIOUS
        <5>2. stats["batched"] \in Nat /\ Len(bat.batch.items) \in Nat
          BY <1>0
        <5> QED BY <3>1, <3>2, <5>1, <5>2
      <4>3. Len(bat'.batch.items) <= stats'["batched"]
        BY <1>0, <1>c, <3>1, <3>2
      <4> QED BY <3>2, <4>1, <4>2, <4>3 DEF FillingOrder
    <3> QED BY <3>3, <3>4, <3>5 DEF FrontInv
  <2>3. CASE BatcherStart
    <3>1. bat'.batch.items = <<bat.item>> /\ Len(bat'.batch.items) = 1
          /\ bat'.batch.items[1] = bat.item
      <4>1. Len(<<bat.item>>) = 1 /\ <<bat.item>>[1] = bat.item
        OBVIOUS
      <4> QED BY <2>3, <4>1, StartEffect
    <3>2. bat'.pc # "start" /\ bat.pc = "start" /\ bat.batch.items = <<>>
          /\ features' = features /\ stats'["batched"] = stats["batched"] + 1
          /\ InHand = 1 /\ InHand' = 0
      BY <2>3, StartEffect DEF BatcherInv, InHand
    <3>3. SourceOrder'
      BY <1>0, <2>0, <3>2 DEF FrontInv, SourceOrder
    <3>4. FeatureOrder'
      BY <1>0, <1>b, <3>2 DEF FeatureOrder
    <3>5. FillingOrder'
      BY <1>0, <1>c, <3>1, <3>2 DEF FillingOrder
    <3> QED BY <3>3, <3>4, <3>5 DEF FrontInv
  <2>4. CASE BatcherPush
    <3>1. bat'.batch.items = <<>>
      BY <2>4, PushEffect DEF NoBatch
    <3>2. bat'.pc # "start" /\ bat.pc # "start" /\ features' = features
          /\ stats'["batched"] = stats["batched"] /\ InHand' = InHand
      BY <2>4, PushEffect DEF InHand
    <3> QED BY <1>0, <2>0, <3>1, <3>2 DEF FrontInv, SourceOrder, FeatureOrder, FillingOrder
  <2>5. CASE BatcherTrace
    BY <2>0, <2>5, TraceEffect DEF FrontInv, SourceOrder, FeatureOrder, FillingOrder, InHand
  <2>6. CASE BatcherFinishing
    BY <2>0, <2>6, FinishingEffect DEF FrontInv, SourceOrder, FeatureOrder, FillingOrder, InHand
  <2>7. CASE BatcherQuiet
    <3>1. bat.pc # "start" /\ bat'.pc # "start"
      BY <2>7, QuietEffect DEF BatcherQuietMoves
    <3> QED BY <2>0, <2>7, <3>1, QuietEffect DEF FrontInv, SourceOrder, FeatureOrder,
       FillingOrder, InHand
  <2> QED BY <1>3, <2>1, <2>2, <2>3, <2>4, <2>5, <2>6, <2>7 DEF BatcherQuiet
<1>4. CASE Scorer
  BY <1>4, ScorerFrame DEF FrontInv, SourceOrder, FeatureOrder, FillingOrder, InHand, Counters
<1>5. CASE Expire \/ UNCHANGED vars
  BY <1>5, IdleFrame DEF FrontInv, SourceOrder, FeatureOrder, FillingOrder, InHand
<1> QED BY <1>1, <1>2, <1>3, <1>4, <1>5 DEF Next, Finished

(* A batch that continues the queue keeps it contiguous, and so does      *)
(* taking the first batch when the scorer's end moves behind it.          *)
LEMMA OrderedAppend ==
  ASSUME NEW end \in Int, NEW queue \in Seq(Bundle), NEW b \in Bundle, Len(b.items) > 0,
         Ordered(end, queue),
         \A j \in 1..Len(b.items) : b.items[j].seq = Boundary(end, queue, Len(queue)) + j
  PROVE  /\ Ordered(end, Append(queue, b))
         /\ Boundary(end, Append(queue, b), Len(queue) + 1)
              = Boundary(end, queue, Len(queue)) + Len(b.items)
<1> DEFINE longer == Append(queue, b)
<1>1. /\ Len(queue) \in Nat /\ Len(longer) = Len(queue) + 1 /\ longer[Len(queue) + 1] = b
      /\ \A k \in 1..Len(queue) : longer[k] = queue[k]
  BY AppendProperties
<1>2. Len(b.items) \in Nat
  BY DEF Bundle
<1> HIDE DEF longer
<1>3. \A k \in 0..Len(queue) : Boundary(end, longer, k) = Boundary(end, queue, k)
  BY <1>1 DEF Boundary
<1>4. ASSUME NEW k \in 1..Len(longer), NEW j \in 1..Len(longer[k].items)
      PROVE  longer[k].items[j].seq = Boundary(end, longer, k - 1) + j
  <2>1. k - 1 \in 0..Len(queue)
    BY <1>1
  <2>2. CASE k = Len(queue) + 1
    BY <1>1, <1>3, <2>1, <2>2
  <2>3. CASE k # Len(queue) + 1
    <3>1. k \in 1..Len(queue) /\ longer[k] = queue[k]
      BY <1>1, <2>3
    <3> QED BY <1>3, <2>1, <3>1 DEF Ordered
  <2> QED BY <2>2, <2>3
<1>5. Boundary(end, longer, Len(queue) + 1) = Boundary(end, queue, Len(queue)) + Len(b.items)
  <2>1. Boundary(end, longer, Len(queue) + 1) = b.items[Len(b.items)].seq
    BY <1>1 DEF Boundary, LastSeq
  <2> QED BY <1>2, <2>1
<1> QED BY <1>4, <1>5 DEF Ordered, longer

(* Taking the first of the queued batches keeps the others in stream      *)
(* order, and the batch taken begins where the scorer stands.             *)
LEMMA OrderedTail ==
  ASSUME NEW end \in Int, NEW queue \in Seq(Bundle), queue # <<>>, Ordered(end, queue),
         \A k \in 1..Len(queue) : Len(queue[k].items) > 0
  PROVE  /\ \A j \in 1..Len(Head(queue).items) : Head(queue).items[j].seq = end + j
         /\ Ordered(end + Len(Head(queue).items), Tail(queue))
         /\ Boundary(end + Len(Head(queue).items), Tail(queue), Len(Tail(queue)))
              = Boundary(end, queue, Len(queue))
<1> DEFINE rest == Tail(queue)
           next == end + Len(Head(queue).items)
<1>1. /\ Len(queue) \in Nat \ {0} /\ Len(rest) = Len(queue) - 1 /\ Head(queue) = queue[1]
      /\ \A k \in 1..Len(rest) : rest[k] = queue[k + 1]
  BY HeadTailProperties
<1>2. \A j \in 1..Len(Head(queue).items) : Head(queue).items[j].seq = end + j
  <2>1. 1 \in 1..Len(queue) /\ Boundary(end, queue, 1 - 1) = end
    BY <1>1 DEF Boundary
  <2> QED BY <1>1, <2>1 DEF Ordered
<1>3. Boundary(end, queue, 1) = next
  <2>1. Len(Head(queue).items) \in Nat \ {0}
    <3>1. Head(queue) \in Bundle
      BY <1>1, SequenceTypes
    <3>2. Len(Head(queue).items) \in Nat
      BY <3>1 DEF Bundle
    <3> QED BY <1>1, <3>2
  <2>2. Head(queue).items[Len(Head(queue).items)].seq = next
    BY <1>2, <2>1
  <2> QED BY <1>1, <2>2 DEF Boundary, LastSeq
<1> HIDE DEF rest, next
<1>4. \A k \in 0..Len(rest) : Boundary(next, rest, k) = Boundary(end, queue, k + 1)
  <2> SUFFICES ASSUME NEW k \in 0..Len(rest)
               PROVE  Boundary(next, rest, k) = Boundary(end, queue, k + 1)
    OBVIOUS
  <2>1. CASE k = 0
    <3>1. Boundary(next, rest, 0) = next
      BY DEF Boundary
    <3> QED BY <1>3, <2>1, <3>1
  <2>2. CASE k # 0
    <3>1. k \in 1..Len(rest) /\ k + 1 # 0 /\ rest[k] = queue[k + 1]
      BY <1>1, <2>2
    <3> QED BY <2>2, <3>1 DEF Boundary
  <2> QED BY <2>1, <2>2
<1>5. ASSUME NEW k \in 1..Len(rest), NEW j \in 1..Len(rest[k].items)
      PROVE  rest[k].items[j].seq = Boundary(next, rest, k - 1) + j
  <2>1. k + 1 \in 1..Len(queue) /\ (k + 1) - 1 = (k - 1) + 1 /\ k - 1 \in 0..Len(rest)
    BY <1>1
  <2>2. queue[k + 1].items[j].seq = Boundary(end, queue, (k + 1) - 1) + j
    BY <1>1, <2>1 DEF Ordered
  <2>3. Boundary(next, rest, k - 1) = Boundary(end, queue, (k - 1) + 1)
    BY <1>4, <2>1
  <2> QED BY <1>1, <2>1, <2>2, <2>3
<1>6. Boundary(next, rest, Len(rest)) = Boundary(end, queue, Len(queue))
  <2>1. Len(rest) \in 0..Len(rest) /\ Len(rest) + 1 = Len(queue)
    BY <1>1
  <2> QED BY <1>4, <2>1
<1> QED BY <1>2, <1>5, <1>6 DEF Ordered, rest, next

(* The batches between batcher and scorer stay in stream order.           *)
LEMMA BackStep == IInv /\ [Next]_vars => BackInv'
<1> SUFFICES ASSUME IInv, [Next]_vars PROVE BackInv'
  OBVIOUS
<1> USE DEF IInv
<1>0. /\ stats["batched"] \in Nat /\ stats["written"] \in Nat
      /\ scr.batch \in Bundle /\ scr.batch.items \in Seq(Entry) /\ Len(scr.batch.items) \in Nat
      /\ bat.batch \in Bundle /\ bat.batch.items \in Seq(Entry) /\ Len(bat.batch.items) \in Nat
      /\ batches \in Seq(Bundle) /\ Len(batches) \in Nat /\ scr.i \in Nat \ {0}
  BY SMTT(30) DEF Shape, Counters, Bundle
<1>a. /\ RestOrder /\ Ordered(ScorerEnd, batches) /\ ScorerEnd \in Int
      /\ Boundary(ScorerEnd, batches, Len(batches)) = stats["batched"] - Len(bat.batch.items)
  BY <1>0, SMTT(30) DEF BackInv, ScorerEnd
<1>1. CASE Main
  BY <1>a, <1>1, MainFrame, Fields DEF BackInv, RestOrder, ScorerEnd
<1>2. CASE Source
  BY <1>a, <1>2, SourceFrame DEF BackInv, RestOrder, ScorerEnd, Counters
<1>3. CASE Batcher
  <2>0. scr' = scr /\ stats'["written"] = stats["written"] /\ ScorerEnd' = ScorerEnd
        /\ RestOrder'
    BY <1>a, <1>3, BatcherFrame DEF ScorerEnd, RestOrder
  <2>1. CASE BatcherPush
    <3>1. batches' = Append(batches, bat.batch) /\ stats'["batched"] = stats["batched"]
          /\ bat'.batch.items = <<>>
      BY <2>1, PushEffect DEF NoBatch
    <3>2. Len(bat.batch.items) > 0
      <4>1. bat.batch.items # <<>>
        BY <2>1, PushEffect DEF BatcherInv
      <4> QED BY <1>0, <4>1
    <3>3. \A j \in 1..Len(bat.batch.items) :
            bat.batch.items[j].seq = Boundary(ScorerEnd, batches, Len(batches)) + j
      BY <1>a DEF FrontInv, FillingOrder
    <3>4. /\ Ordered(ScorerEnd, batches')
          /\ Boundary(ScorerEnd, batches', Len(batches) + 1)
               = Boundary(ScorerEnd, batches, Len(batches)) + Len(bat.batch.items)
      BY <1>0, <1>a, <3>1, <3>2, <3>3, OrderedAppend
    <3>5. Len(batches') = Len(batches) + 1 /\ Len(bat'.batch.items) = 0
      BY <1>0, <3>1, AppendProperties
    <3> QED BY <1>0, <1>a, <2>0, <3>1, <3>4, <3>5 DEF BackInv
  <2>2. CASE ~BatcherPush
    <3>1. batches' = batches
      BY <1>3, <2>2 DEF Batcher, BatcherCheck, BatcherPop, BatcherPopRefused, BatcherNotEof,
         BatcherEof, BatcherStart, BatcherTrace, BatcherPush, BatcherPushRefused, BatcherRetry,
         BatcherFinishing, BatcherClose, BatcherRecord, BatcherCancel, queueVars
    <3>2. stats'["batched"] - Len(bat'.batch.items) = stats["batched"] - Len(bat.batch.items)
      <4>1. CASE BatcherPop /\ bat.batch.items # <<>>
        <5>1. Head(features) \in Entry
          BY <4>1, PopNextEffect, SequenceTypes DEF Shape
        <5>2. Len(bat'.batch.items) = Len(bat.batch.items) + 1
          BY <1>0, <4>1, <5>1, PopNextEffect, AppendProperties
        <5>3. stats'["batched"] = stats["batched"] + 1
          BY <4>1, PopNextEffect
        <5>4. \A m, n \in Nat : (m + 1) - (n + 1) = m - n
          OBVIOUS
        <5>5. stats["batched"] \in Nat /\ Len(bat.batch.items) \in Nat
          BY <1>0
        <5> QED BY <5>2, <5>3, <5>4, <5>5
      <4>2. CASE BatcherStart
        <5>1. Len(<<bat.item>>) = 1 /\ Len(bat.batch.items) = 0
          BY <4>2, StartEffect DEF BatcherInv
        <5>2. bat'.batch.items = <<bat.item>> /\ stats'["batched"] = stats["batched"] + 1
          BY <4>2, StartEffect
        <5> QED BY <1>0, <5>1, <5>2
      <4>3. CASE BatcherPop /\ bat.batch.items = <<>>
        BY <4>3, PopFirstEffect
      <4>4. CASE BatcherTrace \/ BatcherFinishing \/ BatcherQuiet
        BY <4>4, TraceEffect, FinishingEffect, QuietEffect
      <4> QED BY <1>3, <2>2, <4>1, <4>2, <4>3, <4>4 DEF BatcherQuiet
    <3> QED BY <1>a, <2>0, <3>1, <3>2 DEF BackInv
  <2> QED BY <2>1, <2>2
<1>4. CASE Scorer
  <2>0. bat' = bat /\ stats'["batched"] = stats["batched"]
    BY <1>4, ScorerFrame DEF Counters
  <2>1. CASE ScorerPop
    <3>1. /\ batches # <<>> /\ batches' = Tail(batches) /\ scr'.batch = Head(batches)
          /\ scr'.i = 1 /\ stats' = stats /\ scr.batch.items = <<>> /\ scr.i = 1
      BY <2>1, ScorerPopEffect DEF ScorerInv
    <3>2. Head(batches) \in Bundle /\ Len(Head(batches).items) \in Nat
      <4>1. Head(batches) \in Bundle
        BY <1>0, <3>1, SequenceTypes
      <4> QED BY <4>1 DEF Bundle
    <3>3. \A k \in 1..Len(batches) : Len(batches[k].items) > 0
      <4>1. \A k \in 1..Len(batches) : WellFormed(batches[k], generation)
        BY DEF ScorerInv
      <4> QED BY <4>1 DEF WellFormed
    <3>4. ScorerEnd = stats["written"] /\ ScorerEnd' = ScorerEnd + Len(Head(batches).items)
      <4>1. Len(<<>>) = 0
        OBVIOUS
      <4> QED BY <1>0, <3>1, <3>2, <4>1 DEF ScorerEnd
    <3>5. /\ \A j \in 1..Len(Head(batches).items) : Head(batches).items[j].seq = ScorerEnd + j
          /\ Ordered(ScorerEnd + Len(Head(batches).items), Tail(batches))
          /\ Boundary(ScorerEnd + Len(Head(batches).items), Tail(batches), Len(Tail(batches)))
               = Boundary(ScorerEnd, batches, Len(batches))
      BY <1>0, <1>a, <3>1, <3>3, OrderedTail
    <3>6. RestOrder'
      <4>1. ASSUME NEW j \in 1..Len(Head(batches).items)
            PROVE  Head(batches).items[j].seq = stats["written"] + 1 + j - 1
        BY <1>0, <3>2, <3>4, <3>5
      <4> QED BY <3>1, <4>1 DEF RestOrder
    <3> QED BY <1>a, <2>0, <3>1, <3>4, <3>5, <3>6 DEF BackInv
  <2>2. CASE stats'["written"] # stats["written"]
    <3>1. ScorerItem
      BY <1>4, <2>2 DEF Scorer, ScorerCheck, ScorerPop, ScorerPopRefused, ScorerNotEof, ScorerEof,
         ScorerItem, ScorerFlush, ScorerRecord, ScorerCancel
    <3>2. /\ scr.pc = "item" /\ batches' = batches /\ stats'["written"] = stats["written"] + 1
          /\ \/ /\ scr.i < Len(scr.batch.items)
                /\ scr'.batch = scr.batch /\ scr'.i = scr.i + 1
             \/ /\ ~(scr.i < Len(scr.batch.items))
                /\ scr'.batch = NoBatch /\ scr'.i = 1
      BY <2>2, <3>1, ScorerWriteEffect
    <3>3. scr.i <= Len(scr.batch.items)
      BY <3>2 DEF ScorerInv
    <3>4. NoBatch.items = <<>> /\ Len(<<>>) = 0
      BY DEF NoBatch
    <3>5. CASE scr.i < Len(scr.batch.items)
      <4>1. scr'.batch = scr.batch /\ scr'.i = scr.i + 1
        BY <3>2, <3>5
      <4>2. ScorerEnd' = ScorerEnd
        <5>1. \A w, n, i \in Nat : (w + 1) + n + 1 - (i + 1) = w + n + 1 - i
          OBVIOUS
        <5>2. stats["written"] \in Nat /\ Len(scr.batch.items) \in Nat /\ scr.i \in Nat
          BY <1>0
        <5>3. stats'["written"] = stats["written"] + 1
          BY <3>2
        <5>4. ScorerEnd = stats["written"] + Len(scr.batch.items) + 1 - scr.i
          BY DEF ScorerEnd
        <5>5. ScorerEnd' = (stats["written"] + 1) + Len(scr.batch.items) + 1 - (scr.i + 1)
          BY <4>1, <5>3 DEF ScorerEnd
        <5> QED BY <5>1, <5>2, <5>4, <5>5
      <4>3. \A j \in scr.i + 1 .. Len(scr.batch.items) :
              scr.batch.items[j].seq = stats["written"] + 1 + 1 + j - (scr.i + 1)
        <5>1. stats["written"] \in Nat /\ Len(scr.batch.items) \in Nat /\ scr.i \in Nat
          BY <1>0
        <5> SUFFICES ASSUME NEW j \in scr.i + 1 .. Len(scr.batch.items)
                     PROVE  scr.batch.items[j].seq = stats["written"] + 1 + 1 + j - (scr.i + 1)
          OBVIOUS
        <5>2. j \in scr.i..Len(scr.batch.items) /\ j \in Int
          BY <5>1
        <5>3. scr.batch.items[j].seq = stats["written"] + 1 + j - scr.i
          BY <1>a, <5>2 DEF RestOrder
        <5>4. \A w, k, i \in Int : w + 1 + 1 + k - (i + 1) = w + 1 + k - i
          OBVIOUS
        <5> QED BY <5>1, <5>2, <5>3, <5>4
      <4>4. RestOrder'
        BY <3>2, <4>1, <4>3 DEF RestOrder
      <4> QED BY <1>a, <2>0, <3>2, <4>2, <4>4 DEF BackInv
    <3>6. CASE ~(scr.i < Len(scr.batch.items))
      <4>1. scr'.batch.items = <<>> /\ scr'.i = 1 /\ Len(scr.batch.items) = scr.i
        BY <1>0, <3>2, <3>3, <3>4, <3>6
      <4>2. ScorerEnd' = ScorerEnd
        BY <1>0, <3>2, <3>4, <4>1 DEF ScorerEnd
      <4>3. RestOrder'
        BY <3>4, <4>1 DEF RestOrder
      <4> QED BY <1>a, <2>0, <3>2, <4>2, <4>3 DEF BackInv
    <3> QED BY <3>5, <3>6
  <2>3. CASE ~ScorerPop /\ stats'["written"] = stats["written"]
    BY <1>4, <1>a, <2>0, <2>3, ScorerQuietEffect DEF BackInv, RestOrder, ScorerEnd
  <2> QED BY <2>1, <2>2, <2>3
<1>5. CASE Expire \/ UNCHANGED vars
  BY <1>a, <1>5, IdleFrame DEF BackInv, RestOrder, ScorerEnd
<1> QED BY <1>1, <1>2, <1>3, <1>4, <1>5 DEF Next, Finished
-----------------------------------------------------------------------------
(* The pressure generations along the stream and inside each batch.       *)
LEMMA GenerationStep == IInv /\ [Next]_vars => GenerationInv'
<1> SUFFICES ASSUME IInv, [Next]_vars PROVE GenerationInv'
  OBVIOUS
<1> USE DEF IInv
<1>0. /\ generation \in Nat /\ bat.batch \in Bundle /\ scr.batch \in Bundle
      /\ bat.batch.items \in Seq(Entry) /\ Len(bat.batch.items) \in Nat
      /\ features \in Seq(Entry) /\ Len(features) \in Nat
      /\ src.item \in Entry /\ bat.item \in Entry
      /\ batches \in Seq(Bundle) /\ Len(batches) \in Nat
  BY DEF Shape, Bundle
<1>t. /\ src.item.gen \in Nat /\ bat.item.gen \in Nat
      /\ \A j \in 1..Len(features) : features[j] \in Entry /\ features[j].gen \in Nat
      /\ \A j \in 1..Len(bat.batch.items) : bat.batch.items[j].gen \in Nat
  <2>1. \A e \in Entry : e.gen \in Nat
    BY DEF Entry
  <2>2. /\ \A j \in 1..Len(features) : features[j] \in Entry
        /\ \A j \in 1..Len(bat.batch.items) : bat.batch.items[j] \in Entry
    BY <1>0, SequenceTypes
  <2> QED BY <1>0, <2>1, <2>2
<1>a. /\ StreamGenerations
      /\ Causal(bat.batch) /\ Causal(scr.batch)
      /\ \A k \in 1..Len(batches) : Causal(batches[k])
  BY DEF GenerationInv, CausalBatches
<1>b. bat.batch.items # <<>> => bat.batch.gen = generation
  BY DEF BatcherInv
<1>c. \A j \in 1..Len(bat.batch.items) : bat.batch.items[j].gen <= generation
  <2>1. bat.batch.items = <<>> => Len(bat.batch.items) = 0
    OBVIOUS
  <2> QED BY <1>0, <1>a, <1>b, <2>1 DEF Causal
<1>n. Causal(NoBatch) /\ NoBatch.items = <<>> /\ NoItem.gen = 0
  BY DEF Causal, NoBatch, NoItem
<1>1. CASE Main
  <2>1. src'.item = src.item /\ bat'.item = bat.item /\ bat'.batch = bat.batch
        /\ scr'.batch = scr.batch
    BY <1>1, MainFrame, Fields
  <2> QED BY <1>1, <1>a, <2>1, MainFrame DEF GenerationInv, StreamGenerations, CausalBatches, Causal
<1>2. CASE Source
  <2>0. UNCHANGED <<bat, scr, batches, generation>>
    BY <1>2, SourceFrame
  <2>1. CausalBatches'
    BY <1>a, <2>0 DEF CausalBatches, Causal
  <2>2. CASE SourceNext /\ stats'["extracted"] # stats["extracted"]
    <3>1. features' = features /\ src'.item.gen = generation
      BY <2>2, Counting DEF SourceNext, Counters, queueVars
    <3>2. StreamGenerations'
      BY <1>0, <1>a, <1>c, <2>0, <3>1 DEF StreamGenerations
    <3> QED BY <2>1, <3>2 DEF GenerationInv
  <2>3. CASE SourcePush
    <3>1. features' = Append(features, src.item) /\ src'.item = NoItem /\ src.item # NoItem
      BY <2>3 DEF SourcePush, SourceInv
    <3>2. Len(features') = Len(features) + 1 /\ features'[Len(features) + 1] = src.item
          /\ \A j \in 1..Len(features) : features'[j] = features[j]
      BY <1>0, <3>1, AppendProperties
    <3>3. \A j \in 1..Len(features') : j \in 1..Len(features) \/ j = Len(features) + 1
      BY <1>0, <3>2
    <3>4. \A j \in 1..Len(features') :
            /\ features'[j].gen <= generation /\ bat.item.gen <= features'[j].gen
            /\ \A i \in 1..Len(bat.batch.items) : bat.batch.items[i].gen <= features'[j].gen
      BY <1>a, <3>1, <3>2, <3>3 DEF StreamGenerations
    <3>5. \A i, j \in 1..Len(features') : i < j => features'[i].gen <= features'[j].gen
      <4> SUFFICES ASSUME NEW i \in 1..Len(features'), NEW j \in 1..Len(features'), i < j
                   PROVE  features'[i].gen <= features'[j].gen
        OBVIOUS
      <4>1. i \in 1..Len(features)
        BY <1>0, <3>2
      <4>2. CASE j = Len(features) + 1
        BY <1>a, <3>1, <3>2, <4>1, <4>2 DEF StreamGenerations
      <4>3. CASE j \in 1..Len(features)
        BY <1>a, <3>2, <4>1, <4>3 DEF StreamGenerations
      <4> QED BY <3>3, <4>2, <4>3
    <3>6. src'.item.gen <= generation /\ bat.item.gen <= generation
      BY <1>0, <1>a, <1>n, <3>1 DEF StreamGenerations
    <3>7. StreamGenerations'
      BY <2>0, <3>1, <3>4, <3>5, <3>6 DEF StreamGenerations
    <3> QED BY <2>1, <3>7 DEF GenerationInv
  <2>4. CASE ~SourcePush /\ stats'["extracted"] = stats["extracted"]
    <3>1. features' = features /\ src'.item = src.item
      BY <1>2, <2>4, SourceKeeps
    <3>2. StreamGenerations'
      BY <1>a, <2>0, <3>1 DEF StreamGenerations
    <3> QED BY <2>1, <3>2 DEF GenerationInv
  <2>5. SourceNext \/ stats'["extracted"] = stats["extracted"]
    BY <1>2 DEF Source, SourceCheck, SourceNext, SourcePush, SourcePushRefused, SourceRetry,
       SourceClosing, SourceClose, SourceRecord, SourceCancel
  <2> QED BY <2>2, <2>3, <2>4, <2>5
<1>3. CASE Batcher
  <2>0. src' = src /\ scr' = scr
    BY <1>3, BatcherFrame
  <2>a. features # <<>> => /\ Head(features) = features[1] /\ Len(features) > 0
                           /\ Len(Tail(features)) = Len(features) - 1
                           /\ \A j \in 1..Len(Tail(features)) :
                                /\ j + 1 \in 1..Len(features) /\ 1 < j + 1
                                /\ Tail(features)[j] = features[j + 1]
    BY <1>0, HeadTailProperties
  <2>b. features # <<>> =>
          /\ Head(features).gen <= generation /\ Head(features).gen \in Nat
          /\ src.item # NoItem => Head(features).gen <= src.item.gen
          /\ \A i \in 1..Len(bat.batch.items) : bat.batch.items[i].gen <= Head(features).gen
          /\ \A j \in 1..Len(Tail(features)) : Head(features).gen <= Tail(features)[j].gen
    <3> SUFFICES ASSUME features # <<>>
                 PROVE  /\ Head(features).gen <= generation /\ Head(features).gen \in Nat
                        /\ src.item # NoItem => Head(features).gen <= src.item.gen
                        /\ \A i \in 1..Len(bat.batch.items) :
                             bat.batch.items[i].gen <= Head(features).gen
                        /\ \A j \in 1..Len(Tail(features)) :
                             Head(features).gen <= Tail(features)[j].gen
      OBVIOUS
    <3>1. 1 \in 1..Len(features) /\ Head(features) = features[1]
      BY <1>0, <2>a
    <3>2. \A j \in 1..Len(Tail(features)) : features[1].gen <= features[j + 1].gen
      BY <1>a, <2>a, <3>1 DEF StreamGenerations
    <3> QED BY <1>a, <1>t, <2>a, <3>1, <3>2 DEF StreamGenerations
  <2>c. features # <<>> =>
          /\ \A j \in 1..Len(Tail(features)) :
               /\ Tail(features)[j].gen <= generation
               /\ src.item # NoItem => Tail(features)[j].gen <= src.item.gen
               /\ bat.item.gen <= Tail(features)[j].gen
               /\ \A i \in 1..Len(bat.batch.items) :
                    bat.batch.items[i].gen <= Tail(features)[j].gen
          /\ \A i, j \in 1..Len(Tail(features)) :
               i < j => Tail(features)[i].gen <= Tail(features)[j].gen
    <3> SUFFICES ASSUME features # <<>>
                 PROVE  /\ \A j \in 1..Len(Tail(features)) :
                             /\ Tail(features)[j].gen <= generation
                             /\ src.item # NoItem => Tail(features)[j].gen <= src.item.gen
                             /\ bat.item.gen <= Tail(features)[j].gen
                             /\ \A i \in 1..Len(bat.batch.items) :
                                  bat.batch.items[i].gen <= Tail(features)[j].gen
                        /\ \A i, j \in 1..Len(Tail(features)) :
                             i < j => Tail(features)[i].gen <= Tail(features)[j].gen
      OBVIOUS
    <3>1. ASSUME NEW i \in 1..Len(Tail(features)), NEW j \in 1..Len(Tail(features)), i < j
          PROVE  Tail(features)[i].gen <= Tail(features)[j].gen
      <4>1. i + 1 \in 1..Len(features) /\ j + 1 \in 1..Len(features) /\ i + 1 < j + 1
        BY <1>0, <2>a, <3>1
      <4>2. features[i + 1].gen <= features[j + 1].gen
        BY <1>a, <4>1 DEF StreamGenerations
      <4> QED BY <2>a, <4>2
    <3>2. \A j \in 1..Len(Tail(features)) :
            /\ Tail(features)[j].gen <= generation
            /\ src.item # NoItem => Tail(features)[j].gen <= src.item.gen
            /\ bat.item.gen <= Tail(features)[j].gen
            /\ \A i \in 1..Len(bat.batch.items) :
                 bat.batch.items[i].gen <= Tail(features)[j].gen
      BY <1>a, <2>a DEF StreamGenerations
    <3> QED BY <3>1, <3>2
  <2>1. CASE BatcherPop /\ bat.batch.items = <<>>
    <3>1. /\ features # <<>> /\ features' = Tail(features) /\ bat'.item = Head(features)
          /\ bat'.batch = bat.batch /\ bat.batch.items = <<>>
          /\ UNCHANGED <<generation, batches>>
      BY <2>1, PopFirstEffect
    <3>2. StreamGenerations'
      BY <1>a, <2>0, <2>b, <2>c, <3>1 DEF StreamGenerations
    <3> QED BY <1>a, <2>0, <3>1, <3>2 DEF GenerationInv, CausalBatches, Causal
  <2>2. CASE BatcherPop /\ bat.batch.items # <<>>
    <3>1. /\ features # <<>> /\ features' = Tail(features) /\ bat'.item = bat.item
          /\ bat'.batch.items = Append(bat.batch.items, Head(features))
          /\ bat'.batch.gen = bat.batch.gen /\ UNCHANGED <<generation, batches>>
      BY <2>2, PopNextEffect
    <3>2. /\ Len(bat'.batch.items) = Len(bat.batch.items) + 1
          /\ bat'.batch.items[Len(bat.batch.items) + 1] = Head(features)
          /\ \A j \in 1..Len(bat.batch.items) : bat'.batch.items[j] = bat.batch.items[j]
      <4>1. Head(features) \in Entry
        BY <1>0, <3>1, SequenceTypes
      <4> QED BY <1>0, <3>1, <4>1, AppendProperties
    <3>3. \A i \in 1..Len(bat'.batch.items) :
            i \in 1..Len(bat.batch.items) \/ i = Len(bat.batch.items) + 1
      BY <1>0, <3>2
    <3>4. \A i \in 1..Len(bat'.batch.items) :
            /\ src.item # NoItem => bat'.batch.items[i].gen <= src.item.gen
            /\ \A j \in 1..Len(Tail(features)) : bat'.batch.items[i].gen <= Tail(features)[j].gen
      BY <1>a, <2>b, <2>c, <3>1, <3>2, <3>3 DEF StreamGenerations
    <3>5. StreamGenerations'
      BY <1>a, <2>0, <2>c, <3>1, <3>4 DEF StreamGenerations
    <3>6. Causal(bat'.batch)
      <4>1. Len(bat.batch.items) > 0 /\ bat.batch.gen = generation
        BY <1>0, <1>b, <2>2
      <4> SUFFICES ASSUME NEW i \in 1..Len(bat'.batch.items)
                   PROVE  /\ bat'.batch.items[i].gen <= bat'.batch.gen
                          /\ i = 1 => bat'.batch.items[i].gen < bat'.batch.gen
                          /\ i > 1 => bat'.batch.items[i - 1].gen <= bat'.batch.items[i].gen
        BY DEF Causal
      <4>2. CASE i \in 1..Len(bat.batch.items)
        <5>1. i > 1 => i - 1 \in 1..Len(bat.batch.items)
          BY <1>0, <4>2
        <5> QED BY <1>a, <3>1, <3>2, <4>2, <5>1 DEF Causal
      <4>3. CASE i = Len(bat.batch.items) + 1
        <5>1. i - 1 = Len(bat.batch.items) /\ i - 1 \in 1..Len(bat.batch.items) /\ i # 1
          BY <1>0, <4>1, <4>3
        <5>2. bat'.batch.items[i] = Head(features)
          BY <3>2, <4>3
        <5>3. bat'.batch.items[i - 1] = bat.batch.items[i - 1]
              /\ bat.batch.items[i - 1].gen <= Head(features).gen
          BY <2>b, <3>1, <3>2, <5>1
        <5>4. Head(features).gen <= generation
          BY <2>b, <3>1
        <5> QED BY <3>1, <4>1, <5>1, <5>2, <5>3, <5>4
      <4> QED BY <3>3, <4>2, <4>3
    <3>7. CausalBatches'
      BY <1>a, <2>0, <3>1, <3>6 DEF CausalBatches, Causal
    <3> QED BY <3>5, <3>7 DEF GenerationInv
  <2>3. CASE BatcherStart
    <3>1. /\ features' = features /\ bat'.item = NoItem /\ generation' = generation + 1
          /\ bat'.batch.items = <<bat.item>> /\ bat'.batch.gen = generation + 1
          /\ batches' = batches
      BY <2>3, StartEffect
    <3>2. Len(<<bat.item>>) = 1 /\ <<bat.item>>[1] = bat.item
      OBVIOUS
    <3>3. Causal(bat'.batch)
      <4>1. bat.item.gen <= generation + 1 /\ bat.item.gen < generation + 1
        BY <1>0, <1>a, <1>t DEF StreamGenerations
      <4>2. \A i \in 1..1 : i = 1 /\ ~(i > 1)
        OBVIOUS
      <4> QED BY <3>1, <3>2, <4>1, <4>2 DEF Causal
    <3>4. \A g \in Nat : g <= generation => g <= generation + 1
      BY <1>0
    <3>5. StreamGenerations'
      <4>1. /\ src.item.gen <= generation + 1 /\ bat'.item.gen <= generation + 1
            /\ \A j \in 1..Len(features) : features[j].gen <= generation + 1
        BY <1>0, <1>a, <1>n, <1>t, <3>1, <3>4 DEF StreamGenerations
      <4>2. /\ src.item # NoItem => bat'.item.gen <= src.item.gen
            /\ \A j \in 1..Len(features) : bat'.item.gen <= features[j].gen
        BY <1>n, <1>t, <3>1
      <4>3. /\ \A i \in 1..Len(bat'.batch.items) : bat'.batch.items[i].gen = bat.item.gen
        <5>1. \A i \in 1..1 : i = 1
          OBVIOUS
        <5> QED BY <3>1, <3>2, <5>1
      <4> QED BY <1>a, <2>0, <3>1, <4>1, <4>2, <4>3 DEF StreamGenerations
    <3>6. CausalBatches'
      BY <1>a, <2>0, <3>1, <3>3 DEF CausalBatches, Causal
    <3> QED BY <3>5, <3>6 DEF GenerationInv
  <2>4. CASE BatcherPush
    <3>1. /\ batches' = Append(batches, bat.batch) /\ bat'.batch = NoBatch
          /\ bat'.item = bat.item /\ UNCHANGED <<features, generation>>
      BY <2>4, PushEffect
    <3>2. \A k \in 1..Len(batches') : Causal(batches'[k])
      <4>1. Len(batches') = Len(batches) + 1 /\ batches'[Len(batches) + 1] = bat.batch
            /\ \A k \in 1..Len(batches) : batches'[k] = batches[k]
        BY <1>0, <3>1, AppendProperties
      <4>2. \A k \in 1..Len(batches') : k \in 1..Len(batches) \/ k = Len(batches) + 1
        BY <1>0, <4>1
      <4> QED BY <1>a, <4>1, <4>2
    <3>3. CausalBatches'
      BY <1>a, <1>n, <2>0, <3>1, <3>2 DEF CausalBatches, Causal
    <3>4. StreamGenerations'
      BY <1>a, <1>n, <2>0, <3>1 DEF StreamGenerations
    <3> QED BY <3>3, <3>4 DEF GenerationInv
  <2>5. CASE BatcherTrace \/ BatcherFinishing \/ BatcherQuiet
    <3>1. bat'.batch = bat.batch /\ bat'.item = bat.item
          /\ UNCHANGED <<features, generation, batches>>
      BY <2>5, TraceEffect, FinishingEffect, QuietEffect
    <3> QED BY <1>a, <2>0, <3>1 DEF GenerationInv, StreamGenerations, CausalBatches, Causal
  <2> QED BY <1>3, <2>1, <2>2, <2>3, <2>4, <2>5 DEF BatcherQuiet
<1>4. CASE Scorer
  <2>0. UNCHANGED <<src, bat, features, generation>>
    BY <1>4, ScorerFrame
  <2>1. StreamGenerations'
    BY <1>a, <2>0 DEF StreamGenerations
  <2>2. Causal(scr'.batch) /\ \A k \in 1..Len(batches') : Causal(batches'[k])
    <3>1. CASE ScorerPop
      <4>1. batches # <<>> /\ batches' = Tail(batches) /\ scr'.batch = Head(batches)
        BY <3>1, ScorerPopEffect
      <4>2. /\ Head(batches) = batches[1] /\ 1 \in 1..Len(batches)
            /\ \A k \in 1..Len(Tail(batches)) : /\ Tail(batches)[k] = batches[k + 1]
                                                /\ k + 1 \in 1..Len(batches)
        BY <1>0, <4>1, HeadTailProperties
      <4> QED BY <1>a, <4>1, <4>2
    <3>2. CASE stats'["written"] # stats["written"]
      <4>1. ScorerItem
        BY <1>4, <3>2 DEF Scorer, ScorerCheck, ScorerPop, ScorerPopRefused, ScorerNotEof,
           ScorerEof, ScorerItem, ScorerFlush, ScorerRecord, ScorerCancel
      <4> QED BY <1>a, <1>n, <3>2, <4>1, ScorerWriteEffect
    <3>3. CASE ~ScorerPop /\ stats'["written"] = stats["written"]
      BY <1>4, <1>a, <3>3, ScorerQuietEffect
    <3> QED BY <3>1, <3>2, <3>3
  <2> QED BY <1>a, <2>0, <2>1, <2>2 DEF GenerationInv, CausalBatches, Causal
<1>5. CASE Expire \/ UNCHANGED vars
  BY <1>a, <1>5, IdleFrame DEF GenerationInv, StreamGenerations, CausalBatches, Causal
<1> QED BY <1>1, <1>2, <1>3, <1>4, <1>5 DEF Next, Finished
-----------------------------------------------------------------------------
(* The rows of the controller trace.                                      *)
LEMMA TraceStep == IInv /\ [Next]_vars => TraceInv'
<1> SUFFICES ASSUME Shape, LaunchInv, CauseInv, BatcherInv, TraceInv, [Next]_vars
             PROVE  TraceInv'
  BY DEF IInv
<1>0. /\ stats["batches"] \in Nat /\ trace \in Seq(Row) /\ Len(trace) \in Nat
      /\ bat.tail \in BOOLEAN /\ generation \in Nat
      /\ Len(bat.batch.items) \in Nat /\ bat.batch.target \in Nat
  BY SMTT(30) DEF Shape, Counters, Bundle
<1>1. CASE Main
  BY <1>1, MainFrame, Fields DEF TraceInv
<1>2. CASE Source
  BY <1>2, SourceFrame DEF TraceInv, Counters
<1>3. CASE Batcher
  <2>1. CASE BatcherPop
    <3>1. /\ bat.pc = "pop" /\ bat'.pc \in {"start", "trace", "check"} /\ bat'.tail = bat.tail
          /\ trace' = trace /\ stats'["batches"] = stats["batches"] /\ ~bat.tail
      BY <2>1, PopFirstEffect, PopNextEffect DEF BatcherInv
    <3> QED BY <3>1 DEF TraceInv
  <2>2. CASE BatcherStart
    <3>1. /\ bat.pc = "start" /\ bat'.pc \in {"trace", "check"} /\ bat'.tail = bat.tail
          /\ trace' = trace /\ stats'["batches"] = stats["batches"] /\ ~bat.tail
      BY <2>2, StartEffect DEF BatcherInv
    <3> QED BY <3>1 DEF TraceInv
  <2>3. CASE BatcherPush
    <3>1. /\ bat.pc = "flush" /\ bat'.pc \in {"end", "check"} /\ bat'.tail = bat.tail
          /\ trace' = trace /\ stats'["batches"] = stats["batches"] + 1
          /\ bat'.pc = "end" => bat.tail
      BY <2>3, PushEffect
    <3>2. Failed' = Failed
      BY <2>3, PushEffect
    <3> QED BY <1>0, <3>1, <3>2 DEF TraceInv
  <2>4. CASE BatcherTrace
    <3>1. /\ bat.pc = "trace" /\ bat'.tail = bat.tail /\ stats' = stats
          /\ bat'.batch = bat.batch
      BY <2>4, TraceEffect
    <3>2. Len(trace) = stats["batches"] /\ \A i \in 1..Len(trace) : ~trace[i].tail
      BY <3>1 DEF TraceInv
    <3>3. CASE bat'.pc = "throw"
      BY <2>4, <3>1, <3>2, <3>3, TraceEffect DEF TraceInv
    <3>4. CASE bat'.pc = "flush"
      <4> DEFINE row == [gen |-> bat.batch.gen, count |-> Len(bat.batch.items),
                         target |-> bat.batch.target, tail |-> bat.tail]
      <4>1. trace' = Append(trace, row)
        BY <2>4, <3>4, TraceEffect
      <4>2. /\ row.gen = stats["batches"] + 1
            /\ row.count <= row.target /\ (~row.tail <=> row.count = row.target)
            /\ row.tail = bat.tail
        BY <1>0, <3>1 DEF BatcherInv, Filling
      <4>3. row \in Row
        BY <1>0 DEF Row, Shape, Bundle
      <4> HIDE DEF row
      <4>4. /\ Len(trace') = Len(trace) + 1 /\ trace'[Len(trace) + 1] = row
            /\ \A i \in 1..Len(trace) : trace'[i] = trace[i]
        BY <1>0, <4>1, <4>3, AppendProperties
      <4>5. \A i \in 1..Len(trace') : i \in 1..Len(trace) \/ i = Len(trace')
        BY <1>0, <4>4
      <4>6. \A i \in 1..Len(trace') :
              /\ trace'[i].gen = i
              /\ trace'[i].count <= trace'[i].target
              /\ ~trace'[i].tail <=> trace'[i].count = trace'[i].target
              /\ trace'[i].tail => i = Len(trace') /\ bat'.tail /\ bat'.pc # "trace"
        BY <3>1, <3>2, <3>4, <4>2, <4>4, <4>5, ZenonT(30) DEF TraceInv
      <4>7. Len(trace') = stats["batches"] + 1
        BY <3>2, <4>4
      <4>8. bat'.tail => Len(trace') > 0 /\ trace'[Len(trace')].tail
        <5>1. trace'[Len(trace')] = row /\ Len(trace') > 0
          BY <1>0, <4>4
        <5> QED BY <3>1, <4>2, <5>1
      <4> QED BY <3>1, <3>4, <4>6, <4>7, <4>8 DEF TraceInv
    <3> QED BY <2>4, <3>3, <3>4, TraceEffect
  <2>5. CASE BatcherFinishing
    <3>1. /\ bat.pc = "finishing" /\ ~bat.tail /\ trace' = trace
          /\ stats'["batches"] = stats["batches"]
          /\ \/ bat'.pc \in {"exited", "end"} /\ ~bat'.tail
             \/ bat'.pc = "trace" /\ bat'.tail
      BY <2>5, FinishingEffect DEF BatcherInv
    <3>2. \A i \in 1..Len(trace) : ~trace[i].tail
      BY <3>1 DEF TraceInv
    <3> QED BY <3>1, <3>2 DEF TraceInv
  <2>6. CASE BatcherQuiet
    <3>1. \/ <<bat.pc, bat'.pc>> \in BatcherQuietMoves
          \/ bat.pc \in {"retry", "cancel"} /\ bat'.pc = "exited" /\ Failed'
      BY <2>6, QuietEffect
    <3>2. bat'.tail = bat.tail /\ UNCHANGED <<stats, trace>> /\ (Failed => Failed')
      BY <2>6, QuietEffect
    <3>3. bat'.pc # "trace"
      BY <3>1 DEF BatcherQuietMoves
    <3>4. bat.tail => bat.pc \in {"trace", "flush", "retry", "end", "throw", "cancel", "exited"}
      BY DEF BatcherInv
    <3>5. \/ bat.pc \in {"flush", "retry"} /\ bat'.pc \in {"flush", "retry"}
          \/ /\ bat.pc \in {"check", "pop", "eof", "end"}
             /\ bat'.pc \in {"check", "pop", "eof", "finishing", "exited"}
          \/ bat'.pc \in {"throw", "cancel"}
          \/ bat'.pc = "exited" /\ Failed'
      <4>1. CASE <<bat.pc, bat'.pc>> \in BatcherQuietMoves
        BY <4>1 DEF BatcherQuietMoves
      <4> QED BY <3>1, <4>1
    <3>6. \A i \in 1..Len(trace') :
            /\ trace'[i].gen = i
            /\ trace'[i].count <= trace'[i].target
            /\ ~trace'[i].tail <=> trace'[i].count = trace'[i].target
            /\ trace'[i].tail => i = Len(trace') /\ bat'.tail /\ bat'.pc # "trace"
      BY <3>2, <3>3 DEF TraceInv
    <3>7. bat'.tail /\ bat'.pc \in {"flush", "retry", "end", "exited"} =>
            Failed' \/ (Len(trace') > 0 /\ trace'[Len(trace')].tail)
      BY <3>2, <3>4, <3>5 DEF TraceInv
    <3>8. /\ bat'.pc \in {"unborn", "check", "pop", "eof", "start", "trace", "finishing", "end"}
               => Len(trace') = stats'["batches"]
          /\ bat'.pc \in {"flush", "retry"} => Len(trace') = stats'["batches"] + 1
          /\ bat'.pc = "exited" => Len(trace') = stats'["batches"] \/ Failed'
      BY <3>2, <3>5 DEF TraceInv
    <3> QED BY <3>6, <3>7, <3>8 DEF TraceInv
  <2> QED BY <1>3, <2>1, <2>2, <2>3, <2>4, <2>5, <2>6 DEF BatcherQuiet
<1>4. CASE Scorer
  BY <1>4, ScorerFrame DEF TraceInv, Counters
<1>5. CASE Expire \/ UNCHANGED vars
  BY <1>5, IdleFrame DEF TraceInv, Failed
<1> QED BY <1>1, <1>2, <1>3, <1>4, <1>5 DEF Next, Finished

(* The queues stay within their room, and nothing in flight is past the   *)
(* batcher's counter.                                                     *)
LEMMA BoundStep == IInv /\ [Next]_vars => BoundInv'
<1> SUFFICES ASSUME IInv, [Next]_vars PROVE BoundInv'
  OBVIOUS
<1> USE DEF IInv
<1>0. /\ stats["batched"] \in Nat /\ stats["written"] \in Nat
      /\ bat.batch \in Bundle /\ scr.batch \in Bundle
      /\ batches \in Seq(Bundle) /\ Len(batches) \in Nat
      /\ features \in Seq(Entry) /\ Len(features) \in Nat
      /\ scr.i \in Nat \ {0} /\ Len(scr.batch.items) \in Nat
      /\ Len(bat.batch.items) \in Nat
  BY SMTT(30) DEF Shape, Bundle, Counters
<1>r. FeatureRoom \in Nat /\ BatchRoom \in Nat
  BY PipelineAssumption
<1>a. /\ Len(features) <= FeatureRoom /\ Len(batches) <= BatchRoom
      /\ Bounded(scr.batch) /\ \A k \in 1..Len(batches) : Bounded(batches[k])
      /\ stats["written"] <= stats["batched"]
  BY DEF BoundInv
<1>n. Bounded(NoBatch)
  BY DEF Bounded, NoBatch
<1>1. CASE Main
  <2>1. scr'.batch = scr.batch
    BY <1>1, MainFrame, Fields
  <2> QED BY <1>1, <1>a, <2>1, MainFrame DEF BoundInv, Bounded
<1>2. CASE Source
  <2>1. Len(features') <= FeatureRoom
    <3>1. CASE SourcePush
      <4>1. features' = Append(features, src.item) /\ Len(features) < FeatureRoom
        BY <3>1 DEF SourcePush
      <4>2. Len(features') = Len(features) + 1
        <5>1. src.item \in Entry
          BY DEF Shape
        <5> QED BY <1>0, <4>1, <5>1, AppendProperties
      <4> QED BY <1>0, <1>r, <4>1, <4>2
    <3>2. CASE ~SourcePush
      <4>1. features' = features
        BY <1>2, <3>2 DEF Source, SourceCheck, SourceNext, SourcePush, SourcePushRefused,
           SourceRetry, SourceClosing, SourceClose, SourceRecord, SourceCancel, queueVars
      <4> QED BY <1>a, <4>1
    <3> QED BY <3>1, <3>2
  <2>2. UNCHANGED <<batches, scr>> /\ stats'["batched"] = stats["batched"]
        /\ stats'["written"] = stats["written"]
    BY <1>2, SourceFrame DEF Counters
  <2> QED BY <1>a, <2>1, <2>2 DEF BoundInv, Bounded
<1>3. CASE Batcher
  <2>0. UNCHANGED scr /\ stats'["written"] = stats["written"]
    BY <1>3, BatcherFrame
  <2>1. Len(features') <= FeatureRoom
    <3>1. features' = features \/ (features # <<>> /\ features' = Tail(features))
      BY <1>3, BatcherFrame
    <3>2. features # <<>> => Len(Tail(features)) = Len(features) - 1
      BY <1>0, HeadTailProperties
    <3> QED BY <1>0, <1>a, <1>r, <3>1, <3>2
  <2>2. stats'["batched"] \in {stats["batched"], stats["batched"] + 1}
    <3>1. \/ UNCHANGED stats
          \/ Count({"batched"}) \/ Count({"batches"}) \/ Count({"tails"})
      BY <1>3 DEF Batcher, BatcherCheck, BatcherPop, BatcherPopRefused, BatcherNotEof, BatcherEof,
         BatcherStart, BatcherTrace, BatcherPush, BatcherPushRefused, BatcherRetry,
         BatcherFinishing, BatcherClose, BatcherRecord, BatcherCancel
    <3> QED BY <3>1, Counting DEF Counters
  <2>3. \A b \in Bundle : Bounded(b) => Bounded(b)'
    <3> SUFFICES ASSUME NEW b \in Bundle, Bounded(b), NEW j \in 1..Len(b.items)
                 PROVE  b.items[j].seq <= stats'["batched"]
      BY DEF Bounded
    <3>1. b.items[j].seq \in Nat
      <4>1. b.items[j] \in Entry
        BY SequenceTypes DEF Bundle
      <4> QED BY <4>1 DEF Entry
    <3>2. b.items[j].seq <= stats["batched"]
      BY DEF Bounded
    <3>3. \A n, m \in Nat : n <= m => n <= m + 1
      OBVIOUS
    <3> QED BY <1>0, <2>2, <3>1, <3>2, <3>3
  <2>4. stats'["written"] <= stats'["batched"]
    <3>1. \A n, m \in Nat : n <= m => n <= m + 1
      OBVIOUS
    <3> QED BY <1>0, <1>a, <2>0, <2>2, <3>1
  <2>5. Bounded(scr.batch)'
    BY <1>0, <1>a, <2>0, <2>3 DEF Bounded
  <2>6. CASE BatcherPush
    <3>1. batches' = Append(batches, bat.batch) /\ Len(batches) < BatchRoom
      BY <2>6, PushEffect
    <3>2. Len(batches') = Len(batches) + 1 /\ batches'[Len(batches) + 1] = bat.batch
          /\ \A k \in 1..Len(batches) : batches'[k] = batches[k]
      BY <1>0, <3>1, AppendProperties
    <3>3. Bounded(bat.batch)
      <4> SUFFICES ASSUME NEW j \in 1..Len(bat.batch.items)
                   PROVE  bat.batch.items[j].seq <= stats["batched"]
        BY DEF Bounded
      <4>1. bat.batch.items[j].seq = stats["batched"] - Len(bat.batch.items) + j
        BY DEF FrontInv, FillingOrder
      <4>2. \A b, n \in Nat : \A i \in 1..n : b - n + i <= b
        OBVIOUS
      <4> QED BY <1>0, <4>1, <4>2
    <3>4. \A k \in 1..Len(batches') : k \in 1..Len(batches) \/ k = Len(batches) + 1
      BY <1>0, <3>2
    <3>5. \A k \in 1..Len(batches) : batches[k] \in Bundle
      BY <1>0, SequenceTypes
    <3>6. \A k \in 1..Len(batches') : batches'[k] \in Bundle /\ Bounded(batches'[k])
      BY <1>0, <1>a, <3>2, <3>3, <3>4, <3>5
    <3>7. \A k \in 1..Len(batches') : Bounded(batches[k])'
      BY <2>3, <3>6 DEF Bounded
    <3>8. Len(batches') <= BatchRoom
      BY <1>0, <1>r, <3>1, <3>2
    <3> QED BY <2>1, <2>4, <2>5, <3>7, <3>8 DEF BoundInv
  <2>7. CASE ~BatcherPush
    <3>1. batches' = batches
      BY <1>3, <2>7 DEF Batcher, BatcherCheck, BatcherPop, BatcherPopRefused, BatcherNotEof,
         BatcherEof, BatcherStart, BatcherTrace, BatcherPush, BatcherPushRefused, BatcherRetry,
         BatcherFinishing, BatcherClose, BatcherRecord, BatcherCancel, queueVars
    <3>2. \A k \in 1..Len(batches) : batches[k] \in Bundle
      BY <1>0, SequenceTypes
    <3>3. \A k \in 1..Len(batches') : Bounded(batches[k])'
      BY <1>a, <2>3, <3>1, <3>2 DEF Bounded
    <3> QED BY <1>a, <2>1, <2>4, <2>5, <3>1, <3>3 DEF BoundInv
  <2> QED BY <2>6, <2>7
<1>4. CASE Scorer
  <2>0. UNCHANGED features /\ stats'["batched"] = stats["batched"]
    BY <1>4, ScorerFrame DEF Counters
  <2>1. CASE ScorerPop
    <3>1. /\ batches # <<>> /\ batches' = Tail(batches) /\ scr'.batch = Head(batches)
          /\ stats' = stats
      BY <2>1, ScorerPopEffect
    <3>2. /\ Head(batches) = batches[1] /\ 1 \in 1..Len(batches)
          /\ Len(Tail(batches)) = Len(batches) - 1
          /\ \A k \in 1..Len(Tail(batches)) : /\ Tail(batches)[k] = batches[k + 1]
                                              /\ k + 1 \in 1..Len(batches)
      BY <1>0, <3>1, HeadTailProperties
    <3>3. Len(batches') <= BatchRoom
      BY <1>0, <1>a, <1>r, <3>1, <3>2
    <3>4. Bounded(scr'.batch) /\ \A k \in 1..Len(batches') : Bounded(batches'[k])
      BY <1>a, <3>1, <3>2
    <3> QED BY <1>a, <2>0, <3>1, <3>3, <3>4 DEF BoundInv, Bounded
  <2>2. CASE stats'["written"] # stats["written"]
    <3>1. ScorerItem
      BY <1>4, <2>2 DEF Scorer, ScorerCheck, ScorerPop, ScorerPopRefused, ScorerNotEof, ScorerEof,
         ScorerItem, ScorerFlush, ScorerRecord, ScorerCancel
    <3>2. /\ scr.pc = "item" /\ batches' = batches
          /\ stats'["written"] = stats["written"] + 1
          /\ scr'.batch \in {scr.batch, NoBatch}
      BY <2>2, <3>1, ScorerWriteEffect
    <3>3. scr.i \in 1..Len(scr.batch.items) /\ scr.i \in scr.i..Len(scr.batch.items)
      BY <1>0, <3>2 DEF ScorerInv
    <3>4. scr.batch.items[scr.i].seq = stats["written"] + 1 + scr.i - scr.i
      BY <3>3 DEF BackInv, RestOrder
    <3>5. scr.batch.items[scr.i].seq <= stats["batched"]
      BY <1>a, <3>3 DEF Bounded
    <3>6. stats'["written"] <= stats["batched"]
      BY <1>0, <3>2, <3>4, <3>5
    <3> QED BY <1>a, <1>n, <2>0, <3>2, <3>6 DEF BoundInv, Bounded
  <2>3. CASE ~ScorerPop /\ stats'["written"] = stats["written"]
    BY <1>4, <1>a, <2>0, <2>3, ScorerQuietEffect DEF BoundInv, Bounded
  <2> QED BY <2>1, <2>2, <2>3
<1>5. CASE Expire \/ UNCHANGED vars
  BY <1>a, <1>5, IdleFrame DEF BoundInv, Bounded
<1> QED BY <1>1, <1>2, <1>3, <1>4, <1>5 DEF Next, Finished
-----------------------------------------------------------------------------
(* All parts together are inductive.                                      *)
LEMMA IInvStep == IInv /\ [Next]_vars => IInv'
BY ShapeStep, LaunchStep, CauseStep, SourceStep, BatcherStep, ScorerStep, FrontStep,
   BackStep, OutputStep, GenerationStep, TraceStep, BoundStep DEF IInv

(* Every reachable state of the engine pipeline satisfies the invariant:  *)
(* what each thread holds at each location, where each place stands in    *)
(* the stream, and why a worker may have left its loop.                   *)
THEOREM PipelineInvariant == Spec => []IInv
<1>1. Init => IInv
  BY InitOK
<1>2. IInv /\ [Next]_vars => IInv'
  BY IInvStep
<1> QED BY <1>1, <1>2, PTL DEF Spec

(* A worker that stops with work left stops because of a recorded error,  *)
(* in whatever order exceptions, cancellation and the deadline strike.    *)
THEOREM AbandonedWorkExplained == Spec => []AbandonedWorkHasCause
<1>1. IInv => AbandonedWorkHasCause
  BY DEF IInv, CauseInv, AbandonedWorkHasCause, Failed
<1> QED BY <1>1, PipelineInvariant, PTL

(* verify_pipeline never throws: when the workers are joined without an   *)
(* error, queues are drained and the four counters agree.                 *)
THEOREM ConservationNeverFails == Spec => []ConservationCheckRedundant
<1>1. IInv => ConservationCheckRedundant
  BY DEF IInv, OutputInv, ConservationCheckRedundant
<1> QED BY <1>1, PipelineInvariant, PTL

(* No event is computed from a pressure sample of a later batch, for any  *)
(* number of events and any room of the queues.                           *)
THEOREM PressureIsCausal == Spec => []PressureCausality
<1>1. IInv => PressureCausality
  <2> SUFFICES ASSUME IInv, NEW b \in LiveBatches
               PROVE  \A i \in 1..Len(b.items) :
                        /\ b.items[i].gen <= b.gen
                        /\ i = 1 => b.items[i].gen < b.gen
                        /\ i > 1 => b.items[i - 1].gen <= b.items[i].gen
    BY DEF PressureCausality
  <2>1. Causal(b)
    BY DEF IInv, GenerationInv, CausalBatches, LiveBatches
  <2> QED BY <2>1 DEF Causal
<1> QED BY <1>1, PipelineInvariant, PTL

(* The types of TypeOK: every number in it is bounded by the number of    *)
(* events, every queue by its room, every batch by batch_max.             *)
THEOREM TypeCorrect == Spec => []TypeOK
<1>1. IInv => TypeOK
  <2> SUFFICES ASSUME IInv PROVE TypeOK
    OBVIOUS
  <2> USE DEF IInv
  <2>0. /\ features \in Seq(Entry) /\ batches \in Seq(Bundle)
        /\ bat.item \in Entry /\ src.item \in Entry
        /\ bat.batch \in Bundle /\ scr.batch \in Bundle /\ bat.size \in BatchSize
        /\ generation \in Nat /\ scr.i \in Nat \ {0}
        /\ Len(features) \in Nat /\ Len(batches) \in Nat
        /\ Len(bat.batch.items) \in Nat /\ Len(scr.batch.items) \in Nat
    BY DEF Shape, Bundle
  <2>c. \A c \in Counters : stats[c] \in Nat
    BY DEF Shape
  <2>d. /\ stats["read"] \in Nat /\ stats["extracted"] \in Nat /\ stats["batched"] \in Nat
        /\ stats["scored"] \in Nat /\ stats["written"] \in Nat
        /\ stats["batches"] \in Nat /\ stats["tails"] \in Nat
    BY <2>c DEF Counters
  <2>e. Events \in Nat
    BY PipelineAssumption
  <2>1. stats["batched"] <= stats["extracted"] /\ stats["extracted"] <= Events
        /\ (bat.pc = "start" => stats["batched"] + 1 <= stats["extracted"])
    <3>1. stats["read"] <= Events /\ stats["extracted"] <= stats["read"]
      BY DEF SourceInv
    <3>2. /\ stats["extracted"] = stats["batched"] + InHand + Len(features)
             \/ stats["extracted"] = stats["batched"] + InHand + Len(features) + 1
          /\ InHand \in {0, 1} /\ (bat.pc = "start" => InHand = 1)
      BY DEF FrontInv, SourceOrder, InHand
    <3> QED BY <2>0, <2>d, <2>e, <3>1, <3>2, SMTT(30)
  <2>2. generation <= Events
    BY <2>0, <2>1, <2>d, <2>e DEF BatcherInv
  <2>3. \A e \in Entry : e.seq <= stats["extracted"] /\ e.gen <= generation => e \in Item
    <3> SUFFICES ASSUME NEW e \in Entry, e.seq <= stats["extracted"], e.gen <= generation
                 PROVE  e \in Item
      OBVIOUS
    <3>1. e.seq \in Nat /\ e.gen \in Nat
      BY DEF Entry
    <3>2. e.seq <= Events /\ e.gen <= Events
      <4>1. \A x, y, z \in Nat : x <= y /\ y <= z => x <= z
        OBVIOUS
      <4> QED BY <2>0, <2>1, <2>2, <2>d, <2>e, <3>1, <4>1
    <3> QED BY <2>e, <3>1, <3>2 DEF Entry, Item, Gen
  <2>4. \A i \in 1..Len(features) : features[i] \in Item
    <3> SUFFICES ASSUME NEW i \in 1..Len(features) PROVE features[i] \in Item
      OBVIOUS
    <3>1. features[i] \in Entry
      BY <2>0, SequenceTypes
    <3>2. features[i].gen <= generation
      BY DEF GenerationInv, StreamGenerations
    <3>3. features[i].seq = stats["batched"] + InHand + i
      BY DEF FrontInv, FeatureOrder
    <3>4. /\ stats["extracted"] = stats["batched"] + InHand + Len(features)
             \/ stats["extracted"] = stats["batched"] + InHand + Len(features) + 1
          /\ InHand \in {0, 1}
      BY DEF FrontInv, SourceOrder, InHand
    <3>5. features[i].seq <= stats["extracted"]
      BY <2>0, <2>d, <3>3, <3>4
    <3> QED BY <2>3, <3>1, <3>2, <3>5
  <2>5. src.item \in Item /\ bat.item \in Item
    <3>1. src.item.gen <= generation /\ bat.item.gen <= generation
      BY DEF GenerationInv, StreamGenerations
    <3>2. NoItem.seq = 0
      BY DEF NoItem
    <3>3. src.item.seq <= stats["extracted"]
      BY <2>d, <3>2 DEF FrontInv, SourceOrder
    <3>4. bat.item.seq <= stats["extracted"]
      BY <2>1, <2>d, <3>2 DEF FrontInv, FillingOrder, BatcherInv
    <3> QED BY <2>0, <2>3, <3>1, <3>3, <3>4
  <2>6. ASSUME NEW b \in Bundle, Causal(b), Bounded(b), b.gen <= generation,
               b.target \in BatchSize \cup {0}, Len(b.items) <= BatchMax
        PROVE  b \in Batch
    <3>1. b.items \in Seq(Entry) /\ Len(b.items) \in Nat /\ b.gen \in Nat
      BY DEF Bundle
    <3>2. ASSUME NEW j \in 1..Len(b.items) PROVE b.items[j] \in Item
      <4>1. b.items[j] \in Entry
        BY <3>1, SequenceTypes
      <4>2. b.items[j].seq \in Nat /\ b.items[j].gen \in Nat
        BY <4>1 DEF Entry
      <4>3. b.items[j].seq <= stats["batched"] /\ b.items[j].gen <= b.gen
        BY <2>6 DEF Bounded, Causal
      <4>4. b.items[j].seq <= stats["extracted"]
        BY <2>1, <2>d, <4>2, <4>3
      <4>5. b.items[j].gen <= generation
        BY <2>0, <2>6, <3>1, <4>2, <4>3
      <4> QED BY <2>3, <4>1, <4>4, <4>5
    <3>3. b.items \in [1..Len(b.items) -> Item]
      BY <3>1, <3>2
    <3>4. Len(b.items) \in 0..BatchMax
      BY <2>6, <3>1, BatchBoundsAssumption
    <3>5. b.items \in UNION {[1..n -> Item] : n \in 0..BatchMax}
      BY <3>3, <3>4
    <3>6. b.gen \in Gen
      BY <2>0, <2>2, <2>6, <2>e, <3>1 DEF Gen
    <3> QED BY <2>6, <3>5, <3>6 DEF Bundle, Batch
  <2>s. \A n \in BatchSize : n \in Nat /\ n <= BatchMax
    BY BatchBoundsAssumption DEF BatchSize
  <2>7. \A i \in 1..Len(batches) : batches[i] \in Batch
    <3> SUFFICES ASSUME NEW i \in 1..Len(batches) PROVE batches[i] \in Batch
      OBVIOUS
    <3>1. batches[i] \in Bundle
      BY <2>0, SequenceTypes
    <3>2. Causal(batches[i]) /\ Bounded(batches[i]) /\ WellFormed(batches[i], generation)
      BY DEF GenerationInv, CausalBatches, BoundInv, ScorerInv
    <3>3. Len(batches[i].items) \in Nat
      BY <3>1 DEF Bundle
    <3>4. batches[i].target <= BatchMax /\ batches[i].target \in Nat /\ BatchMax \in Nat
      BY <2>s, <3>2, BatchBoundsAssumption DEF WellFormed
    <3>5. Len(batches[i].items) <= BatchMax
      BY <3>2, <3>3, <3>4 DEF WellFormed
    <3> QED BY <2>6, <3>1, <3>2, <3>5 DEF WellFormed
  <2>n. NoBatch \in Batch
    <3>1. NoBatch \in Bundle
      BY DEF NoBatch, Bundle
    <3>2. Causal(NoBatch) /\ Bounded(NoBatch) /\ NoBatch.gen <= generation
          /\ NoBatch.target \in BatchSize \cup {0} /\ Len(NoBatch.items) <= BatchMax
      BY <2>0, BatchBoundsAssumption DEF NoBatch, Causal, Bounded
    <3> QED BY <2>6, <3>1, <3>2
  <2>8. bat.batch \in Batch
    <3>1. CASE bat.batch.items = <<>>
      BY <2>n, <3>1 DEF BatcherInv
    <3>2. CASE bat.batch.items # <<>>
      <4>1. bat.batch.gen = generation /\ bat.batch.target \in BatchSize
            /\ Len(bat.batch.items) <= bat.batch.target
        BY <3>2 DEF BatcherInv
      <4>2. Len(bat.batch.items) <= BatchMax
        BY <2>0, <2>s, <4>1, BatchBoundsAssumption
      <4>3. Bounded(bat.batch)
        <5> SUFFICES ASSUME NEW j \in 1..Len(bat.batch.items)
                     PROVE  bat.batch.items[j].seq <= stats["batched"]
          BY DEF Bounded
        <5>1. bat.batch.items[j].seq = stats["batched"] - Len(bat.batch.items) + j
          BY DEF FrontInv, FillingOrder
        <5>2. \A b, n \in Nat : \A i \in 1..n : b - n + i <= b
          OBVIOUS
        <5> QED BY <2>0, <2>d, <5>1, <5>2
      <4>4. Causal(bat.batch) /\ bat.batch.gen <= generation
        BY <2>0, <4>1 DEF GenerationInv, CausalBatches
      <4> QED BY <2>0, <2>6, <4>1, <4>2, <4>3, <4>4
    <3> QED BY <3>1, <3>2
  <2>9. scr.batch \in Batch /\ scr.i \in 1..BatchMax
    <3>0. BatchMax \in Nat /\ BatchMax >= 1
      BY BatchBoundsAssumption
    <3>1. CASE scr.batch.items = <<>>
      BY <2>n, <3>0, <3>1 DEF ScorerInv
    <3>2. CASE scr.batch.items # <<>>
      <4>1. WellFormed(scr.batch, generation) /\ scr.i <= Len(scr.batch.items)
        BY <3>2 DEF ScorerInv
      <4>2. scr.batch.target \in Nat /\ scr.batch.target <= BatchMax
        BY <2>s, <4>1 DEF WellFormed
      <4>3. Len(scr.batch.items) <= BatchMax
        BY <2>0, <3>0, <4>1, <4>2 DEF WellFormed
      <4>4. Causal(scr.batch) /\ Bounded(scr.batch)
        BY DEF GenerationInv, CausalBatches, BoundInv
      <4>5. scr.batch \in Batch
        BY <2>0, <2>6, <4>1, <4>3, <4>4 DEF WellFormed
      <4> QED BY <2>0, <3>0, <4>1, <4>3, <4>5
    <3> QED BY <3>1, <3>2
  <2>10. stats \in [Counters -> 0..Events]
    <3>1. stats["read"] <= Events /\ stats["batched"] <= Events
      BY <2>1, <2>d, <2>e DEF SourceInv
    <3>2. stats["written"] <= stats["batched"]
      BY DEF BoundInv
    <3>3. stats["scored"] <= stats["batched"]
      <4>1. CASE stats["scored"] = stats["written"]
        BY <3>2, <4>1
      <4>2. CASE stats["scored"] # stats["written"]
        <5>1. stats["scored"] = stats["written"] + 1 /\ scr.i <= Len(scr.batch.items)
          BY <4>2 DEF ScorerInv
        <5>2. scr.i \in 1..Len(scr.batch.items) /\ scr.i \in scr.i..Len(scr.batch.items)
          BY <2>0, <5>1
        <5>3. scr.batch.items[scr.i].seq = stats["written"] + 1 + scr.i - scr.i
          BY <5>2 DEF BackInv, RestOrder
        <5>4. scr.batch.items[scr.i].seq <= stats["batched"]
          BY <5>2 DEF BoundInv, Bounded
        <5> QED BY <2>0, <2>d, <5>1, <5>3, <5>4
      <4> QED BY <4>1, <4>2
    <3>4. stats["batches"] <= stats["batched"]
      <4>1. generation = stats["batches"] \/ generation = stats["batches"] + 1
        BY <2>d DEF BatcherInv, Filling
      <4>2. generation <= stats["batched"]
        BY DEF BatcherInv
      <4> QED BY <2>0, <2>d, <4>1, <4>2
    <3>5. stats["tails"] <= stats["batched"]
      <4>1. /\ bat.tail => stats["batched"] > 0
            /\ stats["tails"] = IF bat.tail THEN 1 ELSE 0
        BY DEF BatcherInv
      <4> QED BY <2>d, <4>1
    <3>6. \A c \in Counters : stats[c] \in 0..Events
      BY <2>1, <2>d, <2>e, <3>1, <3>2, <3>3, <3>4, <3>5 DEF Counters
    <3> QED BY <3>6 DEF Shape
  <2>11. /\ generation \in Gen
         /\ {featuresClosed, batchesClosed, cancelled, expired} \subseteq BOOLEAN
         /\ firstError \in {NoError, "main", "source", "batcher", "scorer"}
         /\ main.pc \in {"launch", "cancel", "join"} \cup Verdicts /\ main.launched \in 0..3
         /\ src.pc \in SourcePc /\ bat.pc \in BatcherPc /\ scr.pc \in ScorerPc
    BY <2>0, <2>2, <2>e DEF Shape, Gen
  <2>12. Len(features) <= FeatureRoom /\ Len(batches) <= BatchRoom
    BY DEF BoundInv
  <2> QED BY <2>0, <2>4, <2>5, <2>7, <2>8, <2>9, <2>10, <2>11, <2>12
          DEF TypeOK, SourcePc, BatcherPc, ScorerPc
<1> QED BY <1>1, PipelineInvariant, PTL
-----------------------------------------------------------------------------
(* The detailed pipeline implements the event stream its caller sees: a   *)
(* row is written, in order, or the run returns with every row written,   *)
(* or it throws; everything else the threads do is invisible.             *)
LEMMA PipelineInitImplements == Init => Stream!Init
BY DEF Init, Stream!Init, Done, Verdicts

(* Every step is a step of EventStream or leaves its variables alone.     *)
LEMMA PipelineStepImplements ==
  IInv /\ IInv' /\ [Next]_vars => [Stream!Next]_(Stream!streamVars)
<1> SUFFICES ASSUME IInv, IInv', [Next]_vars
             PROVE  Stream!Next \/ UNCHANGED Stream!streamVars
  BY DEF Stream!streamVars
<1>1. CASE Main
  <2>0. predictions' = predictions
    BY <1>1, MainFrame DEF IInv
  <2>1. CASE MainLaunch \/ MainLaunchFails \/ MainCancel
    <3>1. main.pc \notin Verdicts /\ main'.pc \notin Verdicts
      BY <2>1, Fields DEF MainLaunch, MainLaunchFails, MainCancel, Verdicts, IInv
    <3> QED BY <2>0, <3>1 DEF Stream!streamVars, Done, Verdicts
  <2>2. CASE MainJoin
    <3>1. main.pc = "join" /\ main'.pc = Verdict
      BY <2>2, Fields DEF MainJoin, IInv
    <3>2. CASE Verdict = "returned"
      <4>1. Len(predictions) = Events
        BY <2>0, <3>1, <3>2 DEF IInv, OutputInv
      <4> QED BY <2>0, <3>1, <3>2, <4>1 DEF Stream!Next, Stream!Return, Done, Verdicts
    <3>3. CASE Verdict = "rethrown"
      BY <2>0, <3>1, <3>3 DEF Stream!Next, Stream!Throw, Done, Verdicts
    <3>4. Verdict \in {"returned", "rethrown"}
      BY <3>1 DEF IInv, OutputInv, Verdict
    <3> QED BY <3>2, <3>3, <3>4
  <2> QED BY <1>1, <2>1, <2>2 DEF Main
<1>2. CASE Source \/ Batcher
  BY <1>2, SourceFrame, BatcherFrame DEF IInv, Stream!streamVars, Done
<1>3. CASE Scorer
  <2>0. main' = main /\ main.pc \notin Verdicts
    BY <1>3, ScorerFrame DEF IInv, LaunchInv
  <2>1. CASE predictions' = predictions
    BY <2>0, <2>1 DEF Stream!streamVars, Done
  <2>2. CASE /\ predictions' = Append(predictions, Len(predictions) + 1)
             /\ stats'["written"] = stats["written"] + 1
    <3>0. /\ stats["written"] \in Nat /\ stats'["written"] \in Nat
          /\ stats'["batched"] \in Nat /\ stats'["extracted"] \in Nat
          /\ stats'["read"] \in Nat
      BY DEF IInv, Shape, Counters
    <3>1. stats'["extracted"] <= stats'["read"] /\ stats'["read"] <= Events
      BY DEF IInv, SourceInv
    <3>2. stats'["written"] <= stats'["batched"]
      BY DEF IInv, BoundInv
    <3>3. stats'["batched"] <= stats'["extracted"]
      <4>1. /\ features' \in Seq(Entry)
            /\ \/ stats'["extracted"] = stats'["batched"] + InHand' + Len(features')
               \/ stats'["extracted"] = stats'["batched"] + InHand' + Len(features') + 1
            /\ InHand' \in {0, 1}
        BY DEF IInv, Shape, FrontInv, SourceOrder, InHand
      <4> QED BY <3>0, <4>1
    <3>4. Len(predictions) < Events
      <4>1. Len(predictions) = stats["written"] /\ Events \in Nat
        BY PipelineAssumption DEF IInv, OutputInv
      <4> QED BY <2>2, <3>0, <3>1, <3>2, <3>3, <4>1
    <3> QED BY <2>0, <2>2, <3>4 DEF Stream!Next, Stream!Write, Done, Verdicts
  <2> QED BY <1>3, <2>1, <2>2, ScorerRows
<1>4. CASE Expire \/ UNCHANGED vars
  BY <1>4, IdleFrame DEF Stream!streamVars, Done
<1> QED BY <1>1, <1>2, <1>3, <1>4 DEF Next, Finished

(* run_pipeline implements EventStream, for every number of events, every *)
(* room of the queues and every set of exceptions.                        *)
THEOREM PipelineImplementsStream == Spec => ImplementsEventStream
<1>1. Init => Stream!Init
  BY PipelineInitImplements
<1>2. IInv /\ IInv' /\ [Next]_vars => [Stream!Next]_(Stream!streamVars)
  BY PipelineStepImplements
<1> QED BY <1>1, <1>2, PipelineInvariant, PTL DEF Spec, ImplementsEventStream, Stream!Spec
-----------------------------------------------------------------------------
(* InFlight is the concatenation of these pieces; End(k) is how many      *)
(* events the first k of them hold.                                       *)
Pieces ==
  <<SubSeq(scr.batch.items, scr.i, Len(scr.batch.items))>>
  \o [i \in 1..Len(batches) |-> batches[i].items]
  \o <<bat.batch.items, Held(bat.item), features, Held(src.item)>>

End(k) ==
  IF k = 0 THEN 0
  ELSE IF k <= Len(batches) + 1 THEN Boundary(ScorerEnd, batches, k - 1) - stats["written"]
  ELSE IF k = Len(batches) + 2 THEN stats["batched"] - stats["written"]
  ELSE IF k = Len(batches) + 3 THEN stats["batched"] + InHand - stats["written"]
  ELSE IF k = Len(batches) + 4 THEN stats["batched"] + InHand + Len(features) - stats["written"]
  ELSE stats["extracted"] - stats["written"]

Parts(whole, a, mid, b, c, d, e) ==
  /\ Len(whole) = Len(mid) + 5
  /\ whole[1] = a /\ \A k \in 1..Len(mid) : whole[k + 1] = mid[k]
  /\ whole[Len(mid) + 2] = b /\ whole[Len(mid) + 3] = c
  /\ whole[Len(mid) + 4] = d /\ whole[Len(mid) + 5] = e

(* The parts of a concatenation of one piece, a middle and four pieces.   *)
LEMMA PartsInOrder ==
  ASSUME NEW S, NEW a \in S, NEW mid \in Seq(S), NEW b \in S, NEW c \in S, NEW d \in S,
         NEW e \in S, NEW whole, whole = <<a>> \o mid \o <<b, c, d, e>>
  PROVE  whole \in Seq(S) /\ Parts(whole, a, mid, b, c, d, e)
<1> DEFINE front == <<a>> \o mid
           back == <<b, c, d, e>>
<1>1. <<a>> \in Seq(S) /\ Len(<<a>>) = 1 /\ <<a>>[1] = a
  OBVIOUS
<1>2. /\ back \in Seq(S) /\ Len(back) = 4
      /\ back[1] = b /\ back[2] = c /\ back[3] = d /\ back[4] = e
  OBVIOUS
<1>3. /\ front \in Seq(S) /\ Len(front) = 1 + Len(mid)
      /\ \A i \in 1..1 + Len(mid) : front[i] = IF i <= 1 THEN <<a>>[i] ELSE mid[i - 1]
  BY <1>1, ConcatProperties
<1> HIDE DEF front, back
<1>4. /\ whole \in Seq(S) /\ Len(whole) = Len(front) + Len(back)
      /\ \A i \in 1..Len(front) + Len(back) :
           whole[i] = IF i <= Len(front) THEN front[i] ELSE back[i - Len(front)]
  <2>1. whole = front \o back
    BY DEF front, back
  <2> QED BY <1>2, <1>3, <2>1, ConcatProperties, SMTT(30)
<1>5. Len(mid) \in Nat
  OBVIOUS
<1>6. whole[1] = a
  BY <1>1, <1>2, <1>3, <1>4, <1>5
<1>7. ASSUME NEW k \in 1..Len(mid) PROVE whole[k + 1] = mid[k]
  <2>1. k + 1 \in 1..1 + Len(mid) /\ ~(k + 1 <= 1) /\ (k + 1) - 1 = k
    BY <1>5
  <2>2. front[k + 1] = mid[k]
    BY <1>3, <2>1
  <2>3. k + 1 \in 1..Len(front) + Len(back) /\ k + 1 <= Len(front)
    BY <1>2, <1>3, <1>5
  <2> QED BY <1>4, <2>2, <2>3
<1>8. ASSUME NEW j \in 1..4 PROVE whole[Len(mid) + 1 + j] = back[j]
  <2>1. /\ Len(mid) + 1 + j \in 1..Len(front) + Len(back) /\ ~(Len(mid) + 1 + j <= Len(front))
        /\ (Len(mid) + 1 + j) - Len(front) = j
    BY <1>2, <1>3, <1>5
  <2> QED BY <1>4, <2>1
<1>9. /\ Len(mid) + 2 = Len(mid) + 1 + 1 /\ Len(mid) + 3 = Len(mid) + 1 + 2
      /\ Len(mid) + 4 = Len(mid) + 1 + 3 /\ Len(mid) + 5 = Len(mid) + 1 + 4
  BY <1>5
<1> QED BY <1>2, <1>3, <1>4, <1>5, <1>6, <1>7, <1>8, <1>9 DEF Parts

(* The places of the pipeline in the order NothingLostInFlight lists      *)
(* them.                                                                  *)
LEMMA PieceAt ==
  ASSUME IInv
  PROVE  /\ Pieces \in Seq(Seq(Entry)) /\ Len(Pieces) = Len(batches) + 5
         /\ Pieces[1] = SubSeq(scr.batch.items, scr.i, Len(scr.batch.items))
         /\ \A k \in 1..Len(batches) : Pieces[k + 1] = batches[k].items
         /\ Pieces[Len(batches) + 2] = bat.batch.items
         /\ Pieces[Len(batches) + 3] = Held(bat.item)
         /\ Pieces[Len(batches) + 4] = features
         /\ Pieces[Len(batches) + 5] = Held(src.item)
<1> DEFINE rest == SubSeq(scr.batch.items, scr.i, Len(scr.batch.items))
           mid == [i \in 1..Len(batches) |-> batches[i].items]
<1>0. /\ scr.batch.items \in Seq(Entry) /\ bat.batch.items \in Seq(Entry)
      /\ features \in Seq(Entry) /\ bat.item \in Entry /\ src.item \in Entry
      /\ batches \in Seq(Bundle) /\ scr.i \in Nat \ {0}
  BY DEF IInv, Shape, Bundle
<1>1. rest \in Seq(Entry)
  <2>1. \A i \in scr.i..Len(scr.batch.items) : scr.batch.items[i] \in Entry
    BY <1>0
  <2> QED BY <1>0, <2>1, SubSeqProperties
<1>2. /\ mid \in Seq(Seq(Entry)) /\ Len(mid) = Len(batches)
      /\ \A k \in 1..Len(batches) : mid[k] = batches[k].items
  <2>1. \A k \in 1..Len(batches) : batches[k].items \in Seq(Entry)
    <3>1. \A k \in 1..Len(batches) : batches[k] \in Bundle
      BY <1>0, SequenceTypes
    <3> QED BY <3>1 DEF Bundle
  <2>2. Len(batches) \in Nat
    BY <1>0
  <2> QED BY <2>1, <2>2
<1>3. Held(bat.item) \in Seq(Entry) /\ Held(src.item) \in Seq(Entry)
  BY <1>0 DEF Held
<1>4. Pieces = <<rest>> \o mid \o <<bat.batch.items, Held(bat.item), features, Held(src.item)>>
  BY DEF Pieces
<1> HIDE DEF rest, mid
<1>5. /\ Pieces \in Seq(Seq(Entry))
      /\ Parts(Pieces, rest, mid, bat.batch.items, Held(bat.item), features, Held(src.item))
  <2> DEFINE b == bat.batch.items
             c == Held(bat.item)
             e == Held(src.item)
             S == Seq(Entry)
  <2>1. /\ rest \in S /\ mid \in Seq(S) /\ b \in S /\ c \in S /\ features \in S /\ e \in S
        /\ Pieces = <<rest>> \o mid \o <<b, c, features, e>>
    BY <1>0, <1>1, <1>2, <1>3, <1>4
  <2> HIDE DEF b, c, e, S
  <2>2. Pieces \in Seq(S) /\ Parts(Pieces, rest, mid, b, c, features, e)
    BY <2>1, PartsInOrder, Zenon
  <2> QED BY <2>2 DEF b, c, e, S
<1> QED BY <1>2, <1>5 DEF rest, Parts

(* Where a queued batch begins, and where a piece ends, are integers.     *)
LEMMA BoundaryIsInteger ==
  ASSUME IInv, NEW q \in 0..Len(batches)
  PROVE  Boundary(ScorerEnd, batches, q) \in Int
<1>0. /\ batches \in Seq(Bundle) /\ Len(batches) \in Nat /\ stats["written"] \in Nat
      /\ scr.batch \in Bundle /\ scr.i \in Nat
  BY DEF IInv, Shape, Counters
<1>1. CASE q = 0
  <2>0. stats["written"] \in Nat /\ scr.i \in Nat /\ Len(scr.batch.items) \in Nat
    BY <1>0 DEF Bundle
  <2>1. ScorerEnd \in Int
    <3>1. \A w, l, i \in Nat : w + l + 1 - i \in Int
      OBVIOUS
    <3> QED BY <2>0, <3>1 DEF ScorerEnd
  <2> QED BY <1>1, <2>1 DEF Boundary
<1>2. CASE q # 0
  <2>1. q \in 1..Len(batches)
    BY <1>0, <1>2
  <2>2. batches[q] \in Bundle /\ WellFormed(batches[q], generation)
    BY <1>0, <2>1, SequenceTypes DEF IInv, ScorerInv
  <2>3. batches[q].items \in Seq(Entry) /\ Len(batches[q].items) \in Nat \ {0}
    <3>1. batches[q].items \in Seq(Entry)
      BY <2>2 DEF Bundle
    <3>2. Len(batches[q].items) \in Nat
      BY <3>1
    <3> QED BY <2>2, <3>1, <3>2 DEF WellFormed
  <2>4. LastSeq(batches[q]) \in Nat
    <3>1. batches[q].items[Len(batches[q].items)] \in Entry
      BY <2>3
    <3> QED BY <3>1 DEF Entry, LastSeq
  <2> QED BY <1>2, <2>4 DEF Boundary
<1> QED BY <1>1, <1>2

LEMMA EndIsInteger ==
  ASSUME IInv, NEW k \in 0..Len(batches) + 5
  PROVE  End(k) \in Int
<1>0. /\ stats["written"] \in Nat /\ stats["batched"] \in Nat /\ stats["extracted"] \in Nat
      /\ Len(features) \in Nat /\ Len(batches) \in Nat /\ InHand \in Nat
  BY DEF IInv, Shape, Counters, InHand
<1>1. CASE k \in 1..Len(batches) + 1
  <2>1. k - 1 \in 0..Len(batches) /\ k # 0 /\ k <= Len(batches) + 1
    BY <1>0, <1>1
  <2>2. Boundary(ScorerEnd, batches, k - 1) \in Int
    BY <2>1, BoundaryIsInteger
  <2> QED BY <1>0, <2>1, <2>2 DEF End
<1>2. CASE k \notin 1..Len(batches) + 1
  <2>1. k = 0 \/ ~(k <= Len(batches) + 1)
    BY <1>0, <1>2
  <2>2. stats["batched"] + InHand \in Nat /\ stats["batched"] + InHand + Len(features) \in Nat
    BY <1>0
  <2>3. /\ stats["batched"] - stats["written"] \in Int
        /\ stats["batched"] + InHand - stats["written"] \in Int
        /\ stats["batched"] + InHand + Len(features) - stats["written"] \in Int
        /\ stats["extracted"] - stats["written"] \in Int
    <3>1. \A a, b, c, x, y \in Nat : /\ a - y \in Int /\ a + b - y \in Int
                                    /\ a + b + c - y \in Int /\ x - y \in Int
      OBVIOUS
    <3> QED BY <1>0, <3>1
  <2>4. 0 \in Int
    OBVIOUS
  <2> QED BY <2>1, <2>3, <2>4, Zenon DEF End
<1> QED BY <1>1, <1>2

(* Each piece continues the stream where the one before it ends.          *)
LEMMA PieceFollows ==
  ASSUME IInv, NEW k \in 1..Len(batches) + 5
  PROVE  /\ End(k) = End(k - 1) + Len(Pieces[k])
         /\ \A j \in 1..Len(Pieces[k]) : Pieces[k][j].seq = stats["written"] + End(k - 1) + j
<1> DEFINE n == Len(batches)
           w == stats["written"]
<1>s. /\ batches \in Seq(Bundle) /\ features \in Seq(Entry)
      /\ scr.batch \in Bundle /\ bat.batch \in Bundle /\ scr.batch.items \in Seq(Entry)
  BY DEF IInv, Shape, Bundle
<1>0. /\ w \in Nat /\ stats["batched"] \in Nat /\ stats["extracted"] \in Nat
      /\ n \in Nat /\ Len(features) \in Nat /\ Len(bat.batch.items) \in Nat
      /\ Len(scr.batch.items) \in Nat /\ scr.i \in Nat \ {0}
  <2>1. Shape
    BY DEF IInv
  <2>2. w \in Nat /\ stats["batched"] \in Nat /\ stats["extracted"] \in Nat
        /\ scr.i \in Nat \ {0}
    BY <2>1 DEF Shape, Counters
  <2> QED BY <1>s, <2>2, SMTT(30) DEF Bundle
<1>1. /\ RestOrder /\ Ordered(ScorerEnd, batches)
      /\ Boundary(ScorerEnd, batches, n) = stats["batched"] - Len(bat.batch.items)
  BY DEF IInv, BackInv
<1>2. /\ SourceOrder /\ FeatureOrder /\ FillingOrder
  BY DEF IInv, FrontInv
<1>i. InHand \in Nat
  BY DEF InHand
<1>3. CASE k = 1
  <2>1. scr.i <= Len(scr.batch.items) \/ (scr.batch.items = <<>> /\ scr.i = 1)
    BY DEF IInv, ScorerInv
  <2>2. Len(scr.batch.items) + 1 - scr.i \in Nat
    BY <1>0, <2>1, SMTT(30)
  <2>3. /\ Len(Pieces[1]) = Len(scr.batch.items) + 1 - scr.i
        /\ \A j \in 1..Len(scr.batch.items) + 1 - scr.i :
             Pieces[1][j] = scr.batch.items[scr.i + j - 1]
    <3>1. \A i \in scr.i..Len(scr.batch.items) : scr.batch.items[i] \in Entry
      BY <1>0, <1>s
    <3>a. Pieces[1] = SubSeq(scr.batch.items, scr.i, Len(scr.batch.items))
      BY PieceAt
    <3>b. scr.i \in Int /\ Len(scr.batch.items) \in Int
      BY <1>0
    <3>2. /\ Len(Pieces[1]) = IF scr.i <= Len(scr.batch.items)
                              THEN Len(scr.batch.items) - scr.i + 1 ELSE 0
          /\ \A j \in 1..Len(scr.batch.items) - scr.i + 1 :
               Pieces[1][j] = scr.batch.items[scr.i + j - 1]
      BY <3>1, <3>a, <3>b, SubSeqProperties, SMTT(30)
    <3>3. Len(scr.batch.items) - scr.i + 1 = Len(scr.batch.items) + 1 - scr.i
      <4>1. \A x, y \in Int : x - y + 1 = x + 1 - y
        OBVIOUS
      <4> QED BY <3>b, <4>1
    <3>4. Len(Pieces[1]) = Len(scr.batch.items) + 1 - scr.i
      <4>1. CASE scr.i <= Len(scr.batch.items)
        BY <3>2, <3>3, <4>1
      <4>2. CASE ~(scr.i <= Len(scr.batch.items))
        <5>1. scr.i = 1 /\ Len(scr.batch.items) = 0
          BY <2>1, <4>2
        <5>2. 0 + 1 - 1 = 0
          OBVIOUS
        <5> QED BY <3>2, <4>2, <5>1, <5>2
      <4> QED BY <4>1, <4>2
    <3> QED BY <3>2, <3>3, <3>4
  <2>4. End(1) = ScorerEnd - w /\ End(0) = 0
    BY <1>0 DEF End, Boundary
  <2>5. End(1) = End(0) + Len(Pieces[1])
    <3>1. End(1) = (w + Len(scr.batch.items) + 1 - scr.i) - w
      <4>1. ScorerEnd = w + Len(scr.batch.items) + 1 - scr.i
        BY Zenon DEF ScorerEnd
      <4> HIDE DEF w
      <4> QED BY <2>4, <4>1, Zenon
    <3>2. \A a, b, c \in Int : (a + b + 1 - c) - a = 0 + (b + 1 - c)
      OBVIOUS
    <3>3. w \in Int /\ Len(scr.batch.items) \in Int /\ scr.i \in Int
      BY <1>0
    <3>4. End(1) = 0 + (Len(scr.batch.items) + 1 - scr.i)
      BY <3>1, <3>2, <3>3
    <3> QED BY <2>3, <2>4, <3>4
  <2>6. ASSUME NEW j \in 1..Len(Pieces[1])
        PROVE  Pieces[1][j].seq = w + End(0) + j
    <3>1. scr.i + j - 1 \in scr.i..Len(scr.batch.items)
      <4>1. \A i, m \in Nat : \A q \in 1..m + 1 - i : i + q - 1 \in i..m
        OBVIOUS
      <4> QED BY <1>0, <2>3, <4>1
    <3>2. scr.batch.items[scr.i + j - 1].seq = w + 1 + (scr.i + j - 1) - scr.i
      BY <1>1, <3>1 DEF RestOrder
    <3>3. w + 1 + (scr.i + j - 1) - scr.i = w + 0 + j
      <4>1. \A a, b, c \in Int : a + 1 + (b + c - 1) - b = a + 0 + c
        OBVIOUS
      <4>2. j \in Int
        BY <2>2, <2>3
      <4> QED BY <1>0, <4>1, <4>2, SMTT(30)
    <3> QED BY <2>3, <2>4, <3>2, <3>3
  <2>7. k - 1 = 0
    BY <1>3
  <2> QED BY <1>3, <2>5, <2>6, <2>7
<1>4. CASE k \in 2..n + 1
  <2> DEFINE q == k - 1
  <2>1. q \in 1..n /\ k = q + 1 /\ q \in Nat \ {0} /\ q <= n /\ k # 0 /\ q - 1 \in Int
    BY <1>0, <1>4
  <2>2. Pieces[k] = batches[q].items /\ Len(batches[q].items) \in Nat \ {0}
    <3>1. batches[q] \in Bundle /\ WellFormed(batches[q], generation)
      BY <1>s, <2>1, SequenceTypes DEF IInv, ScorerInv
    <3>2. Len(batches[q].items) \in Nat
      BY <3>1 DEF Bundle
    <3>3. Pieces[q + 1] = batches[q].items
      BY <2>1, PieceAt
    <3> QED BY <2>1, <3>1, <3>2, <3>3 DEF WellFormed
  <2>3. \A j \in 1..Len(batches[q].items) :
          batches[q].items[j].seq = Boundary(ScorerEnd, batches, q - 1) + j
    BY <1>1, <2>1 DEF Ordered
  <2>4. /\ End(k) = Boundary(ScorerEnd, batches, q) - w
        /\ End(q) = Boundary(ScorerEnd, batches, q - 1) - w
    BY <1>0, <2>1 DEF End
  <2>5. Boundary(ScorerEnd, batches, q)
          = Boundary(ScorerEnd, batches, q - 1) + Len(batches[q].items)
    <3>1. Boundary(ScorerEnd, batches, q) = batches[q].items[Len(batches[q].items)].seq
      BY <2>1 DEF Boundary, LastSeq
    <3>2. Len(batches[q].items) \in 1..Len(batches[q].items)
      BY <2>2
    <3> QED BY <2>3, <3>1, <3>2
  <2>6. Boundary(ScorerEnd, batches, q - 1) \in Int
    <3>1. q - 1 \in 0..Len(batches)
      BY <1>0, <2>1
    <3> QED BY <3>1, BoundaryIsInteger
  <2> HIDE DEF q
  <2>7. End(k) = End(q) + Len(Pieces[k])
    BY <1>0, <2>2, <2>4, <2>5, <2>6, SMTT(30)
  <2>8. ASSUME NEW j \in 1..Len(Pieces[k]) PROVE Pieces[k][j].seq = w + End(q) + j
    <3>1. Pieces[k][j].seq = Boundary(ScorerEnd, batches, q - 1) + j
      BY <2>2, <2>3
    <3>2. \A a, b, c \in Int : a + c = b + (a - b) + c
      OBVIOUS
    <3>3. j \in Int
      BY <2>2
    <3> QED BY <1>0, <2>4, <2>6, <3>1, <3>2, <3>3
  <2> QED BY <2>7, <2>8 DEF q
<1>5. CASE k = n + 2
  <2>1. k - 1 = n + 1 /\ n + 1 # 0 /\ (n + 1) - 1 = n /\ n + 1 <= n + 1 /\ ~(n + 2 <= n + 1)
        /\ n + 2 # 0
    BY <1>0, <1>5
  <2>2. End(n + 1) = stats["batched"] - Len(bat.batch.items) - w
    BY <1>0, <1>1, <2>1 DEF End
  <2>3. End(n + 2) = stats["batched"] - w
    BY <1>0, <2>1 DEF End
  <2>4. End(n + 2) = End(n + 1) + Len(bat.batch.items)
    BY <1>0, <2>2, <2>3, SMTT(30)
  <2>5. ASSUME NEW j \in 1..Len(bat.batch.items)
        PROVE  bat.batch.items[j].seq = w + End(n + 1) + j
    <3>1. bat.batch.items[j].seq = stats["batched"] - Len(bat.batch.items) + j
      BY <1>2 DEF FillingOrder
    <3>2. \A a, b, c, d \in Int : a - b + d = c + (a - b - c) + d
      OBVIOUS
    <3> QED BY <1>0, <2>2, <3>1, <3>2, SMTT(30)
  <2> QED BY <1>5, <2>1, <2>4, <2>5, PieceAt
<1>6. CASE k = n + 3
  <2>1. k - 1 = n + 2 /\ ~(n + 3 <= n + 1) /\ ~(n + 2 <= n + 1)
        /\ n + 3 # n + 2 /\ n + 2 # 0 /\ n + 3 # 0
    BY <1>0, <1>6
  <2>2. End(n + 2) = stats["batched"] - w /\ End(n + 3) = stats["batched"] + InHand - w
    BY <2>1 DEF End
  <2>3. bat.item # NoItem <=> bat.pc = "start"
    BY <1>0, <1>2 DEF IInv, BatcherInv, FillingOrder, NoItem
  <2>4. Len(Held(bat.item)) = InHand
    BY <2>3 DEF Held, InHand
  <2>5. End(n + 3) = End(n + 2) + Len(Held(bat.item))
    BY <1>0, <1>i, <2>2, <2>4
  <2>6. ASSUME NEW j \in 1..Len(Held(bat.item))
        PROVE  Held(bat.item)[j].seq = w + End(n + 2) + j
    <3>1. bat.pc = "start" /\ Held(bat.item) = <<bat.item>> /\ j = 1
      BY <2>3, <2>4 DEF Held, InHand
    <3>2. bat.item.seq = stats["batched"] + 1
      BY <1>2, <3>1 DEF FillingOrder
    <3>3. \A a, b \in Int : a + 1 = b + (a - b) + 1
      OBVIOUS
    <3> QED BY <1>0, <2>2, <3>1, <3>2, <3>3
  <2> QED BY <1>6, <2>1, <2>5, <2>6, PieceAt
<1>7. CASE k = n + 4
  <2>1. k - 1 = n + 3 /\ ~(n + 3 <= n + 1) /\ ~(n + 4 <= n + 1)
        /\ n + 3 # n + 2 /\ n + 4 # n + 2 /\ n + 4 # n + 3 /\ n + 3 # 0 /\ n + 4 # 0
    BY <1>0, <1>7
  <2>2. /\ End(n + 3) = stats["batched"] + InHand - w
        /\ End(n + 4) = stats["batched"] + InHand + Len(features) - w
    BY <2>1 DEF End
  <2>3. End(n + 4) = End(n + 3) + Len(features)
    BY <1>0, <1>i, <2>2
  <2>4. ASSUME NEW j \in 1..Len(features) PROVE features[j].seq = w + End(n + 3) + j
    <3>1. features[j].seq = stats["batched"] + InHand + j
      BY <1>2 DEF FeatureOrder
    <3>2. \A a, b, c, d \in Int : a + b + d = c + (a + b - c) + d
      OBVIOUS
    <3> QED BY <1>0, <1>i, <2>2, <3>1, <3>2
  <2> QED BY <1>7, <2>1, <2>3, <2>4, PieceAt
<1>8. CASE k = n + 5
  <2>1. k - 1 = n + 4 /\ ~(n + 5 <= n + 1) /\ ~(n + 4 <= n + 1) /\ n + 5 # n + 2
        /\ n + 5 # n + 3 /\ n + 5 # n + 4 /\ n + 4 # n + 2 /\ n + 4 # n + 3
        /\ n + 4 # 0 /\ n + 5 # 0
    BY <1>0, <1>8
  <2>2. /\ End(n + 4) = stats["batched"] + InHand + Len(features) - w
        /\ End(n + 5) = stats["extracted"] - w
    BY <2>1 DEF End
  <2>3. CASE src.item = NoItem
    <3>1. Held(src.item) = <<>> /\ Len(Held(src.item)) = 0
      BY <2>3 DEF Held
    <3>2. stats["extracted"] = stats["batched"] + InHand + Len(features)
      BY <1>2, <2>3 DEF SourceOrder
    <3>3. Pieces[k] = <<>> /\ k - 1 = n + 4
      BY <1>8, <2>1, <3>1, PieceAt
    <3>4. End(n + 5) = End(n + 4) /\ End(n + 4) \in Int
      BY <1>0, <1>i, <2>2, <3>2, SMTT(30)
    <3>5. End(n + 4) = End(n + 4) + 0 /\ Len(<<>>) = 0
      BY <3>4
    <3> QED BY <1>8, <3>3, <3>4, <3>5
  <2>4. CASE src.item # NoItem
    <3>1. Held(src.item) = <<src.item>> /\ Len(Held(src.item)) = 1
      BY <2>4 DEF Held
    <3>2. /\ stats["extracted"] = stats["batched"] + InHand + Len(features) + 1
          /\ src.item.seq = stats["extracted"]
      BY <1>2, <2>4 DEF SourceOrder
    <3>3. End(n + 5) = End(n + 4) + 1
      <4>1. \A a, b, c, d \in Int : (a + b + c + 1) - d = (a + b + c - d) + 1
        OBVIOUS
      <4>2. stats["batched"] \in Int /\ InHand \in Int /\ Len(features) \in Int /\ w \in Int
        BY <1>0, <1>i
      <4>3. (stats["batched"] + InHand + Len(features) + 1) - w
              = (stats["batched"] + InHand + Len(features) - w) + 1
        BY <4>1, <4>2
      <4>4. End(n + 5) = (stats["batched"] + InHand + Len(features) + 1) - w
        <5>1. \A x : x = stats["extracted"] => End(n + 5) = x - w
          BY <2>2
        <5> QED BY <3>2, <5>1
      <4> QED BY <2>2, <4>3, <4>4, Zenon
    <3>4. ASSUME NEW j \in 1..1 PROVE <<src.item>>[j].seq = w + End(n + 4) + j
      <4>1. j = 1
        OBVIOUS
      <4>2. \A a, b \in Int : a + 1 = b + (a - b) + 1
        OBVIOUS
      <4> QED BY <1>0, <1>i, <2>2, <3>2, <4>1, <4>2, SMTT(30)
    <3> QED BY <1>8, <2>1, <3>1, <3>3, <3>4, PieceAt
  <2> QED BY <2>3, <2>4
<1>9. k = 1 \/ k \in 2..n + 1 \/ k = n + 2 \/ k = n + 3 \/ k = n + 4 \/ k = n + 5
  BY <1>0, SMTT(30)
<1> QED BY <1>3, <1>4, <1>5, <1>6, <1>7, <1>8, <1>9

(* At every moment the events extracted and not yet written are all in    *)
(* the pipeline, each once and in source order: no blocked retry, refusal *)
(* or tail flush loses or repeats one.                                    *)
THEOREM NothingIsLost == Spec => []NothingLostInFlight
<1>1. IInv => NothingLostInFlight
  <2> SUFFICES ASSUME IInv PROVE NothingLostInFlight
    OBVIOUS
  <2> DEFINE ends == [k \in 0..Len(batches) + 5 |-> End(k)]
  <2>0. Len(batches) \in Nat /\ stats["written"] \in Nat /\ stats["extracted"] \in Nat
        /\ features \in Seq(Entry) /\ batches \in Seq(Bundle)
    BY DEF IInv, Shape, Counters
  <2>1. Pieces \in Seq(Seq(Entry)) /\ Len(Pieces) = Len(batches) + 5
    BY PieceAt
  <2>2. \A k \in 0..Len(batches) + 5 : ends[k] = End(k)
    OBVIOUS
  <2> HIDE DEF ends
  <2>3. End(0) = 0 /\ End(Len(batches) + 5) = stats["extracted"] - stats["written"]
    BY <2>0 DEF End
  <2>4. \A k \in 1..Len(Pieces) : ends[k] = ends[k - 1] + Len(Pieces[k])
    <3> SUFFICES ASSUME NEW k \in 1..Len(Pieces)
                 PROVE  ends[k] = ends[k - 1] + Len(Pieces[k])
      OBVIOUS
    <3>1. k \in 1..Len(batches) + 5 /\ k \in 0..Len(batches) + 5
          /\ k - 1 \in 0..Len(batches) + 5
      BY <2>0, <2>1
    <3> QED BY <2>2, <3>1, PieceFollows
  <2>5. \A k \in 0..Len(Pieces) : ends[k] \in Int
    <3> SUFFICES ASSUME NEW k \in 0..Len(Pieces) PROVE ends[k] \in Int
      OBVIOUS
    <3>1. k \in 0..Len(batches) + 5
      BY <2>1
    <3> QED BY <2>2, <3>1, EndIsInteger
  <2>6. ends[0] = 0 /\ ends[Len(Pieces)] = stats["extracted"] - stats["written"]
    <3>1. 0 \in 0..Len(batches) + 5 /\ Len(batches) + 5 \in 0..Len(batches) + 5
      BY <2>0
    <3> QED BY <2>1, <2>2, <2>3, <3>1
  <2>7. Len(Pieces) > 0
    BY <2>0, <2>1
  <2>8. /\ Len(FlattenSeq(Pieces)) = ends[Len(Pieces)]
        /\ \A i \in 1..ends[Len(Pieces)] :
             \E k \in 1..Len(Pieces) : \E j \in 1..Len(Pieces[k]) :
               i = ends[k - 1] + j /\ FlattenSeq(Pieces)[i] = Pieces[k][j]
    <3> DEFINE S == Entry
               seqs == Pieces
    <3>1. seqs \in Seq(Seq(S)) /\ Len(seqs) > 0 /\ EndsOf(seqs, ends)
      BY <2>1, <2>4, <2>5, <2>6, <2>7 DEF EndsOf
    <3> HIDE DEF S, seqs
    <3>2. LaidOut(FlattenSeq(seqs), seqs, ends)
      BY <3>1, FlattenLayout, Zenon
    <3> QED BY <3>2 DEF LaidOut, seqs
  <2>9. ASSUME NEW i \in 1..Len(FlattenSeq(Pieces))
        PROVE  FlattenSeq(Pieces)[i].seq = stats["written"] + i
    <3>1. PICK k \in 1..Len(Pieces) : \E j \in 1..Len(Pieces[k]) :
            i = ends[k - 1] + j /\ FlattenSeq(Pieces)[i] = Pieces[k][j]
      BY <2>8
    <3>2. PICK j \in 1..Len(Pieces[k]) :
            i = ends[k - 1] + j /\ FlattenSeq(Pieces)[i] = Pieces[k][j]
      BY <3>1
    <3>3. k \in 1..Len(batches) + 5 /\ k - 1 \in 0..Len(batches) + 5
      BY <2>0, <2>1
    <3>4. Pieces[k][j].seq = stats["written"] + End(k - 1) + j
      BY <3>3, PieceFollows
    <3>5. ends[k - 1] = End(k - 1) /\ End(k - 1) \in Int
      BY <2>2, <3>3, EndIsInteger
    <3>6. j \in Int
      BY <2>1
    <3>7. \A a, b, c \in Int : a + b + c = a + (b + c)
      OBVIOUS
    <3> QED BY <2>0, <3>2, <3>4, <3>5, <3>6, <3>7, SMTT(30)
  <2>10. InFlight = FlattenSeq(Pieces)
    BY DEF InFlight, Pieces
  <2> QED BY <2>6, <2>8, <2>9, <2>10 DEF NothingLostInFlight
<1> QED BY <1>1, PipelineInvariant, PTL
-----------------------------------------------------------------------------
(* What the rows of the trace add up to: every event the batcher counted  *)
(* except those of a batch that has no row yet.                           *)
RowCounts(rows) == [i \in 1..Len(rows) |-> rows[i].count]

WithoutRow == IF bat.pc \in {"flush", "retry"} THEN 0 ELSE Len(bat.batch.items)

SumInv ==
  ~Failed /\ bat.pc \notin {"throw", "cancel"}
    => SumFunction(RowCounts(trace)) = stats["batched"] - WithoutRow

ReturnInv == main.pc = "returned" => ~Failed

(* A new trace row adds its count to the sum over the trace.              *)
LEMMA RowCountsAppend ==
  ASSUME NEW rows \in Seq(Row), NEW row \in Row
  PROVE  /\ SumFunction(RowCounts(rows)) \in Int
         /\ SumFunction(RowCounts(Append(rows, row))) = SumFunction(RowCounts(rows)) + row.count
<1> DEFINE n == Len(rows)
           longer == Append(rows, row)
           f == RowCounts(longer)
           g == RowCounts(rows)
<1>1. /\ n \in Nat /\ Len(longer) = n + 1 /\ longer[n + 1] = row
      /\ \A k \in 1..n : longer[k] = rows[k]
  BY AppendProperties
<1>2. \A k \in 1..n : rows[k] \in Row
  BY SequenceTypes
<1>3. \A k \in 1..n + 1 : longer[k] \in Row
  BY <1>1, <1>2
<1> HIDE DEF n, longer
<1>4. DOMAIN f = 1..n + 1 /\ DOMAIN g = 1..n
  BY <1>1 DEF RowCounts, n
<1>5. /\ \A k \in 1..n + 1 : f[k] = longer[k].count
      /\ \A k \in 1..n : g[k] = rows[k].count
  BY <1>1 DEF RowCounts, n
<1>6. \A k \in 1..n + 1 : f[k] \in Int
  <2>1. \A r \in Row : r.count \in Int
    BY DEF Row
  <2> QED BY <1>3, <1>5, <2>1
<1>7. \A k \in 1..n : g[k] = f[k]
  <2>1. \A k \in 1..n : k \in 1..n + 1
    BY <1>1
  <2> QED BY <1>1, <1>5, <2>1
<1>8. f[n + 1] = row.count
  <2>1. n + 1 \in 1..n + 1
    BY <1>1
  <2> QED BY <1>1, <1>5, <2>1
<1> HIDE DEF f, g
<1>9. SumFunction(g) \in Int /\ SumFunction(f) = SumFunction(g) + f[n + 1]
  BY <1>1, <1>4, <1>6, <1>7, SumOfOneMore
<1> QED BY <1>8, <1>9 DEF f, g, longer

(* The counts of the trace add up to the events batched, those of the     *)
(* batch in hand apart.                                                   *)
LEMMA SumStep == IInv /\ SumInv /\ [Next]_vars => SumInv'
<1> SUFFICES ASSUME IInv, SumInv, [Next]_vars PROVE SumInv'
  OBVIOUS
<1>0. /\ stats["batched"] \in Nat /\ trace \in Seq(Row) /\ bat.tail \in BOOLEAN
      /\ bat.batch.items \in Seq(Entry) /\ Len(bat.batch.items) \in Nat
      /\ Shape /\ LaunchInv /\ CauseInv /\ BatcherInv
  BY DEF IInv, Shape, Counters, Bundle
<1>1. CASE Main
  BY <1>0, <1>1, MainFrame, Fields DEF SumInv, WithoutRow
<1>2. CASE Source
  BY <1>0, <1>2, SourceFrame DEF SumInv, WithoutRow, Counters
<1>3. CASE Batcher
  <2> DEFINE total == SumFunction(RowCounts(trace))
  <2>0. total \in Int /\ total' = SumFunction(RowCounts(trace'))
    <3>1. trace = <<>> \/ trace # <<>>
      OBVIOUS
    <3>2. \E row : row \in Row
      <4>1. [gen |-> 0, count |-> 0, target |-> 0, tail |-> FALSE] \in Row
        BY DEF Row
      <4> QED BY <4>1
    <3> QED BY <1>0, <3>2, RowCountsAppend
  <2>a. ~Failed /\ bat.pc \notin {"throw", "cancel"} => total = stats["batched"] - WithoutRow
    BY DEF SumInv
  <2>b. SumInv' <=> (~Failed' /\ bat'.pc \notin {"throw", "cancel"}
                       => total' = stats'["batched"] - WithoutRow')
    BY <2>0 DEF SumInv
  <2>c. trace' = trace => total' = total
    OBVIOUS
  <2> HIDE DEF total
  <2>1. CASE BatcherPop /\ bat.batch.items = <<>>
    BY <1>0, <2>1, <2>a, <2>b, <2>c, PopFirstEffect DEF WithoutRow
  <2>2. CASE BatcherPop /\ bat.batch.items # <<>>
    <3>1. Len(bat'.batch.items) = Len(bat.batch.items) + 1
      <4>1. Head(features) \in Entry
        BY <1>0, <2>2, PopNextEffect, SequenceTypes DEF Shape
      <4> QED BY <1>0, <2>2, <4>1, PopNextEffect, AppendProperties
    <3>2. /\ bat.pc = "pop" /\ bat'.pc \in {"trace", "check"} /\ trace' = trace
          /\ stats'["batched"] = stats["batched"] + 1 /\ Failed' = Failed
      BY <1>0, <2>2, PopNextEffect
    <3>3. /\ WithoutRow = Len(bat.batch.items)
          /\ WithoutRow' = Len(bat.batch.items) + 1
      BY <3>1, <3>2 DEF WithoutRow
    <3> QED BY <1>0, <2>0, <2>a, <2>b, <2>c, <3>2, <3>3, SMTT(30)
  <2>3. CASE BatcherStart
    <3>1. Len(bat'.batch.items) = 1
      <4>1. Len(<<bat.item>>) = 1
        OBVIOUS
      <4> QED BY <1>0, <2>3, <4>1, StartEffect
    <3>2. /\ bat.pc = "start" /\ bat'.pc \in {"trace", "check"} /\ trace' = trace
          /\ stats'["batched"] = stats["batched"] + 1 /\ Failed' = Failed
      BY <1>0, <2>3, StartEffect
    <3>3. Len(bat.batch.items) = 0
      BY <1>0, <3>2 DEF BatcherInv
    <3>4. WithoutRow = 0 /\ WithoutRow' = 1
      BY <3>1, <3>2, <3>3 DEF WithoutRow
    <3> QED BY <1>0, <2>0, <2>a, <2>b, <2>c, <3>2, <3>4
  <2>4. CASE BatcherPush
    <3>1. /\ bat.pc = "flush" /\ bat'.pc \in {"end", "check"} /\ trace' = trace
          /\ stats'["batched"] = stats["batched"] /\ Failed' = Failed
          /\ bat'.batch = NoBatch
      BY <1>0, <2>4, PushEffect
    <3>2. WithoutRow = 0 /\ WithoutRow' = 0
      BY <3>1 DEF WithoutRow, NoBatch
    <3> QED BY <2>a, <2>b, <2>c, <3>1, <3>2
  <2>5. CASE BatcherTrace
    <3>1. /\ bat.pc = "trace" /\ bat'.pc \in {"flush", "throw"} /\ bat'.batch = bat.batch
          /\ stats' = stats /\ Failed' = Failed
      BY <1>0, <2>5, TraceEffect
    <3>2. CASE bat'.pc = "throw"
      BY <2>b, <3>2
    <3>3. CASE bat'.pc = "flush"
      <4> DEFINE row == [gen |-> bat.batch.gen, count |-> Len(bat.batch.items),
                         target |-> bat.batch.target, tail |-> bat.tail]
      <4>1. trace' = Append(trace, row)
        BY <1>0, <2>5, <3>3, TraceEffect
      <4>2. row \in Row /\ row.count = Len(bat.batch.items)
        BY <1>0 DEF Row, Shape, Bundle
      <4> HIDE DEF row
      <4>3. total' = total + Len(bat.batch.items)
        BY <1>0, <2>0, <4>1, <4>2, RowCountsAppend DEF total
      <4>4. WithoutRow = Len(bat.batch.items) /\ WithoutRow' = 0
        BY <3>1, <3>3 DEF WithoutRow
      <4>5. \A a, b, t \in Int : t = a - b => t + b = a - 0
        OBVIOUS
      <4> QED BY <1>0, <2>0, <2>a, <2>b, <3>1, <4>3, <4>4, <4>5
    <3> QED BY <3>1, <3>2, <3>3
  <2>6. CASE BatcherFinishing
    BY <1>0, <2>6, <2>a, <2>b, <2>c, FinishingEffect DEF WithoutRow
  <2>7. CASE BatcherQuiet
    BY <1>0, <2>7, <2>a, <2>b, <2>c, QuietEffect DEF WithoutRow, BatcherQuietMoves
  <2> QED BY <1>3, <2>1, <2>2, <2>3, <2>4, <2>5, <2>6, <2>7 DEF BatcherQuiet
<1>4. CASE Scorer
  BY <1>0, <1>4, ScorerFrame DEF SumInv, WithoutRow, Counters
<1>5. CASE Expire \/ UNCHANGED vars
  BY <1>5, IdleFrame DEF SumInv, WithoutRow, Failed
<1> QED BY <1>1, <1>2, <1>3, <1>4, <1>5 DEF Next, Finished

(* run_pipeline returns only when no error is recorded.                   *)
LEMMA ReturnStep == IInv /\ ReturnInv /\ [Next]_vars => ReturnInv'
<1> SUFFICES ASSUME IInv, ReturnInv, [Next]_vars PROVE ReturnInv'
  OBVIOUS
<1>0. Shape /\ LaunchInv
  BY DEF IInv
<1>a. main.pc = "returned" => {src.pc, bat.pc, scr.pc} \subseteq {"unborn", "exited"}
  BY <1>0 DEF LaunchInv, Verdicts
<1>1. CASE Main
  <2>1. CASE MainLaunch \/ MainLaunchFails \/ MainCancel
    BY <1>0, <2>1, Fields DEF MainLaunch, MainLaunchFails, MainCancel, ReturnInv
  <2>2. CASE MainJoin
    <3>1. main'.pc = Verdict /\ firstError' = firstError
      BY <1>0, <2>2, Fields DEF MainJoin, errorVars
    <3> QED BY <3>1 DEF Verdict, ReturnInv, Failed
  <2> QED BY <1>1, <2>1, <2>2 DEF Main
<1>2. CASE Source
  BY <1>0, <1>2, <1>a, SourceFrame DEF ReturnInv
<1>3. CASE Batcher
  BY <1>0, <1>3, <1>a, BatcherFrame DEF ReturnInv
<1>4. CASE Scorer
  BY <1>0, <1>4, <1>a, ScorerFrame DEF ReturnInv
<1>5. CASE Expire \/ UNCHANGED vars
  BY <1>5, IdleFrame DEF ReturnInv, Failed
<1> QED BY <1>1, <1>2, <1>3, <1>4, <1>5 DEF Next, Finished

(* What the trace says when it returns.                                   *)
LEMMA ReturnExplained ==
  ASSUME IInv, SumInv, ReturnInv, main.pc = "returned"
  PROVE  /\ Len(trace) = stats["batches"]
         /\ SumFunction(RowCounts(trace)) = stats["read"]
         /\ stats["tails"] = Cardinality({i \in 1..Len(trace) : trace[i].tail})
<1>s. /\ stats \in [Counters -> Nat] /\ trace \in Seq(Row) /\ features \in Seq(Entry)
      /\ bat.tail \in BOOLEAN
  BY DEF IInv, Shape
<1>0. /\ \A c \in Counters : stats[c] \in Nat
      /\ Len(trace) \in Nat /\ Len(features) \in Nat /\ bat.tail \in BOOLEAN
      /\ InHand \in Nat
  BY <1>s DEF InHand
<1>1. ~Failed /\ bat.pc = "exited"
  <2>1. ~Failed
    BY DEF ReturnInv
  <2>2. main.launched = 3 /\ bat.pc \in {"unborn", "exited"}
    BY <2>1 DEF IInv, LaunchInv, Verdicts
  <2> QED BY <2>1, <2>2 DEF IInv, LaunchInv
<1>2. Len(trace) = stats["batches"]
  BY <1>1 DEF IInv, TraceInv
<1>3. bat.batch.items = <<>>
  BY <1>1 DEF IInv, BatcherInv
<1>4. SumFunction(RowCounts(trace)) = stats["batched"]
  <2>1. WithoutRow = 0
    BY <1>3 DEF WithoutRow
  <2>2. stats["batched"] - 0 = stats["batched"]
    BY <1>0 DEF Counters
  <2> QED BY <1>1, <2>1, <2>2 DEF SumInv
<1>5. stats["batched"] = stats["read"]
  <2>0. /\ stats["read"] \in Nat /\ stats["extracted"] \in Nat /\ stats["batched"] \in Nat
        /\ stats["written"] \in Nat
    BY <1>0 DEF Counters
  <2>1. stats["written"] = Events /\ stats["written"] <= stats["batched"]
    BY DEF IInv, OutputInv, BoundInv
  <2>2. stats["batched"] <= stats["extracted"]
    <3>1. \/ stats["extracted"] = stats["batched"] + InHand + Len(features)
          \/ stats["extracted"] = stats["batched"] + InHand + Len(features) + 1
      BY DEF IInv, FrontInv, SourceOrder
    <3> QED BY <1>0, <2>0, <3>1
  <2>3. stats["extracted"] <= stats["read"] /\ stats["read"] <= Events
    BY DEF IInv, SourceInv
  <2> QED BY <2>0, <2>1, <2>2, <2>3
<1>6. stats["tails"] = Cardinality({i \in 1..Len(trace) : trace[i].tail})
  <2> DEFINE T == {i \in 1..Len(trace) : trace[i].tail}
  <2>1. \A i \in 1..Len(trace) : trace[i].tail => i = Len(trace) /\ bat.tail
    BY DEF IInv, TraceInv
  <2>2. stats["tails"] = IF bat.tail THEN 1 ELSE 0
    BY DEF IInv, BatcherInv
  <2>3. CASE bat.tail
    <3>1. Len(trace) > 0 /\ trace[Len(trace)].tail
      BY <1>1, <2>3 DEF IInv, TraceInv
    <3>2. T = {Len(trace)}
      BY <1>0, <2>1, <3>1
    <3> QED BY <2>2, <2>3, <3>2, FS_Singleton
  <2>4. CASE ~bat.tail
    <3>1. T = {}
      BY <2>1, <2>4
    <3> QED BY <2>2, <2>4, <3>1, FS_EmptySet
  <2> QED BY <2>3, <2>4
<1> QED BY <1>2, <1>4, <1>5, <1>6

(* The controller trace explains the run: contiguous rows, full batches   *)
(* but a last tail, and, when run_pipeline returns, a row for every batch *)
(* and counts that add up to the events of the source.                    *)
THEOREM TraceExplained == Spec => []TraceExplainsBatches
<1>1. Init => SumInv /\ ReturnInv
  <2> SUFFICES ASSUME Init PROVE SumInv /\ ReturnInv
    OBVIOUS
  <2>1. DOMAIN RowCounts(trace) = {}
    BY DEF Init, RowCounts
  <2>2. SumFunction(RowCounts(trace)) = 0
    BY <2>1, SumOfNothing
  <2>3. stats["batched"] - WithoutRow = 0
    BY DEF Init, WithoutRow, NoBatch, Counters
  <2> QED BY <2>2, <2>3 DEF Init, SumInv, ReturnInv
<1>2. IInv /\ SumInv /\ ReturnInv /\ [Next]_vars => SumInv' /\ ReturnInv'
  BY SumStep, ReturnStep
<1>3. IInv /\ SumInv /\ ReturnInv => TraceExplainsBatches
  <2> SUFFICES ASSUME IInv, SumInv, ReturnInv PROVE TraceExplainsBatches
    OBVIOUS
  <2>1. \A i \in 1..Len(trace) :
          /\ trace[i].gen = i
          /\ trace[i].count <= trace[i].target
          /\ ~trace[i].tail <=> trace[i].count = trace[i].target
          /\ trace[i].tail => i = Len(trace)
    BY DEF IInv, TraceInv
  <2>2. main.pc = "returned" =>
          /\ Len(trace) = stats["batches"]
          /\ SumFunction(RowCounts(trace)) = stats["read"]
          /\ stats["tails"] = Cardinality({i \in 1..Len(trace) : trace[i].tail})
    BY ReturnExplained
  <2> QED BY <2>1, <2>2 DEF TraceExplainsBatches, RowCounts
<1> QED BY <1>1, <1>2, <1>3, PipelineInvariant, PTL DEF Spec
=============================================================================
