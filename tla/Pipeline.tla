------------------------------- MODULE Pipeline --------------------------------
(***************************************************************************)
(* run_pipeline (source/include/bpfeat/pipeline.hpp): a source thread, a   *)
(* batcher thread and a scorer thread joined by two bounded queues, a      *)
(* mutex-protected pressure signal going back from the batcher to the      *)
(* source, a cancellation flag, a deadline, and the main thread that       *)
(* launches and joins the workers.                                         *)
(*                                                                         *)
(* One step per access to shared state; local work is merged into the step *)
(* before or after it.  The queues are the bounded FIFO queues that        *)
(* SPSCQueue implements: a try_push, try_pop or closed_and_empty may also  *)
(* be refused because the caller's view of the other index is stale, so a  *)
(* refusal is always possible.  An event is its sequence number together   *)
(* with the generation of the pressure observation it was computed from.   *)
(***************************************************************************)
EXTENDS BatchController, SequencesExt

CONSTANTS Events,        (* how many events next() delivers                *)
          FeatureRoom,   (* usable places of the features queue            *)
          BatchRoom,     (* usable places of the batches queue             *)
          Adaptive,      (* mode is BatchOnly or Joint                     *)
          Faults         (* which exceptions may occur in this instance    *)

ASSUME PipelineAssumption ==
  /\ Events \in Nat /\ FeatureRoom \in Nat \ {0} /\ BatchRoom \in Nat \ {0}
  /\ Adaptive \in BOOLEAN
  /\ Faults \subseteq {"launch", "source", "event", "trace", "score", "write", "deadline"}

VARIABLES
  features, featuresClosed,   (* SPSCQueue<FeatureSnapshot>                *)
  batches, batchesClosed,     (* SPSCQueue<Batch>                          *)
  generation,                 (* of the pressure signal; 0: none available *)
  cancelled, firstError, expired,
  main,                       (* main thread: [pc, launched]               *)
  src,                        (* source: [pc, item]                        *)
  bat,                        (* batcher: [pc, item, batch, size, tail]    *)
  scr,                        (* scorer: [pc, batch, i]                    *)
  stats,                      (* the counters of PipelineStats             *)
  predictions, trace          (* rows written to the two output files      *)

queueVars == <<features, featuresClosed, batches, batchesClosed>>
errorVars == <<cancelled, firstError>>
fileVars == <<predictions, trace>>
vars == <<features, featuresClosed, batches, batchesClosed, generation, cancelled,
          firstError, expired, main, src, bat, scr, stats, predictions, trace>>
-----------------------------------------------------------------------------
NoItem == [seq |-> 0, gen |-> 0]
NoBatch == [items |-> <<>>, gen |-> 0, target |-> 0]
NoError == "none"
Counters == {"read", "extracted", "batched", "scored", "written", "batches", "tails"}

Count(names) == stats' = [c \in Counters |-> IF c \in names THEN stats[c] + 1 ELSE stats[c]]

Init ==
  /\ features = <<>> /\ featuresClosed = FALSE
  /\ batches = <<>> /\ batchesClosed = FALSE
  /\ generation = 0
  /\ cancelled = FALSE /\ firstError = NoError /\ expired = FALSE
  /\ main = [pc |-> "launch", launched |-> 0]
  /\ src = [pc |-> "unborn", item |-> NoItem]
  /\ bat = [pc |-> "unborn", item |-> NoItem, batch |-> NoBatch,
            size |-> BatchInitial, tail |-> FALSE]
  /\ scr = [pc |-> "unborn", batch |-> NoBatch, i |-> 1]
  /\ stats = [c \in Counters |-> 0]
  /\ predictions = <<>> /\ trace = <<>>

(* check(): the location after a cancellation, after a throw at the       *)
(* deadline, and on success.                                              *)
Check(stop, go) ==
  IF cancelled THEN stop ELSE IF expired THEN "throw" ELSE go

RecordOnlyLater(who) == firstError' = IF firstError = NoError THEN firstError ELSE who

(* fail(): record the error if it is the first one; the caller's next     *)
(* step stores cancelled.                                                 *)
Record(who) == firstError' = IF firstError = NoError THEN who ELSE firstError

(* steady_clock reaches the deadline.                                     *)
Expire ==
  /\ "deadline" \in Faults /\ ~expired
  /\ expired' = TRUE
  /\ UNCHANGED <<queueVars, generation, errorVars, main, src, bat, scr, stats, fileVars>>
-----------------------------------------------------------------------------
(* Source thread.                                                         *)
SourceCheck ==
  /\ src.pc = "check"
  /\ src' = [src EXCEPT !.pc = Check("closing", "next")]
  /\ UNCHANGED <<queueVars, generation, errorVars, expired, main, bat, scr, stats, fileVars>>

(* next(event), the order check, signal.load() and extractor.update().    *)
SourceNext ==
  /\ src.pc = "next"
  /\ \/ /\ stats["read"] < Events
        /\ Count({"read", "extracted"})
        /\ src' = [pc |-> "push", item |-> [seq |-> stats["read"] + 1, gen |-> generation]]
     \/ (* out of order, unknown behaviour, key budget: the event is counted first *)
        /\ stats["read"] < Events /\ "event" \in Faults
        /\ Count({"read"})
        /\ src' = [src EXCEPT !.pc = "throw"]
     \/ (* next() itself throws *)
        /\ "source" \in Faults
        /\ src' = [src EXCEPT !.pc = "throw"]
        /\ UNCHANGED stats
     \/ /\ stats["read"] = Events
        /\ src' = [src EXCEPT !.pc = "closing"]
        /\ UNCHANGED stats
  /\ UNCHANGED <<queueVars, generation, errorVars, expired, main, bat, scr, fileVars>>

SourcePush ==
  /\ src.pc = "push"
  /\ ~featuresClosed /\ Len(features) < FeatureRoom
  /\ features' = Append(features, src.item)
  /\ src' = [pc |-> "check", item |-> NoItem]
  /\ UNCHANGED <<featuresClosed, batches, batchesClosed, generation, errorVars, expired,
                 main, bat, scr, stats, fileVars>>

SourcePushRefused ==
  /\ src.pc = "push"
  /\ src' = [src EXCEPT !.pc = "retry"]
  /\ UNCHANGED <<queueVars, generation, errorVars, expired, main, bat, scr, stats, fileVars>>

SourceRetry ==
  /\ src.pc = "retry"
  /\ src' = [src EXCEPT !.pc = Check("exited", "push")]
  /\ UNCHANGED <<queueVars, generation, errorVars, expired, main, bat, scr, stats, fileVars>>

SourceLeavesOpen ==
  /\ src.pc = "closing"
  /\ src' = [src EXCEPT !.pc = "exited"]
  /\ UNCHANGED <<queueVars, generation, errorVars, expired, main, bat, scr, stats, fileVars>>

(* if (!cancelled) features.close(): a load, then a store.                *)
SourceClosing ==
  /\ src.pc = "closing"
  /\ src' = [src EXCEPT !.pc = IF cancelled THEN "exited" ELSE "close"]
  /\ UNCHANGED <<queueVars, generation, errorVars, expired, main, bat, scr, stats, fileVars>>

SourceClose ==
  /\ src.pc = "close"
  /\ featuresClosed' = TRUE
  /\ src' = [src EXCEPT !.pc = "exited"]
  /\ UNCHANGED <<features, batches, batchesClosed, generation, errorVars, expired,
                 main, bat, scr, stats, fileVars>>

SourceRecord ==
  /\ src.pc = "throw"
  /\ Record("source")
  /\ src' = [src EXCEPT !.pc = "cancel"]
  /\ UNCHANGED <<queueVars, generation, cancelled, expired, main, bat, scr, stats, fileVars>>

SourceCancel ==
  /\ src.pc = "cancel"
  /\ cancelled' = TRUE
  /\ src' = [src EXCEPT !.pc = "exited"]
  /\ UNCHANGED <<queueVars, generation, firstError, expired, main, bat, scr, stats, fileVars>>

Source == SourceCheck \/ SourceNext \/ SourcePush \/ SourcePushRefused \/ SourceRetry
          \/ SourceClosing \/ SourceClose \/ SourceRecord \/ SourceCancel
-----------------------------------------------------------------------------
(* Batcher thread.                                                        *)
BatcherCheck ==
  /\ bat.pc = "check"
  /\ bat' = [bat EXCEPT !.pc = Check("finishing", "pop")]
  /\ UNCHANGED <<queueVars, generation, errorVars, expired, main, src, scr, stats, fileVars>>

AfterAppendLate(batch) == IF Len(batch.items) > batch.target THEN "trace" ELSE "check"

(* Where a batch that just received an item goes.                         *)
AfterAppend(batch) == IF Len(batch.items) = batch.target THEN "trace" ELSE "check"

BatcherPop ==
  /\ bat.pc = "pop"
  /\ features # <<>>
  /\ features' = Tail(features)
  /\ IF bat.batch.items = <<>>
     THEN /\ bat' = [bat EXCEPT !.pc = "start", !.item = Head(features)]
          /\ UNCHANGED stats
     ELSE LET batch == [bat.batch EXCEPT !.items = Append(@, Head(features))]
          IN  /\ bat' = [bat EXCEPT !.pc = AfterAppend(batch), !.batch = batch]
              /\ Count({"batched"})
  /\ UNCHANGED <<featuresClosed, batches, batchesClosed, generation, errorVars, expired,
                 main, src, scr, fileVars>>

BatcherPopRefused ==
  /\ bat.pc = "pop"
  /\ bat' = [bat EXCEPT !.pc = "eof"]
  /\ UNCHANGED <<queueVars, generation, errorVars, expired, main, src, scr, stats, fileVars>>

BatcherNotEof ==
  /\ bat.pc = "eof"
  /\ bat' = [bat EXCEPT !.pc = "check"]
  /\ UNCHANGED <<queueVars, generation, errorVars, expired, main, src, scr, stats, fileVars>>

(* features.closed_and_empty()                                            *)
BatcherEof ==
  /\ bat.pc = "eof"
  /\ featuresClosed /\ features = <<>>
  /\ bat' = [bat EXCEPT !.pc = "finishing"]
  /\ UNCHANGED <<queueVars, generation, errorVars, expired, main, src, scr, stats, fileVars>>

LoadBeforeStore == generation

(* signal.load() after signal.store(): the batch carries its own sample.  *)
LoadAfterStore == generation + 1

(* The first item of a batch: one pressure sample is stored, read back,   *)
(* and drives the controller.                                             *)
BatcherStart ==
  /\ bat.pc = "start"
  /\ generation' = generation + 1
  /\ \E zone \in Zone :
       LET size == IF Adaptive THEN NextBatchSize(bat.size, zone) ELSE BatchInitial
           batch == [items |-> <<bat.item>>, gen |-> LoadAfterStore, target |-> size]
       IN  bat' = [bat EXCEPT !.pc = AfterAppend(batch), !.item = NoItem,
                              !.batch = batch, !.size = size]
  /\ Count({"batched"})
  /\ UNCHANGED <<queueVars, errorVars, expired, main, src, scr, fileVars>>

(* flush(tail): the trace row is written before the batch is pushed.      *)
BatcherTrace ==
  /\ bat.pc = "trace"
  /\ \/ /\ trace' = Append(trace, [gen |-> bat.batch.gen, count |-> Len(bat.batch.items),
                                   target |-> bat.batch.target, tail |-> bat.tail])
        /\ bat' = [bat EXCEPT !.pc = "flush"]
     \/ /\ "trace" \in Faults
        /\ bat' = [bat EXCEPT !.pc = "throw"]
        /\ UNCHANGED trace
  /\ UNCHANGED <<queueVars, generation, errorVars, expired, main, src, scr, stats, predictions>>

BatcherPush ==
  /\ bat.pc = "flush"
  /\ ~batchesClosed /\ Len(batches) < BatchRoom
  /\ batches' = Append(batches, bat.batch)
  /\ bat' = [bat EXCEPT !.pc = IF bat.tail THEN "end" ELSE "check", !.batch = NoBatch]
  /\ Count({"batches"})
  /\ UNCHANGED <<features, featuresClosed, batchesClosed, generation, errorVars, expired,
                 main, src, scr, fileVars>>

BatcherPushDropped ==
  /\ bat.pc = "flush"
  /\ bat' = [bat EXCEPT !.pc = "check", !.batch = NoBatch]
  /\ UNCHANGED <<queueVars, generation, errorVars, expired, main, src, scr, stats, fileVars>>

BatcherPushRefused ==
  /\ bat.pc = "flush"
  /\ bat' = [bat EXCEPT !.pc = "retry"]
  /\ UNCHANGED <<queueVars, generation, errorVars, expired, main, src, scr, stats, fileVars>>

BatcherRetryBlindly ==
  /\ bat.pc = "retry"
  /\ bat' = [bat EXCEPT !.pc = "flush"]
  /\ UNCHANGED <<queueVars, generation, errorVars, expired, main, src, scr, stats, fileVars>>

BatcherRetry ==
  /\ bat.pc = "retry"
  /\ bat' = [bat EXCEPT !.pc = Check("exited", "flush")]
  /\ UNCHANGED <<queueVars, generation, errorVars, expired, main, src, scr, stats, fileVars>>

TailForgotten == FALSE

HasTail == bat.batch.items # <<>>

(* After the loop: nothing more if the run is cancelled, otherwise the    *)
(* incomplete last batch is flushed as a tail.                            *)
BatcherFinishing ==
  /\ bat.pc = "finishing"
  /\ IF cancelled
     THEN bat' = [bat EXCEPT !.pc = "exited"] /\ UNCHANGED stats
     ELSE IF HasTail
     THEN bat' = [bat EXCEPT !.pc = "trace", !.tail = TRUE] /\ Count({"tails"})
     ELSE bat' = [bat EXCEPT !.pc = "end"] /\ UNCHANGED stats
  /\ UNCHANGED <<queueVars, generation, errorVars, expired, main, src, scr, fileVars>>

(* The final flush of the trace file, then batches.close().               *)
BatcherClose ==
  /\ bat.pc = "end"
  /\ \/ /\ batchesClosed' = TRUE
        /\ bat' = [bat EXCEPT !.pc = "exited"]
     \/ /\ "trace" \in Faults
        /\ bat' = [bat EXCEPT !.pc = "throw"]
        /\ UNCHANGED batchesClosed
  /\ UNCHANGED <<features, featuresClosed, batches, generation, errorVars, expired,
                 main, src, scr, stats, fileVars>>

BatcherRecord ==
  /\ bat.pc = "throw"
  /\ Record("batcher")
  /\ bat' = [bat EXCEPT !.pc = "cancel"]
  /\ UNCHANGED <<queueVars, generation, cancelled, expired, main, src, scr, stats, fileVars>>

BatcherCancel ==
  /\ bat.pc = "cancel"
  /\ cancelled' = TRUE
  /\ bat' = [bat EXCEPT !.pc = "exited"]
  /\ UNCHANGED <<queueVars, generation, firstError, expired, main, src, scr, stats, fileVars>>

Batcher == BatcherCheck \/ BatcherPop \/ BatcherPopRefused \/ BatcherNotEof \/ BatcherEof
           \/ BatcherStart \/ BatcherTrace \/ BatcherPush \/ BatcherPushRefused
           \/ BatcherRetry \/ BatcherFinishing \/ BatcherClose
           \/ BatcherRecord \/ BatcherCancel
-----------------------------------------------------------------------------
(* Scorer thread.                                                         *)
ScorerCheck ==
  /\ scr.pc = "check"
  /\ scr' = [scr EXCEPT !.pc = Check("flush", "pop")]
  /\ UNCHANGED <<queueVars, generation, errorVars, expired, main, src, bat, stats, fileVars>>

(* An accepted batch is checked for its size; MAX_BATCH, the capacity of  *)
(* its array, is batch_max here, which validate keeps within it.          *)
ScorerPop ==
  /\ scr.pc = "pop"
  /\ batches # <<>>
  /\ batches' = Tail(batches)
  /\ scr' = [pc |-> IF Len(Head(batches).items) \in 1..BatchMax THEN "item" ELSE "throw",
             batch |-> Head(batches), i |-> 1]
  /\ UNCHANGED <<features, featuresClosed, batchesClosed, generation, errorVars, expired,
                 main, src, bat, stats, fileVars>>

ScorerPopRefused ==
  /\ scr.pc = "pop"
  /\ scr' = [scr EXCEPT !.pc = "eof"]
  /\ UNCHANGED <<queueVars, generation, errorVars, expired, main, src, bat, stats, fileVars>>

ScorerNotEof ==
  /\ scr.pc = "eof"
  /\ scr' = [scr EXCEPT !.pc = "check"]
  /\ UNCHANGED <<queueVars, generation, errorVars, expired, main, src, bat, stats, fileVars>>

(* batches.closed_and_empty()                                             *)
ScorerEof ==
  /\ scr.pc = "eof"
  /\ batchesClosed /\ batches = <<>>
  /\ scr' = [scr EXCEPT !.pc = "flush"]
  /\ UNCHANGED <<queueVars, generation, errorVars, expired, main, src, bat, stats, fileVars>>

(* One item: check(), score, count, write the row, count.                 *)
ScorerItem ==
  /\ scr.pc = "item"
  /\ \/ /\ Check("exited", "score") # "score"
        /\ scr' = [scr EXCEPT !.pc = Check("exited", "score")]
        /\ UNCHANGED <<stats, predictions>>
     \/ /\ Check("exited", "score") = "score"
        /\ Count({"scored", "written"})
        /\ predictions' = Append(predictions, scr.batch.items[scr.i].seq)
        /\ scr' = IF scr.i < Len(scr.batch.items)
                  THEN [scr EXCEPT !.i = scr.i + 1]
                  ELSE [pc |-> "check", batch |-> NoBatch, i |-> 1]
     \/ (* the row cannot be written *)
        /\ Check("exited", "score") = "score" /\ "write" \in Faults
        /\ Count({"scored"})
        /\ scr' = [scr EXCEPT !.pc = "throw"]
        /\ UNCHANGED predictions
     \/ (* the model rejects the features *)
        /\ Check("exited", "score") = "score" /\ "score" \in Faults
        /\ scr' = [scr EXCEPT !.pc = "throw"]
        /\ UNCHANGED <<stats, predictions>>
  /\ UNCHANGED <<queueVars, generation, errorVars, expired, main, src, bat, trace>>

ScorerFlush ==
  /\ scr.pc = "flush"
  /\ \/ scr' = [scr EXCEPT !.pc = "exited"]
     \/ "write" \in Faults /\ scr' = [scr EXCEPT !.pc = "throw"]
  /\ UNCHANGED <<queueVars, generation, errorVars, expired, main, src, bat, stats, fileVars>>

ScorerRecord ==
  /\ scr.pc = "throw"
  /\ Record("scorer")
  /\ scr' = [scr EXCEPT !.pc = "cancel"]
  /\ UNCHANGED <<queueVars, generation, cancelled, expired, main, src, bat, stats, fileVars>>

ScorerCancel ==
  /\ scr.pc = "cancel"
  /\ cancelled' = TRUE
  /\ scr' = [scr EXCEPT !.pc = "exited"]
  /\ UNCHANGED <<queueVars, generation, firstError, expired, main, src, bat, stats, fileVars>>

Scorer == ScorerCheck \/ ScorerPop \/ ScorerPopRefused \/ ScorerNotEof \/ ScorerEof
          \/ ScorerItem \/ ScorerFlush \/ ScorerRecord \/ ScorerCancel
-----------------------------------------------------------------------------
(* Main thread: launch scorer, batcher and source, join, judge.           *)
MainLaunch ==
  /\ main.pc = "launch"
  /\ \/ /\ main.launched = 0 /\ scr' = [scr EXCEPT !.pc = "check"]
        /\ UNCHANGED <<src, bat>>
     \/ /\ main.launched = 1 /\ bat' = [bat EXCEPT !.pc = "check"]
        /\ UNCHANGED <<src, scr>>
     \/ /\ main.launched = 2 /\ src' = [src EXCEPT !.pc = "check"]
        /\ UNCHANGED <<bat, scr>>
  /\ main' = [pc |-> IF main.launched = 2 THEN "join" ELSE "launch",
              launched |-> main.launched + 1]
  /\ UNCHANGED <<queueVars, generation, errorVars, expired, stats, fileVars>>

(* A thread cannot be created: fail() runs in the main thread.            *)
(* A header that cannot be written throws before, and ends the same way.  *)
MainLaunchFails ==
  /\ main.pc = "launch" /\ "launch" \in Faults
  /\ Record("main")
  /\ main' = [main EXCEPT !.pc = "cancel"]
  /\ UNCHANGED <<queueVars, generation, cancelled, expired, src, bat, scr, stats, fileVars>>

MainCancel ==
  /\ main.pc = "cancel"
  /\ cancelled' = TRUE
  /\ main' = [main EXCEPT !.pc = "join"]
  /\ UNCHANGED <<queueVars, generation, firstError, expired, src, bat, scr, stats, fileVars>>

Drained == featuresClosed /\ features = <<>> /\ batchesClosed /\ batches = <<>>

Conserved ==
  /\ Drained
  /\ \A c \in {"extracted", "batched", "scored", "written"} : stats[c] = stats["read"]

VerdictFromQueues == IF Drained THEN "returned" ELSE "conservation_failure"

Verdict == IF firstError # NoError THEN "rethrown"
           ELSE IF Conserved THEN "returned"
           ELSE "conservation_failure"

(* Every launched worker is joined; then rethrow, verify, or return.      *)
MainJoin ==
  /\ main.pc = "join"
  /\ \A w \in {src, bat, scr} : w.pc \in {"unborn", "exited"}
  /\ main' = [main EXCEPT !.pc = Verdict]
  /\ UNCHANGED <<queueVars, generation, errorVars, expired, src, bat, scr, stats, fileVars>>

Main == MainLaunch \/ MainLaunchFails \/ MainCancel \/ MainJoin

Verdicts == {"rethrown", "conservation_failure", "returned"}

Done == main.pc \in Verdicts

(* run_pipeline has returned or thrown.                                   *)
Finished == Done /\ UNCHANGED vars

Next == Main \/ Source \/ Batcher \/ Scorer \/ Expire \/ Finished

Spec == Init /\ [][Next]_vars

(* Every thread is scheduled as long as it is runnable, and next() returns.*)
Scheduling == WF_vars(Main) /\ WF_vars(Source) /\ WF_vars(Batcher) /\ WF_vars(Scorer)

LiveSpec == Spec /\ Scheduling

(* Index and close stores become visible in a finite time, so a queue     *)
(* operation that is possible again and again is not refused forever.     *)
Visibility == /\ SF_vars(SourcePush) /\ SF_vars(BatcherPop) /\ SF_vars(BatcherEof)
              /\ SF_vars(BatcherPush) /\ SF_vars(ScorerPop) /\ SF_vars(ScorerEof)
-----------------------------------------------------------------------------
Gen == 0..Events
Item == [seq : 0..Events, gen : Gen]
Batch == [items : UNION {[1..n -> Item] : n \in 0..BatchMax}, gen : Gen,
          target : BatchSize \cup {0}]

WorkerPc == {"unborn", "check", "pop", "eof", "throw", "cancel", "exited"}

TypeOK ==
  /\ \A i \in 1..Len(features) : features[i] \in Item
  /\ \A i \in 1..Len(batches) : batches[i] \in Batch
  /\ Len(features) <= FeatureRoom /\ Len(batches) <= BatchRoom
  /\ {featuresClosed, batchesClosed, cancelled, expired} \subseteq BOOLEAN
  /\ generation \in Gen
  /\ firstError \in {NoError, "main", "source", "batcher", "scorer"}
  /\ main.pc \in {"launch", "cancel", "join"} \cup Verdicts /\ main.launched \in 0..3
  /\ src.pc \in WorkerPc \cup {"next", "push", "retry", "closing", "close"}
  /\ src.item \in Item
  /\ bat.pc \in WorkerPc \cup {"start", "trace", "flush", "retry", "finishing", "end"}
  /\ bat.item \in Item /\ bat.batch \in Batch /\ bat.size \in BatchSize
  /\ scr.pc \in WorkerPc \cup {"item", "flush"}
  /\ scr.batch \in Batch /\ scr.i \in 1..BatchMax
  /\ stats \in [Counters -> 0..Events]

(* The events inside the pipeline, oldest first: what is left of the batch*)
(* being scored, the queued batches, the batch being filled, the queued   *)
(* features and the event the source holds.                               *)
Held(item) == IF item = NoItem THEN <<>> ELSE <<item>>
InFlight ==
  FlattenSeq(<<SubSeq(scr.batch.items, scr.i, Len(scr.batch.items))>>
             \o [i \in 1..Len(batches) |-> batches[i].items]
             \o <<bat.batch.items, Held(bat.item), features, Held(src.item)>>)

(* At every moment, cancelled or not, the events extracted and not yet    *)
(* written are all inside the pipeline, each once and in source order:    *)
(* blocked retries, refusals and tails neither lose nor repeat one.       *)
NothingLostInFlight ==
  /\ Len(InFlight) = stats["extracted"] - stats["written"]
  /\ \A i \in 1..Len(InFlight) : InFlight[i].seq = stats["written"] + i

(* A worker that stops with work left stops because of a recorded error;  *)
(* run_pipeline can then not mistake a truncated run for a finished one.  *)
AbandonedWorkHasCause ==
  \/ cancelled
  \/ src.pc = "exited" /\ ~featuresClosed
  \/ bat.pc = "exited" /\ ~batchesClosed
  \/ scr.pc = "exited" /\ ~(batchesClosed /\ batches = <<>>)
  => firstError # NoError

LiveBatches == {bat.batch, scr.batch} \cup {batches[i] : i \in 1..Len(batches)}

(* No event is computed from a pressure sample of a later batch: inside a *)
(* batch generations never decrease, none is newer than the batch's own,  *)
(* and the event that opened the batch is older than its sample.          *)
PressureCausality ==
  \A b \in LiveBatches : \A i \in 1..Len(b.items) :
    /\ b.items[i].gen <= b.gen
    /\ i = 1 => b.items[i].gen < b.gen
    /\ i > 1 => b.items[i - 1].gen <= b.items[i].gen

(* The controller trace of a run that returned: one row per batch, with   *)
(* contiguous generations; every batch but a last tail has exactly its    *)
(* target size, the tail is shorter, and the rows add up to the events.   *)
TraceExplainsBatches ==
  /\ \A i \in 1..Len(trace) :
       /\ trace[i].gen = i
       /\ trace[i].count <= trace[i].target
       /\ ~trace[i].tail <=> trace[i].count = trace[i].target
       /\ trace[i].tail => i = Len(trace)
  /\ main.pc = "returned" =>
       /\ Len(trace) = stats["batches"]
       /\ SumFunction([i \in 1..Len(trace) |-> trace[i].count]) = stats["read"]
       /\ stats["tails"] = Cardinality({i \in 1..Len(trace) : trace[i].tail})

(* The terminal conservation check never fires: when the workers are      *)
(* joined without an error, queues and counters agree.                    *)
ConservationCheckRedundant == main.pc # "conservation_failure"

Stream == INSTANCE EventStream WITH
            rows <- predictions,
            verdict <- IF main.pc = "returned" THEN "returned"
                       ELSE IF Done THEN "threw" ELSE "running"

(* The rows are the first events in order, each once, and the run returns *)
(* only when every event of the source has its row.                       *)
ImplementsEventStream == Stream!Spec

(* With visible queues a run ends, whatever the interleaving and whichever*)
(* exception strikes: nobody waits for a thread that is gone.             *)
EndsWithVisibleQueues == Visibility => <>Done

(* Even if a queue refuses forever, the deadline ends the run: every      *)
(* blocking loop passes through check().                                  *)
EndsByDeadline == WF_vars(Expire) => <>Done
=============================================================================
