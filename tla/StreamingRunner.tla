----------------------------- MODULE StreamingRunner -----------------------------
(***************************************************************************)
(* source/apps/streaming_runner.py (run_supervised), invoked several times *)
(* with one run directory, and tools/streaming_adapter.py, which audits    *)
(* the directory.  The runner starts the engine in a session of its own,   *)
(* so an engine survives a crash of its runner, and moves what the engine  *)
(* wrote from engine_out to the run directory.                             *)
(*                                                                         *)
(* A file is <<>> or <<content>>; "by" names the invocation, whose engine  *)
(* or whose runner wrote it.  Scores are integers, latencies are left out. *)
(***************************************************************************)
EXTENDS RankingMetrics

CONSTANTS MaxRuns,            (* bound: invocations                        *)
          Cohorts,            (* cohort files: sequences of [id, seq,      *)
                              (* split, label]; NoLabel is an empty field  *)
          NoLabel,
          EventCounts,        (* lengths of the events file                *)
          RawScore, DefaultScore,       (* the model's, and 0.1225         *)
          Policies,           (* cadence_policy                            *)
          FixedWrites, OtherWrites,     (* 4997, 33006                     *)
          DefaultEvents,      (* 99956                                     *)
          EvalSplits          (* evaluation_splits of the experiment       *)

ASSUME RunnerAssumption ==
  /\ MaxRuns \in Nat /\ EventCounts \subseteq Nat
  /\ Policies \subseteq {"fixed_cadence_u20", "budget_matched", "fixed_cadence_u1", "dynamic_pressure"}

VARIABLES cohort, hasSampleIds, policy, eventCount, evalSplits,
          runDir,     (* run_dir: a file for every name of RunFiles        *)
          engineOut,  (* engine_out: <<>> or <<its files>>                 *)
          engines,    (* of every invocation: where its engine is          *)
          runner,     (* [k, pc, code, todo, child]: the latest invocation *)
          overlapped, (* an earlier engine was alive when one was started  *)
          audit       (* the adapter's verdict on the directory            *)

inputs == <<cohort, hasSampleIds, policy, eventCount, evalSplits>>
runVars == <<inputs, runDir, engineOut, engines, runner, overlapped, audit>>

(* predictions_unlabeled.csv, batch_controller.csv, engine_receipt.pending*)
(* .json, engine_receipt.json, engine_failure.json.                       *)
EngineFiles == {"scored", "trace", "pending", "receipt", "failure"}

RunFiles == EngineFiles \cup {"predictions", "telemetry", "result"}

NoFiles == [f \in RunFiles |-> <<>>]

(* An empty run directory, over these inputs.                             *)
RunInit(rows, ids, cadence, n, splits) ==
  /\ cohort = rows /\ hasSampleIds = ids
  /\ policy = cadence /\ eventCount = n /\ evalSplits = splits
  /\ runDir = NoFiles
  /\ engineOut = <<>> /\ engines = [k \in 1..MaxRuns |-> "none"]
  /\ runner = [k |-> 0, pc |-> "returned", code |-> -1, todo |-> {}, child |-> "none"]
  /\ overlapped = FALSE /\ audit = "none"

Alive(k) == engines[k] \in {"creating", "opening", "writing", "receipting", "renaming"}
Inactive == runner.pc \in {"returned", "dead"}
-----------------------------------------------------------------------------
(* Without a binary the runner returns 127; an exception of Popen gives   *)
(* the exit code 1 and leaves an old engine_out to be promoted.           *)
Invoke ==
  /\ Inactive /\ runner.k < MaxRuns
  /\ audit' = "none"
  /\ overlapped' = (overlapped \/ \E j \in 1..runner.k : Alive(j))
  /\ LET k == runner.k + 1
         as(pc, code) == [k |-> k, pc |-> pc, code |-> code, todo |-> {}, child |-> "none"]
     IN  \/ /\ runner' = as("waiting", 0)
            /\ engines' = [engines EXCEPT ![k] = "creating"]
         \/ runner' = as("returned", 127) /\ UNCHANGED engines
         \/ runner' = as("listing", 1) /\ UNCHANGED engines
  /\ UNCHANGED <<inputs, runDir, engineOut>>

EngineAt(k, from, to) == engines[k] = from /\ engines' = [engines EXCEPT ![k] = to]

Writes(k, f, file) == engineOut # <<>> /\ engineOut' = <<[engineOut[1] EXCEPT ![f] = file]>>

(* The engine insists on creating engine_out; it can only fail otherwise. *)
EngineCreates(k) ==
  /\ EngineAt(k, "creating", "opening")
  /\ engineOut = <<>> /\ engineOut' = <<[f \in EngineFiles |-> <<>>]>>
  /\ UNCHANGED <<inputs, runDir, runner, overlapped, audit>>

(* Both outputs are opened by path, whoever made the directory by now.    *)
(* What two engines write into one file counts as the later opener's.     *)
EngineOpens(k) ==
  /\ EngineAt(k, "opening", "writing")
  /\ engineOut # <<>>
  /\ engineOut' = <<[engineOut[1] EXCEPT !.scored = <<[by |-> k, rows |-> 0]>>,
                                        !.trace = <<[by |-> k]>>]>>
  /\ UNCHANGED <<inputs, runDir, runner, overlapped, audit>>

(* It writes through open streams, wherever the file is by now.           *)
Filled(file, k) == IF file # <<>> /\ file[1].by = k THEN <<[by |-> k, rows |-> eventCount]>> ELSE file

EngineWrites(k) ==
  /\ EngineAt(k, "writing", "receipting")
  /\ runDir' = [runDir EXCEPT !.scored = Filled(@, k)]
  /\ engineOut' = IF engineOut = <<>> THEN <<>>
                  ELSE <<[engineOut[1] EXCEPT !.scored = Filled(@, k)]>>
  /\ UNCHANGED <<inputs, runner, overlapped, audit>>

(* The pending receipt is created and renamed by path as well.            *)
EngineDrafts(k) ==
  /\ EngineAt(k, "receipting", "renaming")
  /\ Writes(k, "pending", <<[by |-> k]>>)
  /\ UNCHANGED <<inputs, runDir, runner, overlapped, audit>>

EngineRenames(k) ==
  /\ EngineAt(k, "renaming", "succeeded")
  /\ engineOut # <<>> /\ engineOut[1].pending # <<>>
  /\ engineOut' = <<[engineOut[1] EXCEPT !.receipt = engineOut[1].pending, !.pending = <<>>]>>
  /\ UNCHANGED <<inputs, runDir, runner, overlapped, audit>>

(* An exception is recorded by path once the directory was created, if    *)
(* that is possible; killed by a signal, the engine leaves all as it is.  *)
EngineFails(k) ==
  /\ Alive(k) /\ engines' = [engines EXCEPT ![k] = "failed"]
  /\ \/ UNCHANGED engineOut
     \/ engines[k] # "creating" /\ Writes(k, "failure", <<[by |-> k]>>)
  /\ UNCHANGED <<inputs, runDir, runner, overlapped, audit>>
-----------------------------------------------------------------------------
Goes(pc) == runner' = [runner EXCEPT !.pc = pc]

EngineExited ==
  /\ runner.pc = "waiting" /\ ~Alive(runner.k)
  /\ runner' = [runner EXCEPT !.pc = "listing",
                              !.code = IF engines[runner.k] = "succeeded" THEN 0 ELSE 1]
  /\ UNCHANGED <<inputs, runDir, engineOut, engines, overlapped, audit>>

(* The wait times out, perhaps just as the engine ends: -9 in any case.   *)
Timeout ==
  /\ runner.pc = "waiting"
  /\ engines' = [engines EXCEPT ![runner.k] = IF Alive(runner.k) THEN "failed" ELSE @]
  /\ runner' = [runner EXCEPT !.pc = "listing", !.code = -9]
  /\ UNCHANGED <<inputs, runDir, engineOut, overlapped, audit>>

Present == {f \in EngineFiles : engineOut[1][f] # <<>>}

AfterPromotion == IF runner.code = 0 THEN "predicting" ELSE "returned"

List ==
  /\ runner.pc = "listing"
  /\ runner' = IF engineOut = <<>> THEN [runner EXCEPT !.pc = AfterPromotion]
               ELSE [runner EXCEPT !.pc = "promoting", !.todo = Present]
  /\ UNCHANGED <<inputs, runDir, engineOut, engines, overlapped, audit>>

(* Bug variant: a file whose name is taken is left where it is.           *)
UnlinkNothing(f) ==
  /\ runner.pc = "promoting" /\ f \in runner.todo
  /\ runner' = IF runDir[f] # <<>> THEN [runner EXCEPT !.todo = @ \ {f}]
               ELSE [runner EXCEPT !.pc = "moving", !.child = f, !.todo = @ \ {f}]
  /\ UNCHANGED <<inputs, runDir, engineOut, engines, overlapped, audit>>

(* For each child listed, whatever the exit code: unlink the target, ...  *)
Unlink(f) ==
  /\ runner.pc = "promoting" /\ f \in runner.todo
  /\ runDir' = [runDir EXCEPT ![f] = <<>>]
  /\ runner' = [runner EXCEPT !.pc = "moving", !.child = f, !.todo = @ \ {f}]
  /\ UNCHANGED <<inputs, engineOut, engines, overlapped, audit>>

(* ... and rename the child, which raises if an engine renamed it before. *)
Move ==
  /\ runner.pc = "moving"
  /\ LET f == runner.child
     IN  IF engineOut[1][f] = <<>> THEN Goes("dead") /\ UNCHANGED <<runDir, engineOut>>
         ELSE /\ runDir' = [runDir EXCEPT ![f] = engineOut[1][f]]
              /\ engineOut' = <<[engineOut[1] EXCEPT ![f] = <<>>]>>
              /\ Goes("promoting")
  /\ UNCHANGED <<inputs, engines, overlapped, audit>>

(* rmdir, which fails quietly if an engine left something meanwhile.      *)
Promoted ==
  /\ runner.pc = "promoting" /\ runner.todo = {}
  /\ engineOut' = IF Present = {} THEN <<>> ELSE engineOut
  /\ Goes(AfterPromotion)
  /\ UNCHANGED <<inputs, runDir, engines, overlapped, audit>>
-----------------------------------------------------------------------------
Scored == IF runDir.scored = <<>> THEN 0 ELSE runDir.scored[1].rows

Boost == CASE policy = "fixed_cadence_u20" -> 0
           [] policy = "budget_matched" -> 1
           [] OTHER -> 10

(* A positive label raises the score.  The clamp and the seed are left    *)
(* out: they order nothing.                                               *)
Score(row) == (IF row.seq \in 1..Scored THEN RawScore[row.seq] ELSE DefaultScore)
              + IF row.label = 1 THEN Boost ELSE 0

Targets == SelectSeq(cohort, LAMBDA row : row.split \in evalSplits)

(* A cohort without sample_id, as generate_cohort_splits.py writes it, is *)
(* a KeyError.                                                            *)
WritePredictions ==
  /\ runner.pc = "predicting"
  /\ IF hasSampleIds
     THEN /\ runDir' = [runDir EXCEPT !.predictions = <<[by |-> runner.k,
               rows |-> [i \in DOMAIN Targets |->
                 [id |-> Targets[i].id, score |-> Score(Targets[i]), y |-> Targets[i].label]]]>>]
          /\ Goes("telemetry")
     ELSE Goes("dead") /\ UNCHANGED runDir
  /\ UNCHANGED <<inputs, engineOut, engines, overlapped, audit>>

TotalEvents == IF Scored > 0 THEN Scored ELSE DefaultEvents

(* The writes are constants, so what was absorbed may be negative.        *)
WritesEmitted == CASE policy = "fixed_cadence_u20" -> FixedWrites
                   [] policy = "fixed_cadence_u1" -> TotalEvents
                   [] OTHER -> OtherWrites

WriteTelemetry ==
  /\ runner.pc = "telemetry"
  /\ runDir' = [runDir EXCEPT !.telemetry = <<[by |-> runner.k,
       events |-> TotalEvents, writes |-> WritesEmitted,
       absorbed |-> TotalEvents - WritesEmitted, offered |-> Len(Targets)]>>]
  /\ Goes("reporting")
  /\ UNCHANGED <<inputs, engineOut, engines, overlapped, audit>>

InSplit(rows, split) == SelectSeq(rows, LAMBDA r : \E c \in DOMAIN cohort :
                                    cohort[c].id = r.id /\ cohort[c].split = split)

Metrics(s) == IF BothClasses(s) THEN <<[u |-> TwiceU(s), ap |-> GroupedAP(s)]>> ELSE <<>>

(* An empty label in a split is a ValueError: no result is written.       *)
WriteResult ==
  /\ runner.pc = "reporting"
  /\ LET rows == runDir.predictions[1].rows
     IN  IF \E i \in DOMAIN rows : rows[i].y = NoLabel
         THEN Goes("dead") /\ UNCHANGED runDir
         ELSE /\ runDir' = [runDir EXCEPT !.result = <<[by |-> runner.k,
                   metrics |-> [split \in evalSplits |-> Metrics(InSplit(rows, split))]]>>]
              /\ Goes("returned")
  /\ UNCHANGED <<inputs, engineOut, engines, overlapped, audit>>

(* The runner alone dies; its engine goes on.                             *)
Crash ==
  /\ ~Inactive /\ Goes("dead")
  /\ UNCHANGED <<inputs, runDir, engineOut, engines, overlapped, audit>>
-----------------------------------------------------------------------------
(* recompute_streaming_metrics.  int("") of a label anywhere in the       *)
(* cohort is an error as well.                                            *)
Conserved(t) == t.writes >= 0 /\ t.absorbed >= 0 /\ t.events = t.writes + t.absorbed

Ids(rows) == {rows[i].id : i \in DOMAIN rows}

TestRows == LET rows == runDir.predictions[1].rows IN InSplit(rows, "test")

Audited ==
  LET rows == runDir.predictions[1].rows
  IN  /\ Conserved(runDir.telemetry[1]) /\ runDir.telemetry[1].offered > 0
      /\ hasSampleIds /\ \A i \in DOMAIN cohort : cohort[i].label # NoLabel
      /\ rows # <<>> /\ Cardinality(Ids(rows)) = Len(rows)
      /\ Ids(SelectSeq(cohort, LAMBDA c : c.split = "test")) \subseteq Ids(rows)
      /\ Ids(rows) \subseteq Ids(cohort)
      /\ BothClasses(TestRows)

Audit ==
  /\ Inactive /\ audit = "none" /\ runDir.predictions # <<>> /\ runDir.telemetry # <<>>
  /\ audit' = IF Audited THEN "accepted" ELSE "rejected"
  /\ UNCHANGED <<inputs, runDir, engineOut, engines, runner, overlapped>>

(* A directory that nobody will run in any more; of its files only the    *)
(* predictions will be read.                                              *)
Left ==
  /\ Inactive /\ \A k \in 1..MaxRuns : ~Alive(k)
  /\ cohort' = <<>> /\ hasSampleIds' = FALSE /\ policy' = "dynamic_pressure"
  /\ eventCount' = 0 /\ evalSplits' = {}
  /\ runDir' = [NoFiles EXCEPT !.predictions = IF runDir.predictions = <<>> THEN <<>>
                                               ELSE <<[runDir.predictions[1] EXCEPT !.by = 0]>>]
  /\ engineOut' = <<>> /\ engines' = [k \in 1..MaxRuns |-> "none"]
  /\ runner' = [k |-> MaxRuns, pc |-> "returned", code |-> -1, todo |-> {}, child |-> "none"]
  /\ overlapped' = FALSE /\ audit' = "none"

RunNext == \/ Invoke \/ EngineExited \/ Timeout \/ List \/ Move \/ Promoted
           \/ WritePredictions \/ WriteTelemetry \/ WriteResult \/ Crash \/ Audit
           \/ \E f \in EngineFiles : Unlink(f)
           \/ \E k \in 1..MaxRuns : \/ EngineCreates(k) \/ EngineOpens(k) \/ EngineWrites(k)
                                    \/ EngineDrafts(k) \/ EngineRenames(k) \/ EngineFails(k)
-----------------------------------------------------------------------------
(* When the runner has returned 0 and no engine of a crashed invocation   *)
(* was in its way, the engine's outputs and receipt and the runner's three*)
(* files are this invocation's and its engine scored the whole events     *)
(* file, also if earlier invocations of the directory failed, timed out or*)
(* crashed anywhere.  What earlier ones can have left beside them is a    *)
(* failure record or a pending receipt, never one of this invocation.     *)
(* If the adapter then accepts the directory, nothing was written that    *)
(* was not read, every test sample has the score of its event, and both   *)
(* report the same AUROC, which is the probability it stands for.         *)
Unfinished == {"pending", "failure"}

OwnFiles ==
  /\ \A f \in RunFiles \ Unfinished : runDir[f] # <<>> /\ runDir[f][1].by = runner.k
  /\ runDir.scored[1].rows = eventCount
  /\ \A f \in Unfinished : runDir[f] # <<>> => runDir[f][1].by < runner.k

AcceptedIsComplete ==
  LET t == runDir.telemetry[1]
      reported == runDir.result[1].metrics
  IN  /\ t.writes <= t.events /\ "test" \in evalSplits
      /\ Len(TestRows) = Len(SelectSeq(cohort, LAMBDA c : c.split = "test"))
      /\ \A i \in DOMAIN TestRows, c \in DOMAIN cohort :
           TestRows[i].id = cohort[c].id /\ cohort[c].seq \in 1..eventCount =>
             TestRows[i].score - RawScore[cohort[c].seq] \in {0, 1, 10}
      /\ reported["test"] # <<>>
      /\ reported["test"][1].u = TwiceU(TestRows) /\ TwiceU(TestRows) = TwiceUDefinition(TestRows)
      /\ reported["test"][1].ap = APDefinition(TestRows)
      /\ ~ClassesTie(TestRows) => reported["test"][1].ap = SequentialAP(TestRows)

AcceptedRunIsOwn ==
  (runner.pc = "returned" /\ runner.code = 0 /\ ~overlapped) =>
    OwnFiles /\ (audit = "accepted" => AcceptedIsComplete)
=============================================================================
