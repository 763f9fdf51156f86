------------------------------ MODULE Reproduction ------------------------------
(***************************************************************************)
(* scripts/reproduce_all.sh and tools/reproduction_verifier.py, over the   *)
(* run directory StreamingRunner left (as runs/exp_dynamic_s42/attempt0001)*)
(* and the published results.  Of the headline numbers the one compared    *)
(* with raw data, the test AP of the dynamic policy, is modelled.          *)
(***************************************************************************)
EXTENDS StreamingRunner

CONSTANTS PublishedAPs,     (* values confirmatory_results.json may hold   *)
          HeadlineAP        (* HEADLINE_METRICS_SPEC                       *)

VARIABLES repro,       (* where the script or the verifier is              *)
          scripted,    (* started by reproduce_all.sh                      *)
          digests,     (* of the cohort and the model: match, differ, missing *)
          published,   (* the results files: <<>> or <<the dynamic AP>>    *)
          robustness,  (* robustness_analysis.json exists                  *)
          regenerated, (* an input was rewritten while the script ran      *)
          attemptNo,   (* numbers the verifier's executions                *)
          manifest, perNumber   (* the two manifests, and which wrote them *)

reproVars == <<repro, scripted, digests, published, robustness, regenerated,
               attemptNo, manifest, perNumber>>

Digest == {"match", "differs", "missing"}

ReproInit ==
  /\ repro = "idle" /\ scripted = FALSE
  /\ digests = [cohort |-> "match", model |-> "match"]
  /\ published = <<>> /\ robustness = FALSE /\ regenerated = FALSE
  /\ attemptNo = 0 /\ manifest = <<>> /\ perNumber = <<>>

At(from, to) == repro = from /\ repro' = to

(* The runs are over.                                                     *)
RunsEnd ==
  /\ At("idle", "left") /\ Left
  /\ UNCHANGED <<scripted, digests, published, robustness, regenerated, attemptNo, manifest, perNumber>>

(* Begun on whatever files are there, and again after a failure.          *)
Reproduce ==
  /\ repro \in {"left", "failed"} /\ attemptNo < 2 /\ attemptNo' = attemptNo + 1
  /\ scripted' \in BOOLEAN
  /\ repro' = IF scripted' THEN "digests" ELSE "verifying"
  /\ IF attemptNo = 0
     THEN /\ digests' \in [{"cohort", "model"} -> Digest]
          /\ published' \in {<<>>} \cup {<<ap>> : ap \in PublishedAPs}
          /\ robustness' \in BOOLEAN
     ELSE UNCHANGED <<digests, published, robustness>>
  /\ regenerated' = FALSE
  /\ UNCHANGED <<runVars, manifest, perNumber>>

KeepsRest == UNCHANGED <<runVars, scripted, published, robustness, attemptNo>>

(* Bug variant: the loop ends after its first file.                       *)
FirstDigestMatches == digests.cohort = "match"

DigestsMatch == \A file \in {"cohort", "model"} : digests[file] = "match"

CheckDigests ==
  /\ At("digests", IF DigestsMatch THEN "building" ELSE "failed")
  /\ UNCHANGED <<digests, regenerated, manifest, perNumber>> /\ KeepsRest

(* cmake, ctest and pytest, which may rewrite what they use.              *)
BuildAndTest ==
  /\ At("building", "verifying") \/ At("building", "failed")
  /\ UNCHANGED <<digests, regenerated, manifest, perNumber>> /\ KeepsRest

Regenerate ==
  /\ repro \in {"building", "verifying"} /\ ~regenerated
  /\ regenerated' = TRUE
  /\ \E file \in {"cohort", "model"} : digests' = [digests EXCEPT ![file] = "differs"]
  /\ UNCHANGED <<repro, manifest, perNumber>> /\ KeepsRest

(* verify_cohort_files and the loads raise for a missing file; a digest   *)
(* that differs is recorded, and the record is not looked at.             *)
Loads ==
  /\ At("verifying", IF digests.cohort # "missing" /\ published # <<>> /\ robustness
                     THEN "comparing" ELSE "failed")
  /\ UNCHANGED <<digests, regenerated, manifest, perNumber>> /\ KeepsRest

(* parse_predictions_csv raises for an empty label; the AP of a list      *)
(* without two classes is 0.                                              *)
RawAP == LET rows == runDir.predictions[1].rows
         IN  IF BothClasses(rows) THEN GroupedAP(rows) ELSE 0

RawRunReadable == \A i \in DOMAIN runDir.predictions[1].rows :
                    runDir.predictions[1].rows[i].y # NoLabel

RawRunAgrees == runDir.predictions # <<>> => RawRunReadable /\ RawAP = published[1]

(* build_reproduction_manifest, and the file it goes to.                  *)
WriteManifest ==
  /\ At("comparing", IF RawRunAgrees THEN "cataloguing" ELSE "failed")
  /\ manifest' = IF RawRunAgrees
                 THEN <<[by |-> attemptNo, original |-> HeadlineAP, replay |-> published[1]]>>
                 ELSE manifest
  /\ UNCHANGED <<digests, regenerated, perNumber>> /\ KeepsRest

WritePerNumber ==
  /\ At("cataloguing", "summarising")
  /\ perNumber' = <<[by |-> attemptNo]>>
  /\ UNCHANGED <<digests, regenerated, manifest>> /\ KeepsRest

(* "PASS" and "VERIFIED", and the script's "SUCCESS".                     *)
Summarise ==
  /\ At("summarising", "passed")
  /\ UNCHANGED <<digests, regenerated, manifest, perNumber>> /\ KeepsRest

Interrupted ==
  /\ repro \notin {"idle", "left", "passed", "failed"} /\ repro' = "failed"
  /\ UNCHANGED <<digests, regenerated, manifest, perNumber>> /\ KeepsRest

ReproNext == RunsEnd \/ Reproduce \/ CheckDigests \/ BuildAndTest \/ Regenerate \/ Loads
             \/ WriteManifest \/ WritePerNumber \/ Summarise \/ Interrupted
-----------------------------------------------------------------------------
(* What PASS stands for: both manifests are of this execution, and the    *)
(* replayed AP is the published one and that of the raw predictions, if   *)
(* there are any.  The digests it calls VERIFIED did match only if        *)
(* reproduce_all.sh ran and nothing was rewritten after its first step.   *)
PassMeansReplayed ==
  repro = "passed" =>
    /\ manifest # <<>> /\ manifest[1].by = attemptNo
    /\ perNumber # <<>> /\ perNumber[1].by = attemptNo
    /\ manifest[1].replay = published[1]
    /\ runDir.predictions # <<>> =>
         LET rows == runDir.predictions[1].rows
         IN  manifest[1].replay = IF BothClasses(rows) THEN APDefinition(rows) ELSE 0
    /\ scripted /\ ~regenerated => digests = [cohort |-> "match", model |-> "match"]
=============================================================================
