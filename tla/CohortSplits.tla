------------------------------ MODULE CohortSplits ------------------------------
(***************************************************************************)
(* tools/generate_cohort_splits.py: every labelled row is put in a split   *)
(* by its time, separated by embargoes, or in the split of held-out users. *)
(***************************************************************************)
EXTENDS CausalLabels

CONSTANTS OodUsers,     (* the users is_ood_user selects by their hash     *)
          TrainEnd, Embargo1End, ValEnd, Embargo2End, TestEnd,
          Hour          (* seconds of a group; 3600 in the code            *)

(* The boundaries of the code: each embargo lasts DEFAULT_HORIZON_SEC.    *)
ASSUME SplitsAssumption ==
  /\ {TrainEnd, Embargo1End, ValEnd, Embargo2End, TestEnd} \subseteq Nat
  /\ CampaignStart <= TrainEnd /\ TrainEnd < Embargo1End /\ Embargo1End < ValEnd
  /\ ValEnd < Embargo2End /\ Embargo2End < TestEnd /\ TestEnd < CampaignEnd
  /\ Hour \in Nat \ {0}

VARIABLES evaluatedOnly,  (* --evaluated-only                              *)
          cohort,         (* the rows of the cohort file                   *)
          splitManifest   (* the split manifest                            *)

splitVars == <<evaluatedOnly, cohort, splitManifest>>

SplitsInit == /\ evaluatedOnly = FALSE /\ cohort = <<>> /\ splitManifest = <<>>

(* Bug variant: the first embargo is trained on.                          *)
SplitNoEmbargo(user, t) == IF user \in OodUsers THEN "ood"
                     ELSE IF t <= Embargo1End THEN "train"
                     ELSE IF t <= ValEnd THEN "validation"
                     ELSE IF t <= Embargo2End THEN "val_embargo"
                     ELSE IF t <= TestEnd THEN "test" ELSE "tail_censored"

Split(user, t) == IF user \in OodUsers THEN "ood"
                  ELSE IF t <= TrainEnd THEN "train"
                  ELSE IF t <= Embargo1End THEN "train_embargo"
                  ELSE IF t <= ValEnd THEN "validation"
                  ELSE IF t <= Embargo2End THEN "val_embargo"
                  ELSE IF t <= TestEnd THEN "test" ELSE "tail_censored"

(* The first second and the number of whole hours of each split's groups. *)
GroupBase == [ood |-> CampaignStart, train |-> CampaignStart, train_embargo |-> TrainEnd + 1,
              validation |-> Embargo1End + 1, val_embargo |-> ValEnd + 1,
              test |-> Embargo2End + 1, tail_censored |-> TestEnd + 1]
GroupEnd == [ood |-> CampaignEnd, train |-> TrainEnd, train_embargo |-> Embargo1End,
             validation |-> ValEnd, val_embargo |-> Embargo2End,
             test |-> TestEnd, tail_censored |-> CampaignEnd]

(* min(max(0, (t - base) // 3600), last)                                  *)
GroupHour(split, t) ==
  LET hour == (t - GroupBase[split]) \div Hour
      last == (GroupEnd[split] - GroupBase[split]) \div Hour
  IN  IF hour < 0 THEN 0 ELSE IF hour > last THEN last ELSE hour

IsTail(t) == t > TestEnd

Unevaluated == {"train_embargo", "val_embargo", "tail_censored"}

CohortRow(l) ==
  LET split == Split(l.user, l.ts)
  IN  [seq |-> l.seq, user |-> l.user, ts |-> l.ts, split |-> split,
       group |-> <<split, GroupHour(split, l.ts)>>,
       label |-> IF IsTail(l.ts) THEN NoLabel ELSE l.label,
       censored |-> IsTail(l.ts) \/ ~l.valid]

SplitRows ==
  /\ stage = "splitting" /\ stage' = "summarising"
  /\ evaluatedOnly' \in BOOLEAN
  /\ LET row == [i \in DOMAIN labels |-> CohortRow(labels[i])]
     IN  cohort' = Picked(row, {i \in DOMAIN row :
                                  ~evaluatedOnly' \/ row[i].split \notin Unevaluated})
  /\ UNCHANGED <<canonVars, labelVars, splitManifest>>

UsersOf(split) == {row.user : row \in {r \in Rows(cohort) : r.split = split}}

Count(split, lbls) ==
  Cardinality({i \in DOMAIN cohort : cohort[i].split = split /\ cohort[i].label \in lbls})

(* splits_summary and acceptance_verifications; main exits with 1 if the  *)
(* held-out users are not disjoint.                                       *)
WriteSplits ==
  /\ stage = "summarising"
  /\ LET disjoint == UsersOf("ood") \cap (UsersOf("train") \cup UsersOf("validation")) = {}
         summary == [s \in {row.split : row \in Rows(cohort)} |->
                       [pos |-> Count(s, {1}), neg |-> Count(s, {0}),
                        censored |-> Count(s, {NoLabel})]]
     IN  /\ splitManifest' = <<[summary |-> summary, coldOodDisjoint |-> disjoint]>>
         /\ stage' = IF disjoint THEN "training" ELSE "failed"
  /\ UNCHANGED <<canonVars, labelVars, evaluatedOnly, cohort>>

SplitsNext == SplitRows \/ WriteSplits
=============================================================================
