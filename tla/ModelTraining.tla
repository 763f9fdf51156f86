------------------------------ MODULE ModelTraining ------------------------------
(***************************************************************************)
(* tools/train_model.py: features are extracted from all events in file    *)
(* order, the rows of the train and validation splits are kept with their  *)
(* labels, and a model is fitted and saved.                                *)
(*                                                                         *)
(* A feature vector is a function of the user's events so far, so it is    *)
(* represented by their history; a fitted model is a function of the       *)
(* training rows, so it is represented by them.                            *)
(***************************************************************************)
EXTENDS CohortSplits

VARIABLES users,       (* KeyedFeatures.users: each user's history         *)
          trainAt,     (* row_count                                        *)
          train, validation,   (* train_X with train_y, val_X with val_y   *)
          testSeen,    (* test_rows_seen                                   *)
          model,       (* the model file                                   *)
          modelManifest

trainingVars == <<users, trainAt, train, validation, testSeen, model, modelManifest>>

vars == <<stage, canonVars, labelVars, splitVars, trainingVars>>

dataVars == <<canonVars, labelVars, splitVars>>

TrainingInit ==
  /\ users = [u \in Users |-> <<>>] /\ trainAt = 0 /\ testSeen = 0
  /\ train = <<>> /\ validation = <<>> /\ model = <<>> /\ modelManifest = <<>>

(* cohort_map: split and label of the row with this number.               *)
CohortOf(seq) == {row \in Rows(cohort) : row.seq = seq}

(* KeyedFeatures.update raises if the user's time decreases.              *)
LastTime(u) == users[u][Len(users[u])].ts
TimeDecreased(r) == users[r.user] # <<>> /\ r.ts < LastTime(r.user)

Observed(r) == Append(users[r.user], [ts |-> r.ts, act |-> r.act])

Labelled(row, split) == row.split = split /\ row.label \in {0, 1}

Example(row, x) == [seq |-> row.seq, x |-> x, y |-> row.label]

(* Bug variant: every row that is not isolated is trained on.             *)
UsesForTrainingAny(row) == row.split \notin {"test", "validation"} /\ row.label \in {0, 1}

UsesForTraining(row) == Labelled(row, "train")

FeatureRow ==
  /\ stage = "training" /\ trainAt < Len(Input)
  /\ trainAt' = trainAt + 1
  /\ LET r == Input[trainAt + 1]
         x == Observed(r)
         rows == CohortOf(trainAt)
         examples(wanted) == IF wanted = {} THEN <<>>
                             ELSE <<Example(CHOOSE row \in wanted : TRUE, x)>>
     IN  IF TimeDecreased(r)
         THEN stage' = "failed" /\ UNCHANGED <<users, train, validation, testSeen>>
         ELSE /\ users' = [users EXCEPT ![r.user] = x]
              /\ train' = train \o examples({row \in rows : UsesForTraining(row)})
              /\ validation' =
                   validation \o examples({row \in rows : Labelled(row, "validation")})
              /\ testSeen' = testSeen + Cardinality({row \in rows : row.split = "test"})
              /\ UNCHANGED stage
  /\ UNCHANGED <<dataVars, model, modelManifest>>

Classes == {train[i].y : i \in DOMAIN train}

(* Empty splits raise; so does the log-odds of a class prior of 0 or 1.   *)
Trainable == train # <<>> /\ validation # <<>> /\ Classes = {0, 1}

NotTrainable ==
  /\ stage = "training" /\ trainAt = Len(Input) /\ ~Trainable
  /\ stage' = "failed"
  /\ UNCHANGED <<dataVars, trainingVars>>

(* The fits and the validation metrics, then save_model_file.             *)
SaveModel ==
  /\ stage = "training" /\ trainAt = Len(Input) /\ Trainable
  /\ model' = <<train>> /\ stage' = "saved"
  /\ UNCHANGED <<dataVars, users, trainAt, train, validation, testSeen, modelManifest>>

WriteModelManifest ==
  /\ stage = "saved" /\ stage' = "trained"
  /\ modelManifest' = <<[model |-> model[1], evaluatedOn |-> validation,
                         positives |-> Cardinality({i \in DOMAIN train : train[i].y = 1}),
                         negatives |-> Cardinality({i \in DOMAIN train : train[i].y = 0}),
                         testIsolated |-> testSeen]>>
  /\ UNCHANGED <<dataVars, users, trainAt, train, validation, testSeen, model>>

TrainingNext == FeatureRow \/ NotTrainable \/ SaveModel \/ WriteModelManifest

Init == CanonInit /\ LabelsInit /\ SplitsInit /\ TrainingInit

Next == \/ CanonNext /\ UNCHANGED <<labelVars, splitVars, trainingVars>>
        \/ LabelsNext /\ UNCHANGED <<splitVars, trainingVars>>
        \/ SplitsNext /\ UNCHANGED trainingVars
        \/ TrainingNext

Spec == Init /\ [][Next]_vars
-----------------------------------------------------------------------------
(* Every in-window row that was read, once; the contract order is         *)
(* pv < fav < cart < buy within a (time, user, item).                     *)
Kept == {r \in raw : r.ts \in CampaignStart..CampaignEnd}

ContractRank == [pv |-> 1, fav |-> 2, cart |-> 3, buy |-> 4]

Later(r, s) == KeyBefore(<<r.ts, r.user, r.item, ContractRank[r.act]>>,
                         <<s.ts, s.user, s.item, ContractRank[s.act]>>)

(* Whatever the sizes and the order of the spilled runs, and also when    *)
(* the tool is killed, canonicalize's output is an initial segment of the *)
(* sorted set of the in-window rows, and with the ledger beside it it is  *)
(* all of them and the ledger says so.                                    *)
CanonicalIsSortedSet ==
  stage # "reading" =>
    /\ \A i, j \in DOMAIN canonical : i < j => Later(canonical[i], canonical[j])
    /\ \A r \in Kept \ Rows(canonical), i \in DOMAIN canonical : Later(canonical[i], r)
    /\ Rows(canonical) \subseteq Kept
    /\ ledger # <<>> => Rows(canonical) = Kept /\ ledger[1].conservation

(* The streaming labeller gives every row of the file the label and the   *)
(* witness of future_purchase_labels, and the in-memory labeller accepts  *)
(* the file and agrees.                                                   *)
LabelsMatchDefinition ==
  /\ \A i \in DOMAIN labels :
       [label |-> labels[i].label, witness |-> labels[i].witness] = FuturePurchaseLabel(Input, i)
  /\ stage = "splitting" => InMemoryAccepts(Input) /\ labels = InMemoryLabels(Input)

(* What training would produce if nothing had happened after this time.   *)
Until(t) == Picked(Input, {i \in DOMAIN Input : Input[i].ts <= t})

HistoryAt(events, i) ==
  LET before == SubSeq(events, 1, i)
  IN  Picked([n \in DOMAIN before |-> [ts |-> before[n].ts, act |-> before[n].act]],
             {n \in DOMAIN before : before[n].user = events[i].user})

ExampleAt(events, i) ==
  [seq |-> i - 1, x |-> HistoryAt(events, i), y |-> FuturePurchaseLabel(events, i).label]

(* train_model learns only from users that are not held out, and each of  *)
(* its examples, features and label together, is what it would be if the  *)
(* file ended with the embargo that follows its split: nothing of the     *)
(* validation period reaches the training rows, nothing of the test       *)
(* period the validation rows.                                            *)
NothingLeaksForward ==
  /\ \A i \in DOMAIN train : train[i] = ExampleAt(Until(Embargo1End), train[i].seq + 1)
  /\ \A i \in DOMAIN validation :
       validation[i] = ExampleAt(Until(Embargo2End), validation[i].seq + 1)
  /\ \A i \in DOMAIN train : Input[train[i].seq + 1].user \notin OodUsers

(* A model file exists only if the training rows hold both classes, and   *)
(* its manifest describes that model and counts every labelled row of     *)
(* the two splits of the cohort that training read.                       *)
ManifestDescribesModel ==
  /\ model # <<>> => {model[1][i].y : i \in DOMAIN model[1]} = {0, 1}
  /\ modelManifest # <<>> =>
       LET m == modelManifest[1]
           summary == splitManifest[1].summary
       IN  /\ <<m.model>> = model
           /\ m.positives = summary["train"].pos /\ m.negatives = summary["train"].neg
           /\ Len(m.evaluatedOn) = summary["validation"].pos + summary["validation"].neg
           /\ m.testIsolated = Count("test", {0, 1, NoLabel})
=============================================================================
