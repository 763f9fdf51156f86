------------------------------ MODULE CausalLabels ------------------------------
(***************************************************************************)
(* tools/generate_causal_labels.py, over the file Canonicalize left: one   *)
(* pass collects every user's purchases, a second one labels every event   *)
(* by a binary search for the user's next purchase.                        *)
(***************************************************************************)
EXTENDS Canonicalize, Sublists

CONSTANTS Horizon,
          MaxRowsChoices   (* values of --max-rows; MaxRaw is no limit     *)

ASSUME LabelsAssumption == MaxRowsChoices \subseteq Nat /\ Horizon \in Nat \ {0} /\ Horizon <= CampaignEnd

VARIABLES maxRows, (* --max-rows of this tool and of those after it        *)
          buys,    (* user -> the <<ts, seq>> of the purchases, file order *)
          labels   (* the rows of the labels file                          *)

labelVars == <<maxRows, buys, labels>>

LabelsInit == maxRows = MaxRaw /\ buys = <<>> /\ labels = <<>>

NoLabel == -1     (* an empty label field                                  *)
NoWitness == -1

Users == {r.user : r \in RawRows}

(* What a pass reads: the file up to --max-rows.                          *)
Limited(limit) == SubSeq(canonical, 1, IF limit < Len(canonical) THEN limit ELSE Len(canonical))

Input == Limited(maxRows)

IsBuy(r) == r.act = "buy"

PurchasesIn(events, u) ==
  Picked([i \in DOMAIN events |-> <<events[i].ts, i - 1>>],
         {i \in DOMAIN events : IsBuy(events[i]) /\ events[i].user = u})

(* Bug variant: bisect_left would find a purchase of the same second.     *)
BisectLeft(records, t) == Cardinality({i \in DOMAIN records : records[i][1] < t})

(* bisect_right over the times: correct only for times in order.          *)
BisectRight(records, t) ==
  LET window == (0..Len(records)) \X (0..Len(records))
      at[w \in window] ==
        LET lo == w[1] hi == w[2] mid == (lo + hi) \div 2
        IN  IF lo >= hi THEN lo
            ELSE IF t < records[mid + 1][1] THEN at[<<lo, mid>>] ELSE at[<<mid + 1, hi>>]
  IN  at[<<0, Len(records)>>]

Pass1 ==
  /\ stage = "indexing"
  /\ maxRows' \in MaxRowsChoices
  /\ buys' = [u \in Users |-> PurchasesIn(Limited(maxRows'), u)]
  /\ stage' = "labelling"
  /\ UNCHANGED <<canonVars, labels>>

(* Not even the header was flushed: "Empty input file".                   *)
Pass1Empty ==
  /\ stage = "indexing" /\ canonical = <<>> /\ ledger = <<>>
  /\ stage' = "failed"
  /\ UNCHANGED <<canonVars, labelVars>>

Censored(t) == t > CampaignEnd - Horizon

InHorizon(witness, t) == witness <= t + Horizon

LabelRow(seq, r, records) ==
  LET i == BisectRight(records, r.ts) + 1
      positive == i <= Len(records) /\ InHorizon(records[i][1], r.ts)
      known == ~Censored(r.ts)
  IN  [seq |-> seq, ts |-> r.ts, user |-> r.user, valid |-> known,
       label |-> IF ~known THEN NoLabel ELSE IF positive THEN 1 ELSE 0,
       witness |-> IF known /\ positive THEN records[i][2] ELSE NoWitness]

(* The second pass reads the file again, up to the same limit.            *)
Pass2 ==
  /\ stage = "labelling" /\ stage' = "splitting"
  /\ labels' = [i \in DOMAIN Input |-> LabelRow(i - 1, Input[i], buys[Input[i].user])]
  /\ buys' = <<>>
  /\ UNCHANGED <<canonVars, maxRows>>

LabelsNext == Pass1 \/ Pass1Empty \/ Pass2
-----------------------------------------------------------------------------
(* generate_causal_labels_from_events: first every event is validated,    *)
(* then labelled in memory with the same search.                          *)
InMemoryAccepts(events) ==
  \A i \in DOMAIN events :
    /\ events[i].ts \in 0..CampaignEnd
    /\ i > 1 => events[i - 1].ts <= events[i].ts

InMemoryLabels(events) ==
  [i \in DOMAIN events |-> LabelRow(i - 1, events[i], PurchasesIn(events, events[i].user))]

(* future_purchase_labels of source/preprocessing/labels.py: y = 1 iff    *)
(* the user buys in (t, t + H]; unknown if the window ends too late.  The *)
(* witness is the first such purchase of the file.                        *)
FutureBuys(events, r) ==
  {j \in DOMAIN events : /\ IsBuy(events[j]) /\ events[j].user = r.user
                         /\ r.ts < events[j].ts /\ events[j].ts <= r.ts + Horizon}

FuturePurchaseLabel(events, i) ==
  LET r == events[i]
      future == FutureBuys(events, r)
      first == CHOOSE j \in future : \A k \in future : j <= k
  IN  IF r.ts + Horizon > CampaignEnd THEN [label |-> NoLabel, witness |-> NoWitness]
      ELSE IF future = {} THEN [label |-> 0, witness |-> NoWitness]
      ELSE [label |-> 1, witness |-> first - 1]
=============================================================================
