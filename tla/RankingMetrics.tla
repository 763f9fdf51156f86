----------------------------- MODULE RankingMetrics -----------------------------
(***************************************************************************)
(* The ranking metrics as source/apps/streaming_runner.py, tools/          *)
(* streaming_adapter.py and tools/reproduction_verifier.py compute them,   *)
(* and their definitions.  A result is a sequence of [score, y]; an AUROC  *)
(* is given as twice the U statistic, an average precision in 1 / Scale.   *)
(***************************************************************************)
EXTENDS Integers, Sequences, FiniteSets, SequencesExt

CONSTANT Scale   (* a multiple of (positives * rank) for the lists used    *)

Chosen(s, P(_)) == Cardinality({i \in DOMAIN s : P(s[i])})
Positives(s) == Chosen(s, LAMBDA r : r.y = 1)
Negatives(s) == Chosen(s, LAMBDA r : r.y # 1)
BothClasses(s) == Positives(s) > 0 /\ Negatives(s) > 0

Ascending(s) == SortSeq(s, LAMBDA a, b : a.score < b.score)

(* j of the loops: one past the group of equal scores that begins at i.   *)
GroupEnd(o, i) == i + Cardinality({j \in i..Len(o) : o[j].score = o[i].score})

PositivesIn(o, i, j) == Cardinality({n \in i..(j - 1) : o[n].y = 1})

(* Bug variant: every item of a tie has the rank of the first one.        *)
TwiceFirstRank(i, j) == 2 * i

(* (i + 1 + j) / 2 of the loops, from 1: the mean rank of a group.        *)
TwiceMeanRank(i, j) == i + j - 1

TwiceU(s) ==
  LET o == Ascending(s)
      sum[i \in 1..(Len(o) + 1)] ==
        IF i > Len(o) THEN 0
        ELSE LET j == GroupEnd(o, i) IN TwiceMeanRank(i, j) * PositivesIn(o, i, j) + sum[j]
  IN  sum[1] - Positives(s) * (Positives(s) + 1)

(* The probability that a positive is above a negative, ties one half.    *)
TwiceUDefinition(s) ==
  LET pairs == {p \in (DOMAIN s) \X (DOMAIN s) : s[p[1]].y = 1 /\ s[p[2]].y # 1}
  IN  2 * Cardinality({p \in pairs : s[p[1]].score > s[p[2]].score})
      + Cardinality({p \in pairs : s[p[1]].score = s[p[2]].score})

(* Descending by groups: the runner and the reproduction verifier.        *)
GroupedAP(s) ==
  LET o == Reverse(Ascending(s))
      ap[i \in 1..(Len(o) + 1)] ==
        IF i > Len(o) THEN 0
        ELSE LET j == GroupEnd(o, i)
             IN  (Scale * PositivesIn(o, i, j) * PositivesIn(o, 1, j))
                   \div (Positives(s) * (j - 1)) + ap[j]
  IN  ap[1]

(* One by one, a tie in the order of the file: the adapter.               *)
SequentialAP(s) ==
  LET above(i) == {j \in DOMAIN s : (s[j].score > s[i].score) \/ (s[j].score = s[i].score /\ j <= i)}
      hits(i) == Cardinality({j \in above(i) : s[j].y = 1})
  IN  FoldLeft(LAMBDA sum, i :
                 sum + IF s[i].y # 1 THEN 0
                       ELSE (Scale * hits(i)) \div (Positives(s) * Cardinality(above(i))),
               0, [i \in DOMAIN s |-> i])

(* The mean over the positives of the precision at their score.           *)
APDefinition(s) ==
  LET precision(i) == (Scale * Chosen(s, LAMBDA r : r.y = 1 /\ r.score >= s[i].score))
                        \div (Positives(s) * Chosen(s, LAMBDA r : r.score >= s[i].score))
  IN  FoldLeft(LAMBDA sum, i : sum + IF s[i].y = 1 THEN precision(i) ELSE 0,
               0, [i \in DOMAIN s |-> i])

ClassesTie(s) == \E i, j \in DOMAIN s : s[i].y = 1 /\ s[j].y # 1 /\ s[i].score = s[j].score
=============================================================================
