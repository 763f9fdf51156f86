--------------------------- MODULE ModelTrainingProofs ---------------------------
(***************************************************************************)
(* Proofs about the data path from raw rows to a model: an embargo keeps   *)
(* its neighbours apart; the external sort of canonicalize leaves the      *)
(* sorted set of the campaign's rows; the labels of that file are the      *)
(* definition's; and the rows that training keeps, with their features and *)
(* labels, are those the definitions give, whatever happens later.         *)
(***************************************************************************)
EXTENDS ModelTraining, RecursionLemmas

(* The embargoes of DEFAULT_HORIZON_SEC that the boundaries leave.        *)
Embargoed == Horizon <= Embargo1End - TrainEnd /\ Horizon <= Embargo2End - ValEnd

(* The second that decides a label of assign_split's "train" rows is not  *)
(* one of the validation or test period, nor that of a validation row one *)
(* of the test period, whosever event it is.                               *)
THEOREM EmbargoSeparates ==
  ASSUME Embargoed, NEW user, NEW t \in Int, NEW w \in Int, InHorizon(w, t)
  PROVE  /\ Split(user, t) = "train" => w <= Embargo1End
         /\ Split(user, t) = "validation" => w <= Embargo2End
         /\ Split(user, t) = "train" => Split(user, w) \notin {"validation", "test"}
         /\ Split(user, t) = "validation" => Split(user, w) # "test"
BY LabelsAssumption, SplitsAssumption DEF Embargoed, InHorizon, Split
-----------------------------------------------------------------------------
(* A row of the raw file, by parse_and_validate_row.                      *)
Row == [ts : Int, user : Nat, item : Nat, act : {"pv", "fav", "cart", "buy"}]

(* Python's order of tuples of four.                                      *)
LEMMA TupleOrder ==
  ASSUME NEW a, NEW b, Len(a) = 4
  PROVE  KeyBefore(a, b) <=> \/ a[1] < b[1]
                             \/ a[1] = b[1] /\ a[2] < b[2]
                             \/ a[1] = b[1] /\ a[2] = b[2] /\ a[3] < b[3]
                             \/ a[1] = b[1] /\ a[2] = b[2] /\ a[3] = b[3] /\ a[4] < b[4]
<1> DEFINE At(n) == a[n] < b[n] /\ \A m \in 1..(n - 1) : a[m] = b[m]
<1>2. At(1) <=> a[1] < b[1]
  OBVIOUS
<1>3. At(2) <=> a[1] = b[1] /\ a[2] < b[2]
  OBVIOUS
<1>4. At(3) <=> a[1] = b[1] /\ a[2] = b[2] /\ a[3] < b[3]
  OBVIOUS
<1>5. At(4) <=> a[1] = b[1] /\ a[2] = b[2] /\ a[3] = b[3] /\ a[4] < b[4]
  <2>1. 1..(4 - 1) = {1, 2, 3}
    OBVIOUS
  <2> QED BY <2>1
<1>6. KeyBefore(a, b) <=> At(1) \/ At(2) \/ At(3) \/ At(4)
  <2> HIDE DEF At
  <2>1. 1..Len(a) = {1, 2, 3, 4}
    OBVIOUS
  <2>2. KeyBefore(a, b) <=> \E n \in 1..Len(a) : At(n)
    BY DEF KeyBefore, At
  <2> QED BY <2>1, <2>2
<1> QED BY <1>2, <1>3, <1>4, <1>5, <1>6

(* The order of rows by sort key, field by field; the contract's ranks    *)
(* give the same order.                                                   *)
LEMMA RowOrder ==
  ASSUME NEW r \in Row, NEW s \in Row
  PROVE  /\ Before(r, s)
              <=> \/ r.ts < s.ts
                  \/ r.ts = s.ts /\ r.user < s.user
                  \/ r.ts = s.ts /\ r.user = s.user /\ r.item < s.item
                  \/ /\ r.ts = s.ts /\ r.user = s.user /\ r.item = s.item
                     /\ SortOrder[r.act] < SortOrder[s.act]
         /\ Later(r, s) <=> Before(r, s)
         /\ SortOrder[r.act] \in Int /\ SortOrder[s.act] \in Int
         /\ SortOrder[r.act] = SortOrder[s.act] => r.act = s.act
<1>1. /\ r.ts \in Int /\ r.user \in Int /\ r.item \in Int
      /\ s.ts \in Int /\ s.user \in Int /\ s.item \in Int
      /\ r.act \in {"pv", "fav", "cart", "buy"} /\ s.act \in {"pv", "fav", "cart", "buy"}
  BY DEF Row
<1>2. \A x \in {"pv", "fav", "cart", "buy"} :
        SortOrder[x] \in Int /\ ContractRank[x] = SortOrder[x] + 1
  BY DEF SortOrder, ContractRank
<1>3. \A x, y \in {"pv", "fav", "cart", "buy"} : SortOrder[x] = SortOrder[y] => x = y
  BY DEF SortOrder
<1>4. Before(r, s)
         <=> \/ r.ts < s.ts
             \/ r.ts = s.ts /\ r.user < s.user
             \/ r.ts = s.ts /\ r.user = s.user /\ r.item < s.item
             \/ /\ r.ts = s.ts /\ r.user = s.user /\ r.item = s.item
                /\ SortOrder[r.act] < SortOrder[s.act]
  <2> DEFINE j == SortKey(r)
             k == SortKey(s)
  <2>1. /\ Len(j) = 4 /\ j[1] = r.ts /\ j[2] = r.user /\ j[3] = r.item /\ j[4] = SortOrder[r.act]
        /\ k[1] = s.ts /\ k[2] = s.user /\ k[3] = s.item /\ k[4] = SortOrder[s.act]
    BY DEF SortKey
  <2> HIDE DEF j, k
  <2>2. KeyBefore(j, k) <=> \/ j[1] < k[1]
                            \/ j[1] = k[1] /\ j[2] < k[2]
                            \/ j[1] = k[1] /\ j[2] = k[2] /\ j[3] < k[3]
                            \/ j[1] = k[1] /\ j[2] = k[2] /\ j[3] = k[3] /\ j[4] < k[4]
    BY <2>1, TupleOrder
  <2> QED BY <2>1, <2>2 DEF Before, j, k
<1>5. Later(r, s)
         <=> \/ r.ts < s.ts
             \/ r.ts = s.ts /\ r.user < s.user
             \/ r.ts = s.ts /\ r.user = s.user /\ r.item < s.item
             \/ /\ r.ts = s.ts /\ r.user = s.user /\ r.item = s.item
                /\ ContractRank[r.act] < ContractRank[s.act]
  <2> DEFINE j == <<r.ts, r.user, r.item, ContractRank[r.act]>>
             k == <<s.ts, s.user, s.item, ContractRank[s.act]>>
  <2>1. /\ Len(j) = 4 /\ j[1] = r.ts /\ j[2] = r.user /\ j[3] = r.item /\ j[4] = ContractRank[r.act]
        /\ k[1] = s.ts /\ k[2] = s.user /\ k[3] = s.item /\ k[4] = ContractRank[s.act]
    OBVIOUS
  <2> HIDE DEF j, k
  <2>2. KeyBefore(j, k) <=> \/ j[1] < k[1]
                            \/ j[1] = k[1] /\ j[2] < k[2]
                            \/ j[1] = k[1] /\ j[2] = k[2] /\ j[3] < k[3]
                            \/ j[1] = k[1] /\ j[2] = k[2] /\ j[3] = k[3] /\ j[4] < k[4]
    BY <2>1, TupleOrder
  <2> QED BY <2>1, <2>2 DEF Later, j, k
<1>6. ContractRank[r.act] < ContractRank[s.act] <=> SortOrder[r.act] < SortOrder[s.act]
  BY <1>1, <1>2
<1> QED BY <1>1, <1>2, <1>3, <1>4, <1>5, <1>6

(* Before is a strict total order of the rows.                            *)
LEMMA BeforeIsOrder ==
  /\ \A x \in Row : ~Before(x, x)
  /\ \A x, y, z \in Row : Before(x, y) /\ Before(y, z) => Before(x, z)
  /\ \A x, y \in Row : Before(x, y) \/ Before(y, x) \/ x = y
  /\ \A x, y \in Row : Later(x, y) <=> Before(x, y)
<1>0. \A x \in Row : x.ts \in Int /\ x.user \in Int /\ x.item \in Int
  BY DEF Row
<1>1. \A x \in Row : ~Before(x, x)
  BY <1>0, RowOrder
<1>2. ASSUME NEW x \in Row, NEW y \in Row, NEW z \in Row, Before(x, y), Before(y, z)
      PROVE  Before(x, z)
  <2> DEFINE o(r) == SortOrder[r.act]
  <2>1. o(x) \in Int /\ o(y) \in Int /\ o(z) \in Int
    BY RowOrder
  <2>2. /\ \/ x.ts < y.ts
           \/ x.ts = y.ts /\ x.user < y.user
           \/ x.ts = y.ts /\ x.user = y.user /\ x.item < y.item
           \/ x.ts = y.ts /\ x.user = y.user /\ x.item = y.item /\ o(x) < o(y)
        /\ \/ y.ts < z.ts
           \/ y.ts = z.ts /\ y.user < z.user
           \/ y.ts = z.ts /\ y.user = z.user /\ y.item < z.item
           \/ y.ts = z.ts /\ y.user = z.user /\ y.item = z.item /\ o(y) < o(z)
    BY <1>2, RowOrder
  <2> HIDE DEF o
  <2>3. \/ x.ts < z.ts
        \/ x.ts = z.ts /\ x.user < z.user
        \/ x.ts = z.ts /\ x.user = z.user /\ x.item < z.item
        \/ x.ts = z.ts /\ x.user = z.user /\ x.item = z.item /\ o(x) < o(z)
    BY <1>0, <2>1, <2>2
  <2> QED BY <2>3, RowOrder DEF o
<1>3. ASSUME NEW x \in Row, NEW y \in Row, ~Before(x, y), ~Before(y, x)
      PROVE  x = y
  <2>1. x.ts = y.ts /\ x.user = y.user /\ x.item = y.item /\ x.act = y.act
    <3>1. SortOrder[x.act] \in Int /\ SortOrder[y.act] \in Int
      BY RowOrder
    <3>2. x.ts = y.ts /\ x.user = y.user /\ x.item = y.item /\ SortOrder[x.act] = SortOrder[y.act]
      BY <1>0, <1>3, <3>1, RowOrder
    <3> QED BY <3>2, RowOrder
  <2> QED BY <2>1 DEF Row
<1>4. \A x, y \in Row : Later(x, y) <=> Before(x, y)
  BY RowOrder
<1> QED BY <1>1, <1>2, <1>3, <1>4

(* Rows with one sort key are one row: what the merge drops is repeated.  *)
LEMMA KeysIdentify ==
  ASSUME NEW r \in Row, NEW s \in Row
  PROVE  SortKey(r) # None /\ (SortKey(r) = SortKey(s) => r = s)
<1>1. SortKey(r) # None
  <2>1. Len(SortKey(r)) = 4 /\ Len(None) = 0
    BY DEF SortKey, None
  <2> QED BY <2>1
<1>2. ASSUME SortKey(r) = SortKey(s) PROVE r = s
  <2>1. r.ts = s.ts /\ r.user = s.user /\ r.item = s.item /\ SortOrder[r.act] = SortOrder[s.act]
    BY <1>2 DEF SortKey
  <2>2. r.act = s.act
    BY <2>1, RowOrder
  <2> QED BY <2>1, <2>2 DEF Row
<1> QED BY <1>1, <1>2

(* None is before an earlier one; rows may be repeated.                   *)
InOrder(rows) == \A i, j \in DOMAIN rows : i < j => ~Before(rows[j], rows[i])

(* Any rows can be rearranged in order: insert the last one into the      *)
(* others, by least counterexample.                                       *)
LEMMA OrderExists ==
  ASSUME NEW s, NEW n \in Nat, \A i \in 1..n : s[i] \in Row
  PROVE  \E p \in [1..n -> 1..n] :
           /\ \A j \in 1..n : \E i \in 1..n : p[i] = j
           /\ \A i, j \in 1..n : i < j => ~Before(s[p[j]], s[p[i]])
<1> DEFINE Onto(p, m) == \A j \in 1..m : \E i \in 1..m : p[i] = j
           Orders(p, m) == \A i, j \in 1..m : i < j => ~Before(s[p[j]], s[p[i]])
           Bad == {m \in 0..n : ~\E p \in [1..m -> 1..m] : Onto(p, m) /\ Orders(p, m)}
<1>1. Bad = {}
  <2> SUFFICES ASSUME Bad # {} PROVE FALSE
    OBVIOUS
  <2>1. Bad \subseteq Nat
    OBVIOUS
  <2>2. PICK m \in Bad : \A k \in Bad : m <= k
    BY <2>1, NatMin
  <2>3. m \in Nat /\ m <= n
    BY <2>2
  <2>4. m # 0
    <3> SUFFICES ASSUME m = 0 PROVE FALSE
      OBVIOUS
    <3> DEFINE p == [i \in 1..m |-> i]
    <3>1. p \in [1..m -> 1..m] /\ Onto(p, m) /\ Orders(p, m)
      OBVIOUS
    <3> QED BY <2>2, <3>1
  <2>5. PICK q \in [1..m - 1 -> 1..m - 1] : Onto(q, m - 1) /\ Orders(q, m - 1)
    <3>1. m - 1 \in 0..n /\ ~(m <= m - 1)
      BY <2>3, <2>4
    <3> QED BY <2>2, <3>1
  <2> DEFINE T == {i \in 1..m : i = m \/ Before(s[m], s[q[i]])}
  <2>6. m \in T /\ T \subseteq Nat
    BY <2>3, <2>4
  <2>7. PICK a \in T : \A k \in T : a <= k
    BY <2>6, NatMin
  <2>8. a \in 1..m /\ (a < m => Before(s[m], s[q[a]]))
        /\ \A i \in 1..m - 1 : i < a => ~Before(s[m], s[q[i]])
    <3>1. a \in 1..m /\ (a < m => Before(s[m], s[q[a]]))
      BY <2>3, <2>6, <2>7
    <3>2. ASSUME NEW i \in 1..m - 1, i < a PROVE ~Before(s[m], s[q[i]])
      <4>1. i \in 1..m /\ ~(a <= i)
        BY <2>3, <3>1, <3>2
      <4> QED BY <2>7, <4>1
    <3> QED BY <3>1, <3>2
  <2>9. \A i \in 1..m - 1 : s[q[i]] \in Row
    <3>1. \A i \in 1..m - 1 : q[i] \in 1..n
      BY <2>3, <2>5
    <3> QED BY <3>1
  <2>10. s[m] \in Row
    BY <2>3, <2>4
  <2> DEFINE p == [i \in 1..m |-> IF i < a THEN q[i] ELSE IF i = a THEN m ELSE q[i - 1]]
  <2>11. p \in [1..m -> 1..m]
    <3>1. ASSUME NEW i \in 1..m PROVE p[i] \in 1..m
      <4>1. i < a => i \in 1..m - 1
        BY <2>3, <2>8
      <4>2. a < i => i - 1 \in 1..m - 1
        BY <2>3, <2>8
      <4>3. \A k \in 1..m - 1 : q[k] \in 1..m
        BY <2>3, <2>5
      <4> QED BY <2>3, <2>4, <2>8, <4>1, <4>2, <4>3, SMTT(30)
    <3> QED BY <3>1
  <2>12. Onto(p, m)
    <3>1. ASSUME NEW j \in 1..m PROVE \E i \in 1..m : p[i] = j
      <4>1. CASE j = m
        <5>1. p[a] = m
          BY <2>8
        <5> QED BY <2>8, <4>1, <5>1
      <4>2. CASE j # m
        <5>1. PICK v \in 1..m - 1 : q[v] = j
          BY <2>3, <2>5, <4>2
        <5>2. CASE v < a
          <6>1. v \in 1..m /\ p[v] = j
            BY <2>3, <5>1, <5>2
          <6> QED BY <6>1
        <5>3. CASE ~(v < a)
          <6>1. v + 1 \in 1..m /\ ~(v + 1 < a) /\ v + 1 # a /\ (v + 1) - 1 = v
            BY <2>3, <2>8, <5>1, <5>3
          <6>2. p[v + 1] = j
            BY <5>1, <6>1
          <6> QED BY <6>1, <6>2
        <5> QED BY <5>2, <5>3
      <4> QED BY <4>1, <4>2
    <3> QED BY <3>1
  <2>13. Orders(p, m)
    <3>1. ASSUME NEW i \in 1..m, NEW j \in 1..m, i < j PROVE ~Before(s[p[j]], s[p[i]])
      <4>0. \A x, y \in 1..m - 1 : x < y => ~Before(s[q[y]], s[q[x]])
        BY <2>5
      <4>1. CASE j < a
        <5>1. p[i] = q[i] /\ p[j] = q[j] /\ i \in 1..m - 1 /\ j \in 1..m - 1
          BY <2>3, <2>8, <3>1, <4>1
        <5> QED BY <3>1, <4>0, <5>1
      <4>2. CASE j = a
        <5>1. p[i] = q[i] /\ p[j] = m /\ i \in 1..m - 1 /\ i < a
          BY <2>3, <2>8, <3>1, <4>2
        <5> QED BY <2>8, <5>1
      <4>3. CASE a < j /\ i < a
        <5>1. p[i] = q[i] /\ p[j] = q[j - 1] /\ i \in 1..m - 1 /\ j - 1 \in 1..m - 1 /\ i < j - 1
          BY <2>3, <2>8, <3>1, <4>3
        <5> QED BY <4>0, <5>1
      <4>4. CASE a < j /\ i = a
        <5>1. /\ p[i] = m /\ p[j] = q[j - 1] /\ j - 1 \in 1..m - 1 /\ a \in 1..m - 1
              /\ a = j - 1 \/ a < j - 1
          BY <2>3, <2>8, <3>1, <4>4
        <5>2. Before(s[m], s[q[a]])
          BY <2>3, <2>8, <5>1
        <5>3. ~Before(s[q[j - 1]], s[q[a]])
          BY <2>9, <4>0, <5>1, BeforeIsOrder
        <5>4. s[q[a]] \in Row /\ s[q[j - 1]] \in Row
          BY <2>9, <5>1
        <5> QED BY <2>10, <5>1, <5>2, <5>3, <5>4, BeforeIsOrder
      <4>5. CASE a < j /\ a < i
        <5>1. p[i] = q[i - 1] /\ p[j] = q[j - 1] /\ i - 1 \in 1..m - 1 /\ j - 1 \in 1..m - 1
              /\ i - 1 < j - 1
          BY <2>3, <2>8, <3>1, <4>5
        <5> QED BY <4>0, <5>1
      <4> QED BY <2>8, <4>1, <4>2, <4>3, <4>4, <4>5
    <3> QED BY <3>1
  <2> HIDE DEF p, Onto, Orders
  <2> QED BY <2>2, <2>11, <2>12, <2>13
<1>2. n \in 0..n
  OBVIOUS
<1> QED BY <1>1, <1>2

(* What chunk.sort() leaves.                                              *)
LEMMA SortedRows ==
  ASSUME NEW rows \in Seq(RawRows)
  PROVE  /\ Sorted(rows) \in Seq(RawRows) /\ Len(Sorted(rows)) = Len(rows)
         /\ Rows(Sorted(rows)) = Rows(rows)
         /\ InOrder(Sorted(rows))
<1> DEFINE n == Len(rows)
           D == 1..n
           P == {q \in [D -> D] : \A j \in D : \E i \in D : q[i] = j}
           Orders(p) == \A i, j \in D : i < j => ~Before(rows[p[j]], rows[p[i]])
           order == CHOOSE p \in P : Orders(p)
<1>1. DOMAIN rows = D /\ n \in Nat /\ (\A i \in D : rows[i] \in Row) /\ \A i \in D : rows[i] \in RawRows
  BY CanonicalizeAssumption DEF Row
<1> HIDE DEF n
<1>2. \E p \in P : Orders(p)
  BY <1>1, OrderExists
<1>3. order \in P /\ Orders(order)
  <2> HIDE DEF P, Orders
  <2> QED BY <1>2
<1>4. Sorted(rows) = [i \in D |-> rows[order[i]]]
  BY <1>1 DEF Sorted
<1> HIDE DEF order
<1>5. DOMAIN Sorted(rows) = D /\ \A i \in D : order[i] \in D /\ Sorted(rows)[i] = rows[order[i]]
  BY <1>3, <1>4
<1>6. Rows(Sorted(rows)) = Rows(rows)
  <2>1. Rows(Sorted(rows)) \subseteq Rows(rows)
    BY <1>1, <1>5 DEF Rows
  <2>2. ASSUME NEW j \in D PROVE rows[j] \in Rows(Sorted(rows))
    <3>1. PICK i \in D : order[i] = j
      BY <1>3
    <3> QED BY <1>5, <3>1 DEF Rows
  <2> QED BY <1>1, <2>1, <2>2 DEF Rows
<1>7. InOrder(Sorted(rows))
  BY <1>3, <1>5, ZenonT(30) DEF InOrder
<1>8. Sorted(rows) \in Seq(RawRows) /\ Len(Sorted(rows)) = n
  <2>1. \A i \in D : Sorted(rows)[i] \in RawRows
    BY <1>1, <1>5
  <2> QED BY <1>1, <1>4, <1>5, <2>1 DEF n
<1> QED BY <1>6, <1>7, <1>8 DEF n

(* The rows that some runs hold, and how many, repeated ones included.    *)
RowsOf(rs) == UNION {Rows(rs[i]) : i \in DOMAIN rs}
LenOf(rs) == SumFunction([i \in DOMAIN rs |-> Len(rs[i])])
EachInOrder(rs) == \A i \in DOMAIN rs : InOrder(rs[i])

(* Spilling a chunk.                                                      *)
LEMMA SpillEffect ==
  ASSUME NEW rs \in Seq(Seq(RawRows)), NEW c \in Seq(RawRows), EachInOrder(rs)
  PROVE  LET new == Append(rs, Sorted(c))
         IN  /\ new \in Seq(Seq(RawRows)) /\ EachInOrder(new)
             /\ RowsOf(new) = RowsOf(rs) \cup Rows(c)
             /\ LenOf(rs) \in Int /\ LenOf(new) = LenOf(rs) + Len(c)
<1> DEFINE run == Sorted(c)
           new == Append(rs, run)
           n == Len(rs)
<1>1. run \in Seq(RawRows) /\ Len(run) = Len(c) /\ Rows(run) = Rows(c) /\ InOrder(run)
  BY SortedRows
<1> HIDE DEF run
<1>2. /\ new \in Seq(Seq(RawRows)) /\ n \in Nat /\ DOMAIN rs = 1..n /\ DOMAIN new = 1..n + 1
      /\ new[n + 1] = run /\ \A i \in 1..n : new[i] = rs[i] /\ rs[i] \in Seq(RawRows)
  BY <1>1
<1> HIDE DEF new, n
<1>3. EachInOrder(new)
  <2>1. ASSUME NEW i \in 1..n + 1 PROVE InOrder(new[i])
    <3>1. i \in 1..n \/ i = n + 1
      BY <1>2
    <3> QED BY <1>1, <1>2, <3>1 DEF EachInOrder
  <2> QED BY <1>2, <2>1 DEF EachInOrder
<1>4. RowsOf(new) = RowsOf(rs) \cup Rows(c)
  <2>1. \A i \in 1..n + 1 : i \in 1..n \/ i = n + 1
    BY <1>2
  <2>2. RowsOf(new) \subseteq RowsOf(rs) \cup Rows(c)
    BY <1>1, <1>2, <2>1 DEF RowsOf
  <2>3. \A i \in 1..n : i \in 1..n + 1
    BY <1>2
  <2>4. n + 1 \in 1..n + 1
    BY <1>2
  <2>5. RowsOf(rs) \cup Rows(c) \subseteq RowsOf(new)
    BY <1>1, <1>2, <2>3, <2>4 DEF RowsOf
  <2> QED BY <2>2, <2>5
<1>5. LenOf(rs) \in Int /\ LenOf(new) = LenOf(rs) + Len(c)
  <2> DEFINE f == [i \in DOMAIN new |-> Len(new[i])]
             g == [i \in DOMAIN rs |-> Len(rs[i])]
  <2>1. /\ DOMAIN f = 1..n + 1 /\ DOMAIN g = 1..n /\ f[n + 1] = Len(c)
        /\ (\A k \in 1..n + 1 : f[k] \in Int) /\ \A k \in 1..n : g[k] = f[k]
    <3>1. ASSUME NEW k \in 1..n + 1 PROVE f[k] \in Int
      <4>1. k \in 1..n \/ k = n + 1
        BY <1>2
      <4>2. new[k] \in Seq(RawRows)
        BY <1>1, <1>2, <4>1
      <4> QED BY <1>2, <4>2
    <3>2. n + 1 \in 1..n + 1 /\ \A k \in 1..n : k \in 1..n + 1
      BY <1>2
    <3> QED BY <1>1, <1>2, <3>1, <3>2
  <2> HIDE DEF f, g
  <2>2. SumFunction(g) \in Int /\ SumFunction(f) = SumFunction(g) + f[n + 1]
    BY <1>2, <2>1, SumOfOneMore
  <2>3. LenOf(new) = SumFunction(f) /\ LenOf(rs) = SumFunction(g)
    BY DEF LenOf, f, g
  <2> QED BY <2>1, <2>2, <2>3
<1> QED BY <1>2, <1>3, <1>4, <1>5 DEF new, run

(* heapq.merge takes a smallest head: no waiting row is before it.        *)
LEMMA TakeEffect ==
  ASSUME NEW rs \in Seq(Seq(RawRows)), EachInOrder(rs), NEW i \in DOMAIN rs, rs[i] # <<>>,
         \A j \in DOMAIN rs : rs[j] # <<>> => ~Before(Head(rs[j]), Head(rs[i]))
  PROVE  LET new == [rs EXCEPT ![i] = Tail(@)]
         IN  /\ new \in Seq(Seq(RawRows)) /\ EachInOrder(new)
             /\ Head(rs[i]) \in RawRows /\ RowsOf(rs) = RowsOf(new) \cup {Head(rs[i])}
             /\ LenOf(new) \in Int /\ LenOf(rs) = LenOf(new) + 1
             /\ \A r \in RowsOf(rs) : ~Before(r, Head(rs[i]))
<1> DEFINE run == rs[i]
           h == Head(run)
           rest == Tail(run)
           new == [rs EXCEPT ![i] = rest]
           n == Len(rs)
<1>1. /\ run \in Seq(RawRows) /\ Len(run) \in Nat /\ Len(run) > 0
      /\ h = run[1] /\ h \in RawRows
      /\ rest \in Seq(RawRows) /\ Len(rest) = Len(run) - 1
      /\ \A k \in 1..Len(run) - 1 : rest[k] = run[k + 1]
  OBVIOUS
<1>2. /\ new \in Seq(Seq(RawRows)) /\ n \in Nat /\ DOMAIN rs = 1..n /\ DOMAIN new = 1..n
      /\ new[i] = rest /\ i \in 1..n
      /\ \A j \in 1..n : rs[j] \in Seq(RawRows) /\ (j # i => new[j] = rs[j])
  <2>1. rest \in Seq(RawRows)
    BY <1>1
  <2> HIDE DEF rest
  <2> QED BY <2>1
<1> HIDE DEF new, n
<1>3. InOrder(run) /\ InOrder(rest) /\ EachInOrder(new)
  <2>1. InOrder(run)
    BY DEF EachInOrder
  <2>2. InOrder(rest)
    <3>1. ASSUME NEW k \in 1..Len(run) - 1, NEW l \in 1..Len(run) - 1, k < l
          PROVE  ~Before(rest[l], rest[k])
      <4>1. k + 1 \in DOMAIN run /\ l + 1 \in DOMAIN run /\ k + 1 < l + 1
        BY <1>1, <3>1
      <4>2. ~Before(run[l + 1], run[k + 1])
        BY <2>1, <4>1 DEF InOrder
      <4> QED BY <1>1, <4>2
    <3>2. DOMAIN rest = 1..Len(run) - 1
      BY <1>1
    <3> QED BY <3>1, <3>2 DEF InOrder
  <2> HIDE DEF rest, run
  <2>3. EachInOrder(new)
    BY <1>2, <2>2 DEF EachInOrder
  <2> QED BY <2>1, <2>2, <2>3
<1>4. Rows(run) = Rows(rest) \cup {h}
  <2>1. DOMAIN run = 1..Len(run) /\ DOMAIN rest = 1..Len(run) - 1
    BY <1>1
  <2>2. Rows(run) \subseteq Rows(rest) \cup {h}
    <3>1. ASSUME NEW k \in 1..Len(run) PROVE run[k] = h \/ \E l \in 1..Len(run) - 1 : rest[l] = run[k]
      <4>1. CASE k = 1
        BY <1>1, <4>1
      <4>2. CASE k # 1
        <5>1. k - 1 \in 1..Len(run) - 1 /\ (k - 1) + 1 = k
          BY <1>1, <4>2
        <5> QED BY <1>1, <5>1
      <4> QED BY <4>1, <4>2
    <3> QED BY <2>1, <3>1 DEF Rows
  <2>3. h \in Rows(run)
    <3>1. 1 \in 1..Len(run) /\ h = run[1]
      BY <1>1
    <3> QED BY <2>1, <3>1 DEF Rows
  <2>4. Rows(rest) \subseteq Rows(run)
    <3>1. \A k \in 1..Len(run) - 1 : k + 1 \in 1..Len(run)
      BY <1>1
    <3> QED BY <1>1, <2>1, <3>1 DEF Rows
  <2> QED BY <2>2, <2>3, <2>4
<1>5. RowsOf(rs) = RowsOf(new) \cup {h}
  <2> HIDE DEF h, rest
  <2>1. RowsOf(rs) \subseteq RowsOf(new) \cup {h}
    <3>1. ASSUME NEW j \in 1..n, NEW r \in Rows(rs[j]) PROVE r \in RowsOf(new) \cup {h}
      <4>1. CASE j = i
        BY <1>2, <1>4, <4>1 DEF RowsOf
      <4>2. CASE j # i
        BY <1>2, <4>2 DEF RowsOf
      <4> QED BY <4>1, <4>2
    <3> QED BY <1>2, <3>1 DEF RowsOf
  <2>2. RowsOf(new) \cup {h} \subseteq RowsOf(rs)
    <3>1. ASSUME NEW j \in 1..n, NEW r \in Rows(new[j]) PROVE r \in RowsOf(rs)
      <4>1. CASE j = i
        BY <1>2, <1>4, <4>1 DEF RowsOf
      <4>2. CASE j # i
        BY <1>2, <4>2 DEF RowsOf
      <4> QED BY <4>1, <4>2
    <3>2. h \in RowsOf(rs)
      BY <1>2, <1>4 DEF RowsOf
    <3> QED BY <1>2, <3>1, <3>2 DEF RowsOf
  <2> QED BY <2>1, <2>2
<1>6. LenOf(new) \in Int /\ LenOf(rs) = LenOf(new) + 1
  <2> DEFINE f == [k \in DOMAIN rs |-> Len(rs[k])]
             g == [k \in DOMAIN new |-> Len(new[k])]
  <2>1. /\ DOMAIN f = 1..n /\ DOMAIN g = 1..n /\ g[i] = f[i] - 1
        /\ (\A k \in 1..n : f[k] \in Int /\ g[k] \in Int)
        /\ \A k \in 1..n : k # i => g[k] = f[k]
    <3> HIDE DEF rest
    <3>1. \A k \in 1..n : new[k] \in Seq(RawRows)
      BY <1>1, <1>2
    <3> QED BY <1>1, <1>2, <3>1
  <2> HIDE DEF f, g
  <2>2. /\ SumFunction(f) \in Int /\ SumFunction(g) \in Int
        /\ SumFunction(g) - g[i] = SumFunction(f) - f[i]
    BY <1>2, <2>1, SumOfOneChanged
  <2>3. LenOf(rs) = SumFunction(f) /\ LenOf(new) = SumFunction(g)
    BY DEF LenOf, f, g
  <2>4. f[i] \in Int /\ g[i] = f[i] - 1
    BY <1>2, <2>1
  <2> QED BY <2>2, <2>3, <2>4
<1>7. ASSUME NEW r \in RowsOf(rs) PROVE ~Before(r, h)
  <2>1. PICK j \in 1..n : r \in Rows(rs[j])
    BY <1>2 DEF RowsOf
  <2>2. PICK k \in DOMAIN rs[j] : r = rs[j][k]
    BY <2>1 DEF Rows
  <2> DEFINE other == rs[j]
             hj == Head(other)
  <2>3. /\ other \in Seq(RawRows) /\ k \in 1..Len(other) /\ r = other[k] /\ hj = other[1]
        /\ 1 \in 1..Len(other) /\ other # <<>>
    BY <1>2, <2>1, <2>2
  <2>4. r \in Row /\ h \in Row /\ hj \in Row
    <3>1. r \in RawRows /\ hj \in RawRows /\ h \in RawRows
      BY <1>1, <2>3
    <3> QED BY <3>1, CanonicalizeAssumption DEF Row
  <2>5. ~Before(hj, h)
    BY <1>2, <2>1, <2>3
  <2>6. r = hj \/ ~Before(r, hj)
    <3>1. k = 1 \/ 1 < k
      BY <2>3
    <3>2. InOrder(other)
      BY <1>2, <2>1 DEF EachInOrder
    <3> QED BY <2>3, <3>1, <3>2 DEF InOrder
  <2> HIDE DEF h, hj
  <2> QED BY <2>4, <2>5, <2>6, BeforeIsOrder
<1>8. new \in Seq(Seq(RawRows)) /\ h \in RawRows
  BY <1>1, <1>2
<1> QED BY <1>3, <1>5, <1>6, <1>7, <1>8 DEF new

(* The counters of the ledger.                                            *)
Accounts == {"raw", "negative", "before", "after", "calendar", "inWindow",
             "duplicates", "emitted", "chunks"}

(* The invariant. While the tool runs, every in-window row is in the      *)
(* chunk, in a run or in the output, and every row read is accounted for; *)
(* while it merges, the output is strictly in order, no waiting row is    *)
(* before its last one, and prev_key is that row's key.                   *)
FilesType ==
  /\ raw \subseteq RawRows /\ chunk \in Seq(RawRows) /\ runs \in Seq(Seq(RawRows))
  /\ canonical \in Seq(RawRows) /\ acct \in [Accounts -> Nat]

Sorting == stage \in {"reading", "merging"}

RowsAccounted ==
  Sorting => /\ acct.raw = acct.emitted + acct.calendar + acct.duplicates + Len(chunk) + LenOf(runs)
             /\ Rows(chunk) \cup RowsOf(runs) \cup Rows(canonical) = Kept

RunsInOrder == Sorting => EachInOrder(runs)

NothingWritten ==
  /\ stage = "reading" => canonical = <<>> /\ prevKey = None
  /\ Sorting => ledger = <<>>

LastRow == canonical[Len(canonical)]

MergedSoFar ==
  stage = "merging" =>
    /\ chunk = <<>>
    /\ prevKey = IF canonical = <<>> THEN None ELSE SortKey(LastRow)
    /\ canonical # <<>> => \A r \in RowsOf(runs) : ~Before(r, LastRow)

CanonInv == /\ FilesType /\ RowsAccounted /\ RunsInOrder /\ NothingWritten /\ MergedSoFar
            /\ CanonicalIsSortedSet

(* It holds initially.                                                    *)
LEMMA CanonStart == Init => CanonInv
<1> SUFFICES ASSUME Init PROVE CanonInv
  OBVIOUS
<1>1. /\ stage = "reading" /\ raw = {} /\ chunk = <<>> /\ runs = <<>> /\ acct = NoAccounting
      /\ prevKey = None /\ canonical = <<>> /\ ledger = <<>>
  BY DEF Init, CanonInit, None
<1>2. FilesType
  BY <1>1 DEF FilesType, Accounts, NoAccounting
<1>3. RowsAccounted
  <2>1. Rows(chunk) = {} /\ RowsOf(runs) = {} /\ Rows(canonical) = {} /\ Kept = {}
    BY <1>1 DEF Rows, RowsOf, Kept
  <2>2. LenOf(runs) = 0
    <3>1. DOMAIN [i \in DOMAIN runs |-> Len(runs[i])] = {}
      BY <1>1
    <3> QED BY <3>1, SumOfNothing DEF LenOf
  <2> QED BY <1>1, <2>1, <2>2 DEF RowsAccounted, NoAccounting
<1>4. RunsInOrder /\ NothingWritten /\ MergedSoFar /\ CanonicalIsSortedSet
  BY <1>1 DEF RunsInOrder, EachInOrder, NothingWritten, MergedSoFar, CanonicalIsSortedSet
<1> QED BY <1>2, <1>3, <1>4 DEF CanonInv

(* A counter is raised.                                                   *)
Plus(a, j, n) == [a EXCEPT ![j] = @ + n]

(* That counter only.                                                     *)
LEMMA CountUp ==
  ASSUME NEW a \in [Accounts -> Nat], NEW j \in Accounts, NEW n \in Nat, NEW b, b = Plus(a, j, n)
  PROVE  b \in [Accounts -> Nat] /\ b[j] = a[j] + n /\ \A k \in Accounts \ {j} : b[k] = a[k]
BY DEF Plus

(* Three counters are raised: the rows read, another one, a third one.     *)
Raised(a, j, k, n) == [a EXCEPT !["raw"] = @ + 1, ![j] = @ + 1, ![k] = @ + n]

(* Those counters only, each once.                                        *)
LEMMA CountRow ==
  ASSUME NEW a \in [Accounts -> Nat], NEW j \in Accounts, NEW k \in Accounts, NEW n \in Nat,
         "raw" # j, "raw" # k, j # k, NEW b, b = Raised(a, j, k, n)
  PROVE  /\ b \in [Accounts -> Nat]
         /\ b["raw"] = a["raw"] + 1 /\ b[j] = a[j] + 1 /\ b[k] = a[k] + n
         /\ \A i \in Accounts : i # "raw" /\ i # j /\ i # k => b[i] = a[i]
<1> DEFINE b1 == Plus(a, "raw", 1)
           b2 == Plus(b1, j, 1)
           b3 == Plus(b2, k, n)
<1>1. b1 \in [Accounts -> Nat] /\ b1["raw"] = a["raw"] + 1 /\ \A i \in Accounts \ {"raw"} : b1[i] = a[i]
  BY DEF Plus, Accounts
<1> HIDE DEF b1
<1>2. b2 \in [Accounts -> Nat] /\ b2[j] = b1[j] + 1 /\ \A i \in Accounts \ {j} : b2[i] = b1[i]
  BY <1>1 DEF Plus
<1> HIDE DEF b2
<1>3. b3 \in [Accounts -> Nat] /\ b3[k] = b2[k] + n /\ \A i \in Accounts \ {k} : b3[i] = b2[i]
  BY <1>2 DEF Plus
<1>4. b3 = b
  BY DEF b1, b2, Plus, Raised
<1> HIDE DEF b3
<1>5. "raw" \in Accounts
  BY DEF Accounts
<1>6. b3["raw"] = a["raw"] + 1 /\ b3[j] = a[j] + 1 /\ b3[k] = a[k] + n
  BY <1>1, <1>2, <1>3, <1>5
<1>7. \A i \in Accounts : i # "raw" /\ i # j /\ i # k => b3[i] = a[i]
  BY <1>1, <1>2, <1>3
<1> QED BY <1>3, <1>4, <1>6, <1>7

(* The outlier tests select what is outside the campaign.                 *)
LEMMA OutlierIsOutside ==
  ASSUME NEW r \in RawRows
  PROVE  /\ Outlier(r) \in {"negative", "before", "after", "none"}
         /\ Outlier(r) = "none" <=> r.ts \in CampaignStart..CampaignEnd
<1>1. r.ts \in Int /\ CampaignStart \in Nat /\ CampaignEnd \in Nat
  BY CanonicalizeAssumption
<1> QED BY <1>1 DEF Outlier

(* One row more.                                                          *)
LEMMA RowsOfLonger ==
  ASSUME NEW rows, NEW new, NEW r, NEW n \in Nat, DOMAIN rows = 1..n, DOMAIN new = 1..n + 1,
         new[n + 1] = r, \A i \in 1..n : new[i] = rows[i]
  PROVE  Rows(new) = Rows(rows) \cup {r}
<1>1. \A i \in 1..n + 1 : i \in 1..n \/ i = n + 1
  OBVIOUS
<1>2. n + 1 \in 1..n + 1 /\ \A i \in 1..n : i \in 1..n + 1
  OBVIOUS
<1>3. Rows(new) \subseteq Rows(rows) \cup {r}
  BY <1>1 DEF Rows
<1>4. Rows(rows) \cup {r} \subseteq Rows(new)
  BY <1>2 DEF Rows
<1> QED BY <1>3, <1>4

(* Reading a row: an outlier, one that fits the chunk, one that fills it. *)
LEMMA ReadKeeps ==
  ASSUME CanonInv, NEW r \in RawRows, ReadRow(r)
  PROVE  CanonInv'
<1> DEFINE kind == Outlier(r)
           more == Append(chunk, r)
<1>1. /\ stage = "reading" /\ stage' = "reading" /\ raw' = raw \cup {r}
      /\ canonical = <<>> /\ canonical' = <<>> /\ prevKey' = None /\ ledger' = <<>>
  BY DEF ReadRow, CanonInv, NothingWritten, Sorting
<1>2. /\ kind \in {"negative", "before", "after", "none"}
      /\ kind = "none" <=> r.ts \in CampaignStart..CampaignEnd
  BY OutlierIsOutside
<1>3. Kept' = IF kind = "none" THEN Kept \cup {r} ELSE Kept
  BY <1>1, <1>2 DEF Kept
<1>4. raw' \subseteq RawRows
  BY <1>1 DEF CanonInv, FilesType
<1>5. /\ chunk \in Seq(RawRows) /\ runs \in Seq(Seq(RawRows)) /\ acct \in [Accounts -> Nat]
      /\ EachInOrder(runs)
      /\ acct.raw = acct.emitted + acct.calendar + acct.duplicates + Len(chunk) + LenOf(runs)
      /\ Rows(chunk) \cup RowsOf(runs) = Kept
  <2>1. Rows(canonical) = {}
    BY <1>1 DEF Rows
  <2> QED BY <1>1, <2>1 DEF CanonInv, FilesType, RunsInOrder, RowsAccounted, Sorting
<1>6. acct["raw"] \in Nat /\ acct["emitted"] \in Nat /\ acct["calendar"] \in Nat
      /\ acct["duplicates"] \in Nat /\ Len(chunk) \in Nat
  BY <1>5 DEF Accounts
<1>7. more \in Seq(RawRows) /\ Len(more) = Len(chunk) + 1 /\ Rows(more) = Rows(chunk) \cup {r}
  <2>1. more \in Seq(RawRows) /\ Len(more) = Len(chunk) + 1
        /\ DOMAIN more = 1..Len(chunk) + 1 /\ DOMAIN chunk = 1..Len(chunk)
        /\ more[Len(chunk) + 1] = r /\ \A i \in 1..Len(chunk) : more[i] = chunk[i]
    BY <1>5
  <2> HIDE DEF more
  <2> QED BY <1>6, <2>1, RowsOfLonger
<1>8. LenOf(runs) \in Int
  <2>1. <<>> \in Seq(RawRows)
    OBVIOUS
  <2> QED BY <1>5, <2>1, SpillEffect
<1>b. acct["raw"] \in Int /\ acct["emitted"] \in Int /\ acct["calendar"] \in Int
      /\ acct["duplicates"] \in Int /\ Len(chunk) \in Int /\ LenOf(runs) \in Int
  BY <1>6, <1>8
<1> HIDE DEF kind, more
<1>9. /\ chunk' \in Seq(RawRows) /\ runs' \in Seq(Seq(RawRows)) /\ acct' \in [Accounts -> Nat]
      /\ EachInOrder(runs')
      /\ acct'["raw"] = acct'["emitted"] + acct'["calendar"] + acct'["duplicates"]
                          + Len(chunk') + LenOf(runs')
      /\ Rows(chunk') \cup RowsOf(runs') = Kept'
  <2>1. CASE kind # "none"
    <3>1. /\ chunk' = chunk /\ runs' = runs
          /\ acct' = [acct EXCEPT !["raw"] = @ + 1, ![kind] = @ + 1, !["calendar"] = @ + 1]
      BY <2>1 DEF ReadRow, kind
    <3>2. /\ acct' \in [Accounts -> Nat] /\ acct'["raw"] = acct["raw"] + 1
          /\ acct'["calendar"] = acct["calendar"] + 1
          /\ acct'["emitted"] = acct["emitted"] /\ acct'["duplicates"] = acct["duplicates"]
      <4>1. /\ kind \in Accounts /\ "calendar" \in Accounts /\ 1 \in Nat
            /\ "raw" # kind /\ "raw" # "calendar" /\ kind # "calendar"
        BY <1>2, <2>1 DEF Accounts
      <4>2. /\ acct' \in [Accounts -> Nat]
            /\ acct'["raw"] = acct["raw"] + 1 /\ acct'["calendar"] = acct["calendar"] + 1
            /\ \A i \in Accounts : i # "raw" /\ i # kind /\ i # "calendar" => acct'[i] = acct[i]
        <5>1. acct' = Raised(acct, kind, "calendar", 1)
          BY <3>1 DEF Raised
        <5>2. acct \in [Accounts -> Nat]
          BY <1>5
        <5> QED BY <4>1, <5>1, <5>2, CountRow
      <4> QED BY <1>2, <2>1, <4>2 DEF Accounts
    <3>3. Kept' = Kept
      BY <1>3, <2>1
    <3>a. /\ acct'["raw"] = acct'["emitted"] + acct'["calendar"] + acct'["duplicates"]
                              + Len(chunk') + LenOf(runs')
      <4>1. Len(chunk') = Len(chunk) /\ LenOf(runs') = LenOf(runs)
        BY <3>1
      <4>2. acct["raw"] = acct["emitted"] + acct["calendar"] + acct["duplicates"] + Len(chunk) + LenOf(runs)
        BY <1>5
      <4>3. acct["raw"] + 1 = acct["emitted"] + (acct["calendar"] + 1) + acct["duplicates"]
                                + Len(chunk) + LenOf(runs)
        BY <1>b, <4>2, SMTT(30)
      <4> QED BY <3>2, <4>1, <4>3
    <3>b. Rows(chunk') \cup RowsOf(runs') = Kept'
      BY <1>5, <1>6, <1>8, <3>1, <3>2, <3>3
    <3> QED BY <1>5, <1>6, <1>8, <3>1, <3>2, <3>3, <3>a, <3>b
  <2>2. CASE kind = "none" /\ ~(Len(chunk) + 1 >= ChunkSize)
    <3>1. /\ chunk' = more /\ runs' = runs
          /\ acct' = [acct EXCEPT !["raw"] = @ + 1, !["inWindow"] = @ + 1, !["chunks"] = @ + 0]
      BY <2>2 DEF ReadRow, kind, more
    <3>2. /\ acct' \in [Accounts -> Nat] /\ acct'["raw"] = acct["raw"] + 1
          /\ acct'["calendar"] = acct["calendar"]
          /\ acct'["emitted"] = acct["emitted"] /\ acct'["duplicates"] = acct["duplicates"]
      <4>1. /\ "inWindow" \in Accounts /\ "chunks" \in Accounts /\ 0 \in Nat
            /\ "raw" # "inWindow" /\ "raw" # "chunks" /\ "inWindow" # "chunks"
        BY DEF Accounts
      <4>2. /\ acct' \in [Accounts -> Nat] /\ acct'["raw"] = acct["raw"] + 1
            /\ \A i \in Accounts : i # "raw" /\ i # "inWindow" /\ i # "chunks" => acct'[i] = acct[i]
        <5>1. acct' = Raised(acct, "inWindow", "chunks", 0)
          BY <3>1 DEF Raised
        <5>2. acct \in [Accounts -> Nat]
          BY <1>5
        <5> QED BY <4>1, <5>1, <5>2, CountRow
      <4> QED BY <4>2 DEF Accounts
    <3>3. Kept' = Kept \cup {r}
      BY <1>3, <2>2
    <3>a. /\ acct'["raw"] = acct'["emitted"] + acct'["calendar"] + acct'["duplicates"]
                              + Len(chunk') + LenOf(runs')
      <4>1. Len(chunk') = Len(chunk) + 1 /\ LenOf(runs') = LenOf(runs)
        BY <1>7, <3>1
      <4>2. acct["raw"] = acct["emitted"] + acct["calendar"] + acct["duplicates"] + Len(chunk) + LenOf(runs)
        BY <1>5
      <4>3. acct["raw"] + 1 = acct["emitted"] + acct["calendar"] + acct["duplicates"]
                                + (Len(chunk) + 1) + LenOf(runs)
        <5> DEFINE c == Len(chunk)
        <5>1. c \in Int /\ acct["raw"] = acct["emitted"] + acct["calendar"] + acct["duplicates"] + c + LenOf(runs)
          BY <1>b, <4>2
        <5> HIDE DEF c
        <5>2. acct["raw"] + 1 = acct["emitted"] + acct["calendar"] + acct["duplicates"] + (c + 1) + LenOf(runs)
          BY <1>b, <5>1
        <5> QED BY <5>2 DEF c
      <4> QED BY <3>2, <4>1, <4>3
    <3>b. Rows(chunk') \cup RowsOf(runs') = Kept'
      BY <1>5, <1>6, <1>7, <1>8, <3>1, <3>2, <3>3
    <3> QED BY <1>5, <1>6, <1>7, <1>8, <3>1, <3>2, <3>3, <3>a, <3>b
  <2>3. CASE kind = "none" /\ Len(chunk) + 1 >= ChunkSize
    <3>1. /\ chunk' = <<>> /\ runs' = Append(runs, Sorted(more))
          /\ acct' = [acct EXCEPT !["raw"] = @ + 1, !["inWindow"] = @ + 1, !["chunks"] = @ + 1]
      BY <2>3 DEF ReadRow, Spilled, kind, more
    <3>2. /\ acct' \in [Accounts -> Nat] /\ acct'["raw"] = acct["raw"] + 1
          /\ acct'["calendar"] = acct["calendar"]
          /\ acct'["emitted"] = acct["emitted"] /\ acct'["duplicates"] = acct["duplicates"]
      <4>1. /\ "inWindow" \in Accounts /\ "chunks" \in Accounts /\ 1 \in Nat
            /\ "raw" # "inWindow" /\ "raw" # "chunks" /\ "inWindow" # "chunks"
        BY DEF Accounts
      <4>2. /\ acct' \in [Accounts -> Nat] /\ acct'["raw"] = acct["raw"] + 1
            /\ \A i \in Accounts : i # "raw" /\ i # "inWindow" /\ i # "chunks" => acct'[i] = acct[i]
        <5>1. acct' = Raised(acct, "inWindow", "chunks", 1)
          BY <3>1 DEF Raised
        <5>2. acct \in [Accounts -> Nat]
          BY <1>5
        <5> QED BY <4>1, <5>1, <5>2, CountRow
      <4> QED BY <4>2 DEF Accounts
    <3>3. Kept' = Kept \cup {r}
      BY <1>3, <2>3
    <3>4. /\ runs' \in Seq(Seq(RawRows)) /\ EachInOrder(runs')
          /\ RowsOf(runs') = RowsOf(runs) \cup Rows(more)
          /\ LenOf(runs') = LenOf(runs) + Len(more)
      BY <1>5, <1>7, <3>1, SpillEffect
    <3>5. chunk' \in Seq(RawRows) /\ Len(chunk') = 0 /\ Rows(chunk') = {}
      BY <3>1 DEF Rows
    <3>a. /\ acct'["raw"] = acct'["emitted"] + acct'["calendar"] + acct'["duplicates"]
                              + Len(chunk') + LenOf(runs')
      BY <1>5, <1>6, <1>7, <1>8, <3>2, <3>3, <3>4, <3>5
    <3>b. Rows(chunk') \cup RowsOf(runs') = Kept'
      BY <1>5, <1>6, <1>7, <1>8, <3>2, <3>3, <3>4, <3>5
    <3> QED BY <1>5, <1>6, <1>7, <1>8, <3>2, <3>3, <3>4, <3>5, <3>a, <3>b
  <2> QED BY <2>1, <2>2, <2>3
<1>10. FilesType'
  BY <1>1, <1>4, <1>9 DEF FilesType
<1>11. RowsAccounted'
  <2>1. Rows(canonical') = {}
    BY <1>1 DEF Rows
  <2> QED BY <1>9, <2>1 DEF RowsAccounted
<1>12. RunsInOrder' /\ NothingWritten' /\ MergedSoFar' /\ CanonicalIsSortedSet'
  BY <1>1, <1>9 DEF RunsInOrder, NothingWritten, MergedSoFar, CanonicalIsSortedSet
<1> QED BY <1>10, <1>11, <1>12 DEF CanonInv

(* A malformed row.                                                       *)
LEMMA MalformedKeeps ==
  ASSUME CanonInv, ReadMalformed
  PROVE  CanonInv'
<1>1. /\ stage = "reading" /\ stage' = "failed" /\ canonical = <<>> /\ canonical' = <<>>
      /\ raw' = raw /\ chunk' = chunk /\ runs' = runs /\ ledger' = <<>>
      /\ acct' = [acct EXCEPT !["raw"] = @ + 1]
  BY DEF ReadMalformed, CanonInv, NothingWritten, Sorting
<1>2. FilesType'
  <2>1. FilesType
    BY DEF CanonInv
  <2> QED BY <1>1, <2>1 DEF FilesType, Accounts
<1>3. RowsAccounted' /\ RunsInOrder' /\ NothingWritten' /\ MergedSoFar'
  BY <1>1 DEF RowsAccounted, RunsInOrder, NothingWritten, MergedSoFar, Sorting
<1>4. CanonicalIsSortedSet'
  <2>1. Rows(canonical') = {}
    BY <1>1 DEF Rows
  <2> QED BY <1>1, <2>1 DEF CanonicalIsSortedSet
<1> QED BY <1>2, <1>3, <1>4 DEF CanonInv

(* The end of the input.                                                  *)
LEMMA EndKeeps ==
  ASSUME CanonInv, EndOfInput
  PROVE  CanonInv'
<1>1. /\ stage = "reading" /\ stage' = "merging" /\ raw' = raw /\ chunk' = <<>>
      /\ canonical = <<>> /\ canonical' = <<>> /\ prevKey' = None /\ ledger' = <<>>
      /\ runs' = IF chunk = <<>> THEN runs ELSE Append(runs, Sorted(chunk))
      /\ acct' = [acct EXCEPT !["chunks"] = @ + IF chunk = <<>> THEN 0 ELSE 1]
  BY DEF EndOfInput, Spilled, CanonInv, NothingWritten, Sorting
<1>2. /\ chunk \in Seq(RawRows) /\ runs \in Seq(Seq(RawRows)) /\ acct \in [Accounts -> Nat]
      /\ EachInOrder(runs) /\ raw \subseteq RawRows
      /\ acct.raw = acct.emitted + acct.calendar + acct.duplicates + Len(chunk) + LenOf(runs)
      /\ Rows(chunk) \cup RowsOf(runs) = Kept
  <2>1. Rows(canonical) = {}
    BY <1>1 DEF Rows
  <2> QED BY <1>1, <2>1 DEF CanonInv, FilesType, RunsInOrder, RowsAccounted, Sorting
<1>3. /\ runs' \in Seq(Seq(RawRows)) /\ EachInOrder(runs')
      /\ RowsOf(runs') = RowsOf(runs) \cup Rows(chunk)
      /\ LenOf(runs) \in Int /\ LenOf(runs') = LenOf(runs) + Len(chunk)
  <2>1. CASE chunk = <<>>
    <3>1. Rows(chunk) = {} /\ Len(chunk) = 0 /\ runs' = runs
      BY <1>1, <2>1 DEF Rows
    <3>2. LenOf(runs) \in Int
      BY <1>2, SpillEffect
    <3> QED BY <1>2, <3>1, <3>2
  <2>2. CASE chunk # <<>>
    <3>1. runs' = Append(runs, Sorted(chunk))
      BY <1>1, <2>2
    <3> QED BY <1>2, <3>1, SpillEffect
  <2> QED BY <2>1, <2>2
<1>4. /\ acct' \in [Accounts -> Nat] /\ acct'["raw"] = acct["raw"]
      /\ acct'["calendar"] = acct["calendar"]
      /\ acct'["emitted"] = acct["emitted"] /\ acct'["duplicates"] = acct["duplicates"]
  BY <1>1, <1>2, SMTT(30) DEF Accounts
<1>5. /\ acct["raw"] \in Nat /\ acct["emitted"] \in Nat /\ acct["calendar"] \in Nat
      /\ acct["duplicates"] \in Nat /\ Len(chunk) \in Nat
  BY <1>2 DEF Accounts
<1>6. Rows(chunk') = {} /\ Len(chunk') = 0 /\ Rows(canonical') = {} /\ Kept' = Kept
  BY <1>1 DEF Rows, Kept
<1>7. FilesType'
  BY <1>1, <1>2, <1>3, <1>4 DEF FilesType
<1>8. RowsAccounted'
  BY <1>2, <1>3, <1>4, <1>5, <1>6, SMTT(30) DEF RowsAccounted
<1>9. RunsInOrder' /\ NothingWritten' /\ MergedSoFar'
  BY <1>1, <1>3 DEF RunsInOrder, NothingWritten, MergedSoFar
<1>10. CanonicalIsSortedSet'
  BY <1>1, <1>6 DEF CanonicalIsSortedSet
<1> QED BY <1>7, <1>8, <1>9, <1>10 DEF CanonInv

-----------------------------------------------------------------------------
(* In order without repetition; and ahead of all of some other rows.      *)
Strict(rows) == \A i, j \in DOMAIN rows : i < j => Before(rows[i], rows[j])
Ahead(rows, others) == \A r \in others, i \in DOMAIN rows : Before(rows[i], r)

(* The raw file holds rows.                                               *)
LEMMA RowsAreRows ==
  RawRows \subseteq Row
BY CanonicalizeAssumption DEF Row

(* The property over Before instead of the contract's order.              *)
LEMMA SortedSetMeans ==
  ASSUME canonical \in Seq(RawRows), raw \subseteq RawRows
  PROVE  CanonicalIsSortedSet
           <=> (stage # "reading" =>
                  /\ Strict(canonical) /\ Ahead(canonical, Kept \ Rows(canonical))
                  /\ Rows(canonical) \subseteq Kept
                  /\ ledger # <<>> => Rows(canonical) = Kept /\ ledger[1].conservation)
<1>1. \A i \in DOMAIN canonical : canonical[i] \in Row
  BY RowsAreRows
<1>2. \A r \in Kept : r \in Row
  BY RowsAreRows DEF Kept
<1>3. (\A i, j \in DOMAIN canonical : i < j => Later(canonical[i], canonical[j])) <=> Strict(canonical)
  BY <1>1, BeforeIsOrder DEF Strict
<1>4. (\A r \in Kept \ Rows(canonical), i \in DOMAIN canonical : Later(canonical[i], r))
        <=> Ahead(canonical, Kept \ Rows(canonical))
  BY <1>1, <1>2, BeforeIsOrder DEF Ahead
<1> QED BY <1>3, <1>4 DEF CanonicalIsSortedSet

(* One row of the merge: it is written after a smaller last row, or it    *)
(* repeats the last row.                                                  *)
LEMMA MergeKeeps ==
  ASSUME CanonInv, Merge
  PROVE  CanonInv'
<1>1. /\ stage = "merging" /\ stage' = "merging" /\ raw' = raw /\ chunk' = chunk
      /\ ledger' = ledger /\ Sorting
  BY DEF Merge, Sorting
<1>2. PICK i \in DOMAIN runs : /\ Smallest(i) /\ runs' = [runs EXCEPT ![i] = Tail(@)]
                               /\ Emit(Head(runs[i])) \/ Skip(Head(runs[i]))
  BY DEF Merge
<1> DEFINE h == Head(runs[i])
<1>3. /\ raw \subseteq RawRows /\ chunk = <<>> /\ chunk \in Seq(RawRows) /\ ledger = <<>>
      /\ runs \in Seq(Seq(RawRows)) /\ canonical \in Seq(RawRows) /\ acct \in [Accounts -> Nat]
      /\ EachInOrder(runs)
      /\ prevKey = IF canonical = <<>> THEN None ELSE SortKey(LastRow)
      /\ canonical # <<>> => \A r \in RowsOf(runs) : ~Before(r, LastRow)
      /\ acct["raw"] = acct["emitted"] + acct["calendar"] + acct["duplicates"] + Len(chunk) + LenOf(runs)
      /\ RowsOf(runs) \cup Rows(canonical) = Kept
  <2>1. FilesType /\ RowsAccounted /\ RunsInOrder /\ NothingWritten /\ MergedSoFar
    BY DEF CanonInv
  <2>2. chunk = <<>>
    BY <1>1, <2>1 DEF MergedSoFar
  <2>3. Rows(chunk) = {}
    BY <2>2 DEF Rows
  <2>4. Rows(chunk) \cup RowsOf(runs) \cup Rows(canonical) = Kept
    BY <1>1, <2>1 DEF RowsAccounted
  <2>5. RowsOf(runs) \cup Rows(canonical) = Kept
    BY <2>3, <2>4
  <2> QED BY <1>1, <2>1, <2>2, <2>5 DEF FilesType, RowsAccounted, RunsInOrder, NothingWritten, MergedSoFar
<1>4. /\ runs' \in Seq(Seq(RawRows)) /\ EachInOrder(runs') /\ h \in RawRows
      /\ RowsOf(runs) = RowsOf(runs') \cup {h}
      /\ LenOf(runs') \in Int /\ LenOf(runs) = LenOf(runs') + 1
      /\ \A r \in RowsOf(runs) : ~Before(r, h)
  <2>1. runs[i] # <<>> /\ \A j \in DOMAIN runs : runs[j] # <<>> => ~Before(Head(runs[j]), Head(runs[i]))
    BY <1>2 DEF Smallest
  <2> QED BY <1>2, <1>3, <2>1, TakeEffect
<1>5. Strict(canonical) /\ Ahead(canonical, Kept \ Rows(canonical)) /\ Rows(canonical) \subseteq Kept
  BY <1>1, <1>3, SortedSetMeans DEF CanonInv
<1>6. Kept' = Kept
  BY <1>1 DEF Kept
<1>7. RowsOf(runs) \subseteq Kept /\ Kept \subseteq RawRows /\ Rows(canonical) \subseteq RawRows
  BY <1>3 DEF Kept
<1>8. /\ acct["raw"] \in Nat /\ acct["emitted"] \in Nat /\ acct["calendar"] \in Nat
      /\ acct["duplicates"] \in Nat /\ Len(chunk) = 0 /\ LenOf(runs) \in Int
  BY <1>3, <1>4 DEF Accounts
<1>9. acct["raw"] = acct["emitted"] + acct["calendar"] + acct["duplicates"] + 1 + LenOf(runs')
  <2> DEFINE l == LenOf(runs)
             k == LenOf(runs')
  <2>1. l \in Int /\ k \in Int /\ l = k + 1
        /\ acct["raw"] = acct["emitted"] + acct["calendar"] + acct["duplicates"] + 0 + l
    BY <1>3, <1>4, <1>8
  <2> HIDE DEF l, k
  <2>2. acct["raw"] = acct["emitted"] + acct["calendar"] + acct["duplicates"] + 1 + k
    BY <1>8, <2>1
  <2> QED BY <2>2 DEF k
<1> DEFINE n == Len(canonical)
<1>10. /\ DOMAIN canonical = 1..n /\ n \in Nat /\ (canonical = <<>> <=> n = 0)
       /\ LastRow = canonical[n] /\ (canonical # <<>> => LastRow \in RawRows /\ LastRow \in Rows(canonical))
  <2>1. n \in Nat /\ DOMAIN canonical = 1..n /\ (canonical = <<>> <=> n = 0) /\ \A k \in 1..n : canonical[k] \in RawRows
    BY <1>3, SMTT(30)
  <2>2. canonical # <<>> => n \in 1..n
    BY <2>1
  <2> QED BY <2>1, <2>2 DEF LastRow, Rows
<1> HIDE DEF h, n
<1>11. CASE Emit(h)
  <2>1. /\ prevKey # SortKey(h) /\ canonical' = Append(canonical, h) /\ prevKey' = SortKey(h)
        /\ acct' = [acct EXCEPT !["emitted"] = @ + 1]
    BY <1>11 DEF Emit, IsDuplicate
  <2>2. /\ canonical' \in Seq(RawRows) /\ Len(canonical') = n + 1 /\ canonical' # <<>>
        /\ DOMAIN canonical' = 1..n + 1 /\ canonical'[n + 1] = h
        /\ \A k \in 1..n : canonical'[k] = canonical[k]
        /\ Rows(canonical') = Rows(canonical) \cup {h} /\ LastRow' = h
    <3>1. /\ canonical' \in Seq(RawRows) /\ Len(canonical') = Len(canonical) + 1 /\ canonical' # <<>>
          /\ DOMAIN canonical' = 1..Len(canonical) + 1 /\ canonical'[Len(canonical) + 1] = h
          /\ \A k \in 1..Len(canonical) : canonical'[k] = canonical[k]
      BY <1>3, <1>4, <2>1, SMTT(30)
    <3>2. n \in Nat /\ DOMAIN canonical = 1..n /\ DOMAIN canonical' = 1..n + 1 /\ canonical'[n + 1] = h
          /\ \A k \in 1..n : canonical'[k] = canonical[k]
      BY <1>10, <3>1 DEF n
    <3>3. Rows(canonical') = Rows(canonical) \cup {h}
      BY <3>2, RowsOfLonger
    <3> QED BY <3>1, <3>2, <3>3 DEF n, LastRow
  <2>3. \A k \in 1..n : Before(canonical[k], h)
    <3> SUFFICES ASSUME NEW k \in 1..n PROVE Before(canonical[k], h)
      OBVIOUS
    <3>1. canonical # <<>> /\ LastRow \in Row /\ h \in Row /\ canonical[k] \in Row
          /\ SortKey(h) # SortKey(LastRow)
      BY <1>3, <1>4, <1>10, <2>1, RowsAreRows
    <3>2. h \in RowsOf(runs) /\ h # LastRow
      BY <1>4, <3>1
    <3>3. Before(LastRow, h)
      BY <1>3, <3>1, <3>2, BeforeIsOrder
    <3>4. k = n \/ Before(canonical[k], canonical[n])
      <4>1. k = n \/ k < n
        BY <1>10
      <4>2. n \in 1..n
        BY <1>10
      <4> QED BY <1>5, <1>10, <4>1, <4>2 DEF Strict
    <3> QED BY <1>10, <3>1, <3>3, <3>4, BeforeIsOrder
  <2>4. Strict(canonical')
    <3>1. ASSUME NEW j \in 1..n + 1, NEW k \in 1..n + 1, j < k
          PROVE  Before(canonical'[j], canonical'[k])
      <4>1. j \in 1..n /\ (k \in 1..n \/ k = n + 1)
        BY <1>10, <3>1
      <4>2. k \in 1..n => Before(canonical[j], canonical[k])
        BY <1>5, <1>10, <3>1, <4>1 DEF Strict
      <4> QED BY <2>2, <2>3, <4>1, <4>2
    <3> QED BY <2>2, <3>1 DEF Strict
  <2>5. Ahead(canonical', Kept' \ Rows(canonical'))
    <3>1. ASSUME NEW r \in Kept \ Rows(canonical'), NEW k \in 1..n + 1 PROVE Before(canonical'[k], r)
      <4>1. r \in Row /\ h \in Row /\ r # h /\ r \in RowsOf(runs)
        BY <1>3, <1>4, <1>7, <2>2, RowsAreRows
      <4>2. Before(h, r)
        BY <1>4, <4>1, BeforeIsOrder
      <4>3. k \in 1..n \/ k = n + 1
        BY <1>10
      <4>4. k \in 1..n => canonical[k] \in Row
        BY <1>3, <1>10, RowsAreRows
      <4> QED BY <2>2, <2>3, <4>1, <4>2, <4>3, <4>4, BeforeIsOrder
    <3> QED BY <1>6, <2>2, <3>1 DEF Ahead
  <2>6. Rows(canonical') \subseteq Kept'
    BY <1>4, <1>5, <1>6, <1>7, <2>2
  <2>7. /\ acct' \in [Accounts -> Nat] /\ acct'["raw"] = acct["raw"]
        /\ acct'["calendar"] = acct["calendar"]
        /\ acct'["emitted"] = acct["emitted"] + 1 /\ acct'["duplicates"] = acct["duplicates"]
    <3>1. acct' = Plus(acct, "emitted", 1)
      BY <2>1 DEF Plus
    <3>2. "emitted" \in Accounts /\ acct \in [Accounts -> Nat]
      BY <1>3 DEF Accounts
    <3>3. /\ acct' \in [Accounts -> Nat] /\ acct'["emitted"] = acct["emitted"] + 1
          /\ \A k \in Accounts \ {"emitted"} : acct'[k] = acct[k]
      BY <3>1, <3>2, CountUp
    <3> QED BY <3>3 DEF Accounts
  <2>8. FilesType'
    BY <1>1, <1>3, <1>4, <2>2, <2>7 DEF FilesType
  <2>9. RowsAccounted'
    <3>1. /\ Rows(chunk') = {} /\ Len(chunk') = 0
      BY <1>1, <1>3 DEF Rows
    <3>2. Rows(chunk') \cup RowsOf(runs') \cup Rows(canonical') = Kept'
      BY <1>3, <1>4, <1>6, <2>2, <3>1
    <3>3. acct'["raw"] = acct'["emitted"] + acct'["calendar"] + acct'["duplicates"] + Len(chunk') + LenOf(runs')
      <4> DEFINE l == LenOf(runs')
      <4>1. l \in Int /\ acct["raw"] = acct["emitted"] + acct["calendar"] + acct["duplicates"] + 1 + l
        BY <1>4, <1>9
      <4> HIDE DEF l
      <4>2. acct["raw"] = (acct["emitted"] + 1) + acct["calendar"] + acct["duplicates"] + 0 + l
        BY <1>8, <4>1
      <4> QED BY <2>7, <3>1, <4>2 DEF l
    <3> QED BY <3>2, <3>3 DEF RowsAccounted
  <2>10. RunsInOrder' /\ NothingWritten'
    BY <1>1, <1>3, <1>4 DEF RunsInOrder, NothingWritten
  <2>11. MergedSoFar'
    <3>1. \A r \in RowsOf(runs') : ~Before(r, h)
      BY <1>4
    <3> QED BY <1>1, <1>3, <2>1, <2>2, <3>1 DEF MergedSoFar
  <2>12. CanonicalIsSortedSet'
    <3>1. canonical' \in Seq(RawRows) /\ raw' \subseteq RawRows /\ ledger' = <<>>
      BY <1>1, <1>3, <2>2
    <3>2. \A i_1 \in DOMAIN canonical' : canonical'[i_1] \in Row
      BY <3>1, RowsAreRows
    <3>3. \A r \in Kept' : r \in Row
      BY <1>6, <1>7, RowsAreRows
    <3>4. \A j, k \in DOMAIN canonical' : j < k => Later(canonical'[j], canonical'[k])
      BY <2>4, <3>2, BeforeIsOrder DEF Strict
    <3>5. \A r \in Kept' \ Rows(canonical'), k \in DOMAIN canonical' : Later(canonical'[k], r)
      BY <2>5, <3>2, <3>3, BeforeIsOrder DEF Ahead
    <3> QED BY <2>6, <3>1, <3>4, <3>5 DEF CanonicalIsSortedSet
  <2> QED BY <2>8, <2>9, <2>10, <2>11, <2>12 DEF CanonInv
<1>12. CASE Skip(h)
  <2>1. /\ prevKey = SortKey(h) /\ canonical' = canonical /\ prevKey' = prevKey
        /\ acct' = [acct EXCEPT !["duplicates"] = @ + 1]
    BY <1>12 DEF Skip, IsDuplicate
  <2>2. canonical # <<>> /\ h = LastRow
    <3>1. h \in Row /\ SortKey(h) # None
      BY <1>4, RowsAreRows, KeysIdentify
    <3>2. canonical # <<>>
      BY <1>3, <2>1, <3>1
    <3>3. LastRow \in Row /\ SortKey(h) = SortKey(LastRow)
      BY <1>3, <1>10, <2>1, <3>2, RowsAreRows
    <3> QED BY <3>1, <3>2, <3>3, KeysIdentify
  <2>3. RowsOf(runs') \subseteq RowsOf(runs) /\ RowsOf(runs') \cup Rows(canonical) = Kept
    BY <1>3, <1>4, <1>10, <2>2
  <2>4. /\ acct' \in [Accounts -> Nat] /\ acct'["raw"] = acct["raw"]
        /\ acct'["calendar"] = acct["calendar"]
        /\ acct'["emitted"] = acct["emitted"] /\ acct'["duplicates"] = acct["duplicates"] + 1
    <3>1. acct' = Plus(acct, "duplicates", 1)
      BY <2>1 DEF Plus
    <3>2. "duplicates" \in Accounts /\ acct \in [Accounts -> Nat]
      BY <1>3 DEF Accounts
    <3>3. /\ acct' \in [Accounts -> Nat] /\ acct'["duplicates"] = acct["duplicates"] + 1
          /\ \A k \in Accounts \ {"duplicates"} : acct'[k] = acct[k]
      BY <3>1, <3>2, CountUp
    <3> QED BY <3>3 DEF Accounts
  <2>5. FilesType'
    BY <1>1, <1>3, <1>4, <2>1, <2>4 DEF FilesType
  <2>6. RowsAccounted'
    <3>1. /\ Rows(chunk') = {} /\ Len(chunk') = 0
      BY <1>1, <1>3 DEF Rows
    <3>2. Rows(chunk') \cup RowsOf(runs') \cup Rows(canonical') = Kept'
      BY <1>6, <2>1, <2>3, <3>1
    <3>3. acct'["raw"] = acct'["emitted"] + acct'["calendar"] + acct'["duplicates"] + Len(chunk') + LenOf(runs')
      <4> DEFINE l == LenOf(runs')
      <4>1. l \in Int /\ acct["raw"] = acct["emitted"] + acct["calendar"] + acct["duplicates"] + 1 + l
        BY <1>4, <1>9
      <4> HIDE DEF l
      <4>2. acct["raw"] = acct["emitted"] + acct["calendar"] + (acct["duplicates"] + 1) + 0 + l
        BY <1>8, <4>1, SMTT(30)
      <4> QED BY <2>4, <3>1, <4>2 DEF l
    <3> QED BY <3>2, <3>3 DEF RowsAccounted
  <2>7. RunsInOrder' /\ NothingWritten'
    BY <1>1, <1>3, <1>4 DEF RunsInOrder, NothingWritten
  <2>8. MergedSoFar'
    <3>1. LastRow' = LastRow
      BY <2>1 DEF LastRow
    <3> QED BY <1>1, <1>3, <2>1, <2>3, <3>1 DEF MergedSoFar
  <2>9. CanonicalIsSortedSet'
    <3>1. CanonicalIsSortedSet
      BY DEF CanonInv
    <3> QED BY <1>1, <1>6, <2>1, <3>1 DEF CanonicalIsSortedSet
  <2> QED BY <2>5, <2>6, <2>7, <2>8, <2>9 DEF CanonInv
<1> QED BY <1>2, <1>11, <1>12 DEF h

(* The end of the merge: every run is empty, so nothing is missing, and   *)
(* the law of conservation holds.                                         *)
LEMMA LedgerKeeps ==
  ASSUME CanonInv, WriteLedger
  PROVE  CanonInv'
<1>1. /\ stage = "merging" /\ \A i \in DOMAIN runs : runs[i] = <<>>
      /\ ledger' = <<[accounting |-> acct, conservation |-> ConservationLaw]>>
      /\ stage' = IF ConservationLaw THEN "indexing" ELSE "failed"
      /\ runs' = <<>> /\ raw' = raw /\ chunk' = chunk /\ acct' = acct /\ canonical' = canonical
  BY DEF WriteLedger
<1>2. /\ FilesType /\ chunk = <<>> /\ CanonicalIsSortedSet
      /\ acct["raw"] = acct["emitted"] + acct["calendar"] + acct["duplicates"] + Len(chunk) + LenOf(runs)
      /\ Rows(chunk) \cup RowsOf(runs) \cup Rows(canonical) = Kept
  BY <1>1 DEF CanonInv, MergedSoFar, RowsAccounted, Sorting
<1>3. Rows(chunk) = {} /\ Len(chunk) = 0 /\ RowsOf(runs) = {}
  BY <1>1, <1>2 DEF Rows, RowsOf
<1>4. LenOf(runs) = 0
  <2> DEFINE f == [i \in DOMAIN runs |-> Len(runs[i])]
             n == Len(runs)
  <2>1. n \in Nat /\ DOMAIN runs = 1..n
    BY <1>2 DEF FilesType
  <2>2. f \in [1..n -> {0}]
    <3> HIDE DEF n
    <3>1. \A i \in DOMAIN runs : Len(runs[i]) = 0
      BY <1>1
    <3> QED BY <2>1, <3>1
  <2> HIDE DEF f, n
  <2>3. SumFunction(f) = 0
    BY <2>1, <2>2, SumOfZeros
  <2> QED BY <2>3 DEF f, LenOf
<1>5. Rows(canonical) = Kept
  BY <1>2, <1>3
<1>6. ConservationLaw
  <2>1. /\ acct["raw"] \in Nat /\ acct["emitted"] \in Nat /\ acct["calendar"] \in Nat
        /\ acct["duplicates"] \in Nat
    BY <1>2 DEF FilesType, Accounts
  <2>2. acct["raw"] = acct["emitted"] + acct["calendar"] + acct["duplicates"] + 0 + 0
    BY <1>2, <1>3, <1>4
  <2> QED BY <2>1, <2>2 DEF ConservationLaw
<1>7. stage' = "indexing" /\ ledger'[1].conservation
  BY <1>1, <1>6
<1>8. FilesType'
  BY <1>1, <1>2 DEF FilesType
<1>9. RowsAccounted' /\ RunsInOrder' /\ NothingWritten' /\ MergedSoFar'
  BY <1>7 DEF RowsAccounted, RunsInOrder, NothingWritten, MergedSoFar, Sorting
<1>10. CanonicalIsSortedSet'
  <2>1. Rows(canonical') = Rows(canonical) /\ Kept' = Kept
    BY <1>1 DEF Kept
  <2> QED BY <1>1, <1>2, <1>5, <1>7, <2>1 DEF CanonicalIsSortedSet
<1> QED BY <1>8, <1>9, <1>10 DEF CanonInv

(* Killed in the merge: the rows cut off are behind those that stay.      *)
LEMMA KillKeeps ==
  ASSUME CanonInv, KilledMerging
  PROVE  CanonInv'
<1>1. /\ stage = "merging" /\ stage' = "indexing" /\ runs' = <<>> /\ acct' = NoAccounting
      /\ raw' = raw /\ chunk' = chunk /\ ledger' = ledger
  BY DEF KilledMerging
<1>2. PICK n \in 0..Len(canonical) : canonical' = SubSeq(canonical, 1, n)
  BY DEF KilledMerging
<1>3. FilesType /\ CanonicalIsSortedSet /\ ledger = <<>>
  BY <1>1 DEF CanonInv, NothingWritten, Sorting
<1>4. /\ canonical \in Seq(RawRows) /\ Len(canonical) \in Nat /\ n \in Nat /\ n <= Len(canonical)
      /\ DOMAIN canonical = 1..Len(canonical)
      /\ canonical' \in Seq(RawRows) /\ DOMAIN canonical' = 1..n
      /\ \A i \in 1..n : canonical'[i] = canonical[i] /\ i \in 1..Len(canonical)
  <2>1. canonical \in Seq(RawRows) /\ Len(canonical) \in Nat /\ n \in Nat /\ n <= Len(canonical)
        /\ DOMAIN canonical = 1..Len(canonical)
    BY <1>3 DEF FilesType
  <2>2. canonical' \in Seq(RawRows) /\ Len(canonical') = n /\ \A i \in 1..n : canonical'[i] = canonical[i]
    BY <1>2, <2>1
  <2> QED BY <2>1, <2>2
<1>5. FilesType'
  <2>1. NoAccounting \in [Accounts -> Nat]
    BY DEF NoAccounting, Accounts
  <2> QED BY <1>1, <1>3, <1>4, <2>1 DEF FilesType
<1>6. RowsAccounted' /\ RunsInOrder' /\ NothingWritten' /\ MergedSoFar'
  BY <1>1 DEF RowsAccounted, RunsInOrder, NothingWritten, MergedSoFar, Sorting
<1>7. CanonicalIsSortedSet'
  <2>1. Kept' = Kept
    BY <1>1 DEF Kept
  <2>2. /\ \A i, j \in 1..Len(canonical) : i < j => Later(canonical[i], canonical[j])
        /\ \A r \in Kept \ Rows(canonical), i \in 1..Len(canonical) : Later(canonical[i], r)
        /\ Rows(canonical) \subseteq Kept
    BY <1>1, <1>3, <1>4 DEF CanonicalIsSortedSet
  <2>3. \A i, j \in DOMAIN canonical' : i < j => Later(canonical'[i], canonical'[j])
    BY <1>4, <2>2
  <2>4. ASSUME NEW r \in Kept \ Rows(canonical'), NEW i \in 1..n PROVE Later(canonical'[i], r)
    <3>1. CASE r \in Rows(canonical)
      <4>1. PICK k \in 1..Len(canonical) : r = canonical[k]
        BY <1>4, <3>1 DEF Rows
      <4>2. ~(k \in 1..n)
        BY <1>4, <2>4, <4>1 DEF Rows
      <4>3. i < k
        BY <1>4, <4>2
      <4> QED BY <1>4, <2>2, <4>1, <4>3
    <3>2. CASE r \notin Rows(canonical)
      BY <1>4, <2>2, <2>4, <3>2
    <3> QED BY <3>1, <3>2
  <2>5. Rows(canonical') \subseteq Kept
    BY <1>4, <2>2 DEF Rows
  <2> QED BY <1>1, <1>3, <1>4, <2>1, <2>3, <2>4, <2>5 DEF CanonicalIsSortedSet
<1> QED BY <1>5, <1>6, <1>7 DEF CanonInv

(* The later tools leave the file and its ledger alone.                   *)
LEMMA LaterStagesKeep ==
  ASSUME CanonInv, UNCHANGED canonVars, ~Sorting, ~Sorting'
  PROVE  CanonInv'
<1>1. /\ raw' = raw /\ chunk' = chunk /\ runs' = runs /\ acct' = acct
      /\ canonical' = canonical /\ ledger' = ledger
  BY DEF canonVars
<1>2. FilesType' /\ RowsAccounted' /\ RunsInOrder' /\ NothingWritten' /\ MergedSoFar'
  BY <1>1 DEF CanonInv, FilesType, RowsAccounted, RunsInOrder, NothingWritten, MergedSoFar, Sorting
<1>3. CanonicalIsSortedSet'
  <2>1. Kept' = Kept
    BY <1>1 DEF Kept
  <2>2. CanonicalIsSortedSet /\ stage # "reading"
    BY DEF CanonInv, Sorting
  <2> QED BY <1>1, <2>1, <2>2 DEF CanonicalIsSortedSet
<1> QED BY <1>2, <1>3 DEF CanonInv

(* Every step of the tools keeps the invariant.                           *)
LEMMA CanonStep ==
  ASSUME CanonInv, [Next]_vars
  PROVE  CanonInv'
<1>1. CASE CanonNext
  BY <1>1, ReadKeeps, MalformedKeeps, EndKeeps, MergeKeeps, LedgerKeeps, KillKeeps DEF CanonNext
<1>2. CASE LabelsNext
  <2>1. UNCHANGED canonVars /\ ~Sorting /\ ~Sorting'
    BY <1>2 DEF LabelsNext, Pass1, Pass1Empty, Pass2, Sorting
  <2> QED BY <2>1, LaterStagesKeep
<1>3. CASE SplitsNext
  <2>1. UNCHANGED canonVars /\ ~Sorting /\ ~Sorting'
    BY <1>3 DEF SplitsNext, SplitRows, WriteSplits, Sorting
  <2> QED BY <2>1, LaterStagesKeep
<1>4. CASE TrainingNext
  <2>1. UNCHANGED canonVars /\ ~Sorting
    BY <1>4 DEF TrainingNext, FeatureRow, NotTrainable, SaveModel, WriteModelManifest, dataVars, Sorting
  <2>2. ~Sorting'
    BY <1>4 DEF TrainingNext, FeatureRow, NotTrainable, SaveModel, WriteModelManifest, Sorting
  <2> QED BY <2>1, <2>2, LaterStagesKeep
<1>5. CASE UNCHANGED vars
  <2>1. stage' = stage /\ UNCHANGED canonVars /\ prevKey' = prevKey
    BY <1>5 DEF vars, canonVars
  <2>2. /\ raw' = raw /\ chunk' = chunk /\ runs' = runs /\ acct' = acct
        /\ canonical' = canonical /\ ledger' = ledger
    BY <2>1 DEF canonVars
  <2> QED BY <2>1, <2>2 DEF CanonInv, FilesType, RowsAccounted, RunsInOrder, NothingWritten,
                            MergedSoFar, LastRow, Sorting, CanonicalIsSortedSet, Kept
<1> QED BY <1>1, <1>2, <1>3, <1>4, <1>5 DEF Next

(* For every raw file, chunk size and campaign: canonicalize's output is  *)
(* an initial segment of the sorted set of the in-window rows, all of it  *)
(* with a ledger, and the ledger's law of conservation never fails; and   *)
(* no later tool changes that.                                            *)
THEOREM FileIsSortedSet == Spec => []CanonicalIsSortedSet
<1>1. CanonInv => CanonicalIsSortedSet
  BY DEF CanonInv
<1> QED BY <1>1, CanonStart, CanonStep, PTL DEF Spec
-----------------------------------------------------------------------------
(* bisect_right over times in order: how many of them are not after t.    *)
TimesGrow(records) ==
  /\ Len(records) \in Nat /\ \A i \in 1..Len(records) : records[i][1] \in Int
  /\ \A i, j \in 1..Len(records) : i < j => records[i][1] <= records[j][1]

Splits(records, n, p, t) == \A i \in 1..n : i <= p <=> records[i][1] <= t

LEMMA SplitExists ==
  ASSUME NEW records, TimesGrow(records), NEW t \in Int
  PROVE  \E p \in 0..Len(records) : Splits(records, Len(records), p, t)
<1> DEFINE N == Len(records)
           T == {m \in 0..N : \E p \in 0..m : Splits(records, m, p, t)}
<1>1. N \in Nat /\ \A i \in 1..N : records[i][1] \in Int
  BY DEF TimesGrow
<1>2. \A i, j \in 1..N : i < j => records[i][1] <= records[j][1]
  BY DEF TimesGrow
<1> HIDE DEF N
<1>3. 0 \in T
  BY <1>1 DEF Splits
<1>4. ASSUME NEW m \in 0..(N - 1), m \in T PROVE m + 1 \in T
  <2>1. m + 1 \in 0..N /\ m + 1 \in 1..N /\ m \in Nat
    BY <1>1
  <2>2. PICK p \in 0..m : Splits(records, m, p, t)
    BY <1>4
  <2>3. CASE records[m + 1][1] <= t
    <3>1. ASSUME NEW i \in 1..(m + 1) PROVE records[i][1] <= t
      <4>1. CASE i = m + 1
        BY <2>3, <4>1
      <4>2. CASE i # m + 1
        <5>1. i \in 1..N /\ i < m + 1 /\ records[i][1] \in Int /\ records[m + 1][1] \in Int
          BY <1>1, <2>1, <4>2
        <5> QED BY <1>2, <2>1, <2>3, <5>1
      <4> QED BY <4>1, <4>2
    <3>2. Splits(records, m + 1, m + 1, t)
      BY <3>1 DEF Splits
    <3>3. m + 1 \in 0..(m + 1)
      BY <2>1
    <3> QED BY <2>1, <3>2, <3>3
  <2>4. CASE ~(records[m + 1][1] <= t)
    <3>1. Splits(records, m + 1, p, t)
      BY <2>1, <2>2, <2>4 DEF Splits
    <3>2. p \in 0..(m + 1)
      BY <2>1
    <3> QED BY <2>1, <3>1, <3>2
  <2> QED BY <2>3, <2>4
<1>5. N \in T
  <2> HIDE DEF T
  <2>1. \A i \in 0..N : i \in T
    BY <1>1, <1>3, <1>4, UpTo
  <2> QED BY <1>1, <2>1
<1> QED BY <1>5 DEF N

(* The search, window by window.                                          *)
Half(lo, hi) == (lo + hi) \div 2

SearchOf(f, records, t) ==
  f = [w \in (0..Len(records)) \X (0..Len(records)) |->
         IF w[1] >= w[2] THEN w[1]
         ELSE IF t < records[Half(w[1], w[2]) + 1][1] THEN f[<<w[1], Half(w[1], w[2])>>]
         ELSE f[<<Half(w[1], w[2]) + 1, w[2]>>]]

Nearest(p, lo, hi) == IF lo >= hi \/ p < lo THEN lo ELSE IF p > hi THEN hi ELSE p

LEMMA BisectFinds ==
  ASSUME NEW records, TimesGrow(records), NEW t \in Int
  PROVE  /\ BisectRight(records, t) \in 0..Len(records)
         /\ Splits(records, Len(records), BisectRight(records, t), t)
<1> DEFINE N == Len(records)
           W == (0..N) \X (0..N)
           F == CHOOSE f : SearchOf(f, records, t)
<1>1. N \in Nat /\ \A i \in 1..N : records[i][1] \in Int
  BY DEF TimesGrow
<1>2. PICK p \in 0..N : Splits(records, N, p, t)
  BY SplitExists
<1>3. \A i \in 1..N : t < records[i][1] <=> p < i
  BY <1>1, <1>2 DEF Splits
<1> DEFINE g == [w \in W |-> Nearest(p, w[1], w[2])]
<1>4. ASSUME NEW lo \in 0..N, NEW hi \in 0..N, ~(lo >= hi), NEW mid, mid = Half(lo, hi)
      PROVE  /\ mid \in 0..N /\ mid + 1 \in 0..N /\ mid + 1 \in 1..N /\ lo <= mid /\ mid < hi
             /\ Nearest(p, lo, hi) = IF t < records[mid + 1][1] THEN Nearest(p, lo, mid)
                                     ELSE Nearest(p, mid + 1, hi)
  <2>1. mid \in Int /\ lo <= mid /\ mid < hi
    BY <1>1, <1>4 DEF Half
  <2>2. mid \in 0..N /\ mid + 1 \in 0..N /\ mid + 1 \in 1..N
    BY <1>1, <2>1
  <2>3. t < records[mid + 1][1] <=> p < mid + 1
    BY <1>3, <2>2
  <2> QED BY <1>1, <1>4, <2>1, <2>2, <2>3 DEF Nearest
<1> HIDE DEF N
<1>5. SearchOf(g, records, t)
  <2>1. ASSUME NEW w \in W
        PROVE  g[w] = IF w[1] >= w[2] THEN w[1]
                      ELSE IF t < records[Half(w[1], w[2]) + 1][1] THEN g[<<w[1], Half(w[1], w[2])>>]
                      ELSE g[<<Half(w[1], w[2]) + 1, w[2]>>]
    <3>1. w[1] \in 0..N /\ w[2] \in 0..N
      OBVIOUS
    <3>2. CASE w[1] >= w[2]
      BY <3>1, <3>2 DEF Nearest
    <3>3. CASE ~(w[1] >= w[2])
      <4>0. PICK mid : mid = Half(w[1], w[2])
        OBVIOUS
      <4>1. /\ mid \in 0..N /\ mid + 1 \in 0..N
            /\ Nearest(p, w[1], w[2]) = IF t < records[mid + 1][1] THEN Nearest(p, w[1], mid)
                                        ELSE Nearest(p, mid + 1, w[2])
        BY <1>4, <3>1, <3>3, <4>0
      <4>2. <<w[1], mid>> \in W /\ <<mid + 1, w[2]>> \in W
        BY <3>1, <4>1
      <4>3. g[<<w[1], mid>>] = Nearest(p, w[1], mid) /\ g[<<mid + 1, w[2]>>] = Nearest(p, mid + 1, w[2])
        BY <4>2
      <4>4. g[w] = IF t < records[mid + 1][1] THEN g[<<w[1], mid>>] ELSE g[<<mid + 1, w[2]>>]
        BY <4>1, <4>3
      <4> QED BY <3>3, <4>0, <4>4
    <3> QED BY <3>2, <3>3
  <2>2. g = [w \in W |-> g[w]]
    OBVIOUS
  <2> HIDE DEF g
  <2> QED BY <2>1, <2>2 DEF SearchOf, N
<1>6. SearchOf(F, records, t) /\ BisectRight(records, t) = F[<<0, N>>]
  BY <1>5 DEF BisectRight, SearchOf, N, Half
<1> HIDE DEF F, g
<1>7. \A lo, hi \in 0..N :
        F[<<lo, hi>>] = IF lo >= hi THEN lo
                        ELSE IF t < records[Half(lo, hi) + 1][1] THEN F[<<lo, Half(lo, hi)>>]
                        ELSE F[<<Half(lo, hi) + 1, hi>>]
  <2> SUFFICES ASSUME NEW lo \in 0..N, NEW hi \in 0..N
      PROVE F[<<lo, hi>>] = IF lo >= hi THEN lo
                        ELSE IF t < records[Half(lo, hi) + 1][1] THEN F[<<lo, Half(lo, hi)>>]
                        ELSE F[<<Half(lo, hi) + 1, hi>>]
    OBVIOUS
  <2>1. <<lo, hi>> \in (0..Len(records)) \X (0..Len(records)) /\ <<lo, hi>>[1] = lo /\ <<lo, hi>>[2] = hi
    BY DEF N
  <2> QED BY <1>6, <2>1 DEF SearchOf
<1> DEFINE Good(lo, hi) == F[<<lo, hi>>] = Nearest(p, lo, hi)
           T == {m \in 0..N : \A lo, hi \in 0..N : hi - lo <= m => Good(lo, hi)}
<1> HIDE DEF Good
<1>8. 0 \in T
  <2>1. ASSUME NEW lo \in 0..N, NEW hi \in 0..N, hi - lo <= 0 PROVE Good(lo, hi)
    <3>1. lo >= hi
      BY <2>1
    <3> QED BY <1>7, <3>1 DEF Good, Nearest
  <2> QED BY <1>1, <2>1
<1>9. ASSUME NEW m \in 0..(N - 1), m \in T PROVE m + 1 \in T
  <2>1. ASSUME NEW lo \in 0..N, NEW hi \in 0..N, hi - lo <= m + 1 PROVE Good(lo, hi)
    <3>1. CASE lo >= hi
      BY <1>7, <3>1 DEF Good, Nearest
    <3>2. CASE ~(lo >= hi)
      <4> DEFINE mid == Half(lo, hi)
      <4>1. /\ mid \in 0..N /\ mid + 1 \in 0..N /\ lo <= mid /\ mid < hi
            /\ Nearest(p, lo, hi) = IF t < records[mid + 1][1] THEN Nearest(p, lo, mid)
                                    ELSE Nearest(p, mid + 1, hi)
        BY <1>4, <3>2
      <4>2. F[<<lo, hi>>] = IF t < records[mid + 1][1] THEN F[<<lo, mid>>] ELSE F[<<mid + 1, hi>>]
        BY <1>7, <3>2
      <4> HIDE DEF mid
      <4>3. mid - lo <= m /\ hi - (mid + 1) <= m
        BY <2>1, <4>1
      <4>4. Good(lo, mid) /\ Good(mid + 1, hi)
        BY <1>9, <4>1, <4>3
      <4> QED BY <4>1, <4>2, <4>4 DEF Good
    <3> QED BY <3>1, <3>2
  <2>2. m + 1 \in 0..N
    BY <1>1
  <2> QED BY <2>1, <2>2
<1>10. Good(0, N)
  <2> HIDE DEF T
  <2>1. \A i \in 0..N : i \in T
    BY <1>1, <1>8, <1>9, UpTo
  <2>2. N \in T
    BY <1>1, <2>1
  <2>3. 0 \in 0..N /\ N \in 0..N /\ N - 0 <= N
    BY <1>1
  <2> QED BY <2>2, <2>3 DEF T
<1>11. Nearest(p, 0, N) = p
  BY <1>1 DEF Nearest
<1> QED BY <1>2, <1>6, <1>10, <1>11 DEF Good, N
-----------------------------------------------------------------------------
(* A file in the order of time, as Canonicalize leaves it.                *)
EventFile(events) ==
  /\ events \in Seq(Row) /\ Len(events) \in Nat
  /\ \A i, j \in 1..Len(events) : i < j => events[i].ts <= events[j].ts

(* What pass 1 collects for a user: the purchases, in order of time, from *)
(* the rows that are the user's purchases.                                *)
PurchasesFrom(records, events, u, from) ==
  /\ Len(records) \in Nat /\ from \in [1..Len(records) -> 1..Len(events)]
  /\ \A j \in 1..Len(records) :
       /\ IsBuy(events[from[j]]) /\ events[from[j]].user = u
       /\ records[j] = <<events[from[j]].ts, from[j] - 1>>
  /\ \A i, j \in 1..Len(records) : i < j => from[i] < from[j]
  /\ \A n \in 1..Len(events) :
       IsBuy(events[n]) /\ events[n].user = u => \E j \in 1..Len(records) : from[j] = n

LEMMA PurchasesCollected ==
  ASSUME NEW events, EventFile(events), NEW u
  PROVE  \E from : /\ PurchasesFrom(PurchasesIn(events, u), events, u, from)
                   /\ TimesGrow(PurchasesIn(events, u))
<1> DEFINE pairs == [i \in DOMAIN events |-> <<events[i].ts, i - 1>>]
           at == {i \in DOMAIN events : IsBuy(events[i]) /\ events[i].user = u}
           records == PurchasesIn(events, u)
<1>1. DOMAIN events = 1..Len(events) /\ Len(events) \in Nat /\ \A i \in 1..Len(events) : events[i] \in Row
  BY DEF EventFile
<1>2. /\ pairs \in Seq(Int \X Int) /\ Len(pairs) = Len(events)
      /\ \A i \in 1..Len(events) : pairs[i] = <<events[i].ts, i - 1>>
  <2>1. \A i \in 1..Len(events) : <<events[i].ts, i - 1>> \in Int \X Int
    BY <1>1 DEF Row
  <2>2. pairs = [i \in 1..Len(events) |-> <<events[i].ts, i - 1>>]
    BY <1>1
  <2> HIDE DEF pairs
  <2>3. pairs \in [1..Len(events) -> Int \X Int] /\ DOMAIN pairs = 1..Len(events)
    BY <2>1, <2>2
  <2>4. pairs \in Seq(Int \X Int)
    BY <1>1, <2>3
  <2>5. Len(pairs) = Len(events)
    BY <1>1, <2>3, <2>4
  <2> QED BY <2>2, <2>4, <2>5
<1>3. records = Picked(pairs, at)
  BY DEF PurchasesIn
<1>4. \A i \in 1..Len(events) : i \in at <=> IsBuy(events[i]) /\ events[i].user = u
  BY <1>1
<1> HIDE DEF pairs, at, records
<1>5. records \in Seq(Int \X Int) /\ Len(records) \in Nat
  <2>1. records \in Seq(Int \X Int)
    BY <1>2, <1>3, PickedType
  <2> QED BY <2>1
<1>6. PICK from : ComesFrom(records, pairs, at, from)
  BY <1>2, <1>3, PickedFrom
<1>7. PurchasesFrom(records, events, u, from)
  <2>1. from \in [1..Len(records) -> 1..Len(events)]
    BY <1>2, <1>6 DEF ComesFrom
  <2>2. ASSUME NEW j \in 1..Len(records)
        PROVE  /\ IsBuy(events[from[j]]) /\ events[from[j]].user = u
               /\ records[j] = <<events[from[j]].ts, from[j] - 1>>
    BY <1>2, <1>4, <1>6, <2>1 DEF ComesFrom
  <2>3. \A n \in 1..Len(events) :
          IsBuy(events[n]) /\ events[n].user = u => \E j \in 1..Len(records) : from[j] = n
    BY <1>2, <1>4, <1>6 DEF ComesFrom
  <2>4. \A i, j \in 1..Len(records) : i < j => from[i] < from[j]
    BY <1>6 DEF ComesFrom
  <2> QED BY <1>5, <2>1, <2>2, <2>3, <2>4 DEF PurchasesFrom
<1>8. TimesGrow(records)
  <2>1. \A j \in 1..Len(records) : from[j] \in 1..Len(events) /\ records[j][1] = events[from[j]].ts
    BY <1>7 DEF PurchasesFrom
  <2>2. \A j \in 1..Len(records) : records[j][1] \in Int
    BY <1>1, <2>1 DEF Row
  <2>3. ASSUME NEW i \in 1..Len(records), NEW j \in 1..Len(records), i < j
        PROVE  records[i][1] <= records[j][1]
    <3>1. from[i] < from[j]
      BY <1>7, <2>3 DEF PurchasesFrom
    <3> QED BY <2>1, <3>1 DEF EventFile
  <2> QED BY <1>5, <2>2, <2>3 DEF TimesGrow
<1> QED BY <1>7, <1>8 DEF records

(* The label and the witness of an event are those of the definition.     *)
LabelOf(events, i) == LabelRow(i - 1, events[i], PurchasesIn(events, events[i].user))

LEMMA LabelIsDefinition ==
  ASSUME NEW events, EventFile(events), NEW i \in 1..Len(events)
  PROVE  [label |-> LabelOf(events, i).label, witness |-> LabelOf(events, i).witness]
           = FuturePurchaseLabel(events, i)
<1> DEFINE r == events[i]
           records == PurchasesIn(events, r.user)
           b == BisectRight(records, r.ts)
           N == Len(records)
           future == FutureBuys(events, r)
           positive == b + 1 <= N /\ InHorizon(records[b + 1][1], r.ts)
<1>1. /\ DOMAIN events = 1..Len(events) /\ r \in Row /\ Horizon \in Nat \ {0} /\ CampaignEnd \in Nat
      /\ \A j \in 1..Len(events) : events[j].ts \in Int
  <2>1. events \in Seq(Row) /\ Len(events) \in Nat
    BY DEF EventFile
  <2>2. \A j \in 1..Len(events) : events[j] \in Row
    BY <2>1, ElementOfSeq
  <2>3. \A j \in 1..Len(events) : events[j].ts \in Int
    BY <2>2 DEF Row
  <2> QED BY <2>1, <2>2, <2>3, LabelsAssumption, CanonicalizeAssumption
<1>2. PICK from : PurchasesFrom(records, events, r.user, from) /\ TimesGrow(records)
  BY PurchasesCollected
<1>3. r.ts \in Int
  BY <1>1 DEF Row
<1>4. b \in 0..N /\ Splits(records, N, b, r.ts)
  BY <1>2, <1>3, BisectFinds
<1>5. LabelOf(events, i) = [seq |-> i - 1, ts |-> r.ts, user |-> r.user, valid |-> ~Censored(r.ts),
         label |-> IF Censored(r.ts) THEN NoLabel ELSE IF positive THEN 1 ELSE 0,
         witness |-> IF ~Censored(r.ts) /\ positive THEN records[b + 1][2] ELSE NoWitness]
  BY DEF LabelOf, LabelRow
<1>6. FuturePurchaseLabel(events, i) =
        IF r.ts + Horizon > CampaignEnd THEN [label |-> NoLabel, witness |-> NoWitness]
        ELSE IF future = {} THEN [label |-> 0, witness |-> NoWitness]
        ELSE [label |-> 1, witness |-> (CHOOSE j \in future : \A k \in future : j <= k) - 1]
  BY DEF FuturePurchaseLabel
<1>7. Censored(r.ts) <=> r.ts + Horizon > CampaignEnd
  BY <1>1, <1>3 DEF Censored
<1>8. \A m : m \in future <=> /\ m \in 1..Len(events) /\ IsBuy(events[m]) /\ events[m].user = r.user
                              /\ r.ts < events[m].ts /\ events[m].ts <= r.ts + Horizon
  BY <1>1 DEF FutureBuys
<1> HIDE DEF r, records, b, N, future
<1>9. N \in Nat /\ N = Len(records) /\ b \in 0..N
  BY <1>2, <1>4 DEF PurchasesFrom, N
<1>10. ASSUME NEW m \in future
       PROVE  \E j \in 1..N : j >= b + 1 /\ from[j] = m /\ records[j] = <<events[m].ts, m - 1>>
  <2>1. m \in 1..Len(events) /\ IsBuy(events[m]) /\ events[m].user = r.user /\ r.ts < events[m].ts
    BY <1>8
  <2>2. PICK j \in 1..N : from[j] = m
    BY <1>2, <1>9, <2>1 DEF PurchasesFrom
  <2>3. records[j] = <<events[m].ts, m - 1>>
    BY <1>2, <1>9, <2>2 DEF PurchasesFrom
  <2>4. ~(j <= b)
    <3>1. events[m].ts \in Int /\ records[j][1] = events[m].ts
      BY <1>1, <2>1, <2>3
    <3> QED BY <1>3, <1>4, <2>1, <3>1 DEF Splits
  <2> QED BY <1>9, <2>2, <2>3, <2>4
<1>11. CASE positive
  <2>1. b + 1 \in 1..N
    BY <1>9, <1>11
  <2> DEFINE f == from[b + 1]
  <2>2. f \in 1..Len(events) /\ IsBuy(events[f]) /\ events[f].user = r.user /\ records[b + 1] = <<events[f].ts, f - 1>>
    BY <1>2, <1>9, <2>1 DEF PurchasesFrom
  <2>3. records[b + 1][1] = events[f].ts /\ records[b + 1][2] = f - 1 /\ events[f].ts \in Int
    BY <1>1, <2>2
  <2>4. f \in future
    <3>1. ~(records[b + 1][1] <= r.ts)
      <4>1. ~(b + 1 <= b)
        BY <1>9
      <4> QED BY <1>4, <2>1, <4>1 DEF Splits
    <3> QED BY <1>3, <1>8, <1>11, <2>2, <2>3, <3>1 DEF InHorizon
  <2>5. \A k \in future : f <= k
    <3> SUFFICES ASSUME NEW k \in future PROVE f <= k
      OBVIOUS
    <3>1. PICK j \in 1..N : j >= b + 1 /\ from[j] = k
      BY <1>10
    <3>2. b + 1 < j => f < k
      BY <1>2, <1>9, <2>1, <3>1 DEF PurchasesFrom
    <3>3. k \in 1..Len(events)
      BY <1>8
    <3> QED BY <1>9, <2>2, <3>1, <3>2, <3>3
  <2>6. (CHOOSE j \in future : \A k \in future : j <= k) = f
    <3>1. ASSUME NEW j \in future, \A k \in future : j <= k PROVE j = f
      <4>1. j <= f /\ f <= j /\ j \in 1..Len(events)
        BY <1>8, <2>4, <2>5, <3>1
      <4> QED BY <2>2, <4>1
    <3> HIDE DEF f
    <3> QED BY <2>4, <2>5, <3>1
  <2>7. CASE Censored(r.ts)
    BY <1>5, <1>6, <1>7, <2>7
  <2>8. CASE ~Censored(r.ts)
    <3>1. LabelOf(events, i).label = 1 /\ LabelOf(events, i).witness = f - 1
      BY <1>5, <1>11, <2>3, <2>8
    <3>2. FuturePurchaseLabel(events, i) = [label |-> 1, witness |-> f - 1]
      BY <1>6, <1>7, <2>4, <2>6, <2>8
    <3> QED BY <3>1, <3>2
  <2> QED BY <2>7, <2>8
<1>12. CASE ~positive
  <2>1. future = {}
    <3> SUFFICES ASSUME NEW m \in future PROVE FALSE
      OBVIOUS
    <3>1. PICK j \in 1..N : j >= b + 1 /\ records[j] = <<events[m].ts, m - 1>>
      BY <1>10
    <3>2. b + 1 \in 1..N
      BY <1>9, <3>1
    <3>3. b + 1 < j => records[b + 1][1] <= records[j][1]
      BY <1>2, <1>9, <3>1, <3>2 DEF TimesGrow
    <3>4. records[j][1] = events[m].ts /\ events[m].ts <= r.ts + Horizon /\ events[m].ts \in Int
      BY <1>1, <1>8, <3>1
    <3>5. records[b + 1][1] \in Int
      BY <1>2, <1>9, <3>2 DEF TimesGrow
    <3>6. records[b + 1][1] <= r.ts + Horizon
      <4>1. b + 1 = j \/ b + 1 < j
        BY <1>9, <3>1
      <4>2. records[b + 1][1] <= events[m].ts
        BY <3>3, <3>4, <4>1
      <4>3. r.ts + Horizon \in Int
        BY <1>1, <1>3
      <4> QED BY <3>4, <3>5, <4>2, <4>3
    <3> QED BY <1>9, <1>12, <3>2, <3>6 DEF InHorizon
  <2> QED BY <1>5, <1>6, <1>7, <1>12, <2>1
<1> QED BY <1>11, <1>12
IsSeq(s) == Len(s) \in Nat /\ s = [i \in 1..Len(s) |-> s[i]]

-----------------------------------------------------------------------------
(* What each later tool leaves, as long as nothing has failed.            *)
LabelsMade == stage \in {"splitting", "summarising", "training", "saved", "trained"}

LabelsInv ==
  /\ maxRows \in Nat
  /\ stage \in {"reading", "merging", "indexing", "labelling"} => labels = <<>>
  /\ stage = "labelling" => buys = [u \in Users |-> PurchasesIn(Input, u)]
  /\ labels # <<>> => labels = InMemoryLabels(Input)
  /\ LabelsMade => labels = InMemoryLabels(Input)

Cohorted == stage \in {"summarising", "training", "saved", "trained"}

(* The cohort file holds labelled rows, each at most once.                *)
CohortInv ==
  Cohorted =>
    /\ IsSeq(cohort)
    /\ \A i \in 1..Len(cohort) :
         /\ cohort[i].seq \in 0..(Len(Input) - 1)
         /\ cohort[i] = CohortRow(labels[cohort[i].seq + 1])
    /\ \A i, j \in 1..Len(cohort) : cohort[i].seq = cohort[j].seq => i = j

Training == stage \in {"training", "saved", "trained"}

SplitsPresent == {cohort[i].split : i \in 1..Len(cohort)}

SummaryInv ==
  Training => /\ splitManifest # <<>>
              /\ splitManifest[1].summary =
                   [s \in SplitsPresent |-> [pos |-> Count(s, {1}), neg |-> Count(s, {0}),
                                             censored |-> Count(s, {NoLabel})]]

(* The history of a user in the first n events.                           *)
HistoryIn(n, u) ==
  Picked([k \in 1..n |-> [ts |-> Input[k].ts, act |-> Input[k].act]],
         {k \in 1..n : Input[k].user = u})

Untrained == /\ train = <<>> /\ validation = <<>> /\ model = <<>> /\ modelManifest = <<>>
             /\ trainAt = 0 /\ testSeen = 0 /\ users = [u \in Users |-> <<>>]

HistoryInv ==
  /\ stage \notin {"training", "saved", "trained", "failed"} => Untrained
  /\ Training => trainAt \in 0..Len(Input)
  /\ stage = "training" => users = [u \in Users |-> HistoryIn(trainAt, u)]

(* An example made of a row of the split.                                 *)
ExampleOf(e, split) ==
  /\ e.seq \in 0..(Len(Input) - 1)
  /\ Split(Input[e.seq + 1].user, Input[e.seq + 1].ts) = split
  /\ e = ExampleAt(Input, e.seq + 1)

ExamplesInv ==
  /\ IsSeq(train) /\ \A i \in 1..Len(train) : ExampleOf(train[i], "train")
  /\ IsSeq(validation) /\ \A i \in 1..Len(validation) : ExampleOf(validation[i], "validation")

(* The rows of a split with one of the labels that training has read.     *)
RowsBelow(split, lbls, n) ==
  {i \in 1..Len(cohort) : cohort[i].split = split /\ cohort[i].label \in lbls /\ cohort[i].seq < n}

CountsInv ==
  Training => 
    /\ \A y \in {0, 1} :
         Cardinality({i \in 1..Len(train) : train[i].y = y})
           = Cardinality(RowsBelow("train", {y}, trainAt))
    /\ Len(validation) = Cardinality(RowsBelow("validation", {0, 1}, trainAt))
    /\ testSeen = Cardinality(RowsBelow("test", {0, 1, NoLabel}, trainAt))

ModelInv ==
  /\ model # <<>> => stage \in {"saved", "trained"} /\ model = <<train>>
  /\ stage \in {"saved", "trained"} => trainAt = Len(Input) /\ Trainable /\ model = <<train>>
  /\ modelManifest # <<>> => stage = "trained" /\
       modelManifest = <<[model |-> model[1], evaluatedOn |-> validation,
                         positives |-> Cardinality({i \in DOMAIN train : train[i].y = 1}),
                         negatives |-> Cardinality({i \in DOMAIN train : train[i].y = 0}),
                         testIsolated |-> testSeen]>>
(* What the tools after canonicalize read.                                *)
LEMMA FileIsOrdered ==
  ASSUME CanonInv, ~Sorting, NEW limit \in Nat
  PROVE  /\ EventFile(Limited(limit))
         /\ \A i \in 1..Len(Limited(limit)) :
              /\ Limited(limit)[i] \in RawRows
              /\ Limited(limit)[i].ts \in 0..CampaignEnd /\ Limited(limit)[i].user \in Users
<1> DEFINE n == IF limit < Len(canonical) THEN limit ELSE Len(canonical)
           file == Limited(limit)
<1>1. canonical \in Seq(RawRows) /\ RawRows \subseteq Row
  BY CanonicalizeAssumption DEF CanonInv, FilesType, Row
<1>2. Len(canonical) \in Nat /\ n \in Nat /\ n <= Len(canonical) /\ \A i \in 1..n : i \in 1..Len(canonical)
  BY <1>1
<1>3. file = SubSeq(canonical, 1, n)
  BY DEF Limited
<1> HIDE DEF n, file
<1>4. /\ file \in Seq(RawRows) /\ Len(file) = n
      /\ \A i \in 1..n : file[i] = canonical[i] /\ file[i] \in RawRows
  <2>1. \A i \in 1..n : canonical[i] \in RawRows
    BY <1>1, <1>2, ElementOfSeq
  <2>2. n - 1 + 1 = n /\ \A i \in 1..n : 1 + i - 1 = i
    BY <1>2
  <2>3. 0 = n => ~(1 <= n)
    OBVIOUS
  <2> QED BY <1>2, <1>3, <2>1, <2>2, <2>3, SubSeqProperties
<1>5. file \in Seq(Row)
  BY <1>1, <1>4, <1>2, ElementOfSeq
<1>6. \A i \in 1..n : canonical[i] \in Kept
  <2>1. Rows(canonical) \subseteq Kept
    BY DEF CanonInv, CanonicalIsSortedSet, Sorting
  <2>2. DOMAIN canonical = 1..Len(canonical)
    BY <1>1
  <2> QED BY <1>2, <2>1, <2>2 DEF Rows
<1>7. ASSUME NEW i \in 1..n, NEW j \in 1..n, i < j PROVE file[i].ts <= file[j].ts
  <2>1. Later(canonical[i], canonical[j])
    <3>1. DOMAIN canonical = 1..Len(canonical)
      BY <1>1
    <3> QED BY <1>2, <1>7, <3>1 DEF CanonInv, CanonicalIsSortedSet, Sorting
  <2>2. canonical[i] \in Row /\ canonical[j] \in Row
    BY <1>1, <1>4
  <2>3. Before(canonical[i], canonical[j])
    BY <2>1, <2>2, RowOrder
  <2>4. canonical[i].ts <= canonical[j].ts
    <3>1. canonical[i].ts \in Int /\ canonical[j].ts \in Int
      BY <2>2 DEF Row
    <3>2. \/ canonical[i].ts < canonical[j].ts
          \/ canonical[i].ts = canonical[j].ts
      BY <2>2, <2>3, RowOrder
    <3> QED BY <3>1, <3>2
  <2> QED BY <1>4, <2>4
<1>8. ASSUME NEW i \in 1..n PROVE file[i].ts \in 0..CampaignEnd /\ file[i].user \in Users
  <2>1. file[i] \in Kept /\ file[i] \in RawRows
    BY <1>4, <1>6
  <2> QED BY <2>1, CanonicalizeAssumption DEF Kept, Users
<1> QED BY <1>2, <1>4, <1>5, <1>7, <1>8 DEF EventFile, file

LEMMA InputStays == UNCHANGED <<canonical, maxRows>> => Input' = Input
BY DEF Input, Limited

LEMMA InputIsOrdered ==
  ASSUME CanonInv, ~Sorting, maxRows \in Nat
  PROVE  /\ EventFile(Input) /\ Len(Input) \in Nat /\ DOMAIN Input = 1..Len(Input)
         /\ \A i \in 1..Len(Input) : /\ Input[i] \in Row /\ Input[i].ts \in 0..CampaignEnd
                                     /\ Input[i].user \in Users
<1>1. EventFile(Input) /\ \A i \in 1..Len(Input) : Input[i].ts \in 0..CampaignEnd /\ Input[i].user \in Users
  BY FileIsOrdered DEF Input
<1>2. Input \in Seq(Row) /\ Len(Input) \in Nat
  BY <1>1 DEF EventFile
<1>3. \A i \in 1..Len(Input) : Input[i] \in Row
  BY <1>2, ElementOfSeq
<1>4. DOMAIN Input = 1..Len(Input)
  BY <1>2
<1> QED BY <1>1, <1>2, <1>3, <1>4

LEMMA LabelsStart == Init => LabelsInv
BY CanonicalizeAssumption DEF Init, CanonInit, LabelsInit, LabelsInv, LabelsMade

LEMMA LabelsStep ==
  ASSUME CanonInv, LabelsInv, [Next]_vars
  PROVE  LabelsInv'
<1>1. CASE CanonNext /\ UNCHANGED <<labelVars, splitVars, trainingVars>>
  <2>1. /\ stage \in {"reading", "merging"} /\ stage' \in {"reading", "merging", "indexing", "failed"}
        /\ maxRows' = maxRows /\ labels' = labels
    BY <1>1 DEF CanonNext, ReadRow, ReadMalformed, EndOfInput, Merge, WriteLedger, KilledMerging, labelVars
  <2> QED BY <2>1 DEF LabelsInv, LabelsMade
<1>2. CASE Pass1
  <2>1. /\ stage = "indexing" /\ stage' = "labelling" /\ maxRows' \in Nat /\ labels' = labels
        /\ canonical' = canonical
        /\ buys' = [u \in Users |-> PurchasesIn(Limited(maxRows'), u)]
    BY <1>2, LabelsAssumption DEF Pass1, canonVars
  <2>2. Input' = Limited(maxRows')
    BY <2>1 DEF Input, Limited
  <2> QED BY <2>1, <2>2 DEF LabelsInv, LabelsMade
<1>3. CASE Pass1Empty
  BY <1>3 DEF Pass1Empty, labelVars, LabelsInv, LabelsMade
<1>4. CASE Pass2
  <2>1. /\ stage = "labelling" /\ stage' = "splitting" /\ maxRows' = maxRows /\ canonical' = canonical
        /\ labels' = [i \in DOMAIN Input |-> LabelRow(i - 1, Input[i], buys[Input[i].user])]
    BY <1>4 DEF Pass2, canonVars
  <2>2. Input' = Input
    BY <2>1, InputStays
  <2>3. \A i \in DOMAIN Input : buys[Input[i].user] = PurchasesIn(Input, Input[i].user)
    <3>1. maxRows \in Nat /\ buys = [u \in Users |-> PurchasesIn(Input, u)]
      BY <2>1 DEF LabelsInv
    <3>2. \A i \in DOMAIN Input : Input[i].user \in Users
      BY <2>1, <3>1, InputIsOrdered DEF Sorting
    <3> QED BY <3>1, <3>2
  <2>4. labels' = InMemoryLabels(Input)
    BY <2>1, <2>3 DEF InMemoryLabels
  <2>5. maxRows' \in Nat
    BY <2>1 DEF LabelsInv
  <2> QED BY <2>1, <2>2, <2>4, <2>5 DEF LabelsInv, LabelsMade
<1>5. CASE SplitsNext /\ UNCHANGED trainingVars
  <2>1. /\ LabelsMade /\ stage' \in {"summarising", "training", "failed"} /\ UNCHANGED <<canonVars, labelVars>>
    BY <1>5 DEF SplitsNext, SplitRows, WriteSplits, LabelsMade
  <2>2. Input' = Input /\ labels' = labels /\ maxRows' = maxRows
    BY <2>1, InputStays DEF canonVars, labelVars
  <2> QED BY <2>1, <2>2 DEF LabelsInv, LabelsMade
<1>6. CASE TrainingNext
  <2>1. /\ LabelsMade /\ stage' \in {"training", "saved", "trained", "failed"} /\ UNCHANGED dataVars
    BY <1>6 DEF TrainingNext, FeatureRow, NotTrainable, SaveModel, WriteModelManifest, LabelsMade
  <2>2. Input' = Input /\ labels' = labels /\ maxRows' = maxRows
    BY <2>1, InputStays DEF canonVars, labelVars, dataVars
  <2> QED BY <2>1, <2>2 DEF LabelsInv, LabelsMade
<1>7. CASE UNCHANGED vars
  <2>1. stage' = stage /\ UNCHANGED <<canonVars, labelVars>>
    BY <1>7 DEF vars
  <2>2. Input' = Input /\ labels' = labels /\ maxRows' = maxRows /\ buys' = buys
    BY <2>1, InputStays DEF canonVars, labelVars
  <2> QED BY <2>1, <2>2 DEF LabelsInv, LabelsMade
<1> QED BY <1>1, <1>2, <1>3, <1>4, <1>5, <1>6, <1>7 DEF Next, LabelsNext

(* Every label of the file is the definition's; what the labeller in      *)
(* memory would say of the file, too.                                     *)
LEMMA LabelsAreRight == CanonInv /\ LabelsInv => LabelsMatchDefinition
<1> SUFFICES ASSUME CanonInv, LabelsInv PROVE LabelsMatchDefinition
  OBVIOUS
<1>1. labels # <<>> => labels = InMemoryLabels(Input) /\ ~Sorting
  BY DEF LabelsInv, Sorting
<1>2. maxRows \in Nat /\ (stage = "splitting" => labels = InMemoryLabels(Input) /\ ~Sorting)
  BY DEF LabelsInv, LabelsMade, Sorting
<1>3. ASSUME NEW i \in DOMAIN labels
      PROVE  [label |-> labels[i].label, witness |-> labels[i].witness] = FuturePurchaseLabel(Input, i)
  <2>1. labels # <<>>
    OBVIOUS
  <2>2. EventFile(Input) /\ DOMAIN Input = 1..Len(Input)
    BY <1>1, <1>2, <2>1, InputIsOrdered
  <2>3. i \in 1..Len(Input) /\ labels[i] = LabelOf(Input, i)
    BY <1>1, <2>1, <2>2 DEF InMemoryLabels, LabelOf
  <2> QED BY <2>2, <2>3, LabelIsDefinition
<1>4. ASSUME stage = "splitting" PROVE InMemoryAccepts(Input)
  <2>1. /\ EventFile(Input) /\ DOMAIN Input = 1..Len(Input) /\ Len(Input) \in Nat
        /\ \A i \in 1..Len(Input) : Input[i].ts \in 0..CampaignEnd
    BY <1>2, <1>4, InputIsOrdered
  <2>2. ASSUME NEW i \in 1..Len(Input), i > 1 PROVE Input[i - 1].ts <= Input[i].ts
    <3>1. i - 1 \in 1..Len(Input) /\ i - 1 < i
      BY <2>1, <2>2
    <3> QED BY <2>1, <3>1 DEF EventFile
  <2> QED BY <2>1, <2>2 DEF InMemoryAccepts
<1> QED BY <1>2, <1>3, <1>4 DEF LabelsMatchDefinition

(* For every raw file, limit and horizon, wherever the sort was killed:   *)
(* the streaming labeller's binary search gives every event the label and *)
(* the witness of the definition.                                         *)
THEOREM LabelsAreCausal == Spec => []LabelsMatchDefinition
BY CanonStart, CanonStep, LabelsStart, LabelsStep, LabelsAreRight, PTL DEF Spec
-----------------------------------------------------------------------------
(* The labels, row by row.                                                *)
LEMMA LabelledRows ==
  ASSUME CanonInv, LabelsInv, LabelsMade
  PROVE  /\ ~Sorting /\ maxRows \in Nat
         /\ Len(Input) \in Nat /\ DOMAIN Input = 1..Len(Input) /\ DOMAIN labels = 1..Len(Input)
         /\ \A i \in 1..Len(Input) :
              /\ labels[i].seq = i - 1 /\ labels[i].ts = Input[i].ts /\ labels[i].user = Input[i].user
              /\ labels[i].label = FuturePurchaseLabel(Input, i).label
              /\ labels[i].label \in {0, 1, NoLabel}
<1>1. ~Sorting /\ maxRows \in Nat /\ labels = InMemoryLabels(Input)
  BY DEF LabelsInv, LabelsMade, Sorting
<1>2. EventFile(Input) /\ Len(Input) \in Nat /\ DOMAIN Input = 1..Len(Input)
  BY <1>1, InputIsOrdered
<1>3. DOMAIN labels = 1..Len(Input) /\ \A i \in 1..Len(Input) : labels[i] = LabelOf(Input, i)
  BY <1>1, <1>2 DEF InMemoryLabels, LabelOf
<1>4. ASSUME NEW i \in 1..Len(Input)
      PROVE  /\ LabelOf(Input, i).seq = i - 1 /\ LabelOf(Input, i).ts = Input[i].ts
             /\ LabelOf(Input, i).user = Input[i].user
             /\ LabelOf(Input, i).label = FuturePurchaseLabel(Input, i).label
             /\ LabelOf(Input, i).label \in {0, 1, NoLabel}
  <2>1. LabelOf(Input, i).label = FuturePurchaseLabel(Input, i).label
    <3>1. [label |-> LabelOf(Input, i).label, witness |-> LabelOf(Input, i).witness]
             = FuturePurchaseLabel(Input, i)
      BY <1>2, LabelIsDefinition
    <3> QED BY <3>1
  <2> QED BY <2>1 DEF LabelOf, LabelRow
<1> QED BY <1>1, <1>2, <1>3, <1>4

LEMMA CohortStart == Init => CohortInv
BY DEF Init, CanonInit, CohortInv, Cohorted

LEMMA CohortStep ==
  ASSUME CanonInv, LabelsInv, CohortInv, [Next]_vars
  PROVE  CohortInv'
<1>1. CASE SplitRows
  <2> DEFINE row == [i \in DOMAIN labels |-> CohortRow(labels[i])]
             wanted == {i \in DOMAIN row : ~evaluatedOnly' \/ row[i].split \notin Unevaluated}
             S == {CohortRow(labels[i]) : i \in 1..Len(Input)}
  <2>1. /\ LabelsMade /\ UNCHANGED <<canonVars, labelVars>> /\ cohort' = Picked(row, wanted)
    BY <1>1 DEF SplitRows, LabelsMade
  <2>2. Input' = Input /\ labels' = labels
    BY <2>1, InputStays DEF canonVars, labelVars
  <2>3. /\ Len(Input) \in Nat /\ DOMAIN labels = 1..Len(Input)
        /\ \A i \in 1..Len(Input) : labels[i].seq = i - 1
    BY <2>1, LabelledRows
  <2>4. row \in Seq(S) /\ Len(row) = Len(Input) /\ \A i \in 1..Len(Input) : row[i] = CohortRow(labels[i])
    <3>1. DOMAIN row = 1..Len(Input) /\ \A i \in 1..Len(Input) : row[i] = CohortRow(labels[i])
      BY <2>3
    <3>2. row = [i \in 1..Len(Input) |-> row[i]]
      BY <2>3
    <3>3. \A i \in 1..Len(Input) : row[i] \in S
      BY <3>1
    <3> HIDE DEF row, S
    <3>4. row \in [1..Len(Input) -> S]
      BY <3>2, <3>3
    <3>5. row \in Seq(S)
      BY <2>3, <3>4
    <3> QED BY <2>3, <3>1, <3>4, <3>5
  <2> HIDE DEF row, wanted, S
  <2>5. cohort' \in Seq(S) /\ \E from : ComesFrom(cohort', row, wanted, from)
    BY <2>1, <2>4, PickedType, PickedFrom
  <2>6. PICK from : ComesFrom(cohort', row, wanted, from)
    BY <2>5
  <2>7. Len(cohort') \in Nat /\ cohort' = [i \in 1..Len(cohort') |-> cohort'[i]]
    BY <2>5
  <2>8. ASSUME NEW i \in 1..Len(cohort')
        PROVE  /\ cohort'[i].seq = from[i] - 1 /\ from[i] \in 1..Len(Input)
               /\ cohort'[i] = CohortRow(labels[from[i]])
    <3>1. from[i] \in 1..Len(Input) /\ cohort'[i] = row[from[i]]
      BY <2>4, <2>6 DEF ComesFrom
    <3>2. cohort'[i] = CohortRow(labels[from[i]])
      BY <2>4, <3>1
    <3>3. CohortRow(labels[from[i]]).seq = labels[from[i]].seq
      BY DEF CohortRow
    <3> QED BY <2>3, <3>1, <3>2, <3>3
  <2>9. ASSUME NEW i \in 1..Len(cohort')
        PROVE  /\ cohort'[i].seq \in 0..(Len(Input) - 1)
               /\ cohort'[i] = CohortRow(labels[cohort'[i].seq + 1])
    <3>1. from[i] - 1 + 1 = from[i] /\ from[i] - 1 \in 0..(Len(Input) - 1)
      BY <2>3, <2>8
    <3> QED BY <2>8, <3>1
  <2>10. ASSUME NEW i \in 1..Len(cohort'), NEW j \in 1..Len(cohort'), cohort'[i].seq = cohort'[j].seq
         PROVE  i = j
    <3>1. from[i] = from[j]
      BY <2>3, <2>8, <2>10
    <3>2. ~(i < j) /\ ~(j < i)
      BY <2>3, <2>6, <2>8, <3>1 DEF ComesFrom
    <3> QED BY <2>7, <3>2
  <2> QED BY <2>2, <2>7, <2>9, <2>10 DEF CohortInv, IsSeq
<1>2. CASE Cohorted /\ UNCHANGED <<canonVars, labelVars, cohort>>
  <2>1. Input' = Input /\ labels' = labels /\ cohort' = cohort
    BY <1>2, InputStays DEF canonVars, labelVars
  <2> QED BY <1>2, <2>1 DEF CohortInv, IsSeq
<1>3. CASE ~Cohorted'
  BY <1>3 DEF CohortInv
<1>4. SplitRows \/ (Cohorted /\ UNCHANGED <<canonVars, labelVars, cohort>>) \/ ~Cohorted'
  <2>1. CASE CanonNext
    BY <2>1 DEF CanonNext, ReadRow, ReadMalformed, EndOfInput, Merge, WriteLedger, KilledMerging, Cohorted
  <2>2. CASE LabelsNext
    BY <2>2 DEF LabelsNext, Pass1, Pass1Empty, Pass2, Cohorted
  <2>3. CASE WriteSplits
    BY <2>3 DEF WriteSplits, Cohorted
  <2>4. CASE TrainingNext
    BY <2>4 DEF TrainingNext, FeatureRow, NotTrainable, SaveModel, WriteModelManifest, Cohorted, dataVars, splitVars
  <2>5. CASE UNCHANGED vars
    BY <2>5 DEF vars, Cohorted, splitVars
  <2> QED BY <2>1, <2>2, <2>3, <2>4, <2>5 DEF Next, SplitsNext
<1> QED BY <1>1, <1>2, <1>3, <1>4

(* Rows of the cohort, as train_model looks them up.                      *)
LEMMA CohortRows ==
  ASSUME CanonInv, LabelsInv, CohortInv, Cohorted
  PROVE  /\ Len(cohort) \in Nat /\ DOMAIN cohort = 1..Len(cohort)
         /\ \A i \in 1..Len(cohort) :
              LET n == cohort[i].seq + 1
              IN  /\ cohort[i].seq \in 0..(Len(Input) - 1) /\ n \in 1..Len(Input)
                  /\ cohort[i].split = Split(Input[n].user, Input[n].ts)
                  /\ cohort[i].label \in {0, 1, NoLabel}
                  /\ cohort[i].label \in {0, 1} => cohort[i].label = FuturePurchaseLabel(Input, n).label
         /\ \A i, j \in 1..Len(cohort) : cohort[i].seq = cohort[j].seq => i = j
<1>1. LabelsMade
  BY DEF Cohorted, LabelsMade
<1>2. /\ Len(cohort) \in Nat /\ cohort = [i \in 1..Len(cohort) |-> cohort[i]]
      /\ \A i, j \in 1..Len(cohort) : cohort[i].seq = cohort[j].seq => i = j
  BY DEF CohortInv, IsSeq
<1>3. ASSUME NEW i \in 1..Len(cohort), NEW n, n = cohort[i].seq + 1
      PROVE  /\ cohort[i].seq \in 0..(Len(Input) - 1) /\ n \in 1..Len(Input)
             /\ cohort[i].split = Split(Input[n].user, Input[n].ts)
             /\ cohort[i].label \in {0, 1, NoLabel}
             /\ cohort[i].label \in {0, 1} => cohort[i].label = FuturePurchaseLabel(Input, n).label
  <2>1. cohort[i].seq \in 0..(Len(Input) - 1) /\ cohort[i] = CohortRow(labels[n])
    BY <1>3 DEF CohortInv
  <2>2. n \in 1..Len(Input)
    <3>1. Len(Input) \in Nat
      BY <1>1, LabelledRows
    <3> QED BY <1>3, <2>1, <3>1
  <2>3. /\ labels[n].ts = Input[n].ts /\ labels[n].user = Input[n].user
        /\ labels[n].label = FuturePurchaseLabel(Input, n).label /\ labels[n].label \in {0, 1, NoLabel}
    BY <1>1, <2>2, LabelledRows
  <2>4. /\ cohort[i].split = Split(labels[n].user, labels[n].ts)
        /\ cohort[i].label = IF IsTail(labels[n].ts) THEN NoLabel ELSE labels[n].label
    BY <2>1 DEF CohortRow
  <2> QED BY <2>1, <2>2, <2>3, <2>4 DEF NoLabel
<1>4. DOMAIN cohort = 1..Len(cohort)
  BY <1>2
<1> QED BY <1>2, <1>3, <1>4
-----------------------------------------------------------------------------
(* One more event of a file adds itself to its user's history only; the   *)
(* history training keeps is that of the definition, and does not change  *)
(* if the file ends later.                                                *)
Observation(r) == [ts |-> r.ts, act |-> r.act]

LEMMA HistoryGrows ==
  ASSUME Len(Input) \in Nat, NEW n \in 0..(Len(Input) - 1), NEW u
  PROVE  HistoryIn(n + 1, u) = IF Input[n + 1].user = u
                               THEN Append(HistoryIn(n, u), Observation(Input[n + 1]))
                               ELSE HistoryIn(n, u)
<1> DEFINE s == [k \in 1..n |-> Observation(Input[k])]
           t == [k \in 1..(n + 1) |-> Observation(Input[k])]
           S == {Observation(Input[k]) : k \in 1..(n + 1)}
           x == Observation(Input[n + 1])
           at == {k \in 1..(n + 1) : Input[k].user = u}
           before == {k \in 1..n : Input[k].user = u}
<1>1. n \in Nat /\ n + 1 \in 1..(n + 1) /\ \A k \in 1..n : k \in 1..(n + 1)
  OBVIOUS
<1>2. s \in Seq(S) /\ Len(s) = n /\ x \in S
  <2>1. \A k \in 1..n : Observation(Input[k]) \in S
    BY <1>1
  <2>2. s \in [1..n -> S]
    <3> HIDE DEF S
    <3> QED BY <2>1
  <2>3. x \in S
    BY <1>1
  <2> HIDE DEF s, S, x
  <2>4. s \in Seq(S)
    BY <1>1, <2>2
  <2> QED BY <1>1, <2>2, <2>3, <2>4
<1>3. t = Append(s, x)
  <2>1. Append(s, x) \in Seq(S) /\ Len(Append(s, x)) = n + 1
        /\ Append(s, x)[n + 1] = x /\ \A k \in 1..n : Append(s, x)[k] = s[k]
    <3> HIDE DEF s, S, x
    <3> QED BY <1>2, AppendProperties
  <2>2. \A k \in 1..n : s[k] = t[k]
    BY <1>1
  <2>3. t[n + 1] = x
    BY <1>1
  <2>4. \A k \in 1..(n + 1) : k = n + 1 \/ k \in 1..n
    BY <1>1
  <2>5. t = [k \in 1..(n + 1) |-> t[k]]
    OBVIOUS
  <2>6. Append(s, x) = [k \in 1..(n + 1) |-> Append(s, x)[k]]
    <3>1. \A q \in Seq(S) : q = [k \in 1..Len(q) |-> q[k]]
      OBVIOUS
    <3> HIDE DEF s, S, x
    <3>2. Append(s, x) = [k \in 1..Len(Append(s, x)) |-> Append(s, x)[k]]
      BY <2>1, <3>1
    <3>3. Len(Append(s, x)) = n + 1
      BY <2>1
    <3> HIDE <2>1
    <3> QED BY <3>2, <3>3
  <2>7. \A k \in 1..(n + 1) : t[k] = Append(s, x)[k]
    <3> HIDE DEF s, t, x
    <3> QED BY <2>1, <2>2, <2>3, <2>4
  <2> HIDE DEF s, t, x
  <2> QED BY <2>5, <2>6, <2>7
<1>4. HistoryIn(n + 1, u) = Picked(t, at) /\ HistoryIn(n, u) = Picked(s, before)
  BY DEF HistoryIn, Observation
<1>5. Picked(s, at) = Picked(s, before)
  <2>1. \A k \in 1..Len(s) : k \in at <=> k \in before
    BY <1>1, <1>2
  <2> HIDE DEF s, at, before
  <2> QED BY <1>1, <1>2, <2>1, PickedSame
<1>6. n + 1 \in at <=> Input[n + 1].user = u
  BY <1>1
<1> HIDE DEF s, t, S, x, at, before
<1>7. Picked(t, at) = IF n + 1 \in at THEN Append(Picked(s, at), x) ELSE Picked(s, at)
  BY <1>2, <1>3, PickedAppend
<1> QED BY <1>4, <1>5, <1>6, <1>7 DEF x

LEMMA HistoryOfNothing == ASSUME NEW u PROVE HistoryIn(0, u) = <<>>
<1>1. [k \in 1..0 |-> [ts |-> Input[k].ts, act |-> Input[k].act]] = <<>>
  OBVIOUS
<1> QED BY <1>1, PickedOfNothing DEF HistoryIn

(* The first m events of a file.                                          *)
LEMMA FirstEvents ==
  ASSUME NEW S, NEW events \in Seq(S), NEW m \in 0..Len(events)
  PROVE  /\ SubSeq(events, 1, m) \in Seq(S) /\ Len(SubSeq(events, 1, m)) = m
         /\ SubSeq(events, 1, m) = [k \in 1..m |-> events[k]]
<1>1. Len(events) \in Nat /\ m \in Nat /\ \A k \in 1..m : events[k] \in S /\ 1 + k - 1 = k
  BY ElementOfSeq
<1>2. /\ SubSeq(events, 1, m) \in Seq(S) /\ Len(SubSeq(events, 1, m)) = m
      /\ \A k \in 1..m : SubSeq(events, 1, m)[k] = events[k]
  <2>1. m - 1 + 1 = m /\ (~(1 <= m) => m = 0)
    BY <1>1
  <2> QED BY <1>1, <2>1, SubSeqProperties
<1> QED BY <1>2

LEMMA HistoryOfPrefix ==
  ASSUME NEW events, EventFile(events), NEW m \in 0..Len(events), NEW i \in 1..m
  PROVE  /\ HistoryAt(SubSeq(events, 1, m), i) = HistoryAt(events, i)
         /\ HistoryAt(events, i) = Picked([k \in 1..i |-> Observation(events[k])],
                                          {k \in 1..i : events[k].user = events[i].user})
<1> DEFINE prefix == SubSeq(events, 1, m)
<1>1. events \in Seq(Row) /\ Len(events) \in Nat /\ m \in Nat /\ i \in 0..m /\ i \in 0..Len(events)
  BY DEF EventFile
<1>2. prefix \in Seq(Row) /\ Len(prefix) = m /\ \A k \in 1..m : prefix[k] = events[k]
  BY <1>1, FirstEvents
<1> HIDE DEF prefix
<1>3. SubSeq(events, 1, i) = [k \in 1..i |-> events[k]]
  BY <1>1, FirstEvents
<1>4. SubSeq(prefix, 1, i) = [k \in 1..i |-> prefix[k]]
  BY <1>1, <1>2, FirstEvents
<1>5. SubSeq(prefix, 1, i) = SubSeq(events, 1, i)
  <2>1. \A k \in 1..i : prefix[k] = events[k]
    BY <1>1, <1>2
  <2> QED BY <1>3, <1>4, <2>1
<1>6. HistoryAt(prefix, i) = HistoryAt(events, i)
  BY <1>2, <1>5 DEF HistoryAt
<1>7. HistoryAt(events, i) = Picked([k \in 1..i |-> Observation(events[k])],
                                    {k \in 1..i : events[k].user = events[i].user})
  <2> DEFINE before == SubSeq(events, 1, i)
  <2>1. DOMAIN before = 1..i /\ \A k \in 1..i : before[k] = events[k]
    BY <1>3
  <2> HIDE DEF before
  <2>2. [k \in DOMAIN before |-> [ts |-> before[k].ts, act |-> before[k].act]]
          = [k \in 1..i |-> Observation(events[k])]
    BY <2>1 DEF Observation
  <2>3. {k \in DOMAIN before : before[k].user = events[i].user}
          = {k \in 1..i : events[k].user = events[i].user}
    BY <2>1
  <2> QED BY <2>2, <2>3 DEF HistoryAt, before
<1> QED BY <1>6, <1>7 DEF prefix

LEMMA HistoryIsHistory ==
  ASSUME EventFile(Input), NEW i \in 1..Len(Input)
  PROVE  HistoryIn(i, Input[i].user) = HistoryAt(Input, i)
<1>1. Len(Input) \in 0..Len(Input)
  BY DEF EventFile
<1> QED BY <1>1, HistoryOfPrefix DEF HistoryIn, Observation

(* What an iteration of the extraction loop does.                         *)
Examples(wanted, x) == IF wanted = {} THEN <<>> ELSE <<Example(CHOOSE row \in wanted : TRUE, x)>>

TrainRows == {row \in CohortOf(trainAt) : UsesForTraining(row)}
ValidationRows == {row \in CohortOf(trainAt) : Labelled(row, "validation")}
TestRows == {row \in CohortOf(trainAt) : row.split = "test"}

Extracts ==
  LET r == Input[trainAt + 1]
      x == Observed(r)
  IN  /\ users' = [users EXCEPT ![r.user] = x]
      /\ train' = train \o Examples(TrainRows, x)
      /\ validation' = validation \o Examples(ValidationRows, x)
      /\ testSeen' = testSeen + Cardinality(TestRows)
      /\ UNCHANGED stage

LEMMA FeatureRowEffect ==
  ASSUME FeatureRow
  PROVE  /\ stage = "training" /\ trainAt < Len(Input) /\ trainAt' = trainAt + 1
         /\ UNCHANGED <<dataVars, model, modelManifest>>
         /\ \/ stage' = "failed" /\ UNCHANGED <<users, train, validation, testSeen>>
            \/ Extracts
BY DEF FeatureRow, Extracts, Examples, TrainRows, ValidationRows, TestRows

LEMMA HistoryStart == Init => HistoryInv
BY DEF Init, CanonInit, TrainingInit, HistoryInv, Untrained, Training

LEMMA HistoryStep ==
  ASSUME CanonInv, LabelsInv, HistoryInv, [Next]_vars
  PROVE  HistoryInv'
<1>1. CASE stage \notin {"training", "saved", "trained", "failed"} /\ UNCHANGED trainingVars
                /\ stage' \in {"training", "failed"}
  <2>1. Untrained /\ Untrained'
    BY <1>1 DEF HistoryInv, Untrained, trainingVars
  <2>2. stage' = "training" => LabelsMade /\ UNCHANGED <<canonVars, labelVars>>
    <3>1. stage' = "training" => WriteSplits
      BY <1>1 DEF Next, CanonNext, ReadRow, ReadMalformed, EndOfInput, Merge, WriteLedger, KilledMerging,
                  LabelsNext, Pass1, Pass1Empty, Pass2, SplitsNext, SplitRows, TrainingNext, FeatureRow,
                  NotTrainable, SaveModel, WriteModelManifest, vars
    <3> QED BY <3>1 DEF WriteSplits, LabelsMade
  <2>3. stage' = "training" => Input' = Input /\ Len(Input) \in Nat
    BY <2>2, InputStays, LabelledRows DEF canonVars, labelVars
  <2>4. stage' = "training" => trainAt' \in 0..Len(Input')
    BY <2>1, <2>3 DEF Untrained
  <2>5. \A u : HistoryIn(0, u)' = <<>>
    <3>1. [k \in 1..0 |-> [ts |-> Input'[k].ts, act |-> Input'[k].act]] = <<>>
      OBVIOUS
    <3> QED BY <3>1, PickedOfNothing DEF HistoryIn
  <2>6. stage' = "training" => users' = [u \in Users |-> HistoryIn(trainAt, u)']
    BY <2>1, <2>5 DEF Untrained
  <2> QED BY <1>1, <2>1, <2>4, <2>6 DEF HistoryInv, Training
<1>2. CASE stage \notin {"training", "saved", "trained", "failed"} /\ UNCHANGED trainingVars
                /\ stage' \notin {"training", "saved", "trained", "failed"}
  BY <1>2 DEF HistoryInv, Untrained, trainingVars, Training
<1>3. CASE FeatureRow
  <2>1. /\ stage = "training" /\ trainAt < Len(Input) /\ trainAt' = trainAt + 1
        /\ UNCHANGED dataVars /\ (stage' = "failed" \/ Extracts)
    BY <1>3, FeatureRowEffect
  <2>2. Input' = Input
    BY <2>1, InputStays DEF dataVars, canonVars, labelVars
  <2>3. LabelsMade /\ ~Sorting /\ maxRows \in Nat
    BY <2>1, LabelledRows DEF LabelsMade
  <2>4. EventFile(Input) /\ Len(Input) \in Nat
    BY <2>3, InputIsOrdered
  <2>5. trainAt \in 0..Len(Input) /\ users = [u \in Users |-> HistoryIn(trainAt, u)]
    BY <2>1 DEF HistoryInv, Training
  <2>6. trainAt \in 0..(Len(Input) - 1) /\ trainAt + 1 \in 1..Len(Input) /\ trainAt' \in 0..Len(Input)
    BY <2>1, <2>4, <2>5
  <2>7. CASE stage' = "failed"
    BY <2>7 DEF HistoryInv, Training
  <2>8. CASE Extracts
    <3> DEFINE r == Input[trainAt + 1]
    <3>1. r.user \in Users
      BY <2>3, <2>6, InputIsOrdered
    <3>2. users' = [users EXCEPT ![r.user] = Append(users[r.user], Observation(r))]
      BY <2>8 DEF Extracts, Observed, Observation
    <3>3. \A u : HistoryIn(trainAt + 1, u) = IF r.user = u THEN Append(HistoryIn(trainAt, u), Observation(r))
                                             ELSE HistoryIn(trainAt, u)
      BY <2>4, <2>6, HistoryGrows
    <3> HIDE DEF r
    <3>4. users' = [u \in Users |-> HistoryIn(trainAt + 1, u)]
      BY <2>5, <3>1, <3>2, <3>3
    <3>5. \A u : HistoryIn(trainAt, u)' = HistoryIn(trainAt + 1, u)
      BY <2>1, <2>2 DEF HistoryIn
    <3>6. stage' = "training"
      BY <2>1, <2>8 DEF Extracts
    <3> QED BY <2>2, <2>6, <3>4, <3>5, <3>6 DEF HistoryInv, Training
  <2> QED BY <2>1, <2>7, <2>8
<1>4. CASE NotTrainable \/ SaveModel \/ WriteModelManifest
  <2>1. /\ stage \in {"training", "saved"} /\ stage' \in {"saved", "trained", "failed"}
        /\ UNCHANGED dataVars /\ trainAt' = trainAt
    BY <1>4 DEF NotTrainable, SaveModel, WriteModelManifest, trainingVars
  <2>2. Input' = Input
    BY <2>1, InputStays DEF dataVars, canonVars, labelVars
  <2> QED BY <2>1, <2>2 DEF HistoryInv, Training
<1>5. CASE UNCHANGED vars
  <2>1. Input' = Input /\ stage' = stage /\ UNCHANGED trainingVars
    BY <1>5, InputStays DEF vars, canonVars, labelVars
  <2>2. \A u : HistoryIn(trainAt, u)' = HistoryIn(trainAt, u)
    BY <2>1 DEF HistoryIn, trainingVars
  <2> QED BY <2>1, <2>2 DEF HistoryInv, Training, Untrained, trainingVars
<1>6. \/ FeatureRow \/ NotTrainable \/ SaveModel \/ WriteModelManifest \/ UNCHANGED vars
      \/ stage \notin {"training", "saved", "trained", "failed"} /\ UNCHANGED trainingVars
                /\ stage' \notin {"saved", "trained"}
  BY DEF Next, CanonNext, ReadRow, ReadMalformed, EndOfInput, Merge, WriteLedger, KilledMerging,
         LabelsNext, Pass1, Pass1Empty, Pass2, SplitsNext, SplitRows, WriteSplits, TrainingNext
<1> QED BY <1>1, <1>2, <1>3, <1>4, <1>5, <1>6
-----------------------------------------------------------------------------
(* One row more among the examples, if one is wanted.                     *)
ExtendedBy(t, s, wanted, x) ==
  \/ wanted = {} /\ t = s
  \/ /\ Len(t) = Len(s) + 1 /\ \A i \in 1..Len(s) : t[i] = s[i]
     /\ \E row \in wanted : t[Len(s) + 1] = Example(row, x)

LEMMA ExamplesExtend ==
  ASSUME NEW s, IsSeq(s), NEW wanted, NEW x
  PROVE  IsSeq(s \o Examples(wanted, x)) /\ ExtendedBy(s \o Examples(wanted, x), s, wanted, x)
<1> DEFINE S == {s[i] : i \in 1..Len(s)} \cup {Example(row, x) : row \in wanted}
           t == s \o Examples(wanted, x)
<1>1. Len(s) \in Nat /\ s = [i \in 1..Len(s) |-> s[i]] /\ \A i \in 1..Len(s) : s[i] \in S
  BY DEF IsSeq
<1>2. \A row \in wanted : Example(row, x) \in S
  OBVIOUS
<1>3. CASE wanted = {}
  <2>1. Examples(wanted, x) = <<>>
    BY <1>3 DEF Examples
  <2>2. s \in Seq(S)
    <3> HIDE DEF S
    <3> QED BY <1>1
  <2>3. s \o <<>> = s
    <3> HIDE DEF S
    <3> QED BY <2>2, ConcatEmptySeq
  <2> QED BY <1>3, <2>1, <2>3 DEF ExtendedBy
<1>4. CASE wanted # {}
  <2> DEFINE row == CHOOSE r \in wanted : TRUE
             e == Example(row, x)
  <2>1. row \in wanted /\ e \in S /\ Examples(wanted, x) = <<e>>
    BY <1>2, <1>4 DEF Examples
  <2> HIDE DEF e, row
  <2>2. <<e>> \in Seq(S) /\ Len(<<e>>) = 1 /\ <<e>>[1] = e
    <3> HIDE DEF S
    <3> QED BY <2>1
  <2>3. s \in Seq(S)
    <3> HIDE DEF S
    <3> QED BY <1>1
  <2> HIDE DEF S
  <2>4. /\ s \o <<e>> \in Seq(S) /\ Len(s \o <<e>>) = Len(s) + 1
        /\ \A i \in 1..Len(s) + 1 : (s \o <<e>>)[i] = IF i <= Len(s) THEN s[i] ELSE <<e>>[i - Len(s)]
    BY <2>2, <2>3, ConcatProperties
  <2>5. /\ \A i \in 1..Len(s) : (s \o <<e>>)[i] = s[i]
        /\ (s \o <<e>>)[Len(s) + 1] = e
    <3>1. \A i \in 1..Len(s) : i \in 1..Len(s) + 1 /\ i <= Len(s)
      BY <1>1
    <3>2. Len(s) + 1 \in 1..Len(s) + 1 /\ ~(Len(s) + 1 <= Len(s)) /\ Len(s) + 1 - Len(s) = 1
      BY <1>1
    <3> QED BY <2>2, <2>4, <3>1, <3>2
  <2>6. IsSeq(s \o <<e>>)
    <3>1. \A q \in Seq(S) : Len(q) \in Nat /\ q = [i \in 1..Len(q) |-> q[i]]
      OBVIOUS
    <3> QED BY <2>4, <3>1 DEF IsSeq
  <2>7. e = Example(row, x)
    BY DEF e
  <2> QED BY <2>1, <2>4, <2>5, <2>6, <2>7 DEF ExtendedBy
<1> QED BY <1>3, <1>4

(* What the loop sees of the cohort: the features it has computed are the *)
(* definition's, and so is the label it looks up.                         *)
LEMMA RowExample ==
  ASSUME CanonInv, LabelsInv, CohortInv, HistoryInv, stage = "training", trainAt < Len(Input),
         NEW row \in CohortOf(trainAt), row.label \in {0, 1}
  PROVE  /\ Example(row, Observed(Input[trainAt + 1])).seq = trainAt
         /\ Example(row, Observed(Input[trainAt + 1])).y = row.label
         /\ ExampleOf(Example(row, Observed(Input[trainAt + 1])), row.split)
<1> DEFINE n == trainAt + 1
           r == Input[n]
           e == Example(row, Observed(r))
<1>1. LabelsMade /\ Cohorted /\ Training
  BY DEF LabelsMade, Cohorted, Training
<1>2. /\ EventFile(Input) /\ Len(Input) \in Nat
      /\ \A i \in 1..Len(Input) : Input[i].user \in Users
  BY <1>1, LabelledRows, InputIsOrdered
<1>3. trainAt \in 0..(Len(Input) - 1) /\ n \in 1..Len(Input) /\ n - 1 = trainAt
  BY <1>1, <1>2 DEF HistoryInv
<1>4. PICK i \in 1..Len(cohort) : row = cohort[i]
  BY <1>1, CohortRows DEF CohortOf, Rows
<1>5. row.seq = trainAt
  BY DEF CohortOf
<1>6. row.split = Split(r.user, r.ts) /\ row.label = FuturePurchaseLabel(Input, n).label
  BY <1>1, <1>4, <1>5, CohortRows
<1>7. Observed(r) = HistoryAt(Input, n)
  <2>1. users[r.user] = HistoryIn(trainAt, r.user)
    BY <1>2, <1>3 DEF HistoryInv
  <2>2. HistoryIn(n, r.user) = Append(HistoryIn(trainAt, r.user), Observation(r))
    BY <1>2, <1>3, HistoryGrows
  <2>3. HistoryIn(n, r.user) = HistoryAt(Input, n)
    BY <1>2, <1>3, HistoryIsHistory
  <2> QED BY <2>1, <2>2, <2>3 DEF Observed, Observation
<1>8. e = [seq |-> trainAt, x |-> HistoryAt(Input, n), y |-> row.label]
  BY <1>5, <1>7 DEF Example
<1>9. e.seq = trainAt /\ e.seq + 1 = n /\ e.y = row.label
  BY <1>8
<1>10. e = ExampleAt(Input, n)
  BY <1>3, <1>6, <1>8 DEF ExampleAt
<1> QED BY <1>3, <1>6, <1>9, <1>10 DEF ExampleOf

LEMMA ExamplesStart == Init => ExamplesInv
BY DEF Init, TrainingInit, ExamplesInv, IsSeq

LEMMA ExamplesKept ==
  ASSUME ExamplesInv, Input' = Input, train' = train, validation' = validation
  PROVE  ExamplesInv'
BY DEF ExamplesInv, ExampleOf, ExampleAt, IsSeq

LEMMA ExamplesStep ==
  ASSUME CanonInv, LabelsInv, CohortInv, HistoryInv, ExamplesInv, [Next]_vars
  PROVE  ExamplesInv'
<1>1. CASE FeatureRow
  <2> DEFINE x == Observed(Input[trainAt + 1])
  <2>1. /\ stage = "training" /\ trainAt < Len(Input) /\ UNCHANGED dataVars
        /\ \/ UNCHANGED <<users, train, validation, testSeen>>
           \/ Extracts
    BY <1>1, FeatureRowEffect
  <2>2. Input' = Input
    BY <2>1, InputStays DEF dataVars, canonVars, labelVars
  <2>3. CASE UNCHANGED <<users, train, validation, testSeen>>
    BY <2>2, <2>3, ExamplesKept
  <2>4. CASE Extracts
    <3>1. /\ train' = train \o Examples(TrainRows, x)
          /\ validation' = validation \o Examples(ValidationRows, x)
      BY <2>4 DEF Extracts
    <3>2. /\ \A row \in TrainRows : ExampleOf(Example(row, x), "train")
          /\ \A row \in ValidationRows : ExampleOf(Example(row, x), "validation")
      <4>1. \A row \in TrainRows : row \in CohortOf(trainAt) /\ row.label \in {0, 1} /\ row.split = "train"
        BY DEF TrainRows, UsesForTraining, Labelled
      <4>2. \A row \in ValidationRows :
              row \in CohortOf(trainAt) /\ row.label \in {0, 1} /\ row.split = "validation"
        BY DEF ValidationRows, Labelled
      <4>3. \A row \in CohortOf(trainAt) : row.label \in {0, 1} => ExampleOf(Example(row, x), row.split)
        BY <2>1, RowExample
      <4> HIDE DEF x
      <4> QED BY <4>1, <4>2, <4>3
    <3> HIDE DEF x
    <3>3. IsSeq(train) /\ IsSeq(validation)
      BY DEF ExamplesInv
    <3>4. /\ IsSeq(train') /\ ExtendedBy(train', train, TrainRows, x)
          /\ IsSeq(validation') /\ ExtendedBy(validation', validation, ValidationRows, x)
      BY <3>1, <3>3, ExamplesExtend
    <3>5. \A i \in 1..Len(train') : ExampleOf(train'[i], "train")
      <4>1. CASE train' = train
        BY <4>1 DEF ExamplesInv
      <4>2. CASE Len(train') = Len(train) + 1
        <5>1. \A i \in 1..Len(train') : i \in 1..Len(train) \/ i = Len(train) + 1
          BY <3>3, <4>2 DEF IsSeq
        <5>2. Len(train) # Len(train')
          <6>1. Len(train) \in Nat
            BY <3>3 DEF IsSeq
          <6> QED BY <4>2, <6>1
        <5> QED BY <3>2, <3>4, <5>1, <5>2 DEF ExtendedBy, ExamplesInv
      <4> QED BY <3>4, <4>1, <4>2 DEF ExtendedBy
    <3>6. \A i \in 1..Len(validation') : ExampleOf(validation'[i], "validation")
      <4>1. CASE validation' = validation
        BY <4>1 DEF ExamplesInv
      <4>2. CASE Len(validation') = Len(validation) + 1
        <5>1. \A i \in 1..Len(validation') : i \in 1..Len(validation) \/ i = Len(validation) + 1
          BY <3>3, <4>2 DEF IsSeq
        <5>2. Len(validation) # Len(validation')
          <6>1. Len(validation) \in Nat
            BY <3>3 DEF IsSeq
          <6> QED BY <4>2, <6>1
        <5> QED BY <3>2, <3>4, <5>1, <5>2 DEF ExtendedBy, ExamplesInv
      <4> QED BY <3>4, <4>1, <4>2 DEF ExtendedBy
    <3>7. \A e, split : ExampleOf(e, split)' = ExampleOf(e, split)
      BY <2>2 DEF ExampleOf, ExampleAt
    <3>8. IsSeq(train)' /\ IsSeq(validation)'
      BY <3>4 DEF IsSeq
    <3> QED BY <3>5, <3>6, <3>8, <2>2 DEF ExamplesInv, ExampleOf, ExampleAt
  <2> QED BY <2>1, <2>3, <2>4
<1>2. CASE NotTrainable \/ SaveModel \/ WriteModelManifest \/ UNCHANGED vars
  <2>1. UNCHANGED dataVars /\ train' = train /\ validation' = validation
    BY <1>2 DEF NotTrainable, SaveModel, WriteModelManifest, trainingVars, vars, dataVars
  <2>2. Input' = Input
    BY <2>1, InputStays DEF dataVars, canonVars, labelVars
  <2> QED BY <2>1, <2>2, ExamplesKept
<1>3. CASE stage \notin {"training", "saved", "trained", "failed"} /\ UNCHANGED trainingVars
  <2>1. train = <<>> /\ validation = <<>> /\ train' = <<>> /\ validation' = <<>>
    BY <1>3 DEF HistoryInv, Untrained, trainingVars
  <2> QED BY <2>1 DEF ExamplesInv, IsSeq
<1>4. \/ FeatureRow \/ NotTrainable \/ SaveModel \/ WriteModelManifest \/ UNCHANGED vars
      \/ stage \notin {"training", "saved", "trained", "failed"} /\ UNCHANGED trainingVars
  BY DEF Next, CanonNext, ReadRow, ReadMalformed, EndOfInput, Merge, WriteLedger, KilledMerging,
         LabelsNext, Pass1, Pass1Empty, Pass2, SplitsNext, SplitRows, WriteSplits, TrainingNext
<1> QED BY <1>1, <1>2, <1>3, <1>4
-----------------------------------------------------------------------------
(* An example is not changed by what happens after its label is decided.  *)
LEMMA ExampleUntil ==
  ASSUME NEW events, EventFile(events), NEW m \in 0..Len(events), NEW i \in 1..m, NEW t \in Int,
         events[i].ts + Horizon <= t,
         \A k \in 1..Len(events) : k <= m <=> events[k].ts <= t
  PROVE  ExampleAt(SubSeq(events, 1, m), i) = ExampleAt(events, i)
<1> DEFINE prefix == SubSeq(events, 1, m)
           r == events[i]
<1>1. /\ events \in Seq(Row) /\ Len(events) \in Nat /\ m \in Nat
      /\ DOMAIN events = 1..Len(events) /\ i \in 1..Len(events)
  BY DEF EventFile
<1>2. prefix = [k \in 1..m |-> events[k]]
  BY <1>1, FirstEvents
<1>3. DOMAIN prefix = 1..m /\ \A k \in 1..m : prefix[k] = events[k]
  BY <1>2
<1> HIDE DEF prefix
<1>4. FutureBuys(prefix, r) = FutureBuys(events, r)
  <2>1. ASSUME NEW j \in 1..Len(events), events[j].ts <= r.ts + Horizon PROVE j \in 1..m
    <3>1. events[j].ts \in Int /\ r.ts \in Int /\ Horizon \in Int
      <4>1. \A k \in 1..Len(events) : events[k] \in Row
        BY <1>1, ElementOfSeq
      <4> QED BY <1>1, <4>1, LabelsAssumption DEF Row
    <3>2. events[j].ts <= t
      BY <2>1, <3>1
    <3> QED BY <1>1, <3>2
  <2>2. \A j \in 1..m : j \in 1..Len(events)
    BY <1>1
  <2> QED BY <1>1, <1>3, <2>1, <2>2 DEF FutureBuys
<1>5. FuturePurchaseLabel(prefix, i) = FuturePurchaseLabel(events, i)
  BY <1>3, <1>4 DEF FuturePurchaseLabel
<1>6. HistoryAt(prefix, i) = HistoryAt(events, i)
  BY HistoryOfPrefix DEF prefix
<1> QED BY <1>5, <1>6 DEF ExampleAt, prefix

(* The events up to a time are the first ones of the file.                *)
LEMMA UntilIsPrefix ==
  ASSUME EventFile(Input), NEW t \in Int
  PROVE  \E m \in 0..Len(Input) : /\ \A k \in 1..Len(Input) : k <= m <=> Input[k].ts <= t
                                  /\ Until(t) = SubSeq(Input, 1, m)
<1> DEFINE times == [k \in 1..Len(Input) |-> <<Input[k].ts>>]
<1>1. /\ Input \in Seq(Row) /\ Len(Input) \in Nat /\ DOMAIN Input = 1..Len(Input)
      /\ \A k \in 1..Len(Input) : Input[k].ts \in Int
  <2>1. \A k \in 1..Len(Input) : Input[k] \in Row
    BY ElementOfSeq DEF EventFile
  <2> QED BY <2>1 DEF EventFile, Row
<1>2. Len(times) = Len(Input) /\ \A k \in 1..Len(Input) : times[k][1] = Input[k].ts
  <2>1. times \in [1..Len(Input) -> {times[k] : k \in 1..Len(Input)}]
    OBVIOUS
  <2>2. times \in Seq({times[k] : k \in 1..Len(Input)}) /\ Len(times) = Len(Input)
    <3> HIDE DEF times
    <3> QED BY <1>1, <2>1
  <2> QED BY <2>2
<1> HIDE DEF times
<1>3. TimesGrow(times)
  BY <1>1, <1>2 DEF TimesGrow, EventFile
<1>4. PICK m \in 0..Len(Input) : Splits(times, Len(Input), m, t)
  BY <1>2, <1>3, SplitExists
<1>5. \A k \in 1..Len(Input) : k <= m <=> Input[k].ts <= t
  BY <1>2, <1>4 DEF Splits
<1>6. \A k \in 1..Len(Input) : k \in {i \in DOMAIN Input : Input[i].ts <= t} <=> k <= m
  BY <1>1, <1>5
<1>7. Until(t) = SubSeq(Input, 1, m)
  BY <1>1, <1>6, PickedPrefix DEF Until
<1> QED BY <1>5, <1>7

(* An example of a split is what the events up to the end of the embargo  *)
(* after it make of the row.                                              *)
LEMMA ExampleBefore ==
  ASSUME EventFile(Input), \A k \in 1..Len(Input) : Input[k].ts \in Int, NEW t \in Int,
         NEW e, NEW split, ExampleOf(e, split),
         Input[e.seq + 1].ts + Horizon <= t
  PROVE  e = ExampleAt(Until(t), e.seq + 1)
<1> DEFINE i == e.seq + 1
<1>1. Len(Input) \in Nat /\ i \in 1..Len(Input) /\ e = ExampleAt(Input, i) /\ Horizon \in Nat
  BY LabelsAssumption DEF ExampleOf, EventFile
<1> HIDE DEF i
<1>2. PICK m \in 0..Len(Input) : /\ \A k \in 1..Len(Input) : k <= m <=> Input[k].ts <= t
                                 /\ Until(t) = SubSeq(Input, 1, m)
  BY UntilIsPrefix
<1>3. Input[i].ts + Horizon <= t /\ Input[i].ts \in Int
  BY <1>1 DEF i
<1>4. i \in 1..m
  <2>1. Input[i].ts <= t
    BY <1>1, <1>3
  <2> QED BY <1>1, <1>2, <2>1
<1>5. ExampleAt(SubSeq(Input, 1, m), i) = ExampleAt(Input, i)
  BY <1>2, <1>3, <1>4, ExampleUntil
<1> QED BY <1>1, <1>2, <1>5 DEF i

LEMMA LeaksNothing ==
  ASSUME Embargoed, CanonInv, LabelsInv, HistoryInv, ExamplesInv
  PROVE  NothingLeaksForward
<1>1. CASE train = <<>> /\ validation = <<>>
  BY <1>1 DEF NothingLeaksForward
<1>2. CASE ~(train = <<>> /\ validation = <<>>)
  <2>1. ~Sorting /\ maxRows \in Nat
    BY <1>2 DEF HistoryInv, Untrained, Sorting, LabelsInv
  <2>2. EventFile(Input) /\ \A k \in 1..Len(Input) : Input[k].ts \in Int
    BY <2>1, InputIsOrdered
  <2>3. /\ DOMAIN train = 1..Len(train) /\ DOMAIN validation = 1..Len(validation)
        /\ \A i \in 1..Len(train) : ExampleOf(train[i], "train")
        /\ \A i \in 1..Len(validation) : ExampleOf(validation[i], "validation")
    BY DEF ExamplesInv, IsSeq
  <2>4. Embargo1End \in Int /\ Embargo2End \in Int
    BY SplitsAssumption
  <2>5. ASSUME NEW e, ExampleOf(e, "train")
        PROVE  /\ e = ExampleAt(Until(Embargo1End), e.seq + 1)
               /\ Input[e.seq + 1].user \notin OodUsers
    <3> DEFINE r == Input[e.seq + 1]
    <3>1. r.ts \in Int /\ Split(r.user, r.ts) = "train"
      <4>1. e.seq + 1 \in 1..Len(Input)
        BY <2>2, <2>5 DEF ExampleOf, EventFile
      <4> QED BY <2>2, <2>5, <4>1 DEF ExampleOf
    <3> HIDE DEF r
    <3>2. InHorizon(r.ts + Horizon, r.ts) /\ r.ts + Horizon \in Int
      BY <3>1, LabelsAssumption DEF InHorizon
    <3>3. r.ts + Horizon <= Embargo1End
      BY <3>1, <3>2, EmbargoSeparates
    <3>4. e = ExampleAt(Until(Embargo1End), e.seq + 1)
      BY <2>2, <2>4, <2>5, <3>3, ExampleBefore DEF r
    <3>5. r.user \notin OodUsers
      BY <3>1 DEF Split
    <3> QED BY <3>4, <3>5 DEF r
  <2>6. ASSUME NEW e, ExampleOf(e, "validation")
        PROVE  e = ExampleAt(Until(Embargo2End), e.seq + 1)
    <3> DEFINE r == Input[e.seq + 1]
    <3>1. r.ts \in Int /\ Split(r.user, r.ts) = "validation"
      <4>1. e.seq + 1 \in 1..Len(Input)
        BY <2>2, <2>6 DEF ExampleOf, EventFile
      <4> QED BY <2>2, <2>6, <4>1 DEF ExampleOf
    <3> HIDE DEF r
    <3>2. InHorizon(r.ts + Horizon, r.ts) /\ r.ts + Horizon \in Int
      BY <3>1, LabelsAssumption DEF InHorizon
    <3>3. r.ts + Horizon <= Embargo2End
      BY <3>1, <3>2, EmbargoSeparates
    <3> QED BY <2>2, <2>4, <2>6, <3>3, ExampleBefore DEF r
  <2> QED BY <2>3, <2>5, <2>6 DEF NothingLeaksForward
<1> QED BY <1>1, <1>2

(* Provided the embargoes are as long as the horizon, no run of the tools *)
(* trains on, or selects with, anything of a period that is evaluated     *)
(* later, nor trains on a held-out user.                                  *)
THEOREM TrainingIsCausal == ASSUME Embargoed PROVE Spec => []NothingLeaksForward
<1> DEFINE Inv == CanonInv /\ LabelsInv /\ CohortInv /\ HistoryInv /\ ExamplesInv
<1>1. Init => Inv
  BY CanonStart, LabelsStart, CohortStart, HistoryStart, ExamplesStart
<1>2. Inv /\ [Next]_vars => Inv'
  BY CanonStep, LabelsStep, CohortStep, HistoryStep, ExamplesStep
<1>3. Inv => NothingLeaksForward
  BY LeaksNothing
<1> QED BY <1>1, <1>2, <1>3, PTL DEF Spec
-----------------------------------------------------------------------------
(* The summary the split tool wrote counts the cohort that training reads. *)
LEMMA SummaryStart == Init => SummaryInv
BY DEF Init, CanonInit, SummaryInv, Training

LEMMA SummaryStep ==
  ASSUME CohortInv, SummaryInv, [Next]_vars
  PROVE  SummaryInv'
<1>1. CASE WriteSplits
  <2> DEFINE summary == [s \in {row.split : row \in Rows(cohort)} |->
                           [pos |-> Count(s, {1}), neg |-> Count(s, {0}), censored |-> Count(s, {NoLabel})]]
  <2>1. /\ Cohorted /\ cohort' = cohort
        /\ \E d : splitManifest' = <<[summary |-> summary, coldOodDisjoint |-> d]>>
    BY <1>1 DEF WriteSplits, Cohorted
  <2>2. DOMAIN cohort = 1..Len(cohort)
    BY <2>1 DEF CohortInv, IsSeq
  <2>3. {row.split : row \in Rows(cohort)} = SplitsPresent
    BY <2>2 DEF Rows, SplitsPresent
  <2> HIDE DEF summary
  <2>4. splitManifest' # <<>> /\ splitManifest'[1].summary = summary
    BY <2>1
  <2>5. summary = [s \in SplitsPresent |-> [pos |-> Count(s, {1}), neg |-> Count(s, {0}),
                                            censored |-> Count(s, {NoLabel})]]
    BY <2>3 DEF summary
  <2>6. SplitsPresent' = SplitsPresent /\ \A s, l : Count(s, l)' = Count(s, l)
    BY <2>1 DEF SplitsPresent, Count
  <2> QED BY <2>4, <2>5, <2>6 DEF SummaryInv
<1>2. CASE Training /\ splitManifest' = splitManifest /\ cohort' = cohort
  <2>1. SplitsPresent' = SplitsPresent /\ \A s, l : Count(s, l)' = Count(s, l)
    BY <1>2 DEF SplitsPresent, Count
  <2> QED BY <1>2, <2>1 DEF SummaryInv
<1>3. CASE ~Training'
  BY <1>3 DEF SummaryInv
<1>4. WriteSplits \/ (Training /\ splitManifest' = splitManifest /\ cohort' = cohort) \/ ~Training'
  <2>1. CASE CanonNext
    BY <2>1 DEF CanonNext, ReadRow, ReadMalformed, EndOfInput, Merge, WriteLedger, KilledMerging, Training
  <2>2. CASE LabelsNext
    BY <2>2 DEF LabelsNext, Pass1, Pass1Empty, Pass2, Training
  <2>3. CASE SplitRows
    BY <2>3 DEF SplitRows, Training
  <2>4. CASE TrainingNext
    BY <2>4 DEF TrainingNext, FeatureRow, NotTrainable, SaveModel, WriteModelManifest, Training, dataVars, splitVars
  <2>5. CASE UNCHANGED vars
    BY <2>5 DEF vars, Training, splitVars
  <2> QED BY <2>1, <2>2, <2>3, <2>4, <2>5 DEF Next, SplitsNext
<1> QED BY <1>1, <1>2, <1>3, <1>4
-----------------------------------------------------------------------------
(* Sizes: of a set of indices, and of one with an index more.             *)
LEMMA IndexSets ==
  ASSUME NEW n \in Nat, NEW A, A \subseteq 1..n
  PROVE  IsFiniteSet(A) /\ Cardinality(A) \in Nat /\ (Cardinality(A) = 0 <=> A = {})
<1>1. IsFiniteSet(1..n)
  BY FS_Interval
<1>2. IsFiniteSet(A)
  BY <1>1, FS_Subset
<1> QED BY <1>2, FS_CardinalityType, FS_EmptySet

(* The rows of the next number: at most one.                              *)
LEMMA RowsBelowNext ==
  ASSUME CanonInv, LabelsInv, CohortInv, Cohorted, NEW n \in Nat, NEW split, NEW lbls
  PROVE  LET wanted == {row \in CohortOf(n) : row.split = split /\ row.label \in lbls}
         IN  /\ Cardinality(RowsBelow(split, lbls, n)) \in Nat
             /\ wanted = {} => RowsBelow(split, lbls, n + 1) = RowsBelow(split, lbls, n)
             /\ wanted # {} => Cardinality(RowsBelow(split, lbls, n + 1))
                                 = Cardinality(RowsBelow(split, lbls, n)) + 1
<1> DEFINE wanted == {row \in CohortOf(n) : row.split = split /\ row.label \in lbls}
           below == RowsBelow(split, lbls, n)
           next == RowsBelow(split, lbls, n + 1)
<1>1. /\ Len(cohort) \in Nat /\ DOMAIN cohort = 1..Len(cohort)
      /\ \A i \in 1..Len(cohort) : cohort[i].seq \in Int
      /\ \A i, j \in 1..Len(cohort) : cohort[i].seq = cohort[j].seq => i = j
  BY CohortRows
<1>2. below \subseteq 1..Len(cohort) /\ IsFiniteSet(below) /\ Cardinality(below) \in Nat
  BY <1>1, IndexSets DEF RowsBelow
<1>3. CASE wanted = {}
  <2>1. \A i \in 1..Len(cohort) : cohort[i].split = split /\ cohort[i].label \in lbls => cohort[i].seq # n
    BY <1>1, <1>3 DEF CohortOf, Rows
  <2>2. \A i \in 1..Len(cohort) : cohort[i].seq # n => (cohort[i].seq < n + 1 <=> cohort[i].seq < n)
    BY <1>1
  <2> QED BY <1>2, <1>3, <2>1, <2>2 DEF RowsBelow
<1>4. CASE wanted # {}
  <2>1. PICK k \in 1..Len(cohort) : cohort[k].seq = n /\ cohort[k].split = split /\ cohort[k].label \in lbls
    BY <1>1, <1>4 DEF CohortOf, Rows
  <2>2. \A i \in 1..Len(cohort) : cohort[i].seq < n + 1 <=> cohort[i].seq < n \/ i = k
    BY <1>1, <2>1
  <2>3. k \notin below
    BY <1>1, <2>1 DEF RowsBelow
  <2>4. next = below \cup {k}
    BY <2>1, <2>2 DEF RowsBelow
  <2> HIDE DEF below, next
  <2>5. Cardinality(next) = Cardinality(below) + 1
    BY <1>2, <2>3, <2>4, FS_AddElement
  <2> QED BY <1>2, <1>4, <2>5 DEF below, next
<1> QED BY <1>3, <1>4, <1>2

LEMMA OneRow ==
  ASSUME CanonInv, LabelsInv, CohortInv, Cohorted, NEW n
  PROVE  \A row, other \in CohortOf(n) : row = other
BY CohortRows DEF CohortOf, Rows

(* The examples of a class, after a row more.                             *)
OfClass(s, y) == {i \in 1..Len(s) : s[i].y = y}

RowsOfClass(wanted, y) == {row \in wanted : row.label = y}

LEMMA ExamplesOfClass ==
  ASSUME NEW s, IsSeq(s), NEW t, NEW wanted, NEW x, IsSeq(t), ExtendedBy(t, s, wanted, x), NEW y,
         \A row, other \in wanted : row = other
  PROVE  /\ Cardinality(OfClass(s, y)) \in Nat
         /\ RowsOfClass(wanted, y) = {} => Cardinality(OfClass(t, y)) = Cardinality(OfClass(s, y))
         /\ RowsOfClass(wanted, y) # {} => Cardinality(OfClass(t, y)) = Cardinality(OfClass(s, y)) + 1
<1> DEFINE old == {i \in 1..Len(s) : s[i].y = y}
           new == {i \in 1..Len(t) : t[i].y = y}
           rows == {row \in wanted : row.label = y}
           n == Len(s)
<1>1. n \in Nat /\ IsFiniteSet(old) /\ Cardinality(old) \in Nat
  <2>1. n \in Nat /\ old \subseteq 1..n
    BY DEF IsSeq
  <2> QED BY <2>1, IndexSets
<1>2. CASE wanted = {} /\ t = s
  BY <1>1, <1>2 DEF OfClass, RowsOfClass
<1>3. CASE /\ Len(t) = n + 1 /\ \A i \in 1..n : t[i] = s[i]
           /\ \E row \in wanted : t[n + 1] = Example(row, x)
  <2>1. PICK row \in wanted : t[n + 1] = Example(row, x)
    BY <1>3
  <2>2. t[n + 1].y = row.label
    BY <2>1 DEF Example
  <2>3. \A i \in 1..Len(t) : i \in 1..n \/ i = n + 1
    BY <1>1, <1>3
  <2>4. n + 1 \in 1..Len(t) /\ n + 1 \notin 1..n /\ \A i \in 1..n : i \in 1..Len(t)
    BY <1>1, <1>3
  <2>5. CASE row.label = y
    <3>1. new = old \cup {n + 1}
      BY <1>3, <2>2, <2>3, <2>4, <2>5
    <3>2. n + 1 \notin old
      BY <2>4
    <3>3. rows # {}
      BY <2>1, <2>5
    <3> HIDE DEF new, old, rows, n
    <3>4. Cardinality(new) = Cardinality(old) + 1
      BY <1>1, <3>1, <3>2, FS_AddElement
    <3> QED BY <1>1, <3>3, <3>4 DEF new, old, rows, OfClass, RowsOfClass
  <2>6. CASE row.label # y
    <3>1. new = old
      BY <1>3, <2>2, <2>3, <2>4, <2>6
    <3>2. rows = {}
      BY <2>1, <2>6
    <3> QED BY <1>1, <3>1, <3>2 DEF OfClass, RowsOfClass
  <2> QED BY <2>5, <2>6
<1> QED BY <1>2, <1>3 DEF ExtendedBy, OfClass, RowsOfClass
-----------------------------------------------------------------------------
(* Training has counted the labelled rows it has passed.                  *)
LEMMA CountsStart == Init => CountsInv
BY DEF Init, CanonInit, CountsInv, Training

LEMMA NothingBelow ==
  ASSUME CanonInv, LabelsInv, CohortInv, Cohorted, NEW split, NEW lbls
  PROVE  RowsBelow(split, lbls, 0) = {}
<1>1. \A i \in 1..Len(cohort) : ~(cohort[i].seq < 0)
  BY CohortRows
<1> QED BY <1>1 DEF RowsBelow

LEMMA CountsKept ==
  ASSUME CountsInv, Training, UNCHANGED <<cohort, train, validation, testSeen, trainAt>>
  PROVE  CountsInv'
<1>1. \A split, lbls : RowsBelow(split, lbls, trainAt)' = RowsBelow(split, lbls, trainAt)
  BY DEF RowsBelow
<1> QED BY <1>1 DEF CountsInv

LEMMA CountsFeature ==
  ASSUME CanonInv, LabelsInv, CohortInv, HistoryInv, ExamplesInv, CountsInv, Extracts,
         stage = "training", trainAt < Len(Input), trainAt' = trainAt + 1, cohort' = cohort
  PROVE  CountsInv'
<1> DEFINE x == Observed(Input[trainAt + 1])
           n == trainAt
<1>1. Cohorted /\ Training /\ LabelsMade
  BY DEF Cohorted, Training, LabelsMade
<1>2. n \in Nat
  <2>1. Len(Input) \in Nat
    BY <1>1, LabelledRows
  <2> QED BY <1>1, <2>1 DEF HistoryInv
<1>3. /\ train' = train \o Examples(TrainRows, x)
      /\ validation' = validation \o Examples(ValidationRows, x)
      /\ testSeen' = testSeen + Cardinality(TestRows)
  BY DEF Extracts
<1> HIDE DEF x
<1>4. /\ IsSeq(train) /\ IsSeq(train') /\ ExtendedBy(train', train, TrainRows, x)
      /\ IsSeq(validation) /\ IsSeq(validation') /\ ExtendedBy(validation', validation, ValidationRows, x)
  BY <1>3, ExamplesExtend DEF ExamplesInv
<1>5. \A split, lbls : RowsBelow(split, lbls, trainAt)' = RowsBelow(split, lbls, n + 1)
  BY DEF RowsBelow
<1>6. \A row, other \in CohortOf(n) : row = other
  BY <1>1, OneRow
<1>7. ASSUME NEW y \in {0, 1}
      PROVE  Cardinality({i \in 1..Len(train') : train'[i].y = y})
               = Cardinality(RowsBelow("train", {y}, n + 1))
  <2> DEFINE old == OfClass(train, y)
             new == OfClass(train', y)
             rows == RowsOfClass(TrainRows, y)
             wanted == {row \in CohortOf(n) : row.split = "train" /\ row.label \in {y}}
  <2>1. rows = wanted
    BY DEF TrainRows, UsesForTraining, Labelled, RowsOfClass
  <2>2. \A row, other \in TrainRows : row = other
    BY <1>6 DEF TrainRows
  <2>3. /\ rows = {} => Cardinality(new) = Cardinality(old)
        /\ rows # {} => Cardinality(new) = Cardinality(old) + 1
    BY <1>4, <2>2, ExamplesOfClass
  <2>4. /\ wanted = {} => RowsBelow("train", {y}, n + 1) = RowsBelow("train", {y}, n)
        /\ wanted # {} => Cardinality(RowsBelow("train", {y}, n + 1))
                            = Cardinality(RowsBelow("train", {y}, n)) + 1
    BY <1>1, <1>2, RowsBelowNext
  <2>5. Cardinality(old) = Cardinality(RowsBelow("train", {y}, n))
    BY <1>1 DEF CountsInv, OfClass
  <2> HIDE DEF old, new, rows, wanted
  <2>6. Cardinality(new) = Cardinality(RowsBelow("train", {y}, n + 1))
    <3>1. CASE rows = {}
      BY <2>1, <2>3, <2>4, <2>5, <3>1
    <3>2. CASE rows # {}
      BY <2>1, <2>3, <2>4, <2>5, <3>2
    <3> QED BY <3>1, <3>2
  <2> QED BY <2>6 DEF new, OfClass
<1>8. Len(validation') = Cardinality(RowsBelow("validation", {0, 1}, n + 1))
  <2> DEFINE wanted == {row \in CohortOf(n) : row.split = "validation" /\ row.label \in {0, 1}}
  <2>1. ValidationRows = wanted
    BY DEF ValidationRows, Labelled
  <2>2. /\ wanted = {} => RowsBelow("validation", {0, 1}, n + 1) = RowsBelow("validation", {0, 1}, n)
        /\ wanted # {} => Cardinality(RowsBelow("validation", {0, 1}, n + 1))
                            = Cardinality(RowsBelow("validation", {0, 1}, n)) + 1
    BY <1>1, <1>2, RowsBelowNext
  <2>3. Len(validation) = Cardinality(RowsBelow("validation", {0, 1}, n))
    BY <1>1 DEF CountsInv
  <2> HIDE DEF wanted
  <2>4. CASE wanted = {}
    BY <1>4, <2>1, <2>2, <2>3, <2>4 DEF ExtendedBy
  <2>5. CASE wanted # {}
    <3>1. Len(validation') = Len(validation) + 1
      BY <1>4, <2>1, <2>5 DEF ExtendedBy
    <3> QED BY <2>2, <2>3, <2>5, <3>1
  <2> QED BY <2>4, <2>5
<1>9. testSeen' = Cardinality(RowsBelow("test", {0, 1, NoLabel}, n + 1))
  <2> DEFINE wanted == {row \in CohortOf(n) : row.split = "test" /\ row.label \in {0, 1, NoLabel}}
  <2>1. \A row \in CohortOf(n) : row.label \in {0, 1, NoLabel}
    BY <1>1, CohortRows DEF CohortOf, Rows
  <2>2. TestRows = wanted
    BY <2>1 DEF TestRows
  <2>3. /\ wanted = {} => RowsBelow("test", {0, 1, NoLabel}, n + 1) = RowsBelow("test", {0, 1, NoLabel}, n)
        /\ wanted # {} => Cardinality(RowsBelow("test", {0, 1, NoLabel}, n + 1))
                            = Cardinality(RowsBelow("test", {0, 1, NoLabel}, n)) + 1
        /\ Cardinality(RowsBelow("test", {0, 1, NoLabel}, n)) \in Nat
    BY <1>1, <1>2, RowsBelowNext
  <2>4. testSeen = Cardinality(RowsBelow("test", {0, 1, NoLabel}, n))
    BY <1>1 DEF CountsInv
  <2>5. \A row, other \in TestRows : row = other
    BY <1>6 DEF TestRows
  <2> HIDE DEF wanted
  <2>6. CASE wanted = {}
    <3>1. Cardinality(TestRows) = 0
      BY <2>2, <2>6, FS_EmptySet
    <3> QED BY <1>3, <2>3, <2>4, <2>6, <3>1
  <2>7. CASE wanted # {}
    <3>1. PICK row : TestRows = {row}
      BY <2>2, <2>5, <2>7
    <3>2. Cardinality(TestRows) = 1
      BY <3>1, FS_Singleton
    <3> QED BY <1>3, <2>3, <2>4, <2>7, <3>2
  <2> QED BY <2>6, <2>7
<1> QED BY <1>5, <1>7, <1>8, <1>9 DEF CountsInv

LEMMA CountsStep ==
  ASSUME CanonInv, LabelsInv, CohortInv, CohortInv', CanonInv', LabelsInv', HistoryInv, ExamplesInv,
         CountsInv, [Next]_vars
  PROVE  CountsInv'
<1>1. CASE FeatureRow
  <2>1. /\ stage = "training" /\ trainAt < Len(Input) /\ trainAt' = trainAt + 1 /\ UNCHANGED dataVars
        /\ stage' = "failed" \/ Extracts
    BY <1>1, FeatureRowEffect
  <2>2. cohort' = cohort
    BY <2>1 DEF dataVars, splitVars
  <2>3. stage' = "failed" => CountsInv'
    BY DEF CountsInv, Training
  <2> QED BY <2>1, <2>2, <2>3, CountsFeature
<1>2. CASE NotTrainable \/ SaveModel \/ WriteModelManifest
  <2>1. Training /\ UNCHANGED <<cohort, train, validation, testSeen, trainAt>>
    BY <1>2 DEF NotTrainable, SaveModel, WriteModelManifest, trainingVars, dataVars, splitVars, Training
  <2> QED BY <2>1, CountsKept
<1>3. CASE Training /\ UNCHANGED vars
  <2>1. UNCHANGED <<cohort, train, validation, testSeen, trainAt>>
    BY <1>3 DEF vars, trainingVars, splitVars
  <2> QED BY <1>3, <2>1, CountsKept
<1>4. CASE stage = "summarising" /\ UNCHANGED trainingVars /\ Training'
  <2>1. /\ train' = <<>> /\ validation' = <<>> /\ trainAt' = 0 /\ testSeen' = 0
    BY <1>4 DEF HistoryInv, Untrained, trainingVars
  <2>2. Cohorted'
    BY <1>4 DEF Cohorted, Training
  <2>3. \A split, lbls : RowsBelow(split, lbls, trainAt)' = {}
    <3>1. ASSUME NEW split, NEW lbls PROVE RowsBelow(split, lbls, trainAt)' = {}
      <4>1. \A i \in 1..Len(cohort') : ~(cohort'[i].seq < 0)
        <5>1. CohortInv' /\ Cohorted'
          BY <2>2
        <5>2. \A i \in 1..Len(cohort') : cohort'[i].seq \in 0..(Len(Input') - 1)
          BY <5>1 DEF CohortInv
        <5> QED BY <5>2
      <4> QED BY <2>1, <4>1 DEF RowsBelow
    <3> QED BY <3>1
  <2>4. Cardinality({}) = 0
    BY FS_EmptySet
  <2>5. Len(train') = 0 /\ Len(validation') = 0 /\ 1..0 = {}
    BY <2>1
  <2>6. \A y : {i \in 1..Len(train') : train'[i].y = y} = {}
    BY <2>5
  <2> QED BY <2>1, <2>3, <2>4, <2>5, <2>6 DEF CountsInv
<1>5. CASE ~Training'
  BY <1>5 DEF CountsInv
<1>6. \/ FeatureRow \/ NotTrainable \/ SaveModel \/ WriteModelManifest \/ (Training /\ UNCHANGED vars)
      \/ (stage = "summarising" /\ UNCHANGED trainingVars /\ Training') \/ ~Training'
  BY DEF Next, CanonNext, ReadRow, ReadMalformed, EndOfInput, Merge, WriteLedger, KilledMerging,
         LabelsNext, Pass1, Pass1Empty, Pass2, SplitsNext, SplitRows, WriteSplits, TrainingNext, Training, vars
<1> QED BY <1>1, <1>2, <1>3, <1>4, <1>5, <1>6
-----------------------------------------------------------------------------
(* What is saved, and what its manifest says.                             *)
LEMMA ModelStart == Init => ModelInv
BY DEF Init, CanonInit, TrainingInit, ModelInv

LEMMA ModelStep ==
  ASSUME HistoryInv, ModelInv, [Next]_vars
  PROVE  ModelInv'
<1>1. CASE FeatureRow
  <2>1. /\ stage = "training" /\ stage' \in {"training", "failed"}
        /\ UNCHANGED <<model, modelManifest>>
    BY <1>1, FeatureRowEffect DEF Extracts
  <2> QED BY <2>1 DEF ModelInv
<1>2. CASE NotTrainable
  <2>1. stage = "training" /\ stage' = "failed" /\ UNCHANGED <<model, modelManifest>>
    BY <1>2 DEF NotTrainable, trainingVars
  <2> QED BY <2>1 DEF ModelInv
<1>3. CASE SaveModel
  <2>1. /\ stage = "training" /\ stage' = "saved" /\ trainAt = Len(Input) /\ Trainable /\ model' = <<train>>
        /\ UNCHANGED <<dataVars, trainAt, train, validation, modelManifest>>
    BY <1>3 DEF SaveModel
  <2>2. Input' = Input /\ Trainable' = Trainable
    BY <2>1, InputStays DEF dataVars, canonVars, labelVars, Trainable, Classes
  <2>3. modelManifest = <<>>
    BY <2>1 DEF ModelInv
  <2> QED BY <2>1, <2>2, <2>3 DEF ModelInv
<1>4. CASE WriteModelManifest
  <2>1. /\ stage = "saved" /\ stage' = "trained"
        /\ UNCHANGED <<dataVars, trainAt, train, validation, testSeen, model>>
        /\ modelManifest' = <<[model |-> model[1], evaluatedOn |-> validation,
                               positives |-> Cardinality({i \in DOMAIN train : train[i].y = 1}),
                               negatives |-> Cardinality({i \in DOMAIN train : train[i].y = 0}),
                               testIsolated |-> testSeen]>>
    BY <1>4 DEF WriteModelManifest
  <2>2. Input' = Input /\ Trainable' = Trainable
    BY <2>1, InputStays DEF dataVars, canonVars, labelVars, Trainable, Classes
  <2>3. trainAt = Len(Input) /\ Trainable /\ model = <<train>>
    BY <2>1 DEF ModelInv
  <2> QED BY <2>1, <2>2, <2>3 DEF ModelInv
<1>5. CASE stage \notin {"training", "saved", "trained", "failed"} /\ UNCHANGED trainingVars
                /\ stage' \notin {"saved", "trained"}
  <2>1. model' = <<>> /\ modelManifest' = <<>>
    BY <1>5 DEF HistoryInv, Untrained, trainingVars
  <2> QED BY <1>5, <2>1 DEF ModelInv
<1>6. CASE UNCHANGED vars
  <2>1. stage' = stage /\ UNCHANGED <<trainAt, train, validation, testSeen, model, modelManifest>>
    BY <1>6 DEF vars, trainingVars
  <2>2. Input' = Input /\ Trainable' = Trainable
    BY <1>6, <2>1, InputStays DEF vars, canonVars, labelVars, Trainable, Classes
  <2> QED BY <2>1, <2>2 DEF ModelInv
<1>7. \/ FeatureRow \/ NotTrainable \/ SaveModel \/ WriteModelManifest \/ UNCHANGED vars
      \/ stage \notin {"training", "saved", "trained", "failed"} /\ UNCHANGED trainingVars
                /\ stage' \notin {"saved", "trained"}
  BY DEF Next, CanonNext, ReadRow, ReadMalformed, EndOfInput, Merge, WriteLedger, KilledMerging,
         LabelsNext, Pass1, Pass1Empty, Pass2, SplitsNext, SplitRows, WriteSplits, TrainingNext
<1> QED BY <1>1, <1>2, <1>3, <1>4, <1>5, <1>6, <1>7

(* When all rows have been read, every row of a split has been counted.   *)
LEMMA AllBelow ==
  ASSUME CanonInv, LabelsInv, CohortInv, Cohorted, NEW split, NEW lbls
  PROVE  Count(split, lbls) = Cardinality(RowsBelow(split, lbls, Len(Input)))
<1>1. Len(Input) \in Nat
  BY LabelledRows DEF Cohorted, LabelsMade
<1>2. DOMAIN cohort = 1..Len(cohort) /\ \A i \in 1..Len(cohort) : cohort[i].seq < Len(Input)
  BY <1>1, CohortRows
<1> QED BY <1>2 DEF Count, RowsBelow

(* A split with a row of these labels is in the summary.                  *)
LEMMA CountedIsPresent ==
  ASSUME CohortInv, Cohorted, NEW split, NEW lbls, Count(split, lbls) # 0
  PROVE  split \in SplitsPresent
<1>1. {i \in DOMAIN cohort : cohort[i].split = split /\ cohort[i].label \in lbls} # {}
  BY FS_EmptySet DEF Count
<1> QED BY <1>1 DEF SplitsPresent, CohortInv, IsSeq

(* Rows of either label are the rows of the one and those of the other.   *)
LEMMA EitherLabel ==
  ASSUME CohortInv, Cohorted, NEW split
  PROVE  Count(split, {0, 1}) = Count(split, {1}) + Count(split, {0})
<1> DEFINE A(lbls) == {i \in DOMAIN cohort : cohort[i].split = split /\ cohort[i].label \in lbls}
<1>1. \A lbls : A(lbls) \subseteq 1..Len(cohort)
  BY DEF CohortInv, IsSeq
<1>2. Len(cohort) \in Nat
  BY DEF CohortInv, IsSeq
<1>3. IsFiniteSet(A({0})) /\ IsFiniteSet(A({1})) /\ Cardinality(A({0})) \in Nat /\ Cardinality(A({1})) \in Nat
  BY <1>1, <1>2, IndexSets
<1>4. A({0, 1}) = A({1}) \cup A({0}) /\ A({1}) \cap A({0}) = {}
  OBVIOUS
<1> HIDE DEF A
<1>5. Cardinality(A({0, 1})) = Cardinality(A({1})) + Cardinality(A({0}))
  <2> DEFINE X == A({1})
             Y == A({0})
  <2>1. Cardinality(X \cup Y) = Cardinality(X) + Cardinality(Y) - Cardinality(X \cap Y)
    <3> HIDE DEF X, Y
    <3> QED BY <1>3, FS_Union DEF X, Y
  <2>2. Cardinality(X \cap Y) = 0
    BY <1>4, FS_EmptySet
  <2>3. Cardinality(X) \in Nat /\ Cardinality(Y) \in Nat
    BY <1>3
  <2>4. A({0, 1}) = X \cup Y
    BY <1>4
  <2> HIDE DEF X, Y
  <2>5. Cardinality(X \cup Y) = Cardinality(X) + Cardinality(Y)
    BY <2>1, <2>2, <2>3
  <2> QED BY <2>4, <2>5 DEF X, Y
<1> QED BY <1>5 DEF Count, A

LEMMA ManifestIsRight ==
  ASSUME CanonInv, LabelsInv, CohortInv, SummaryInv, ExamplesInv, CountsInv, ModelInv
  PROVE  ManifestDescribesModel
<1>1. ASSUME model # <<>> PROVE {model[1][i].y : i \in DOMAIN model[1]} = {0, 1}
  <2>1. Trainable /\ model[1] = train
    BY <1>1 DEF ModelInv
  <2> QED BY <2>1 DEF Trainable, Classes
<1>2. ASSUME modelManifest # <<>>
      PROVE  LET m == modelManifest[1]
                 summary == splitManifest[1].summary
             IN  /\ <<m.model>> = model
                 /\ m.positives = summary["train"].pos /\ m.negatives = summary["train"].neg
                 /\ Len(m.evaluatedOn) = summary["validation"].pos + summary["validation"].neg
                 /\ m.testIsolated = Count("test", {0, 1, NoLabel})
  <2> DEFINE m == modelManifest[1]
             summary == splitManifest[1].summary
             ofClass(y) == {i \in 1..Len(train) : train[i].y = y}
  <2>1. /\ stage = "trained" /\ trainAt = Len(Input) /\ Trainable /\ model = <<train>>
        /\ modelManifest = <<[model |-> model[1], evaluatedOn |-> validation,
                              positives |-> Cardinality({i \in DOMAIN train : train[i].y = 1}),
                              negatives |-> Cardinality({i \in DOMAIN train : train[i].y = 0}),
                              testIsolated |-> testSeen]>>
    BY <1>2 DEF ModelInv
  <2>2. Training /\ Cohorted
    BY <2>1 DEF Training, Cohorted
  <2>3. /\ IsSeq(train) /\ IsSeq(validation) /\ DOMAIN train = 1..Len(train)
        /\ DOMAIN validation = 1..Len(validation) /\ Len(train) \in Nat
    BY DEF ExamplesInv, IsSeq
  <2>4. /\ m.model = train /\ m.evaluatedOn = validation /\ m.testIsolated = testSeen
        /\ m.positives = Cardinality(ofClass(1)) /\ m.negatives = Cardinality(ofClass(0))
    BY <2>1, <2>3
  <2>5. /\ Cardinality(ofClass(1)) = Count("train", {1})
        /\ Cardinality(ofClass(0)) = Count("train", {0})
        /\ Len(validation) = Count("validation", {0, 1})
        /\ testSeen = Count("test", {0, 1, NoLabel})
    BY <2>1, <2>2, AllBelow DEF CountsInv
  <2>6. Count("train", {1}) # 0
    <3>1. ofClass(1) # {}
      BY <2>1, <2>3 DEF Trainable, Classes
    <3>2. Cardinality(ofClass(1)) # 0
      BY <2>3, <3>1, IndexSets
    <3> QED BY <2>5, <3>2
  <2>7. Count("validation", {0, 1}) # 0
    <3>1. Len(validation) # 0
      <4>1. validation # <<>> /\ validation = [i \in 1..Len(validation) |-> validation[i]]
        BY <2>1, <2>3 DEF Trainable, IsSeq
      <4>2. ASSUME Len(validation) = 0 PROVE validation = <<>>
        <5>1. validation = [i \in 1..0 |-> validation[i]]
          BY <4>1, <4>2
        <5> HIDE <4>1
        <5>2. [i \in 1..0 |-> validation[i]] = <<>>
          OBVIOUS
        <5> QED BY <5>1, <5>2
      <4> QED BY <4>1, <4>2
    <3> QED BY <2>5, <3>1
  <2>8. "train" \in SplitsPresent /\ "validation" \in SplitsPresent
    BY <2>2, <2>6, <2>7, CountedIsPresent
  <2>9. summary = [s \in SplitsPresent |-> [pos |-> Count(s, {1}), neg |-> Count(s, {0}),
                                            censored |-> Count(s, {NoLabel})]]
    BY <2>2 DEF SummaryInv
  <2> HIDE DEF summary, m, ofClass
  <2>10. /\ summary["train"].pos = Count("train", {1}) /\ summary["train"].neg = Count("train", {0})
         /\ summary["validation"].pos = Count("validation", {1})
         /\ summary["validation"].neg = Count("validation", {0})
    BY <2>8, <2>9
  <2>11. Count("validation", {0, 1}) = Count("validation", {1}) + Count("validation", {0})
    BY <2>2, EitherLabel
  <2>12. /\ <<m.model>> = model
         /\ m.positives = summary["train"].pos /\ m.negatives = summary["train"].neg
         /\ Len(m.evaluatedOn) = summary["validation"].pos + summary["validation"].neg
         /\ m.testIsolated = Count("test", {0, 1, NoLabel})
    BY <2>1, <2>4, <2>5, <2>10, <2>11
  <2> QED BY <2>12 DEF summary, m
<1> QED BY <1>1, <1>2 DEF ManifestDescribesModel

(* In every run, the counts of the model's manifest are those of the      *)
(* cohort the split tool wrote, and a model has seen both classes.        *)
THEOREM ManifestIsOfModel == Spec => []ManifestDescribesModel
<1> DEFINE Inv == /\ CanonInv /\ LabelsInv /\ CohortInv /\ SummaryInv
                  /\ HistoryInv /\ ExamplesInv /\ CountsInv /\ ModelInv
<1>1. Init => Inv
  BY CanonStart, LabelsStart, CohortStart, SummaryStart, HistoryStart, ExamplesStart, CountsStart, ModelStart
<1>2. Inv /\ [Next]_vars => Inv'
  BY CanonStep, LabelsStep, CohortStep, SummaryStep, HistoryStep, ExamplesStep, CountsStep, ModelStep
<1>3. Inv => ManifestDescribesModel
  BY ManifestIsRight
<1> QED BY <1>1, <1>2, <1>3, PTL DEF Spec
=============================================================================
