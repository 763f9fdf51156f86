---------------------------------- MODULE MCData ----------------------------------
(* A bounded campaign for TLC: seconds 1..7, one per split and embargo.   *)
EXTENDS ModelTraining

Row(t, u, n, a) == [ts |-> t, user |-> u, item |-> n, act |-> a]

(* Views and purchases of one user at every second, of a held-out user at *)
(* some, each kind of outlier, and all behaviours and two items where     *)
(* ties are broken.                                                       *)
MCRows == {Row(t, 1, 1, a) : t \in 1..7, a \in {"pv", "buy"}}
          \cup {Row(1, 2, 1, "pv"), Row(2, 2, 1, "buy"), Row(4, 2, 1, "pv")}
          \cup {Row(t, 1, 1, "buy") : t \in {-1, 0, 8}}
          \cup {Row(2, 1, 1, "fav"), Row(2, 1, 1, "cart"), Row(2, 1, 2, "pv")}
=============================================================================
