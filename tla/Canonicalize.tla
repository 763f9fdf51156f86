------------------------------ MODULE Canonicalize ------------------------------
(***************************************************************************)
(* tools/canonicalize_user_behavior.py: an external sort.  Raw rows are    *)
(* read, filtered to the campaign window and spilled in sorted runs; a     *)
(* k-way merge drops repeated rows and numbers the rest.                   *)
(*                                                                         *)
(* A row is [ts, user, item, act]; item stands for the (item, category)    *)
(* pair, ts counts seconds.  The tool may be killed while it writes, and   *)
(* whatever it left in the output file is then read by the next tool.      *)
(***************************************************************************)
EXTENDS Integers, Sequences, FiniteSets, TLC

CONSTANTS RawRows,        (* the well-formed rows a file may contain       *)
          MaxRaw,         (* bound: rows of a raw file                     *)
          ChunkSize, CampaignStart, CampaignEnd

(* parse_and_validate_row; integers of 64 bits hold an item and category. *)
ASSUME CanonicalizeAssumption ==
  /\ RawRows \subseteq [ts : Int, user : Nat, item : Nat, act : {"pv", "fav", "cart", "buy"}]
  /\ MaxRaw \in Nat /\ ChunkSize \in Nat \ {0}
  /\ CampaignStart \in Nat /\ CampaignEnd \in Nat /\ CampaignStart <= CampaignEnd

VARIABLES stage,      (* the tool that is running, or how it all ended     *)
          raw,        (* the rows read so far, as a set                    *)
          chunk,      (* chunk                                             *)
          runs,       (* temp_files, what is left of each sorted run       *)
          acct,       (* accounting                                        *)
          prevKey,    (* prev_key                                          *)
          canonical,  (* the rows of the output file, seq is the index - 1 *)
          ledger      (* the ledger file                                   *)

canonVars == <<raw, chunk, runs, acct, prevKey, canonical, ledger>>

None == <<>>

(* BEHAVIOR_SORT_ORDER breaks ties (the codes put cart before fav).       *)
SortOrder == [pv |-> 0, fav |-> 1, cart |-> 2, buy |-> 3]

SortKey(r) == <<r.ts, r.user, r.item, SortOrder[r.act]>>

(* Python's order of tuples.                                              *)
KeyBefore(j, k) == \E n \in 1..Len(j) : j[n] < k[n] /\ \A m \in 1..(n - 1) : j[m] = k[m]

Before(r, s) == KeyBefore(SortKey(r), SortKey(s))

(* chunk.sort(): the rows rearranged so that none is before an earlier one. *)
Sorted(rows) ==
  LET D == DOMAIN rows
      order == CHOOSE p \in {q \in [D -> D] : \A j \in D : \E i \in D : q[i] = j} :
                 \A i, j \in D : i < j => ~Before(rows[p[j]], rows[p[i]])
  IN  [i \in D |-> rows[order[i]]]

Rows(seq) == {seq[i] : i \in DOMAIN seq}

NoAccounting == [raw |-> 0, negative |-> 0, before |-> 0, after |-> 0, calendar |-> 0,
                 inWindow |-> 0, duplicates |-> 0, emitted |-> 0, chunks |-> 0]

CanonInit ==
  /\ stage = "reading"
  /\ raw = {} /\ chunk = <<>> /\ runs = <<>>
  /\ acct = NoAccounting
  /\ prevKey = None /\ canonical = <<>> /\ ledger = None

(* Which outlier counter a row falls under; the first test that applies.  *)
Outlier(r) == IF r.ts < 0 THEN "negative"
              ELSE IF r.ts < CampaignStart THEN "before"
              ELSE IF r.ts > CampaignEnd THEN "after" ELSE "none"

(* Bug variant: a chunk is spilled without chunk.sort().                  *)
SpilledAsRead(rows) == Append(runs, rows)

Spilled(rows) == Append(runs, Sorted(rows))

ReadRow(r) ==
  /\ stage = "reading" /\ acct.raw < MaxRaw
  /\ raw' = raw \cup {r}
  /\ LET kind == Outlier(r)
         full == Len(chunk) + 1 >= ChunkSize
     IN  IF kind # "none"
         THEN /\ acct' = [acct EXCEPT !.raw = @ + 1, ![kind] = @ + 1, !.calendar = @ + 1]
              /\ UNCHANGED <<chunk, runs>>
         ELSE /\ acct' = [acct EXCEPT !.raw = @ + 1, !.inWindow = @ + 1,
                                      !.chunks = @ + IF full THEN 1 ELSE 0]
              /\ chunk' = IF full THEN <<>> ELSE Append(chunk, r)
              /\ runs' = IF full THEN Spilled(Append(chunk, r)) ELSE runs
  /\ UNCHANGED <<stage, prevKey, canonical, ledger>>

(* parse_and_validate_row raises: nothing has been written yet.           *)
ReadMalformed ==
  /\ stage = "reading" /\ acct.raw < MaxRaw
  /\ acct' = [acct EXCEPT !.raw = @ + 1]
  /\ stage' = "failed"
  /\ UNCHANGED <<raw, chunk, runs, prevKey, canonical, ledger>>

(* The end of the file, or --max-rows: the partial chunk is spilled too.   *)
EndOfInput ==
  /\ stage = "reading"
  /\ runs' = IF chunk = <<>> THEN runs ELSE Spilled(chunk)
  /\ acct' = [acct EXCEPT !.chunks = @ + IF chunk = <<>> THEN 0 ELSE 1]
  /\ chunk' = <<>> /\ stage' = "merging"
  /\ UNCHANGED <<raw, prevKey, canonical, ledger>>

(* heapq.merge yields a smallest head.                                    *)
Smallest(i) == /\ runs[i] # <<>>
               /\ \A j \in DOMAIN runs : runs[j] # <<>> => ~Before(Head(runs[j]), Head(runs[i]))

IsDuplicate(r) == prevKey = SortKey(r)

Emit(r) ==
  /\ ~IsDuplicate(r)
  /\ canonical' = Append(canonical, r) /\ prevKey' = SortKey(r)
  /\ acct' = [acct EXCEPT !.emitted = @ + 1]

Skip(r) ==
  /\ IsDuplicate(r)
  /\ acct' = [acct EXCEPT !.duplicates = @ + 1]
  /\ UNCHANGED <<canonical, prevKey>>

Merge ==
  /\ stage = "merging"
  /\ \E i \in DOMAIN runs :
       /\ Smallest(i)
       /\ runs' = [runs EXCEPT ![i] = Tail(@)]
       /\ Emit(Head(runs[i])) \/ Skip(Head(runs[i]))
  /\ UNCHANGED <<stage, raw, chunk, ledger>>

ConservationLaw == acct.raw = acct.emitted + acct.calendar + acct.duplicates

WriteLedger ==
  /\ stage = "merging" /\ \A i \in DOMAIN runs : runs[i] = <<>>
  /\ ledger' = <<[accounting |-> acct, conservation |-> ConservationLaw]>>
  /\ stage' = IF ConservationLaw THEN "indexing" ELSE "failed"
  /\ runs' = <<>> /\ prevKey' = None
  /\ UNCHANGED <<raw, chunk, acct, canonical>>

(* Killed while writing: the flushed part of the output remains, without  *)
(* a ledger, and the next tool takes any file of the right format.  (A    *)
(* torn last line is taken to be cut off.)                                *)
KilledMerging ==
  /\ stage = "merging"
  /\ \E n \in 0..Len(canonical) : canonical' = SubSeq(canonical, 1, n)
  /\ stage' = "indexing"
  /\ runs' = <<>> /\ prevKey' = None /\ acct' = NoAccounting
  /\ UNCHANGED <<raw, chunk, ledger>>

CanonNext == \/ \E r \in RawRows : ReadRow(r)
             \/ ReadMalformed \/ EndOfInput \/ Merge \/ WriteLedger \/ KilledMerging
=============================================================================
