-------------------------------- MODULE Streaming --------------------------------
(***************************************************************************)
(* What happens around an engine run: its diagnostics are replayed, or it  *)
(* is run by the streaming runner, audited by the adapter and compared     *)
(* with the published numbers.  The two uses share no file.                *)
(***************************************************************************)
EXTENDS DiagnosticReplay, Reproduction

VARIABLE tool

vars == <<tool, replayVars, runVars, reproVars>>

Init ==
  /\ ReproInit
  /\ \/ /\ tool = "diagnostics" /\ RunInit(<<>>, FALSE, "dynamic_pressure", 0, {})
        /\ \E m \in Modes, n \in 1..MaxEvents : ReplayInit(m, n)
     \/ /\ tool = "runner" /\ ReplayInit("fixed", 1)
        /\ \E rows \in Cohorts, ids \in BOOLEAN, cadence \in Policies,
              n \in EventCounts, splits \in EvalSplits : RunInit(rows, ids, cadence, n, splits)

Next == \/ tool = "diagnostics" /\ ReplayNext /\ UNCHANGED <<tool, runVars, reproVars>>
        \/ tool = "runner" /\ repro = "idle" /\ RunNext /\ UNCHANGED <<tool, replayVars, reproVars>>
        \/ tool = "runner" /\ ReproNext /\ UNCHANGED <<tool, replayVars>>

Spec == Init /\ [][Next]_vars
=============================================================================
