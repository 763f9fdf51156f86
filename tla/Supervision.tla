------------------------------ MODULE Supervision ------------------------------
(***************************************************************************)
(* SubprocessSupervisor.execute (tools/supervised_runner.py), the attempt  *)
(* directories it allocates, and the process it supervises: bpfeat_engine  *)
(* (source/apps/engine_main.cpp), which creates its output directory itself*)
(* and publishes a receipt by renaming it, or a tool that starts a helper. *)
(*                                                                         *)
(* An execution is identified by a number, which stands for its run_nonce. *)
(* A supervisor may crash anywhere; its child then runs on as an orphan.   *)
(* The input file is its content number, 0 when it is absent; contents do  *)
(* not recur.  An exit code is 0 or 1, for every other code and signal.    *)
(***************************************************************************)
EXTENDS Integers, FiniteSetsExt

CONSTANTS Executions,   (* bound: how many times execute is called         *)
          FourDigits,   (* the last number the directory pattern matches   *)
          Overlap,      (* may calls for one run directory overlap?        *)
          Crashes,      (* may a supervisor crash?                         *)
          Children,     (* what may be supervised: "engine", "tool"        *)
          Changes,      (* bound: how often the input file is changed      *)
          Raising       (* bound: the calls whose communicate may raise    *)
                        (* something else than TimeoutExpired              *)

ASSUME SupervisionAssumption ==
  /\ Executions \in Nat \ {0} /\ FourDigits \in Nat \ {0} /\ Changes \in Nat
  /\ Overlap \in BOOLEAN /\ Crashes \in BOOLEAN /\ Children \subseteq {"engine", "tool"}
  /\ Raising \subseteq Nat

VARIABLES dirs,      (* the attempt directories, by number                 *)
          sup,       (* one activation of execute per execution            *)
          proc,      (* its child process                                  *)
          input,     (* content of the input file                          *)
          changes    (* how often it has been changed                      *)

vars == <<dirs, sup, proc, input, changes>>
-----------------------------------------------------------------------------
Exec == 1..Executions
Number == 1..Executions
Content == 0..(Changes + 1)

NoInventory == [files |-> {}, logs |-> 0]
NoRecord == [by |-> 0, status |-> "none", before |-> 0, after |-> 0,
             outputs |-> NoInventory]
NoFiles == [exists |-> FALSE, owner |-> 0, logs |-> 0, files |-> {}, record |-> NoRecord]
Idle == [pc |-> "idle", num |-> 0, status |-> "none", before |-> 0, after |-> 0,
         outputs |-> NoInventory]

Init ==
  /\ dirs = [n \in Number |-> NoFiles]
  /\ sup = [e \in Exec |-> Idle]
  /\ proc = [e \in Exec |-> [kind |-> "none", leader |-> "none", code |-> 0, helper |-> FALSE,
                             reaped |-> FALSE, signalled |-> FALSE, read |-> {}]]
  /\ input = 1 /\ changes = 0

Ended(e) == sup[e].pc \in {"done", "crashed"}
Alive(e) == proc[e].leader \notin {"none", "exited"}

Goto(e, pc) == sup' = [sup EXCEPT ![e].pc = pc]
(* The locals of execute are gone; the child was given the directory.     *)
Leave(e, pc) == sup' = [sup EXCEPT ![e] = [Idle EXCEPT !.pc = pc, !.num = sup[e].num]]
GotoWith(e, pc, status) == sup' = [sup EXCEPT ![e].pc = pc, ![e].status = status]

(* Everything in an attempt directory but execution_record.json.          *)
Inventory(n) == [files |-> dirs[n].files, logs |-> dirs[n].logs]

(* Somebody changes, removes or restores the input file.                  *)
ChangeInput ==
  /\ changes < Changes
  /\ changes' = changes + 1
  /\ input' \in (0..(changes + 2)) \ {input}
  /\ UNCHANGED <<dirs, sup, proc>>
-----------------------------------------------------------------------------
(* The directories the pattern attempt\d{4} finds.                        *)
Existing == {n \in Number : dirs[n].exists /\ n <= FourDigits}

LatestAttempt == Max(Existing \cup {1})

(* allocate_attempt_directory: a number, not yet a directory.             *)
NextAttempt == 1 + Max(Existing \cup {0})

Allocate(e) ==
  /\ sup[e].pc = "idle"
  /\ \A d \in 1..(e - 1) : sup[d].pc # "idle" /\ (Overlap \/ Ended(d))
  /\ sup' = [sup EXCEPT ![e].pc = "hash", ![e].num = NextAttempt]
  /\ UNCHANGED <<dirs, proc, input, changes>>

(* inputs_before; then the executable is looked for.                      *)
HashInputs(e) ==
  /\ sup[e].pc = "hash"
  /\ \/ sup' = [sup EXCEPT ![e].pc = "launch", ![e].before = input]
     \/ sup' = [sup EXCEPT ![e].pc = "missing", ![e].before = input, ![e].after = input,
                           ![e].status = "FAILED"]
  /\ UNCHANGED <<dirs, proc, input, changes>>

(* Popen starts the child in a session of its own, or raises.             *)
Launch(e) ==
  /\ sup[e].pc = "launch"
  /\ \/ /\ Goto(e, "wait")
        /\ \E kind \in Children :
             proc' = [proc EXCEPT ![e].kind = kind, ![e].helper = (kind = "tool"),
                                  ![e].leader = IF kind = "engine" THEN "preflight" ELSE "tool"]
     \/ /\ GotoWith(e, "mkdir", "FAILED")
        /\ UNCHANGED proc
  /\ UNCHANGED <<dirs, input, changes>>

StatusOfAnyExit(code) == "COMPLETED"

StatusOf(code) == IF code = 0 THEN "COMPLETED" ELSE "FAILED"

(* communicate returns when the pipes are closed and the leader is reaped.*)
Collect(e) ==
  /\ sup[e].pc = "wait"
  /\ proc[e].leader = "exited" /\ ~proc[e].helper
  /\ GotoWith(e, "mkdir", StatusOf(proc[e].code))
  /\ proc' = [proc EXCEPT ![e].reaped = TRUE]
  /\ UNCHANGED <<dirs, input, changes>>

(* Any other exception of communicate: the child is left to itself.       *)
CollectRaises(e) ==
  /\ e \in Raising /\ sup[e].pc = "wait"
  /\ GotoWith(e, "mkdir", "FAILED")
  /\ UNCHANGED <<dirs, proc, input, changes>>

DeadlineAfterExit(e) ==
  /\ sup[e].pc = "wait" /\ ~Alive(e)
  /\ GotoWith(e, "sigterm", "TIMED_OUT")
  /\ UNCHANGED <<dirs, proc, input, changes>>

(* communicate raises TimeoutExpired, possibly as the child is finishing. *)
Deadline(e) ==
  /\ sup[e].pc = "wait"
  /\ GotoWith(e, "sigterm", "TIMED_OUT")
  /\ UNCHANGED <<dirs, proc, input, changes>>

(* killpg(SIGTERM): the leader is not reaped, so the group is found.      *)
SigTermGroup(e) ==
  /\ sup[e].pc = "sigterm"
  /\ Goto(e, "terminate")
  /\ proc' = [proc EXCEPT ![e].signalled = TRUE]
  /\ UNCHANGED <<dirs, input, changes>>

(* terminate() polls first, and so reaps a leader that is dead by now.    *)
Terminate(e) ==
  /\ sup[e].pc = "terminate"
  /\ Goto(e, "sigkill")
  /\ proc' = [proc EXCEPT ![e].reaped = ~Alive(e)]
  /\ UNCHANGED <<dirs, input, changes>>

(* After the grace period: getpgid of a reaped leader fails, and then     *)
(* nothing is killed; otherwise the whole group is.                       *)
SigKillGroup(e) ==
  /\ sup[e].pc = "sigkill"
  /\ Goto(e, "mkdir")
  /\ proc' = IF proc[e].reaped THEN proc
             ELSE [proc EXCEPT ![e].leader = "exited", ![e].helper = FALSE, ![e].reaped = TRUE,
                               ![e].code = IF Alive(e) THEN 1 ELSE @]
  /\ UNCHANGED <<dirs, input, changes>>

MakeNoDirectory(e) ==
  /\ sup[e].pc \in {"mkdir", "missing"}
  /\ Goto(e, IF sup[e].pc = "mkdir" THEN "logs" ELSE "missing_logs")
  /\ UNCHANGED <<dirs, proc, input, changes>>

(* mkdir(exist_ok=True), also when the executable is missing.             *)
MakeDirectory(e) ==
  /\ sup[e].pc \in {"mkdir", "missing"}
  /\ dirs' = [dirs EXCEPT ![sup[e].num].exists = TRUE]
  /\ Goto(e, IF sup[e].pc = "mkdir" THEN "logs" ELSE "missing_logs")
  /\ UNCHANGED <<proc, input, changes>>

WriteLogs(e) ==
  /\ sup[e].pc \in {"logs", "missing_logs"}
  /\ dirs' = [dirs EXCEPT ![sup[e].num].logs = e]
  /\ Goto(e, IF sup[e].pc = "logs" THEN "audit" ELSE "inventory")
  /\ UNCHANGED <<proc, input, changes>>

AcceptedIfPresent(e) == input # 0

(* The file is still there with the content hashed before the launch.     *)
InputsUnmodified(e) == input # 0 /\ input = sup[e].before

AuditInputs(e) ==
  /\ sup[e].pc = "audit"
  /\ sup' = [sup EXCEPT ![e].pc = "inventory", ![e].after = input,
                        ![e].status = IF InputsUnmodified(e) THEN @ ELSE "FAILED"]
  /\ UNCHANGED <<dirs, proc, input, changes>>

TakeInventory(e) ==
  /\ sup[e].pc = "inventory"
  /\ sup' = [sup EXCEPT ![e].pc = "truncate", ![e].outputs = Inventory(sup[e].num)]
  /\ UNCHANGED <<dirs, proc, input, changes>>

(* open("w") empties execution_record.json before json.dump fills it.     *)
TruncateRecord(e) ==
  /\ sup[e].pc = "truncate"
  /\ dirs' = [dirs EXCEPT ![sup[e].num].record = [NoRecord EXCEPT !.by = e, !.status = "torn"]]
  /\ Goto(e, "dump")
  /\ UNCHANGED <<proc, input, changes>>

DumpRecord(e) ==
  /\ sup[e].pc = "dump"
  /\ dirs' = [dirs EXCEPT ![sup[e].num].record =
                [by |-> e, status |-> sup[e].status, before |-> sup[e].before,
                 after |-> sup[e].after, outputs |-> sup[e].outputs]]
  /\ Leave(e, "done")
  /\ UNCHANGED <<proc, input, changes>>

(* The supervisor dies; its child does not.                               *)
Crash(e) ==
  /\ Crashes /\ sup[e].pc # "idle" /\ ~Ended(e)
  /\ Leave(e, "crashed")
  /\ UNCHANGED <<dirs, proc, input, changes>>

Supervise(e) ==
  \/ Allocate(e) \/ HashInputs(e) \/ Launch(e) \/ Collect(e) \/ CollectRaises(e)
  \/ Deadline(e) \/ SigTermGroup(e) \/ Terminate(e) \/ SigKillGroup(e)
  \/ MakeDirectory(e) \/ WriteLogs(e)
  \/ AuditInputs(e) \/ TakeInventory(e) \/ TruncateRecord(e) \/ DumpRecord(e)
-----------------------------------------------------------------------------
(* The engine.  Its --out-dir is the attempt directory of its supervisor. *)
EngineAt(e, leader) == proc[e].leader = leader
EngineGoto(e, leader) == proc' = [proc EXCEPT ![e].leader = leader]
Exits(e, code) == proc' = [proc EXCEPT ![e].leader = "exited", ![e].code = code]
AddFile(e, file) == dirs' = [dirs EXCEPT ![sup[e].num].files = @ \cup {file}]

(* Options, model and events are checked and opened; nothing is owned yet.*)
EnginePreflight(e) ==
  /\ EngineAt(e, "preflight")
  /\ \/ /\ input # 0
        /\ proc' = [proc EXCEPT ![e].leader = "create", ![e].read = {input}]
     \/ Exits(e, 1)
  /\ UNCHANGED <<dirs, sup, input, changes>>

EngineCreateIfNeeded(e) ==
  /\ EngineAt(e, "create")
  /\ EngineGoto(e, "execute")
  /\ dirs' = [dirs EXCEPT ![sup[e].num].exists = TRUE, ![sup[e].num].owner = e]
  /\ UNCHANGED <<sup, input, changes>>

(* fs::create_directory must create it, or the engine gives up unrecorded.*)
EngineCreate(e) ==
  /\ EngineAt(e, "create")
  /\ IF dirs[sup[e].num].exists
     THEN Exits(e, 1) /\ UNCHANGED dirs
     ELSE /\ EngineGoto(e, "execute")
          /\ dirs' = [dirs EXCEPT ![sup[e].num].exists = TRUE, ![sup[e].num].owner = e]
  /\ UNCHANGED <<sup, input, changes>>

(* run_pipeline reads the events while it writes the two output files.    *)
EngineExecute(e) ==
  /\ EngineAt(e, "execute")
  /\ AddFile(e, "rows")
  /\ \E next \in {"close", "fail"} :
       proc' = [proc EXCEPT ![e].leader = next, ![e].read = @ \cup ({input} \ {0})]
  /\ UNCHANGED <<sup, input, changes>>

(* Every row reaches its file when both files are closed.                 *)
EngineClose(e) ==
  /\ EngineAt(e, "close")
  /\ \/ AddFile(e, "all_rows") /\ EngineGoto(e, "receipt")
     \/ EngineGoto(e, "fail") /\ UNCHANGED dirs
  /\ UNCHANGED <<sup, input, changes>>

EngineReceiptInPlace(e) ==
  /\ EngineAt(e, "receipt")
  /\ AddFile(e, "receipt")
  /\ \E next \in {"rename", "fail"} : EngineGoto(e, next)
  /\ UNCHANGED <<sup, input, changes>>

(* engine_receipt.pending.json, complete or not.                          *)
EngineReceipt(e) ==
  /\ EngineAt(e, "receipt")
  /\ AddFile(e, "pending")
  /\ \E next \in {"rename", "fail"} : EngineGoto(e, next)
  /\ UNCHANGED <<sup, input, changes>>

EngineRename(e) ==
  /\ EngineAt(e, "rename")
  /\ \/ /\ dirs' = [dirs EXCEPT ![sup[e].num].files = (@ \ {"pending"}) \cup {"receipt"}]
        /\ EngineGoto(e, "return")
     \/ EngineGoto(e, "fail") /\ UNCHANGED dirs
  /\ UNCHANGED <<sup, input, changes>>

(* engine_failure.json, in the directory the engine owns.                 *)
EngineFail(e) ==
  /\ EngineAt(e, "fail")
  /\ Exits(e, 1)
  /\ AddFile(e, "failure") \/ UNCHANGED dirs
  /\ UNCHANGED <<sup, input, changes>>

EngineReturn(e) ==
  /\ EngineAt(e, "return")
  /\ Exits(e, 0)
  /\ UNCHANGED <<dirs, sup, input, changes>>

Engine(e) ==
  \/ EnginePreflight(e) \/ EngineCreate(e) \/ EngineExecute(e) \/ EngineClose(e)
  \/ EngineReceipt(e) \/ EngineRename(e) \/ EngineFail(e) \/ EngineReturn(e)

(* A tool exits by itself, or its helper does.                            *)
ToolExits(e) ==
  /\ proc[e].leader = "tool"
  /\ \E code \in {0, 1} : Exits(e, code)
  /\ UNCHANGED <<dirs, sup, input, changes>>

HelperExits(e) ==
  /\ proc[e].helper
  /\ proc' = [proc EXCEPT ![e].helper = FALSE]
  /\ UNCHANGED <<dirs, sup, input, changes>>

(* SIGTERM takes effect on the leader; a helper may ignore it.            *)
DiesOfSignal(e) ==
  /\ proc[e].signalled /\ Alive(e)
  /\ Exits(e, 1)
  /\ UNCHANGED <<dirs, sup, input, changes>>

Next == \/ \E e \in Exec : \/ Supervise(e) \/ Crash(e) \/ Engine(e)
                           \/ ToolExits(e) \/ HelperExits(e) \/ DiesOfSignal(e)
        \/ ChangeInput

Spec == Init /\ [][Next]_vars

(* The supervisor's thread keeps running and its timer fires; nothing is  *)
(* assumed of the child.                                                  *)
LiveSpec == Spec /\ \A e \in Exec : WF_vars(Supervise(e))
-----------------------------------------------------------------------------
Statuses == {"none", "COMPLETED", "FAILED", "TIMED_OUT"}
Files == {"rows", "all_rows", "pending", "receipt", "failure"}

TypeOK ==
  /\ \A n \in Number :
       /\ dirs[n].exists \in BOOLEAN /\ dirs[n].owner \in 0..Executions
       /\ dirs[n].logs \in 0..Executions /\ dirs[n].files \subseteq Files
       /\ dirs[n].record.status \in Statuses \cup {"torn"}
       /\ ~dirs[n].exists => dirs[n] = NoFiles
  /\ \A e \in Exec :
       /\ sup[e].num \in 0..Executions /\ sup[e].status \in Statuses
       /\ sup[e].pc # "idle" => sup[e].num \in Number
       /\ sup[e].before \in Content /\ sup[e].after \in Content
       /\ proc[e].read \subseteq Content \ {0} /\ proc[e].code \in {0, 1}
  /\ input \in Content /\ changes \in 0..Changes

(* Prior attempts are permanent evidence: a written execution record is   *)
(* never changed again.                                                   *)
RecordsPermanent ==
  [][\A n \in Number : dirs[n].record.status \notin {"none", "torn"}
                         => dirs'[n].record = dirs[n].record]_dirs

Completed(n) ==
  dirs[n].record.status = "COMPLETED" /\ proc[dirs[n].record.by].kind = "engine"

(* A COMPLETED record stands beside the receipt of the very engine run it *)
(* describes, in a directory that engine created, with all of its rows and*)
(* no failure report, whatever orphans of crashed supervisors do.         *)
CompletedHasOwnReceipt ==
  \A n \in Number : Completed(n) =>
    /\ dirs[n].owner = dirs[n].record.by
    /\ {"all_rows", "receipt"} \subseteq dirs[n].files
    /\ {"pending", "failure"} \cap dirs[n].files = {}

(* ... and the output hashes it lists stay true.                          *)
CompletedIsSealed ==
  \A n \in Number : Completed(n) => dirs[n].record.outputs = Inventory(n)

(* The input a COMPLETED record is bound to is all the engine ever read,  *)
(* whenever before, during or after the run the file was changed.  A file *)
(* changed twice may have been restored, which two hashes cannot tell.    *)
CompletedBindsInput ==
  \A n \in Number : Completed(n) /\ changes <= 1 =>
    LET r == dirs[n].record IN r.before = r.after /\ proc[r.by].read = {r.before}

(* engine_receipt.json appears only beside complete outputs, wherever the *)
(* engine is killed.                                                      *)
ReceiptMeansAllRows ==
  \A n \in Number : "receipt" \in dirs[n].files =>
    /\ "all_rows" \in dirs[n].files
    /\ "failure" \notin dirs[n].files

(* execute always returns: the deadline bounds every wait for the child,  *)
(* even if it hangs or never reacts to a signal.                          *)
AlwaysReturns == \A e \in Exec : sup[e].pc # "idle" ~> Ended(e)

(* When a run is recorded as TIMED_OUT, nothing of its process tree runs. *)
TreeTerminated ==
  \A n \in Number : LET r == dirs[n].record IN
    r.status = "TIMED_OUT" => ~Alive(r.by) /\ ~proc[r.by].helper
=============================================================================
