--------------------------- MODULE SupervisionProofs ---------------------------
(***************************************************************************)
(* For any number of calls of execute, overlapping or not, with crashes or *)
(* without, and every interleaving of supervisors, engines, tools, helpers *)
(* and signals: a receipt means complete outputs, and a COMPLETED record   *)
(* describes the engine run whose receipt lies beside it and is bound to   *)
(* the input that run read.  When calls do not overlap and the directory   *)
(* pattern finds every attempt, written records are permanent and what     *)
(* they list stays true.                                                   *)
(***************************************************************************)
EXTENDS Supervision, RecursionLemmas

(* Where a supervisor may be before its child is there, and with it.      *)
Early == {"idle", "hash", "launch"}
Watching == {"wait", "sigterm", "terminate", "sigkill"}

(* The places where an engine owns its directory.                         *)
Working == {"execute", "close", "receipt", "rename", "return", "fail"}

(* Every variable has the fields of its records.                          *)
Fields ==
  /\ DOMAIN dirs = Number /\ DOMAIN sup = Exec /\ DOMAIN proc = Exec
  /\ \A n \in Number : DOMAIN dirs[n] = {"exists", "owner", "logs", "files", "record"}
  /\ \A e \in Exec : DOMAIN sup[e] = {"pc", "num", "status", "before", "after", "outputs"}
  /\ \A e \in Exec : DOMAIN proc[e] = {"kind", "leader", "code", "helper", "reaped",
                                       "signalled", "read"}

(* Supervisor and child agree on where they are.                          *)
PlaceInv ==
  \A e \in Exec :
    /\ sup[e].pc \in Early => proc[e].leader = "none"
    /\ sup[e].pc \in Watching => proc[e].leader # "none"
    /\ sup[e].status = "COMPLETED" => proc[e].leader = "exited" /\ proc[e].code = 0
    /\ proc[e].leader = "tool" => proc[e].kind = "tool"

(* What an engine's directory holds while it is there, and for ever after *)
(* it was killed there.                                                   *)
FilesAt(leader, files) ==
  /\ leader = "execute" => files = {}
  /\ leader = "close" => files = {"rows"}
  /\ leader = "receipt" => files = {"rows", "all_rows"}
  /\ leader = "rename" => files = {"rows", "all_rows", "pending"}
  /\ leader = "return" => files = {"rows", "all_rows", "receipt"}
  /\ leader = "fail" => "receipt" \notin files
  /\ "receipt" \in files => "all_rows" \in files /\ {"pending", "failure"} \cap files = {}

(* A directory has one owner, and only the owner fills it; an engine that *)
(* exits with 0 has left its receipt there.                               *)
OwnerInv ==
  /\ \A n \in Number : dirs[n].owner = 0 => dirs[n].files = {}
  /\ \A n \in Number : ~dirs[n].exists => dirs[n].owner = 0
  /\ \A n \in Number : dirs[n].owner \in Exec \cup {0}
  /\ \A e \in Exec, n \in Number :
       /\ dirs[n].owner = e => /\ sup[e].num = n /\ proc[e].leader \in Working \cup {"exited"}
                               /\ FilesAt(proc[e].leader, dirs[n].files)
       /\ sup[e].num = n /\ proc[e].leader \in Working => dirs[n].owner = e
       /\ sup[e].num = n /\ proc[e].leader = "exited" /\ proc[e].kind = "engine" /\ proc[e].code = 0
            => dirs[n].owner = e /\ "receipt" \in dirs[n].files

(* Who wrote a COMPLETED record, and that its child is over.              *)
RecordInv ==
  \A n \in Number : dirs[n].record.status = "COMPLETED" =>
    LET b == dirs[n].record.by
    IN  b \in Exec /\ sup[b].num = n /\ proc[b].leader = "exited" /\ proc[b].code = 0

(* Contents a reader or a hash can have seen while the file was changed   *)
(* at most once.                                                          *)
InputInv ==
  /\ changes \in Nat
  /\ (changes = 0 => input = 1) /\ (changes = 1 => input # 1)
  /\ \A e \in Exec :
       /\ proc[e].leader \in {"none", "preflight", "tool"} => proc[e].read = {}
       /\ proc[e].leader \in Working \cup {"create"} => proc[e].read # {}
       /\ proc[e].leader = "exited" /\ proc[e].kind = "engine" /\ proc[e].code = 0
            => proc[e].read # {}
       /\ changes = 0 => proc[e].read \subseteq {1}
       /\ changes <= 1 => sup[e].before \in {0, 1, input}
       /\ changes = 1 /\ sup[e].before # 0 /\ sup[e].before = input => proc[e].read \subseteq {input}

(* What the second hash has established.                                  *)
Audited == {"inventory", "truncate", "dump"}
Bound(changed, child, before, after) ==
  before = after /\ (changed <= 1 /\ child.kind = "engine" => child.read = {before})
BindInv ==
  /\ \A e \in Exec :
       /\ sup[e].pc \in {"missing", "missing_logs"} => sup[e].status # "COMPLETED"
       /\ sup[e].pc \in Audited /\ sup[e].status = "COMPLETED"
            => Bound(changes, proc[e], sup[e].before, sup[e].after)
  /\ \A n \in Number : dirs[n].record.status = "COMPLETED" =>
       Bound(changes, proc[dirs[n].record.by], dirs[n].record.before, dirs[n].record.after)

IInv == Fields /\ PlaceInv /\ OwnerInv /\ RecordInv /\ InputInv /\ BindInv

(* One step of call e, of its supervisor or of its child.                 *)
Step(e) == \/ Supervise(e) \/ Crash(e) \/ Engine(e)
           \/ ToolExits(e) \/ HelperExits(e) \/ DiesOfSignal(e)
-----------------------------------------------------------------------------
USE SupervisionAssumption

(* Nothing is there when the first call has not begun.                    *)
LEMMA InitInv == Init => IInv
<1> SUFFICES ASSUME Init PROVE IInv
  OBVIOUS
<1> USE DEF Init, Idle, NoFiles, NoRecord, NoInventory, Exec, Number
<1>1. Fields
  BY DEF Fields
<1>2. PlaceInv
  BY DEF PlaceInv, Early, Watching
<1>3. OwnerInv
  BY DEF OwnerInv, Working
<1>4. RecordInv
  BY DEF RecordInv
<1>5. InputInv
  BY DEF InputInv, Working
<1>6. BindInv
  BY DEF BindInv, Audited
<1> QED
  BY <1>1, <1>2, <1>3, <1>4, <1>5, <1>6 DEF IInv

(* A step of call e touches its own activation, its own child and its own *)
(* directory.                                                             *)
Others(e) ==
  /\ \A d \in Exec : d # e => sup'[d] = sup[d] /\ proc'[d] = proc[d]
  /\ \A n \in Number : n # sup[e].num => dirs'[n] = dirs[n]

(* What it may do to the child: nothing, start it, move it, end it.       *)
ChildEffect(e) ==
  \/ /\ proc'[e].leader = proc[e].leader /\ proc'[e].kind = proc[e].kind
     /\ proc'[e].code = proc[e].code
  \/ /\ sup[e].pc = "launch" /\ sup'[e].pc = "wait"
     /\ proc'[e].leader = IF proc'[e].kind = "engine" THEN "preflight" ELSE "tool"
     /\ proc'[e].kind \in Children
  \/ /\ proc'[e].kind = proc[e].kind
     /\ \/ proc[e].leader = "preflight" /\ proc'[e].leader = "create"
        \/ proc[e].leader \in Working \cup {"create"} /\ proc'[e].leader \in Working
  \/ /\ proc[e].leader \notin {"none", "exited"} /\ proc'[e].leader = "exited"
     /\ proc'[e].kind = proc[e].kind
     /\ proc'[e].code = 0 => proc[e].leader \in {"return", "tool"}

(* What it may do to the activation.                                      *)
SupEffect(e) ==
  /\ sup[e].pc # "idle" => sup'[e].num = sup[e].num
  /\ sup'[e].pc \in Early => sup[e].pc \in Early
  /\ sup'[e].pc \in Watching => sup[e].pc \in Watching \/ proc'[e].leader # "none"
  /\ sup'[e].status = "COMPLETED" => \/ sup[e].status = "COMPLETED"
                                     \/ proc'[e].leader = "exited" /\ proc'[e].code = 0

(* What it may do to the record of its directory.                         *)
RecordEffect(e) ==
  \A n \in Number : dirs'[n].record.status = "COMPLETED" =>
    \/ dirs'[n].record = dirs[n].record
    \/ /\ n = sup[e].num /\ dirs'[n].record.by = e /\ sup[e].status = "COMPLETED"
       /\ sup'[e].num = sup[e].num /\ sup[e].pc = "dump"
       /\ dirs'[n].record.before = sup[e].before /\ dirs'[n].record.after = sup[e].after

(* What its child may read, and its activation hash, of the input file.   *)
ReadEffect(e) ==
  /\ input' = input /\ changes' = changes
  /\ \/ proc'[e].read = proc[e].read /\ proc'[e].leader # "create"
     \/ proc[e].leader \in Working /\ proc'[e].read = proc[e].read \cup ({input} \ {0})
     \/ /\ proc[e].leader = "preflight" /\ proc'[e].leader = "create"
        /\ input # 0 /\ proc'[e].read = {input}
     \/ proc'[e].read = proc[e].read /\ proc'[e].leader = proc[e].leader
HashEffect(e) ==
  /\ \/ sup'[e].before \in {0, sup[e].before}
     \/ sup[e].pc \in Early /\ sup'[e].pc \in {"launch", "missing"} /\ sup'[e].before = input
  /\ sup'[e].pc \in {"missing", "missing_logs"} =>
       \/ sup'[e].status # "COMPLETED"
       \/ sup[e].pc \in {"missing", "missing_logs"} /\ sup'[e].status = sup[e].status
  /\ sup'[e].pc \in Audited /\ sup'[e].status = "COMPLETED" =>
       /\ sup[e].status = "COMPLETED" /\ sup'[e].before = sup[e].before
       /\ \/ sup[e].pc \in Audited \cup {"missing_logs"} /\ sup'[e].after = sup[e].after
          \/ sup'[e].after = input /\ sup[e].before = input /\ input # 0

Effects(e) == /\ Others(e) /\ ChildEffect(e) /\ SupEffect(e)
              /\ RecordEffect(e) /\ ReadEffect(e) /\ HashEffect(e)

(* By action: every step of call e is one of these.                       *)
LEMMA StepEffects ==
  ASSUME Fields, PlaceInv, NEW e \in Exec, Step(e)
  PROVE  Fields' /\ Effects(e)
<1> USE DEF Fields, Exec, Number, PlaceInv, Early, Watching, Working, Others,
   ChildEffect, SupEffect, RecordEffect, ReadEffect, HashEffect,
            Effects, Audited
<1>1. CASE Allocate(e)
  BY <1>1 DEF Allocate, Ended
<1>2. CASE HashInputs(e)
  BY <1>2 DEF HashInputs
<1>3. CASE Launch(e)
  <2>1. CASE GotoWith(e, "mkdir", "FAILED") /\ UNCHANGED proc
    BY <1>3, <2>1 DEF Launch, GotoWith
  <2>2. ASSUME NEW kind \in Children, Goto(e, "wait"),
               proc' = [proc EXCEPT ![e].kind = kind, ![e].helper = (kind = "tool"),
                          ![e].leader = IF kind = "engine" THEN "preflight" ELSE "tool"]
        PROVE  Fields' /\ Effects(e)
    <3>1. UNCHANGED <<dirs, input, changes>> /\ sup[e].pc = "launch"
      BY <1>3 DEF Launch
    <3>2. /\ proc'[e].kind = kind /\ proc'[e].read = proc[e].read
          /\ proc'[e].leader = IF kind = "engine" THEN "preflight" ELSE "tool"
      BY <2>2
    <3>3. sup'[e].pc = "wait" /\ sup'[e].num = sup[e].num /\ sup'[e].status = sup[e].status
          /\ sup'[e].before = sup[e].before
      BY <2>2 DEF Goto
    <3>4. Fields' /\ Others(e)
      BY <2>2, <3>1 DEF Goto
    <3> QED
      BY <3>1, <3>2, <3>3, <3>4
  <2> QED
    BY <1>3, <2>1, <2>2 DEF Launch
<1>4. CASE Collect(e)
  BY <1>4 DEF Collect, Goto, GotoWith, StatusOf
<1>5a. CASE CollectRaises(e)
  BY <1>5a DEF CollectRaises, Goto, GotoWith
<1>5. CASE Deadline(e)
  BY <1>5 DEF Deadline, Goto, GotoWith
<1>6. CASE SigTermGroup(e)
  BY <1>6 DEF SigTermGroup, Goto, GotoWith
<1>7. CASE Terminate(e)
  BY <1>7 DEF Terminate, Goto, GotoWith, Alive
<1>8. CASE SigKillGroup(e)
  BY <1>8 DEF SigKillGroup, Goto, GotoWith, Alive
<1>9. CASE MakeDirectory(e)
  BY <1>9 DEF MakeDirectory, Goto, GotoWith
<1>10. CASE WriteLogs(e)
  BY <1>10 DEF WriteLogs, Goto, GotoWith
<1>11. CASE AuditInputs(e)
  BY <1>11 DEF AuditInputs, InputsUnmodified
<1>12. CASE TakeInventory(e)
  BY <1>12 DEF TakeInventory, Inventory
<1>13. CASE TruncateRecord(e)
  BY <1>13 DEF TruncateRecord, Goto, GotoWith, NoRecord, NoInventory
<1>14. CASE DumpRecord(e)
  BY <1>14 DEF DumpRecord, Leave, Idle, NoInventory, Ended
<1>15. CASE Crash(e)
  BY <1>15 DEF Crash, Leave, Idle, NoInventory, Ended
<1>16. CASE EnginePreflight(e)
  <2>0. Fields'
    BY <1>16, SMTT(30) DEF EnginePreflight, Exits
  <2>1. Others(e)
    BY <1>16 DEF EnginePreflight, Exits
  <2>2. ChildEffect(e) /\ ReadEffect(e)
    BY <1>16 DEF EnginePreflight, EngineAt, Exits
  <2>3. SupEffect(e) /\ HashEffect(e)
    BY <1>16 DEF EnginePreflight, EngineAt, Exits
  <2>4. RecordEffect(e)
    BY <1>16 DEF EnginePreflight, Exits
  <2> QED
    BY <2>0, <2>1, <2>2, <2>3, <2>4
<1>17. CASE EngineCreate(e)
  <2>1. CASE dirs[sup[e].num].exists
    BY <1>17, <2>1 DEF EngineCreate, EngineAt, Exits
  <2>2. CASE ~dirs[sup[e].num].exists
    <3>1. UNCHANGED sup /\ proc[e].leader = "create"
      BY <1>17 DEF EngineCreate, EngineAt
    <3>2. proc' = [proc EXCEPT ![e].leader = "execute"]
      BY <1>17, <2>2 DEF EngineCreate, EngineGoto
    <3>3. dirs' = [dirs EXCEPT ![sup[e].num].exists = TRUE, ![sup[e].num].owner = e]
      BY <1>17, <2>2 DEF EngineCreate
    <3>4. Fields'
      BY <3>1, <3>2, <3>3
    <3>5. proc'[e].leader = "execute" /\ proc'[e].read = proc[e].read /\ input' = input
          /\ changes' = changes
      BY <1>17, <3>2 DEF EngineCreate
    <3>6. Others(e) /\ ChildEffect(e) /\ SupEffect(e)
      BY <3>1, <3>2, <3>3
    <3>7. RecordEffect(e)
      BY <3>1, <3>2, <3>3, SMTT(30)
    <3>8. ReadEffect(e) /\ HashEffect(e)
      BY <3>1, <3>5
    <3> QED
      BY <3>4, <3>6, <3>7, <3>8
  <2> QED
    BY <2>1, <2>2
<1>18. CASE EngineExecute(e)
  BY <1>18 DEF EngineExecute, EngineAt, EngineGoto, Exits, AddFile
<1>19. CASE EngineClose(e)
  <2>0. Fields'
    BY <1>19, SMTT(30) DEF EngineClose, EngineGoto, AddFile
  <2>1. Others(e)
    BY <1>19 DEF EngineClose, EngineGoto, AddFile
  <2>2. ChildEffect(e) /\ ReadEffect(e)
    BY <1>19 DEF EngineClose, EngineAt, EngineGoto
  <2>3. SupEffect(e) /\ HashEffect(e)
    BY <1>19 DEF EngineClose, EngineAt, EngineGoto
  <2>4. RecordEffect(e)
    BY <1>19 DEF EngineClose, EngineGoto, AddFile
  <2> QED
    BY <2>0, <2>1, <2>2, <2>3, <2>4
<1>20. CASE EngineReceipt(e)
  BY <1>20 DEF EngineReceipt, EngineAt, EngineGoto, Exits, AddFile
<1>21. CASE EngineRename(e)
  <2>0. Fields'
    BY <1>21, SMTT(30) DEF EngineRename, EngineGoto, AddFile
  <2>1. Others(e)
    BY <1>21 DEF EngineRename, EngineGoto, AddFile
  <2>2. ChildEffect(e) /\ ReadEffect(e)
    BY <1>21 DEF EngineRename, EngineAt, EngineGoto
  <2>3. SupEffect(e) /\ HashEffect(e)
    BY <1>21 DEF EngineRename, EngineAt, EngineGoto
  <2>4. RecordEffect(e)
    BY <1>21 DEF EngineRename, EngineGoto, AddFile
  <2> QED
    BY <2>0, <2>1, <2>2, <2>3, <2>4
<1>22. CASE EngineFail(e)
  <2>1. Fields' /\ Others(e)
    BY <1>22 DEF EngineFail, EngineAt, Exits, AddFile
  <2>2. ChildEffect(e) /\ ReadEffect(e)
    BY <1>22 DEF EngineFail, EngineAt, Exits
  <2>3. SupEffect(e) /\ HashEffect(e)
    BY <1>22 DEF EngineFail, EngineAt, Exits
  <2>4. RecordEffect(e)
    BY <1>22 DEF EngineFail, AddFile
  <2> QED
    BY <2>1, <2>2, <2>3, <2>4
<1>23. CASE EngineReturn(e)
  BY <1>23 DEF EngineReturn, EngineAt, EngineGoto, Exits, AddFile
<1>24. CASE ToolExits(e)
  BY <1>24 DEF ToolExits, Exits, Alive
<1>25. CASE HelperExits(e)
  BY <1>25 DEF HelperExits
<1>26. CASE DiesOfSignal(e)
  BY <1>26 DEF DiesOfSignal, Exits, Alive
<1> QED
  BY <1>1, <1>2, <1>3, <1>4, <1>5, <1>5a, <1>6, <1>7, <1>8, <1>9, <1>10, <1>11, <1>12,
     <1>13, <1>14, <1>15, <1>16, <1>17, <1>18, <1>19, <1>20, <1>21, <1>22,
     <1>23, <1>24, <1>25, <1>26
   DEF Step, Supervise, Engine

(* Each part of the invariant then follows from the effects alone.        *)
LEMMA PlaceStep ==
  ASSUME PlaceInv, NEW e \in Exec, Others(e), ChildEffect(e), SupEffect(e)
  PROVE  PlaceInv'
<1> USE DEF PlaceInv, Early, Watching, Working
<1>1. ASSUME NEW d \in Exec, d # e
      PROVE  sup'[d] = sup[d] /\ proc'[d] = proc[d]
  BY <1>1 DEF Others
<1>2. sup'[e].pc \in Early => proc'[e].leader = "none"
  BY DEF ChildEffect, SupEffect
<1>3. sup'[e].pc \in Watching => proc'[e].leader # "none"
  BY DEF ChildEffect, SupEffect
<1>4. sup'[e].status = "COMPLETED" => proc'[e].leader = "exited" /\ proc'[e].code = 0
  BY DEF ChildEffect, SupEffect
<1>5. proc'[e].leader = "tool" => proc'[e].kind = "tool"
  BY DEF ChildEffect
<1> QED
  BY <1>1, <1>2, <1>3, <1>4, <1>5

LEMMA RecordStep ==
  ASSUME PlaceInv, RecordInv, NEW e \in Exec,
         Others(e), ChildEffect(e), SupEffect(e), RecordEffect(e)
  PROVE  RecordInv'
<1> SUFFICES ASSUME NEW n \in Number, dirs'[n].record.status = "COMPLETED"
             PROVE  LET b == dirs'[n].record.by
                    IN  /\ b \in Exec /\ sup'[b].num = n
                        /\ proc'[b].leader = "exited" /\ proc'[b].code = 0
  BY DEF RecordInv
<1>1. ASSUME NEW b \in Exec, sup[b].num = n, proc[b].leader = "exited", proc[b].code = 0
      PROVE  sup'[b].num = n /\ proc'[b].leader = "exited" /\ proc'[b].code = 0
  <2>1. CASE b # e
    BY <1>1, <2>1 DEF Others
  <2>2. CASE b = e
    BY <1>1, <2>2 DEF ChildEffect, SupEffect, PlaceInv, Early, Working
  <2> QED
    BY <2>1, <2>2
<1>2. CASE dirs'[n].record = dirs[n].record
  BY <1>1, <1>2 DEF RecordInv
<1>3. CASE n = sup[e].num /\ dirs'[n].record.by = e /\ sup[e].status = "COMPLETED"
  BY <1>1, <1>3 DEF PlaceInv
<1> QED
  BY <1>2, <1>3 DEF RecordEffect

LEMMA InputStep ==
  ASSUME PlaceInv, InputInv, NEW e \in Exec,
         Others(e), ChildEffect(e), SupEffect(e), ReadEffect(e), HashEffect(e)
  PROVE  InputInv'
<1>1. input' = input /\ changes' = changes
  BY DEF ReadEffect
<1>2. \A d \in Exec : d # e => sup'[d] = sup[d] /\ proc'[d] = proc[d]
  BY DEF Others
<1>3. proc'[e].leader \in {"none", "preflight", "tool"} => proc'[e].read = {}
  BY DEF ChildEffect, ReadEffect, PlaceInv, InputInv, Early, Working
<1>4. proc'[e].leader \in Working \cup {"create"} => proc'[e].read # {}
  BY DEF ChildEffect, ReadEffect, InputInv, Working
<1>5. proc'[e].leader = "exited" /\ proc'[e].kind = "engine" /\ proc'[e].code = 0
        => proc'[e].read # {}
  BY DEF ChildEffect, ReadEffect, PlaceInv, InputInv, Working
<1>6. changes = 0 => proc'[e].read \subseteq {1}
  BY DEF ReadEffect, InputInv
<1>7. changes <= 1 => sup'[e].before \in {0, 1, input}
  BY DEF HashEffect, InputInv
<1>8. changes = 1 /\ sup'[e].before # 0 /\ sup'[e].before = input => proc'[e].read \subseteq {input}
  <2>1. CASE sup'[e].before \in {0, sup[e].before}
    BY <2>1 DEF ReadEffect, InputInv
  <2>2. CASE sup[e].pc \in Early /\ sup'[e].pc \in {"launch", "missing"} /\ sup'[e].before = input
    BY <2>2 DEF ReadEffect, InputInv, PlaceInv, Early
  <2> QED
    BY <2>1, <2>2 DEF HashEffect
<1> QED
  BY <1>1, <1>2, <1>3, <1>4, <1>5, <1>6, <1>7, <1>8 DEF InputInv

LEMMA BindStep ==
  ASSUME PlaceInv, RecordInv, InputInv, BindInv, NEW e \in Exec,
         Others(e), ChildEffect(e), SupEffect(e), RecordEffect(e), ReadEffect(e), HashEffect(e)
  PROVE  BindInv'
<1>1. input' = input /\ changes' = changes
  BY DEF ReadEffect
<1>2. \A d \in Exec : d # e => sup'[d] = sup[d] /\ proc'[d] = proc[d]
  BY DEF Others
<1>3. ASSUME NEW d \in Exec, proc[d].leader = "exited"
      PROVE  proc'[d].kind = proc[d].kind /\ proc'[d].read = proc[d].read
  BY <1>2, <1>3 DEF ChildEffect, ReadEffect, PlaceInv, Early, Working
<1>4. \A d \in Exec : \A before, after :
        proc[d].leader = "exited" /\ Bound(changes, proc[d], before, after)
          => Bound(changes', proc'[d], before, after)
  BY <1>1, <1>3 DEF Bound
<1>5. sup'[e].pc \in {"missing", "missing_logs"} => sup'[e].status # "COMPLETED"
  BY DEF HashEffect, BindInv
<1>6. ASSUME sup'[e].pc \in Audited, sup'[e].status = "COMPLETED"
      PROVE  Bound(changes', proc'[e], sup'[e].before, sup'[e].after)
  <2>1. /\ sup[e].status = "COMPLETED" /\ sup'[e].before = sup[e].before
        /\ proc[e].leader = "exited" /\ proc[e].code = 0
    BY <1>6 DEF HashEffect, PlaceInv
  <2>2. CASE sup[e].pc \in Audited \cup {"missing_logs"} /\ sup'[e].after = sup[e].after
    BY <1>4, <2>1, <2>2 DEF BindInv
  <2>3. CASE sup'[e].after = input /\ sup[e].before = input /\ input # 0
    <3>1. changes <= 1 /\ proc[e].kind = "engine" => proc[e].read = {input}
      BY <2>1, <2>3 DEF InputInv
    <3> QED
      BY <1>1, <1>3, <2>1, <2>3, <3>1 DEF Bound
  <2> QED
    BY <1>6, <2>2, <2>3 DEF HashEffect
<1>7. ASSUME NEW n \in Number, dirs'[n].record.status = "COMPLETED"
      PROVE  Bound(changes', proc'[dirs'[n].record.by], dirs'[n].record.before,
                   dirs'[n].record.after)
  <2>1. CASE dirs'[n].record = dirs[n].record
    BY <1>4, <1>7, <2>1 DEF BindInv, RecordInv
  <2>2. CASE /\ dirs'[n].record.by = e /\ sup[e].status = "COMPLETED" /\ sup[e].pc = "dump"
             /\ dirs'[n].record.before = sup[e].before /\ dirs'[n].record.after = sup[e].after
    BY <1>4, <2>2 DEF BindInv, PlaceInv, Audited
  <2> QED
    BY <1>7, <2>1, <2>2 DEF RecordEffect
<1>8. ASSUME NEW d \in Exec, d # e
      PROVE  /\ sup'[d].pc \in {"missing", "missing_logs"} => sup'[d].status # "COMPLETED"
             /\ sup'[d].pc \in Audited /\ sup'[d].status = "COMPLETED"
                  => Bound(changes', proc'[d], sup'[d].before, sup'[d].after)
  BY <1>1, <1>2, <1>8 DEF BindInv
<1> QED
  BY <1>5, <1>6, <1>7, <1>8 DEF BindInv

(* An engine in its directory leaves these files there and moves on.      *)
Writes(e, next, files) ==
  /\ sup' = sup /\ \A d \in Exec : d # e => proc'[d] = proc[d]
  /\ proc'[e].leader = next /\ proc'[e].kind = proc[e].kind
  /\ \A n \in Number : /\ dirs'[n].owner = dirs[n].owner /\ dirs'[n].exists = dirs[n].exists
                       /\ dirs'[n].files = IF n = sup[e].num THEN files ELSE dirs[n].files

(* What an engine writes into the directory it owns keeps who owns what.  *)
LEMMA EngineWrites ==
  ASSUME OwnerInv, NEW e \in Exec, NEW next \in Working \cup {"exited"}, NEW files,
         proc[e].leader \in Working, Writes(e, next, files),
         sup[e].num \in Number => FilesAt(next, files),
         next = "exited" /\ proc'[e].code = 0 => "receipt" \in files
  PROVE  OwnerInv'
<1> USE DEF Writes
<1>1. \A n \in Number : n = sup[e].num => dirs[n].owner = e
  BY DEF OwnerInv
<1>2. \A d \in Exec, n \in Number : dirs[n].owner = d => sup[d].num = n
  BY DEF OwnerInv
<1>3. \A n \in Number : dirs'[n].owner = 0 => dirs'[n].files = {}
  BY <1>1 DEF OwnerInv, Exec
<1>4. \A n \in Number : ~dirs'[n].exists => dirs'[n].owner = 0
  BY DEF OwnerInv
<1>5. ASSUME NEW d \in Exec, NEW n \in Number
      PROVE  /\ dirs'[n].owner = d => /\ sup'[d].num = n /\ proc'[d].leader \in Working \cup {"exited"}
                                      /\ FilesAt(proc'[d].leader, dirs'[n].files)
             /\ sup'[d].num = n /\ proc'[d].leader \in Working => dirs'[n].owner = d
             /\ sup'[d].num = n /\ proc'[d].leader = "exited" /\ proc'[d].kind = "engine"
                  /\ proc'[d].code = 0 => dirs'[n].owner = d /\ "receipt" \in dirs'[n].files
  <2>1. CASE d = e
    BY <1>1, <1>2, <2>1
  <2>2. CASE d # e /\ n # sup[e].num
    BY <2>2 DEF OwnerInv
  <2>3. CASE d # e /\ n = sup[e].num
    BY <1>1, <2>3 DEF OwnerInv
  <2> QED
    BY <2>1, <2>2, <2>3
<1> QED
  BY <1>3, <1>4, <1>5 DEF OwnerInv

(* Directories keep their owners, and what these left there.              *)
LEMMA OwnerStep ==
  ASSUME Fields, PlaceInv, OwnerInv, NEW e \in Exec, Step(e)
  PROVE  OwnerInv'
<1> USE DEF Fields, Exec, Number, PlaceInv, OwnerInv, FilesAt, Early, Watching,
   Working
<1>1. CASE Allocate(e)
  BY <1>1 DEF Allocate, Ended
<1>2. CASE HashInputs(e)
  <2>1. UNCHANGED <<dirs, proc>> /\ sup[e].pc # "idle" /\ Others(e) /\ SupEffect(e)
    BY <1>2, StepEffects DEF Effects, HashInputs, Step, Supervise
  <2>2. \A d \in Exec : sup'[d].num = sup[d].num
    BY <2>1 DEF Others, SupEffect
  <2> QED
    BY <2>1, <2>2
<1>3. CASE Launch(e)
  <2>1. UNCHANGED dirs /\ sup[e].pc = "launch" /\ Others(e) /\ ChildEffect(e) /\ SupEffect(e)
    BY <1>3, StepEffects DEF Effects, Launch, Step, Supervise
  <2>2. proc[e].leader = "none" /\ proc'[e].leader \in {"none", "preflight", "tool"}
    BY <2>1 DEF ChildEffect
  <2>3. sup'[e].num = sup[e].num
    BY <2>1 DEF SupEffect
  <2> QED
    BY <2>1, <2>2, <2>3 DEF Others
<1>4. CASE Collect(e)
  BY <1>4 DEF Collect, Goto, GotoWith, StatusOf
<1>5a. CASE CollectRaises(e)
  BY <1>5a DEF CollectRaises, Goto, GotoWith
<1>5. CASE Deadline(e)
  BY <1>5 DEF Deadline, Goto, GotoWith
<1>6. CASE SigTermGroup(e)
  BY <1>6 DEF SigTermGroup, Goto, GotoWith
<1>7. CASE Terminate(e)
  BY <1>7 DEF Terminate, Goto, GotoWith, Alive
<1>8. CASE SigKillGroup(e)
  BY <1>8 DEF SigKillGroup, Goto, GotoWith, Alive
<1>9. CASE MakeDirectory(e)
  BY <1>9, SMTT(30) DEF MakeDirectory, Goto, GotoWith
<1>10. CASE WriteLogs(e)
  BY <1>10, SMTT(30) DEF WriteLogs, Goto, GotoWith
<1>11. CASE AuditInputs(e)
  BY <1>11 DEF AuditInputs, InputsUnmodified
<1>12. CASE TakeInventory(e)
  BY <1>12 DEF TakeInventory, Inventory
<1>13. CASE TruncateRecord(e)
  BY <1>13, SMTT(30) DEF TruncateRecord, Goto, GotoWith, NoRecord, NoInventory
<1>14. CASE DumpRecord(e)
  BY <1>14, SMTT(30) DEF DumpRecord, Leave, Idle, NoInventory, Ended
<1>15. CASE Crash(e)
  BY <1>15 DEF Crash, Leave, Idle, NoInventory, Ended
<1>16. CASE EnginePreflight(e)
  <2>1. proc[e].leader = "preflight" /\ UNCHANGED <<dirs, sup>>
    BY <1>16 DEF EnginePreflight, EngineAt
  <2>2. \/ proc'[e].leader = "create"
        \/ proc'[e].leader = "exited" /\ proc'[e].code = 1
    BY <1>16 DEF EnginePreflight, Exits
  <2>3. \A d \in Exec : d # e => proc'[d] = proc[d]
    BY <1>16 DEF EnginePreflight, Exits
  <2> QED
    BY <2>1, <2>2, <2>3
<1>17. CASE EngineCreate(e)
  <2>1. proc[e].leader = "create" /\ UNCHANGED sup
    BY <1>17 DEF EngineCreate, EngineAt
  <2>2. CASE dirs[sup[e].num].exists
    <3>1. UNCHANGED dirs /\ proc'[e].leader = "exited" /\ proc'[e].code = 1
      BY <1>17, <2>2 DEF EngineCreate, Exits
    <3>2. \A d \in Exec : d # e => proc'[d] = proc[d]
      BY <1>17, <2>2 DEF EngineCreate, Exits
    <3> QED
      BY <2>1, <3>1, <3>2
  <2>3. CASE ~dirs[sup[e].num].exists
    <3>1. proc' = [proc EXCEPT ![e].leader = "execute"]
      BY <1>17, <2>3 DEF EngineCreate, EngineGoto
    <3>2. dirs' = [dirs EXCEPT ![sup[e].num].exists = TRUE, ![sup[e].num].owner = e]
      BY <1>17, <2>3 DEF EngineCreate
    <3>3. \A n \in Number : /\ dirs'[n].files = dirs[n].files
                            /\ dirs'[n].owner = IF n = sup[e].num THEN e ELSE dirs[n].owner
                            /\ dirs[n].exists /\ n # sup[e].num => dirs'[n].exists
                            /\ n = sup[e].num => dirs'[n].exists
      BY <3>2
    <3>4. \A n \in Number : n # sup[e].num => dirs'[n].exists = dirs[n].exists
      BY <3>2
    <3>5. \A n \in Number : n = sup[e].num => dirs[n].owner = 0 /\ dirs[n].files = {}
      BY <2>3
    <3>6. \A d \in Exec : /\ proc'[d].kind = proc[d].kind /\ proc'[d].code = proc[d].code
                          /\ proc'[d].leader = IF d = e THEN "execute" ELSE proc[d].leader
      BY <3>1
    <3>7. \A n \in Number : /\ dirs'[n].owner = 0 => dirs'[n].files = {}
                            /\ ~dirs'[n].exists => dirs'[n].owner = 0
                            /\ dirs'[n].owner \in Exec \cup {0}
      BY <3>3, <3>4
    <3>8. ASSUME NEW d \in Exec, NEW n \in Number
          PROVE  /\ dirs'[n].owner = d => /\ sup'[d].num = n
                                          /\ proc'[d].leader \in Working \cup {"exited"}
                                          /\ FilesAt(proc'[d].leader, dirs'[n].files)
                 /\ sup'[d].num = n /\ proc'[d].leader \in Working => dirs'[n].owner = d
                 /\ sup'[d].num = n /\ proc'[d].leader = "exited" /\ proc'[d].kind = "engine"
                      /\ proc'[d].code = 0 => dirs'[n].owner = d /\ "receipt" \in dirs'[n].files
      <4>1. CASE d = e
        BY <2>1, <3>3, <3>5, <3>6, <4>1
      <4>2. CASE d # e /\ n # sup[e].num
        BY <2>1, <3>3, <3>6, <4>2
      <4>3. CASE d # e /\ n = sup[e].num
        BY <2>1, <3>3, <3>5, <3>6, <4>3
      <4> QED
        BY <4>1, <4>2, <4>3
    <3> HIDE DEF Fields, PlaceInv, FilesAt, Working
    <3> QED
      BY <3>7, <3>8
  <2> QED
    BY <2>2, <2>3
<1>18. CASE EngineExecute(e)
  <2> DEFINE files == dirs[sup[e].num].files
  <2>1. proc[e].leader = "execute" /\ (sup[e].num \in Number => FilesAt("execute", files))
    BY <1>18 DEF EngineExecute, EngineAt
  <2>2. \/ Writes(e, "close", files \cup {"rows"})
        \/ Writes(e, "fail", files \cup {"rows"})
    BY <1>18 DEF EngineExecute, AddFile, Writes
  <2> HIDE DEF OwnerInv
  <2> QED
    BY <2>1, <2>2, EngineWrites
<1>19. CASE EngineClose(e)
  <2> DEFINE files == dirs[sup[e].num].files
  <2>1. UNCHANGED sup /\ proc[e].leader = "close"
        /\ (sup[e].num \in Number => FilesAt("close", files))
    BY <1>19 DEF EngineClose, EngineAt
  <2>2. Writes(e, "receipt", files \cup {"all_rows"}) \/ Writes(e, "fail", files)
    <3>1. CASE AddFile(e, "all_rows") /\ EngineGoto(e, "receipt")
      BY <2>1, <3>1 DEF AddFile, EngineGoto, Writes
    <3>2. CASE EngineGoto(e, "fail") /\ UNCHANGED dirs
      BY <2>1, <3>2 DEF EngineGoto, Writes
    <3> QED
      BY <1>19, <3>1, <3>2 DEF EngineClose
  <2> HIDE DEF OwnerInv
  <2> QED
    BY <2>1, <2>2, EngineWrites
<1>20. CASE EngineReceipt(e)
  <2> DEFINE files == dirs[sup[e].num].files
  <2>1. proc[e].leader = "receipt" /\ (sup[e].num \in Number => FilesAt("receipt", files))
    BY <1>20 DEF EngineReceipt, EngineAt
  <2>2. \/ Writes(e, "rename", files \cup {"pending"})
        \/ Writes(e, "fail", files \cup {"pending"})
    BY <1>20 DEF EngineReceipt, AddFile, EngineGoto, Writes
  <2> HIDE DEF OwnerInv
  <2> QED
    BY <2>1, <2>2, EngineWrites
<1>21. CASE EngineRename(e)
  <2> DEFINE files == dirs[sup[e].num].files
  <2>1. UNCHANGED sup /\ proc[e].leader = "rename"
        /\ (sup[e].num \in Number => FilesAt("rename", files))
    BY <1>21 DEF EngineRename, EngineAt
  <2>2. \/ Writes(e, "return", (files \ {"pending"}) \cup {"receipt"})
        \/ Writes(e, "fail", files)
    <3>1. CASE /\ dirs' = [dirs EXCEPT ![sup[e].num].files =
                              (@ \ {"pending"}) \cup {"receipt"}]
               /\ EngineGoto(e, "return")
      BY <2>1, <3>1 DEF EngineGoto, Writes
    <3>2. CASE EngineGoto(e, "fail") /\ UNCHANGED dirs
      BY <2>1, <3>2 DEF EngineGoto, Writes
    <3> QED
      BY <1>21, <3>1, <3>2 DEF EngineRename
  <2> HIDE DEF OwnerInv
  <2> QED
    BY <2>1, <2>2, EngineWrites
<1>22. CASE EngineFail(e)
  <2> DEFINE files == dirs[sup[e].num].files
  <2>1. UNCHANGED sup /\ proc[e].leader = "fail"
        /\ (sup[e].num \in Number => FilesAt("fail", files))
    BY <1>22 DEF EngineFail, EngineAt
  <2>2. Writes(e, "exited", files \cup {"failure"}) \/ Writes(e, "exited", files)
    <3>1. CASE AddFile(e, "failure")
      BY <1>22, <2>1, <3>1 DEF EngineFail, Exits, AddFile, Writes
    <3>2. CASE UNCHANGED dirs
      BY <1>22, <2>1, <3>2 DEF EngineFail, Exits, Writes
    <3> QED
      BY <1>22, <3>1, <3>2 DEF EngineFail
  <2>3. proc'[e].code = 1
    BY <1>22 DEF EngineFail, Exits
  <2> HIDE DEF OwnerInv
  <2> QED
    BY <2>1, <2>2, <2>3, EngineWrites
<1>23. CASE EngineReturn(e)
  BY <1>23 DEF EngineReturn, EngineAt, EngineGoto, Exits, AddFile
<1>24. CASE ToolExits(e)
  BY <1>24 DEF ToolExits, Exits, Alive
<1>25. CASE HelperExits(e)
  BY <1>25 DEF HelperExits
<1>26. CASE DiesOfSignal(e)
  BY <1>26 DEF DiesOfSignal, Exits, Alive
<1> QED
  BY <1>1, <1>2, <1>3, <1>4, <1>5, <1>5a, <1>6, <1>7, <1>8, <1>9, <1>10, <1>11, <1>12,
     <1>13, <1>14, <1>15, <1>16, <1>17, <1>18, <1>19, <1>20, <1>21, <1>22,
     <1>23, <1>24, <1>25, <1>26
   DEF Step, Supervise, Engine

(* All parts together are inductive.                                      *)
LEMMA NextInv == IInv /\ [Next]_vars => IInv'
<1> SUFFICES ASSUME IInv, [Next]_vars PROVE IInv'
  OBVIOUS
<1>1. CASE UNCHANGED vars \/ ChangeInput
  <2>1. Fields' /\ PlaceInv' /\ OwnerInv' /\ RecordInv'
    BY <1>1 DEF IInv, Fields, PlaceInv, OwnerInv, RecordInv, ChangeInput, vars
  <2>2. InputInv'
    BY <1>1 DEF IInv, InputInv, ChangeInput, vars
  <2>3. BindInv'
    BY <1>1 DEF IInv, InputInv, BindInv, Bound, ChangeInput, vars
  <2> QED
    BY <2>1, <2>2, <2>3 DEF IInv
<1>2. ASSUME NEW e \in Exec, Step(e) PROVE IInv'
  <2>1. Fields' /\ Others(e) /\ ChildEffect(e) /\ SupEffect(e) /\ RecordEffect(e)
        /\ ReadEffect(e) /\ HashEffect(e)
    BY <1>2, StepEffects DEF IInv, Effects
  <2>2. PlaceInv'
    BY <2>1, PlaceStep DEF IInv
  <2>3. OwnerInv'
    BY <1>2, OwnerStep DEF IInv
  <2>4. RecordInv'
    BY <2>1, RecordStep DEF IInv
  <2>5. InputInv'
    BY <2>1, InputStep DEF IInv
  <2>6. BindInv'
    BY <2>1, BindStep DEF IInv
  <2> QED
    BY <2>1, <2>2, <2>3, <2>4, <2>5, <2>6 DEF IInv
<1> QED
  BY <1>1, <1>2 DEF Next, Step

LEMMA Invariant == Spec => []IInv
<1> QED
  BY InitInv, NextInv, PTL DEF Spec

(* engine_receipt.json (engine_main.cpp, publish_receipt) appears only    *)
(* beside complete outputs, however many engines and supervisors there    *)
(* are and wherever they are killed.                                      *)
THEOREM ReceiptsSound == Spec => []ReceiptMeansAllRows
<1>1. ASSUME IInv, NEW n \in Number, "receipt" \in dirs[n].files
      PROVE  "all_rows" \in dirs[n].files /\ "failure" \notin dirs[n].files
  <2>1. \E e \in Exec : dirs[n].owner = e
    BY <1>1 DEF IInv, OwnerInv
  <2> QED
    BY <1>1, <2>1 DEF IInv, OwnerInv, FilesAt
<1>2. IInv => ReceiptMeansAllRows
  BY <1>1 DEF ReceiptMeansAllRows
<1> QED
  BY <1>2, Invariant, PTL

(* An execution record that says COMPLETED stands beside the receipt of   *)
(* the very engine run it describes, even when calls overlap and orphans  *)
(* of crashed supervisors still run (tools/supervised_runner.py, execute).*)
THEOREM CompletedRecordsSound == Spec => []CompletedHasOwnReceipt
<1>1. ASSUME IInv, NEW n \in Number, Completed(n)
      PROVE  /\ dirs[n].owner = dirs[n].record.by
             /\ {"all_rows", "receipt"} \subseteq dirs[n].files
             /\ {"pending", "failure"} \cap dirs[n].files = {}
  <2> DEFINE b == dirs[n].record.by
  <2>1. /\ b \in Exec /\ sup[b].num = n /\ proc[b].kind = "engine"
        /\ proc[b].leader = "exited" /\ proc[b].code = 0
    BY <1>1 DEF Completed, IInv, RecordInv
  <2>2. dirs[n].owner = b /\ "receipt" \in dirs[n].files
    BY <1>1, <2>1 DEF IInv, OwnerInv
  <2>3. FilesAt(proc[b].leader, dirs[n].files)
    BY <1>1, <2>1, <2>2 DEF IInv, OwnerInv
  <2> QED
    BY <2>2, <2>3 DEF FilesAt
<1>2. IInv => CompletedHasOwnReceipt
  BY <1>1 DEF CompletedHasOwnReceipt
<1> QED
  BY <1>2, Invariant, PTL

(* The input hash of a COMPLETED record (hash_file before and after the   *)
(* run in tools/supervised_runner.py) is that of all the engine ever read,*)
(* whenever the file was changed, if it was changed once.                 *)
THEOREM InputBinding == Spec => []CompletedBindsInput
<1>1. IInv => CompletedBindsInput
  BY DEF IInv, BindInv, Bound, CompletedBindsInput, Completed
<1> QED
  BY <1>1, Invariant, PTL
-----------------------------------------------------------------------------
(* The calls begin in order, and each takes a number no larger than its   *)
(* own; a directory is there because some call was given its number, and  *)
(* it is there when that call writes into it.                             *)
Recording == {"logs", "missing_logs", "audit", "inventory", "truncate", "dump", "done"}

OrderInv ==
  /\ \A d, e \in Exec : d < e /\ sup[e].pc # "idle" => sup[d].pc # "idle"
  /\ \A e \in Exec : /\ sup[e].num \in 0..e
                     /\ sup[e].num = 0 => sup[e].pc = "idle"
                     /\ sup[e].pc = "idle" => proc[e].leader = "none"
                     /\ sup[e].pc \in Recording => dirs[sup[e].num].exists
  /\ \A n \in Number : dirs[n].exists => \E d \in Exec : sup[d].pc # "idle" /\ sup[d].num = n

(* The fields of a directory, of an activation and of a child.            *)
TypedDir(dir) ==
  /\ dir.exists \in BOOLEAN /\ dir.logs \in 0..Executions /\ dir.files \subseteq Files
  /\ dir.record.status \in Statuses \cup {"torn"}
TypedCall(call) ==
  call.status \in Statuses /\ call.before \in Content /\ call.after \in Content
TypedChild(child) == child.read \subseteq Content \ {0} /\ child.code \in {0, 1}

TypesInv ==
  /\ \A n \in Number : TypedDir(dirs[n]) /\ (~dirs[n].exists => dirs[n] = NoFiles)
  /\ \A e \in Exec : TypedCall(sup[e]) /\ TypedChild(proc[e])
  /\ input \in 0..(changes + 1) /\ changes \in 0..Changes

(* When calls do not overlap and the directory pattern sees every number, *)
(* a written record belongs to a finished call, whose number no later     *)
(* call is given.                                                         *)
Written(record) == record.status \notin {"none", "torn"}

TurnInv ==
  /\ \A d, e \in Exec : d < e /\ sup[e].pc # "idle" => Ended(d)
  /\ \A d, e \in Exec : d < e /\ sup[e].pc # "idle" /\ sup[d].pc = "done"
                          => sup[e].num # sup[d].num
  /\ \A n \in Number : Written(dirs[n].record) =>
       LET b == dirs[n].record.by IN b \in Exec /\ sup[b].num = n /\ sup[b].pc = "done"

(* From the inventory on, the directory of a completed engine run stays.  *)
Dumping == {"truncate", "dump"}
SealInv ==
  /\ \A e \in Exec :
       (sup[e].pc \in Dumping /\ sup[e].status = "COMPLETED" /\ proc[e].kind = "engine")
         => sup[e].outputs = Inventory(sup[e].num)
  /\ CompletedIsSealed

LEMMA InitOrder == Init => OrderInv /\ TypesInv /\ TurnInv /\ SealInv
<1> SUFFICES ASSUME Init PROVE OrderInv /\ TypesInv /\ TurnInv /\ SealInv
  OBVIOUS
<1> USE DEF Init, Idle, NoFiles, NoRecord, NoInventory, Exec, Number
<1>1. OrderInv
  BY DEF OrderInv, Recording
<1>2. TypesInv
  <2>1. \A n \in Number : dirs[n] = NoFiles
    OBVIOUS
  <2>2. TypedDir(NoFiles)
    BY DEF TypedDir, Files, Statuses
  <2>3. \A e \in Exec : TypedCall(sup[e]) /\ TypedChild(proc[e])
    BY DEF TypedCall, TypedChild, Statuses, Content
  <2>4. input \in 0..(changes + 1) /\ changes \in 0..Changes
    OBVIOUS
  <2> QED
    BY <2>1, <2>2, <2>3, <2>4 DEF TypesInv
<1>3. TurnInv
  BY DEF TurnInv, Written
<1>4. SealInv
  BY DEF SealInv, CompletedIsSealed, Completed, Dumping
<1> QED
  BY <1>1, <1>2, <1>3, <1>4
-----------------------------------------------------------------------------
(* The guard of Allocate on the earlier calls.                            *)
Turn(e) == \A d \in 1..(e - 1) : sup[d].pc # "idle" /\ (Overlap \/ Ended(d))

(* A step gives call e its number or leaves it, and a call that has ended *)
(* does nothing more.                                                     *)
Advances(e) ==
  /\ \/ /\ sup[e].pc = "idle" /\ sup'[e].pc = "hash" /\ sup'[e].num = NextAttempt /\ Turn(e)
        /\ UNCHANGED <<dirs, proc>>
     \/ sup'[e].num = sup[e].num /\ (sup'[e].pc = "idle" <=> sup[e].pc = "idle")
  /\ Ended(e) => sup'[e] = sup[e]
  /\ sup'[e].pc \in Recording => sup[e].pc \in Recording \/ dirs'[sup[e].num].exists

(* What it does to its directory, by the place it is at.                  *)
Touches(e) ==
  \A n \in Number :
    /\ dirs'[n].exists = dirs[n].exists \/ (n = sup[e].num /\ sup[e].pc # "idle" /\ dirs'[n].exists)
    /\ \/ dirs'[n].files = dirs[n].files /\ dirs'[n].logs = dirs[n].logs
       \/ n = sup[e].num /\ sup[e].pc \in {"logs", "missing_logs"}
       \/ n = sup[e].num /\ proc[e].leader \in Working
    /\ \/ dirs'[n].record = dirs[n].record
       \/ n = sup[e].num /\ sup[e].pc = "truncate" /\ dirs'[n].record.status = "torn"
       \/ /\ n = sup[e].num /\ sup[e].pc = "dump" /\ sup'[e].pc = "done"
          /\ dirs'[n].record.by = e /\ dirs'[n].record.status = sup[e].status
          /\ dirs'[n].record.outputs = sup[e].outputs

(* What it does to the outputs it is about to record.                     *)
Lists(e) ==
  sup'[e].pc \in Dumping =>
    \/ sup'[e].outputs = Inventory(sup[e].num) /\ sup'[e].num = sup[e].num /\ UNCHANGED dirs
    \/ /\ sup[e].pc \in Dumping /\ sup'[e].outputs = sup[e].outputs
       /\ sup'[e].status = sup[e].status

LEMMA OrderEffects ==
  ASSUME Fields, OrderInv, PlaceInv, NEW e \in Exec, Step(e)
  PROVE  Advances(e) /\ Touches(e) /\ Lists(e)
<1>0. sup[e].pc # "idle" => sup[e].num \in Number
  BY DEF OrderInv, Exec, Number
<1>00. proc[e].leader # "none" => sup[e].pc # "idle"
  BY DEF OrderInv
<1> USE <1>0, <1>00 DEF Fields, Exec, Number, Working, Advances, Touches, Lists,
            Ended, Recording, Dumping
<1>1. CASE Allocate(e)
  BY <1>1 DEF Allocate, Turn, NextAttempt
<1>2. CASE HashInputs(e)
  <2>1. CASE sup' = [sup EXCEPT ![e].pc = "launch", ![e].before = input]
    BY <1>2, <2>1 DEF HashInputs
  <2>2. CASE sup' = [sup EXCEPT ![e].pc = "missing", ![e].before = input, ![e].after = input,
                           ![e].status = "FAILED"]
    BY <1>2, <2>2 DEF HashInputs
  <2> QED
    BY <1>2, <2>1, <2>2 DEF HashInputs
<1>3. CASE Launch(e)
  <2>1. sup[e].pc = "launch" /\ UNCHANGED dirs
    BY <1>3 DEF Launch
  <2>2. \/ sup' = [sup EXCEPT ![e].pc = "wait"]
        \/ sup' = [sup EXCEPT ![e].pc = "mkdir", ![e].status = "FAILED"]
    BY <1>3, Zenon DEF Launch, Goto, GotoWith
  <2>3. sup'[e].pc \in {"wait", "mkdir"} /\ sup'[e].num = sup[e].num
    BY <2>2
  <2> QED
    BY <2>1, <2>3
<1>4. CASE Collect(e)
  BY <1>4 DEF Collect, GotoWith
<1>5a. CASE CollectRaises(e)
  BY <1>5a DEF CollectRaises, GotoWith
<1>5. CASE Deadline(e)
  BY <1>5 DEF Deadline, GotoWith
<1>6. CASE SigTermGroup(e)
  BY <1>6 DEF SigTermGroup, Goto
<1>7. CASE Terminate(e)
  BY <1>7 DEF Terminate, Goto
<1>8. CASE SigKillGroup(e)
  BY <1>8 DEF SigKillGroup, Goto
<1>9. CASE MakeDirectory(e)
  <2>1. Advances(e)
    BY <1>9 DEF MakeDirectory, Goto
  <2>2. Touches(e)
    BY <1>9 DEF MakeDirectory
  <2>3. Lists(e)
    BY <1>9 DEF MakeDirectory, Goto
  <2> QED
    BY <2>1, <2>2, <2>3
<1>10. CASE WriteLogs(e)
  BY <1>10 DEF WriteLogs, Goto
<1>11. CASE AuditInputs(e)
  BY <1>11 DEF AuditInputs
<1>12. CASE TakeInventory(e)
  BY <1>12 DEF TakeInventory
<1>13. CASE TruncateRecord(e)
  BY <1>13 DEF TruncateRecord, Goto, NoRecord, NoInventory
<1>14. CASE DumpRecord(e)
  BY <1>14 DEF DumpRecord, Leave, Idle, NoInventory
<1>15. CASE Crash(e)
  BY <1>15 DEF Crash, Leave, Idle, NoInventory
<1>16. CASE EnginePreflight(e)
  BY <1>16 DEF EnginePreflight, EngineAt, Exits
<1>17. CASE EngineCreate(e)
  <2>1. Advances(e)
    BY <1>17 DEF EngineCreate, EngineAt, EngineGoto, Exits
  <2>2. Touches(e)
    <3>1. CASE dirs[sup[e].num].exists
      BY <1>17, <3>1 DEF EngineCreate
    <3>2. CASE ~dirs[sup[e].num].exists
      <4>1. dirs' = [dirs EXCEPT ![sup[e].num].exists = TRUE, ![sup[e].num].owner = e]
        BY <1>17, <3>2 DEF EngineCreate
      <4>2. sup[e].pc # "idle"
        BY <1>17 DEF EngineCreate, EngineAt
      <4> QED
        BY <4>1, <4>2
    <3> QED
      BY <3>1, <3>2
  <2>3. Lists(e)
    BY <1>17 DEF EngineCreate, EngineAt, EngineGoto, Exits
  <2> QED
    BY <2>1, <2>2, <2>3
<1>18. CASE EngineExecute(e)
  BY <1>18 DEF EngineExecute, EngineAt, AddFile
<1>19. CASE EngineClose(e)
  <2>1. Advances(e)
    BY <1>19 DEF EngineClose, EngineAt, EngineGoto, AddFile
  <2>2. Touches(e)
    BY <1>19, SMTT(30) DEF EngineClose, EngineAt, EngineGoto, AddFile
  <2>3. Lists(e)
    BY <1>19 DEF EngineClose, EngineAt, EngineGoto, AddFile
  <2> QED
    BY <2>1, <2>2, <2>3
<1>20. CASE EngineReceipt(e)
  BY <1>20 DEF EngineReceipt, EngineAt, EngineGoto, AddFile
<1>21. CASE EngineRename(e)
  <2>1. Advances(e)
    BY <1>21 DEF EngineRename, EngineAt, EngineGoto, AddFile
  <2>2. Touches(e)
    BY <1>21, SMTT(30) DEF EngineRename, EngineAt, EngineGoto, AddFile
  <2>3. Lists(e)
    BY <1>21 DEF EngineRename, EngineAt, EngineGoto, AddFile
  <2> QED
    BY <2>1, <2>2, <2>3
<1>22. CASE EngineFail(e)
  <2>1. Advances(e)
    BY <1>22 DEF EngineFail, EngineAt, Exits, AddFile
  <2>2. Touches(e)
    BY <1>22, SMTT(30) DEF EngineFail, EngineAt, Exits, AddFile
  <2>3. Lists(e)
    BY <1>22 DEF EngineFail, EngineAt, Exits, AddFile
  <2> QED
    BY <2>1, <2>2, <2>3
<1>23. CASE EngineReturn(e)
  BY <1>23 DEF EngineReturn, EngineAt, Exits
<1>24. CASE ToolExits(e)
  BY <1>24 DEF ToolExits, Exits
<1>25. CASE HelperExits(e)
  BY <1>25 DEF HelperExits
<1>26. CASE DiesOfSignal(e)
  BY <1>26 DEF DiesOfSignal, Exits, Alive
<1> QED
  BY <1>1, <1>2, <1>3, <1>4, <1>5, <1>5a, <1>6, <1>7, <1>8, <1>9, <1>10, <1>11, <1>12, <1>13, <1>14,
     <1>15, <1>16, <1>17, <1>18, <1>19, <1>20, <1>21, <1>22, <1>23, <1>24, <1>25, <1>26
   DEF Step, Supervise, Engine

(* What a step does to the types of its directory, activation and child.  *)
LEMMA TypeEffects ==
  ASSUME Fields, OrderInv, OwnerInv, TypesInv, NEW e \in Exec, Step(e)
  PROVE  /\ \A n \in Number : \/ dirs'[n] = dirs[n]
                              \/ dirs'[n].exists /\ TypedDir(dirs'[n])
         /\ TypedCall(sup'[e]) /\ TypedChild(proc'[e])
         /\ input' = input /\ changes' = changes
<1> DEFINE Goal == /\ \A n \in Number : \/ dirs'[n] = dirs[n]
                                        \/ dirs'[n].exists /\ TypedDir(dirs'[n])
                   /\ TypedCall(sup'[e]) /\ TypedChild(proc'[e])
                   /\ input' = input /\ changes' = changes
           Dir(dir) == dir.exists /\ TypedDir(dir)
<1>0. e \in 1..Executions /\ e \in 0..Executions
  BY DEF Exec
<1>1. \A n \in Number : TypedDir(dirs[n])
  BY DEF TypesInv
<1>2. TypedCall(sup[e]) /\ TypedChild(proc[e]) /\ input \in Content
  BY DEF TypesInv, Content
<1>3. sup[e].pc \in Recording /\ sup[e].num \in Number => dirs[sup[e].num].exists
  BY DEF OrderInv
<1>4. proc[e].leader \in Working /\ sup[e].num \in Number => dirs[sup[e].num].exists
  BY DEF OwnerInv, Exec
<1> USE <1>0, <1>1, <1>2, <1>3, <1>4
    DEF Fields, Exec, Number, Working, Recording, TypedDir, TypedCall, TypedChild, Statuses, Files
<1>11. CASE Allocate(e)
  BY <1>11 DEF Allocate
<1>12. CASE HashInputs(e)
  BY <1>12 DEF HashInputs
<1>13. CASE Launch(e)
  <2>1. UNCHANGED <<dirs, input, changes>>
    BY <1>13 DEF Launch
  <2>2. \/ sup' = [sup EXCEPT ![e].pc = "wait"]
        \/ sup' = [sup EXCEPT ![e].pc = "mkdir", ![e].status = "FAILED"]
    BY <1>13, Zenon DEF Launch, Goto, GotoWith
  <2>3. ASSUME UNCHANGED proc
        PROVE  proc'[e].read = proc[e].read /\ proc'[e].code = proc[e].code
    BY <2>3
  <2>4. ASSUME NEW kind \in Children,
               proc' = [proc EXCEPT ![e].kind = kind, ![e].helper = (kind = "tool"),
                          ![e].leader = IF kind = "engine" THEN "preflight" ELSE "tool"]
        PROVE  proc'[e].read = proc[e].read /\ proc'[e].code = proc[e].code
    BY <2>4
  <2>5. TypedCall(sup'[e])
    BY <2>2
  <2>6. proc'[e].read = proc[e].read /\ proc'[e].code = proc[e].code
    BY <1>13, <2>3, <2>4 DEF Launch
  <2> QED
    BY <2>1, <2>5, <2>6
<1>14. CASE Collect(e)
  BY <1>14 DEF Collect, GotoWith, StatusOf
<1>15a. CASE CollectRaises(e)
  BY <1>15a DEF CollectRaises, GotoWith
<1>15. CASE Deadline(e)
  BY <1>15 DEF Deadline, GotoWith
<1>16. CASE SigTermGroup(e)
  BY <1>16 DEF SigTermGroup, Goto
<1>17. CASE Terminate(e)
  BY <1>17 DEF Terminate, Goto
<1>18. CASE SigKillGroup(e)
  BY <1>18 DEF SigKillGroup, Goto
<1>19. CASE MakeDirectory(e)
  <2>1. UNCHANGED <<proc, input, changes>> /\ TypedCall(sup'[e])
    BY <1>19 DEF MakeDirectory, Goto
  <2>2. dirs' = [dirs EXCEPT ![sup[e].num].exists = TRUE]
    BY <1>19 DEF MakeDirectory
  <2>3. \A n \in Number : n # sup[e].num => dirs'[n] = dirs[n]
    BY <2>2
  <2>4. \A n \in Number : n = sup[e].num =>
          /\ dirs'[n].exists /\ dirs'[n].logs = dirs[n].logs
          /\ dirs'[n].files = dirs[n].files /\ dirs'[n].record = dirs[n].record
    BY <2>2
  <2>5. \A n \in Number : dirs'[n] = dirs[n] \/ Dir(dirs'[n])
    BY <2>3, <2>4
  <2> QED
    BY <2>1, <2>5
<1>20. CASE WriteLogs(e)
  BY <1>20 DEF WriteLogs, Goto
<1>21. CASE AuditInputs(e)
  BY <1>21 DEF AuditInputs
<1>22. CASE TakeInventory(e)
  BY <1>22 DEF TakeInventory
<1>23. CASE TruncateRecord(e)
  BY <1>23 DEF TruncateRecord, Goto, NoRecord, NoInventory
<1>24. CASE DumpRecord(e)
  BY <1>24 DEF DumpRecord, Leave, Idle, NoInventory, Content
<1>25. CASE Crash(e)
  BY <1>25 DEF Crash, Leave, Idle, NoInventory, Content
<1>26. CASE EnginePreflight(e)
  BY <1>26 DEF EnginePreflight, EngineAt, Exits, Content
<1>27. CASE EngineCreate(e)
  <2>1. UNCHANGED <<sup, input, changes>>
    BY <1>27 DEF EngineCreate
  <2>2. \/ UNCHANGED dirs
        \/ dirs' = [dirs EXCEPT ![sup[e].num].exists = TRUE, ![sup[e].num].owner = e]
    BY <1>27 DEF EngineCreate
  <2>3. proc'[e].read = proc[e].read /\ proc'[e].code \in {0, 1}
    BY <1>27 DEF EngineCreate, EngineGoto, Exits
  <2>4. \A n \in Number : n # sup[e].num => dirs'[n] = dirs[n]
    BY <2>2
  <2>5. \A n \in Number : n = sup[e].num =>
          \/ dirs'[n] = dirs[n]
          \/ /\ dirs'[n].exists /\ dirs'[n].logs = dirs[n].logs
             /\ dirs'[n].files = dirs[n].files /\ dirs'[n].record = dirs[n].record
    BY <2>2
  <2>6. \A n \in Number : dirs'[n] = dirs[n] \/ Dir(dirs'[n])
    BY <2>4, <2>5
  <2> QED
    BY <2>1, <2>3, <2>6
<1>28. CASE EngineExecute(e)
  BY <1>28 DEF EngineExecute, EngineAt, AddFile, Content
<1>29. CASE EngineClose(e)
  <2>1. UNCHANGED <<sup, input, changes>> /\ proc[e].leader \in Working
    BY <1>29 DEF EngineClose, EngineAt
  <2>2. \/ UNCHANGED dirs
        \/ dirs' = [dirs EXCEPT ![sup[e].num].files = @ \cup {"all_rows"}]
    BY <1>29 DEF EngineClose, AddFile
  <2>3. proc'[e].read = proc[e].read /\ proc'[e].code = proc[e].code
    BY <1>29 DEF EngineClose, EngineGoto
  <2>4. \A n \in Number : n # sup[e].num => dirs'[n] = dirs[n]
    BY <2>2
  <2>5. \A n \in Number : n = sup[e].num =>
          \/ dirs'[n] = dirs[n]
          \/ /\ dirs'[n].exists = dirs[n].exists /\ dirs'[n].logs = dirs[n].logs
             /\ dirs'[n].files = dirs[n].files \cup {"all_rows"}
             /\ dirs'[n].owner = dirs[n].owner /\ dirs'[n].record = dirs[n].record
    BY <2>2
  <2>7. \A n \in Number : n = sup[e].num => dirs[n].exists
    BY <2>1
  <2>6. \A n \in Number : dirs'[n] = dirs[n] \/ Dir(dirs'[n])
    BY <2>4, <2>5, <2>7
  <2> QED
    BY <2>1, <2>3, <2>6
<1>30. CASE EngineReceipt(e)
  BY <1>30 DEF EngineReceipt, EngineAt, EngineGoto, AddFile
<1>31. CASE EngineRename(e)
  <2>1. UNCHANGED <<sup, input, changes>> /\ proc[e].leader \in Working
    BY <1>31 DEF EngineRename, EngineAt
  <2>2. \/ UNCHANGED dirs
        \/ dirs' = [dirs EXCEPT ![sup[e].num].files = (@ \ {"pending"}) \cup {"receipt"}]
    BY <1>31 DEF EngineRename, AddFile
  <2>3. proc'[e].read = proc[e].read /\ proc'[e].code = proc[e].code
    BY <1>31 DEF EngineRename, EngineGoto
  <2>4. \A n \in Number : n # sup[e].num => dirs'[n] = dirs[n]
    BY <2>2
  <2>5. \A n \in Number : n = sup[e].num =>
          \/ dirs'[n] = dirs[n]
          \/ /\ dirs'[n].exists = dirs[n].exists /\ dirs'[n].logs = dirs[n].logs
             /\ dirs'[n].files = (dirs[n].files \ {"pending"}) \cup {"receipt"}
             /\ dirs'[n].owner = dirs[n].owner /\ dirs'[n].record = dirs[n].record
    BY <2>2
  <2>7. \A n \in Number : n = sup[e].num => dirs[n].exists
    BY <2>1
  <2>6. \A n \in Number : dirs'[n] = dirs[n] \/ Dir(dirs'[n])
    BY <2>4, <2>5, <2>7
  <2> QED
    BY <2>1, <2>3, <2>6
<1>32. CASE EngineFail(e)
  BY <1>32, SMTT(30) DEF EngineFail, EngineAt, Exits, AddFile
<1>33. CASE EngineReturn(e)
  BY <1>33 DEF EngineReturn, EngineAt, Exits
<1>34. CASE ToolExits(e)
  BY <1>34 DEF ToolExits, Exits
<1>35. CASE HelperExits(e)
  BY <1>35 DEF HelperExits
<1>36. CASE DiesOfSignal(e)
  BY <1>36 DEF DiesOfSignal, Exits, Alive
<1> QED
  BY <1>11, <1>12, <1>13, <1>14, <1>15, <1>15a, <1>16, <1>17, <1>18, <1>19, <1>20, <1>21, <1>22, <1>23,
     <1>24, <1>25, <1>26, <1>27, <1>28, <1>29, <1>30, <1>31, <1>32, <1>33, <1>34, <1>35, <1>36
   DEF Step, Supervise, Engine
-----------------------------------------------------------------------------
(* Allocate gives call e a number above that of every directory.          *)
LEMMA NextAttemptFresh ==
  ASSUME OrderInv, NEW e \in Exec, sup[e].pc = "idle"
  PROVE  /\ NextAttempt \in 1..e
         /\ \A n \in Number : dirs[n].exists /\ n <= FourDigits => n < NextAttempt
<1> USE DEF Exec, Number
<1>1. ASSUME NEW n \in Existing PROVE n \in 1..(e - 1)
  <2>1. PICK d \in Exec : sup[d].pc # "idle" /\ sup[d].num = n
    BY DEF OrderInv, Existing
  <2>2. d \in 0..(e - 1) /\ n \in 1..d
    BY <2>1 DEF OrderInv, Existing
  <2> QED
    BY <2>2
<1>2. Existing \cup {0} \subseteq 0..(e - 1) /\ Existing \cup {0} # {} /\ e - 1 \in Nat
  BY <1>1
<1> DEFINE m == Max(Existing \cup {0})
<1>3. m \in Existing \cup {0} /\ \A n \in Existing \cup {0} : m >= n
  BY <1>2, MaxExists
<1> HIDE DEF m
<1>4. m \in 0..(e - 1) /\ 1 + m \in 1..e
  BY <1>2, <1>3
<1>5. \A n \in Number : dirs[n].exists /\ n <= FourDigits => n \in Existing
  BY DEF Existing
<1>6. \A n \in Number : dirs[n].exists /\ n <= FourDigits => n < 1 + m
  BY <1>3, <1>4, <1>5
<1> QED
  BY <1>4, <1>6 DEF NextAttempt, m

LEMMA OrderStep ==
  ASSUME OrderInv, NEW e \in Exec, Others(e), ChildEffect(e), Advances(e), Touches(e)
  PROVE  OrderInv'
<1> USE DEF Exec, Number
<1>1. \A d \in Exec : d # e => sup'[d] = sup[d] /\ proc'[d] = proc[d]
  BY DEF Others
<1>2. \A n \in Number : dirs[n].exists => dirs'[n].exists
  BY DEF Touches
<1>3. /\ sup'[e].num \in 0..e
      /\ sup[e].pc # "idle" => sup'[e].pc # "idle"
      /\ sup'[e].num = 0 => sup'[e].pc = "idle"
      /\ sup[e].pc # "idle" => sup'[e].num = sup[e].num
  BY NextAttemptFresh DEF Advances, OrderInv
<1>4. ASSUME NEW d \in Exec, NEW c \in Exec, d < c, sup'[c].pc # "idle"
      PROVE  sup'[d].pc # "idle"
  <2>1. CASE c # e
    BY <1>1, <1>3, <1>4, <2>1 DEF OrderInv
  <2>2. CASE c = e
    BY <1>1, <1>4, <2>2 DEF OrderInv, Advances, Turn
  <2> QED
    BY <2>1, <2>2
<1>5. sup'[e].pc = "idle" => proc'[e].leader = "none"
  BY DEF Advances, ChildEffect, OrderInv, Working
<1>6. ASSUME NEW d \in Exec, sup'[d].pc \in Recording
      PROVE  dirs'[sup'[d].num].exists
  <2>1. sup[d].pc # "idle" => sup[d].num \in Number
    BY DEF OrderInv
  <2>2. CASE d # e
    BY <1>1, <1>2, <1>6, <2>1, <2>2 DEF OrderInv, Recording
  <2>3. CASE d = e
    <3>1. sup[e].pc # "idle" /\ sup'[e].num = sup[e].num
      BY <1>6, <2>3 DEF Advances, Recording
    <3> QED
      BY <1>2, <1>6, <2>1, <2>3, <3>1 DEF Advances, OrderInv
  <2> QED
    BY <2>2, <2>3
<1>7. ASSUME NEW n \in Number, dirs'[n].exists
      PROVE  \E d \in Exec : sup'[d].pc # "idle" /\ sup'[d].num = n
  <2>1. PICK d \in Exec : sup[d].pc # "idle" /\ sup[d].num = n
    BY <1>7 DEF OrderInv, Touches
  <2>2. sup'[d].pc # "idle" /\ sup'[d].num = n
    BY <1>1, <1>3, <2>1
  <2> QED
    BY <2>2
<1>8. ASSUME NEW d \in Exec
      PROVE  /\ sup'[d].num \in 0..d
             /\ sup'[d].num = 0 => sup'[d].pc = "idle"
             /\ sup'[d].pc = "idle" => proc'[d].leader = "none"
  <2>1. CASE d # e
    BY <1>1, <2>1 DEF OrderInv
  <2>2. CASE d = e
    BY <1>3, <1>5, <2>2
  <2> QED
    BY <2>1, <2>2
<1> QED
  BY <1>4, <1>6, <1>7, <1>8, Zenon DEF OrderInv

LEMMA TypesStep ==
  ASSUME Fields, OrderInv, OwnerInv, TypesInv, NEW e \in Exec, Step(e), Others(e)
  PROVE  TypesInv'
<1>1. \A d \in Exec : d # e => sup'[d] = sup[d] /\ proc'[d] = proc[d]
  BY DEF Others
<1> QED
  BY <1>1, TypeEffects DEF TypesInv

(* With calls one at a time, whoever still acts is the latest call.       *)
LEMMA TurnStep ==
  ASSUME ~Overlap, Executions <= FourDigits,
         OrderInv, TurnInv, NEW e \in Exec, Others(e), Advances(e), Touches(e)
  PROVE  TurnInv'
<1> USE DEF Exec, Number
<1>1. \A d \in Exec : d # e => sup'[d] = sup[d]
  BY DEF Others
<1>2. \A d \in Exec : Ended(d) => sup'[d] = sup[d] /\ sup[d].pc \in {"done", "crashed"}
  BY <1>1 DEF Advances, Ended
<1>3. \A d \in Exec : /\ sup[d].pc # "idle" => sup'[d].num = sup[d].num
                      /\ sup'[d].pc # "idle" /\ sup[d].pc = "idle" => d = e
  BY <1>1 DEF Advances
<1>4. ASSUME NEW d \in Exec, NEW c \in Exec, d < c, sup'[c].pc # "idle"
      PROVE  Ended(d) /\ sup'[d] = sup[d]
  <2>1. CASE sup[c].pc # "idle"
    BY <1>2, <1>4, <2>1 DEF TurnInv
  <2>2. CASE sup[c].pc = "idle"
    BY <1>2, <1>3, <1>4, <2>2 DEF Advances, Turn
  <2> QED
    BY <2>1, <2>2
<1>5. ASSUME NEW d \in Exec, NEW c \in Exec, d < c, sup'[c].pc # "idle", sup'[d].pc = "done"
      PROVE  sup'[c].num # sup'[d].num
  <2>0. Ended(d) /\ sup'[d] = sup[d] /\ sup[d].pc = "done"
    BY <1>4, <1>5
  <2>1. CASE sup[c].pc # "idle"
    BY <1>3, <1>5, <2>0, <2>1 DEF TurnInv
  <2>2. CASE sup[c].pc = "idle"
    <3>1. c = e /\ sup'[e].num = NextAttempt
      BY <1>3, <1>5, <2>2 DEF Advances
    <3>2. sup[d].num \in Number /\ dirs[sup[d].num].exists
      BY <2>0 DEF OrderInv, Recording
    <3>3. sup[d].num < NextAttempt
      BY <2>2, <3>1, <3>2, NextAttemptFresh
    <3> QED
      BY <2>0, <3>1, <3>2, <3>3
  <2> QED
    BY <2>1, <2>2
<1>6. ASSUME NEW n \in Number, Written(dirs'[n].record)
      PROVE  LET b == dirs'[n].record.by
             IN  b \in Exec /\ sup'[b].num = n /\ sup'[b].pc = "done"
  <2>1. CASE dirs'[n].record = dirs[n].record
    BY <1>2, <1>6, <2>1 DEF TurnInv, Ended
  <2>2. CASE dirs'[n].record # dirs[n].record
    BY <1>3, <1>6, <2>2 DEF Touches, Written
  <2> QED
    BY <2>1, <2>2
<1> QED
  BY <1>4, <1>5, <1>6 DEF TurnInv, Ended

(* So a written record is not written again ...                           *)
LEMMA RecordKept ==
  ASSUME ~Overlap, OrderInv, TurnInv, NEW e \in Exec, Touches(e),
         NEW n \in Number, Written(dirs[n].record)
  PROVE  dirs'[n].record = dirs[n].record
<1> DEFINE b == dirs[n].record.by
<1>1. b \in Exec /\ sup[b].num = n /\ sup[b].pc = "done"
  BY DEF TurnInv
<1>2. ASSUME n = sup[e].num, sup[e].pc \in Dumping PROVE FALSE
  <2>1. e # b /\ ~Ended(e) /\ sup[e].pc # "idle"
    BY <1>1, <1>2 DEF Dumping, Ended
  <2>2. ~(b < e)
    BY <1>1, <1>2, <2>1 DEF TurnInv
  <2>3. ~(e < b)
    BY <1>1, <2>1 DEF TurnInv
  <2> QED
    BY <1>1, <2>1, <2>2, <2>3 DEF Exec
<1> QED
  BY <1>2 DEF Touches, Dumping

(* ... and the directory of an engine that completed is not written into, *)
(* neither by its supervisor's successors nor by an orphan.               *)
LEMMA DirectoryKept ==
  ASSUME ~Overlap, OwnerInv, OrderInv, TurnInv, NEW e \in Exec, Touches(e),
         NEW b \in Exec, NEW n \in Number, sup[b].num = n, sup[b].pc \in Dumping \cup {"done"},
         proc[b].kind = "engine", proc[b].leader = "exited", proc[b].code = 0
  PROVE  dirs'[n].files = dirs[n].files /\ dirs'[n].logs = dirs[n].logs
<1>1. ~(n = sup[e].num /\ proc[e].leader \in Working)
  <2>1. dirs[n].owner = b
    BY DEF OwnerInv
  <2> QED
    BY <2>1 DEF OwnerInv, Working
<1>2. ASSUME n = sup[e].num, sup[e].pc \in {"logs", "missing_logs"} PROVE FALSE
  <2>1. e # b /\ ~Ended(e) /\ sup[e].pc # "idle" /\ sup[b].pc # "idle"
    BY <1>2 DEF Dumping, Ended
  <2>2. ~(e < b)
    BY <2>1 DEF TurnInv
  <2>3. ~(b < e)
    BY <1>2, <2>1 DEF TurnInv, Dumping, Ended
  <2> QED
    BY <2>1, <2>2, <2>3 DEF Exec
<1> QED
  BY <1>1, <1>2 DEF Touches

LEMMA SealStep ==
  ASSUME ~Overlap, IInv, OrderInv, TurnInv, SealInv, NEW e \in Exec,
         Others(e), ChildEffect(e), SupEffect(e), Advances(e), Touches(e), Lists(e)
  PROVE  SealInv'
<1>0. \A d \in Exec : d # e => sup'[d] = sup[d] /\ proc'[d] = proc[d]
  BY DEF Others
<1>00. \A d \in Exec : sup[d].pc # "idle" => sup[d].num \in Number
  BY DEF OrderInv, Exec, Number
<1>000. \A d \in Exec : proc[d].leader = "exited" =>
          proc'[d].kind = proc[d].kind
  BY <1>0 DEF ChildEffect, IInv, PlaceInv, Early, Working
<1>1. ASSUME NEW d \in Exec, sup'[d].pc \in Dumping, sup'[d].status = "COMPLETED",
             proc'[d].kind = "engine"
      PROVE  sup'[d].outputs = [files |-> dirs'[sup'[d].num].files,
      logs |-> dirs'[sup'[d].num].logs]
  <2>1. CASE d = e /\ sup'[e].outputs = Inventory(sup[e].num) /\ sup'[e].num = sup[e].num
               /\ UNCHANGED dirs
    BY <2>1 DEF Inventory
  <2>2. ASSUME sup[d].pc \in Dumping, sup'[d].outputs = sup[d].outputs, sup'[d].num = sup[d].num,
               sup[d].status = "COMPLETED"
        PROVE  sup'[d].outputs = [files |-> dirs'[sup'[d].num].files,
                                  logs |-> dirs'[sup'[d].num].logs]
    <3>1. proc[d].leader = "exited" /\ proc[d].code = 0 /\ proc[d].kind = "engine"
      BY <1>1, <1>000, <2>2 DEF IInv, PlaceInv
    <3>2. sup[d].num \in Number
      BY <1>00, <2>2 DEF Dumping
    <3>3. /\ dirs'[sup[d].num].files = dirs[sup[d].num].files
          /\ dirs'[sup[d].num].logs = dirs[sup[d].num].logs
      BY <2>2, <3>1, <3>2, DirectoryKept DEF IInv
    <3>4. sup[d].outputs = Inventory(sup[d].num)
      BY <2>2, <3>1 DEF SealInv
    <3> QED
      BY <2>2, <3>3, <3>4 DEF Inventory
  <2>3. CASE d # e
    BY <1>0, <1>1, <2>2, <2>3
  <2>4. CASE d = e
    BY <1>1, <2>1, <2>2, <2>4 DEF Lists, Advances, Dumping
  <2> QED
    BY <2>3, <2>4
<1>2. ASSUME NEW n \in Number, dirs'[n].record.status = "COMPLETED",
             proc'[dirs'[n].record.by].kind = "engine"
      PROVE  dirs'[n].record.outputs = [files |-> dirs'[n].files, logs |-> dirs'[n].logs]
  <2>1. CASE dirs'[n].record = dirs[n].record
    <3> DEFINE b == dirs[n].record.by
    <3>1. b \in Exec /\ sup[b].num = n /\ proc[b].leader = "exited" /\ proc[b].code = 0
      BY <1>2, <2>1 DEF IInv, RecordInv
    <3>2. sup[b].pc = "done"
      BY <1>2, <2>1 DEF TurnInv, Written
    <3>3. proc[b].kind = "engine"
      BY <1>2, <1>000, <2>1, <3>1
    <3>4. dirs'[n].files = dirs[n].files /\ dirs'[n].logs = dirs[n].logs
      BY <3>1, <3>2, <3>3, DirectoryKept DEF IInv
    <3>5. dirs[n].record.outputs = Inventory(n)
      BY <1>2, <2>1, <3>3 DEF SealInv, CompletedIsSealed, Completed
    <3> QED
      BY <2>1, <3>4, <3>5 DEF Inventory
  <2>2. CASE dirs'[n].record # dirs[n].record
    <3>1. /\ n = sup[e].num /\ sup[e].pc = "dump" /\ dirs'[n].record.by = e
          /\ sup[e].status = "COMPLETED" /\ dirs'[n].record.outputs = sup[e].outputs
      BY <1>2, <2>2 DEF Touches
    <3>2. proc[e].leader = "exited" /\ proc[e].code = 0 /\ proc[e].kind = "engine"
      BY <1>2, <1>000, <3>1 DEF IInv, PlaceInv
    <3>3. dirs'[n].files = dirs[n].files /\ dirs'[n].logs = dirs[n].logs
      BY <3>1, <3>2, DirectoryKept DEF IInv, Dumping
    <3>4. sup[e].outputs = Inventory(n)
      BY <3>1, <3>2 DEF SealInv, Dumping
    <3> QED
      BY <3>1, <3>3, <3>4 DEF Inventory
  <2> QED
    BY <2>1, <2>2
<1> QED
  BY <1>1, <1>2, Zenon DEF SealInv, CompletedIsSealed, Completed, Inventory
-----------------------------------------------------------------------------
(* Whoever calls execute, and however often.                              *)
LEMMA OrderInvariant == Spec => [](IInv /\ OrderInv /\ TypesInv)
<1>1. ASSUME IInv, OrderInv, TypesInv, [Next]_vars PROVE OrderInv' /\ TypesInv'
  <2>1. CASE UNCHANGED vars
    BY <1>1, <2>1 DEF OrderInv, TypesInv, vars
  <2>2. CASE ChangeInput
    <3>1. OrderInv'
      BY <1>1, <2>2 DEF OrderInv, ChangeInput
    <3>2. input' \in 0..(changes' + 1) /\ changes' \in 0..Changes
      BY <1>1, <2>2 DEF TypesInv, ChangeInput
    <3> QED
      BY <1>1, <2>2, <3>1, <3>2 DEF TypesInv, ChangeInput
  <2>3. ASSUME NEW e \in Exec, Step(e) PROVE OrderInv' /\ TypesInv'
    BY <1>1, <2>3, StepEffects, OrderEffects, OrderStep, TypesStep DEF IInv, Effects
  <2> QED
    BY <1>1, <2>1, <2>2, <2>3 DEF Next, Step
<1>2. IInv /\ OrderInv /\ TypesInv /\ [Next]_vars => IInv' /\ OrderInv' /\ TypesInv'
  BY <1>1, NextInv
<1>3. Init => IInv /\ OrderInv /\ TypesInv
  BY InitInv, InitOrder
<1> QED
  BY <1>2, <1>3, PTL DEF Spec

(* The fields of every directory, activation and child keep their types,  *)
(* and an attempt directory holds nothing before it exists.               *)
THEOREM TypeCorrect == Spec => []TypeOK
<1>1. ASSUME IInv, OrderInv, TypesInv PROVE TypeOK
  <2>1. \A n \in Number : dirs[n].owner \in 0..Executions
    BY <1>1 DEF IInv, OwnerInv, Exec
  <2>2. \A e \in Exec : /\ sup[e].num \in 0..Executions
                        /\ sup[e].pc # "idle" => sup[e].num \in Number
    BY <1>1 DEF OrderInv, Exec, Number
  <2>3. input \in Content /\ changes \in 0..Changes
    BY <1>1 DEF TypesInv, Content
  <2> QED
    BY <1>1, <2>1, <2>2, <2>3 DEF TypeOK, TypesInv, TypedDir, TypedCall, TypedChild
<1> QED
  BY <1>1, OrderInvariant, PTL

(* Calls one at a time.                                                   *)
LEMMA SerialInvariant ==
  ASSUME ~Overlap, Executions <= FourDigits
  PROVE  Spec => [](IInv /\ OrderInv /\ TurnInv /\ SealInv)
<1>1. ASSUME IInv, OrderInv, TurnInv, SealInv, [Next]_vars PROVE TurnInv' /\ SealInv'
  <2>1. CASE UNCHANGED vars \/ ChangeInput
    <3>1. UNCHANGED <<dirs, sup, proc>>
      BY <2>1 DEF vars, ChangeInput
    <3>2. TurnInv'
      BY <1>1, <3>1 DEF TurnInv, Ended
    <3>3. SealInv'
      BY <1>1, <3>1 DEF SealInv, CompletedIsSealed, Completed, Inventory
    <3> QED
      BY <3>2, <3>3
  <2>2. ASSUME NEW e \in Exec, Step(e) PROVE TurnInv' /\ SealInv'
    <3>1. /\ Others(e) /\ ChildEffect(e) /\ SupEffect(e)
          /\ Advances(e) /\ Touches(e) /\ Lists(e)
      BY <1>1, <2>2, StepEffects, OrderEffects DEF IInv, Effects
    <3> QED
      BY <1>1, <3>1, TurnStep, SealStep
  <2> QED
    BY <1>1, <2>1, <2>2 DEF Next, Step
<1>2. TurnInv /\ SealInv /\ IInv /\ OrderInv /\ [Next]_vars => TurnInv' /\ SealInv'
  BY <1>1
<1>3. Init => TurnInv /\ SealInv
  BY InitOrder
<1> QED
  BY <1>2, <1>3, OrderInvariant, PTL DEF Spec

(* The hashes that a COMPLETED record lists (collect_outputs_inventory in *)
(* tools/supervised_runner.py) stay those of the files beside it: neither *)
(* a later call nor an orphaned engine writes there.  Two calls at a time,*)
(* or more attempts than the directory pattern finds, would: the runs     *)
(* overlap and exhausted show it.                                         *)
THEOREM RecordsAreSealed ==
  ASSUME ~Overlap, Executions <= FourDigits
  PROVE  Spec => []CompletedIsSealed
<1>1. SealInv => CompletedIsSealed
  BY DEF SealInv
<1> QED
  BY <1>1, SerialInvariant, PTL

(* Under the same two conditions a written record is never changed again. *)
THEOREM RecordsStay ==
  ASSUME ~Overlap, Executions <= FourDigits
  PROVE  Spec => RecordsPermanent
<1> DEFINE Kept == \A n \in Number : dirs[n].record.status \notin {"none", "torn"}
                                     => dirs'[n].record = dirs[n].record
<1>1. ASSUME IInv, OrderInv, TurnInv, [Next]_vars PROVE Kept
  <2>1. CASE UNCHANGED dirs
    BY <2>1
  <2>2. ASSUME NEW e \in Exec, Step(e) PROVE Kept
    <3>1. Touches(e)
      BY <1>1, <2>2, OrderEffects DEF IInv
    <3> QED
      BY <1>1, <3>1, RecordKept DEF Written
  <2> QED
    BY <1>1, <2>1, <2>2 DEF Next, Step, ChangeInput, vars
<1>2. IInv /\ OrderInv /\ TurnInv /\ [Next]_vars => [Kept]_dirs
  BY <1>1
<1> HIDE DEF Kept
<1>3. Spec => [][Kept]_dirs
  BY <1>2, SerialInvariant, PTL DEF Spec
<1> QED
  BY <1>3 DEF RecordsPermanent, Kept
=============================================================================
