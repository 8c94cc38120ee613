---------------------------- MODULE EngineProofs ----------------------------
(***************************************************************************)
(* Theorems about the transaction engine, for any objects, values and      *)
(* number of faults.  First its types and what holds whatever fault comes; *)
(* then the safety of the transaction: each step of the engine, and each   *)
(* fault it is built to survive, keeps the invariant of EngineInvariant,   *)
(* and the properties and the refinement follow from it.                   *)
(***************************************************************************)
EXTENDS EngineInvariant, EngineRefinement, TLAPS

-----------------------------------------------------------------------------
(* Patches: what a set of writes, or of pre-images, is. *)

LEMMA PatchFacts ==
  ASSUME NEW patch \in Patches
  PROVE  /\ DOMAIN patch \subseteq Keys
         /\ \A k \in DOMAIN patch : patch[k] \in Vals
         /\ patch \in [DOMAIN patch -> Vals]
BY DEF Patches

LEMMA PatchIntro ==
  ASSUME NEW S \in SUBSET Keys, NEW f \in [S -> Vals]
  PROVE  f \in Patches
BY DEF Patches

LEMMA NoneIsPatch == None \in Patches
<1>1. None \in [{} -> Vals]
  BY DEF None
<1> QED
  BY <1>1, PatchIntro

LEMMA WithoutIsPatch ==
  ASSUME NEW patch \in Patches, NEW k
  PROVE  Without(patch, k) \in Patches
<1>1. Without(patch, k) \in [DOMAIN patch \ {k} -> Vals]
  BY PatchFacts DEF Without
<1> QED
  BY <1>1, PatchFacts, PatchIntro

LEMMA OnlyIsPatch ==
  ASSUME NEW patch \in Patches, NEW S
  PROVE  Only(patch, S) \in Patches
<1>1. Only(patch, S) \in [DOMAIN patch \intersect S -> Vals]
  BY PatchFacts DEF Only
<1> QED
  BY <1>1, PatchFacts, PatchIntro

LEMMA PlanIsChange ==
  ASSUME NEW doc \in Docs, NEW desired \in Docs
  PROVE  PlanOf(doc, desired) \in Changes
<1> DEFINE changed == {k \in Keys : desired[k] # doc[k]}
           w == [k \in changed |-> desired[k]]
           p == [k \in changed |-> doc[k]]
<1>1. w \in [changed -> Vals] /\ p \in [changed -> Vals]
  BY DEF Docs
<1>2. w \in Patches /\ p \in Patches
  BY <1>1, PatchIntro
<1>3. PlanOf(doc, desired) = [writes |-> w, pre |-> p]
  BY DEF PlanOf
<1> QED
  BY <1>2, <1>3 DEF Changes

LEMMA CompileType ==
  ASSUME NEW doc \in Docs
  PROVE  Compile(doc) \in Configs
BY RouterAssumption DEF Compile, Configs, Docs

LEMMA NoChangeIsChange == NoChange \in Changes
BY NoneIsPatch DEF NoChange, Changes

-----------------------------------------------------------------------------
(* Type correctness.  Where processes are comes first, then the data that     *)
(* the scripts, the timer and the agent move.                                 *)

LEMMA GotoTyping ==
  ASSUME PcTypeOK, NEW p \in Procs, NEW l, Goto(p, l),
         p = "fg" => l \in Scripts \union {"none", "ok", "fail"},
         p = "bg" => l \in Scripts \union {"none"},
         p = "timer" => l \in RollbackSteps \union {"none", "rb.check", "t.boot", "t.loop", "t.exit"}
  PROVE  PcTypeOK'
BY DEF PcTypeOK, Goto, Procs, Scripts, Entry, Critical, Tail, RollbackSteps

LEMMA ExitTyping ==
  ASSUME PcTypeOK, NEW p \in Procs, NEW answer \in {"ok", "fail"}, Exit(p, answer)
  PROVE  PcTypeOK'
<1>1. CASE p = "fg"
  BY <1>1, GotoTyping DEF Exit
<1>2. CASE p = "bg"
  BY <1>2, GotoTyping DEF Exit
<1>3. CASE p = "timer"
  BY <1>3, GotoTyping DEF Exit
<1> QED
  BY <1>1, <1>2, <1>3 DEF Procs

LEMMA ScriptPcTyping ==
  ASSUME PcTypeOK, NEW p \in Procs, ScriptStep(p)
  PROVE  PcTypeOK'
<1> USE GotoTyping, ExitTyping
    DEF Procs, Scripts, Entry, Critical, Tail, RollbackSteps
<1>1. CASE PrepCheck(p)
  BY <1>1 DEF PrepCheck, PcTypeOK
<1>2. CASE PrepConfig(p) \/ PrepHash(p) \/ PrepJournal(p) \/ PrepGate(p) \/ PrepStop(p)
  BY <1>2 DEF PrepConfig, PrepHash, PrepJournal, PrepGate, PrepStop, PcTypeOK
<1>3. CASE PrepWait(p)
  BY <1>3 DEF PrepWait
<1>4. CASE ComCheck(p)
  BY <1>4 DEF ComCheck, PcTypeOK
<1>5. CASE ComMark(p)
  BY <1>5 DEF ComMark, PcTypeOK
<1>6. CASE ComArm(p)
  BY <1>6 DEF ComArm, PcTypeOK
<1>7. CASE ComStart(p)
  BY <1>7 DEF ComStart, PcTypeOK
<1>8. CASE ComWait(p)
  BY <1>8 DEF ComWait
<1>9. CASE ConfCheck(p)
  BY <1>9 DEF ConfCheck, PcTypeOK
<1>10. CASE ConfMark(p)
  BY <1>10 DEF ConfMark, PcTypeOK
<1>11. CASE ConfWait(p)
  BY <1>11 DEF ConfWait
<1>12. CASE RbCheck(p)
  BY <1>12 DEF RbCheck, RollbackAnswer
<1>13. CASE RbMark(p) \/ RbStop(p) \/ RbConfig(p) \/ RbHash(p)
  BY <1>13 DEF RbMark, RbStop, RbConfig, RbHash
<1>14. CASE RbApply(p)
  BY <1>14 DEF RbApply, RollbackAnswer
<1>15. CASE RelCheck(p)
  BY <1>15 DEF RelCheck, PcTypeOK
<1>16. CASE RelStart(p)
  BY <1>16 DEF RelStart, PcTypeOK
<1>17. CASE RelWait(p)
  BY <1>17 DEF RelWait
<1> QED
  BY <1>1, <1>2, <1>3, <1>4, <1>5, <1>6, <1>7, <1>8, <1>9, <1>10, <1>11, <1>12, <1>13,
     <1>14, <1>15, <1>16, <1>17 DEF ScriptStep

LEMMA ScriptDataTyping ==
  ASSUME DataTypeOK, NEW p \in Procs, ScriptStep(p)
  PROVE  DataTypeOK'
<1> USE DEF DataTypeOK, disk, States
<1>1. CASE PrepCheck(p) \/ PrepWait(p) \/ ComArm(p) \/ ComWait(p) \/ ConfCheck(p) \/ ConfWait(p)
  BY <1>1, RouterAssumption DEF PrepCheck, PrepWait, ComArm, ComWait, ConfCheck, ConfWait, Fault
<1>2. CASE RbCheck(p) \/ RelCheck(p) \/ ComCheck(p)
  BY <1>2 DEF RbCheck, RelCheck, ComCheck
<1>3. CASE PrepConfig(p) \/ PrepHash(p)
  BY <1>3 DEF PrepConfig, PrepHash
<1>4. CASE PrepJournal(p)
  BY <1>4 DEF PrepJournal
<1>5. CASE PrepGate(p) \/ ComMark(p) \/ ConfMark(p) \/ RbMark(p) \/ RelWait(p)
  BY <1>5 DEF PrepGate, ComMark, ConfMark, RbMark, RelWait
<1>6. CASE PrepStop(p) \/ RbStop(p)
  BY <1>6 DEF PrepStop, RbStop, StopAgent
<1>7. CASE ComStart(p) \/ RelStart(p)
  BY <1>7, RouterAssumption DEF ComStart, RelStart, Fault
<1>8. CASE RbConfig(p) \/ RbHash(p) \/ RbApply(p)
  BY <1>8 DEF RbConfig, RbHash, RbApply
<1> QED
  BY <1>1, <1>2, <1>3, <1>4, <1>5, <1>6, <1>7, <1>8 DEF ScriptStep

LEMMA RouterTyping ==
  ASSUME RouterTypeOK, RouterStep
  PROVE  RouterTypeOK'
<1>1. CASE \E p \in Procs : ScriptStep(p)
  BY <1>1, ScriptPcTyping, ScriptDataTyping DEF RouterTypeOK
<1>2. CASE TimerStep
  <2>1. PcTypeOK'
    BY <1>2, GotoTyping DEF TimerStep, TimerBoot, TimerStandDown, TimerExpire, TimerExit,
                            RouterTypeOK, Procs
  <2>2. DataTypeOK'
    BY <1>2 DEF TimerStep, TimerBoot, TimerStandDown, TimerExpire, TimerExit,
                RouterTypeOK, DataTypeOK, disk
  <2> QED
    BY <2>1, <2>2 DEF RouterTypeOK
<1>3. CASE AgentExit
  BY <1>3 DEF AgentExit, RouterTypeOK, DataTypeOK, PcTypeOK, disk
<1>4. CASE Push
  BY <1>4, CompileType DEF Push, RouterTypeOK, DataTypeOK, PcTypeOK
<1> QED
  BY <1>1, <1>2, <1>3, <1>4 DEF RouterStep

LEMMA CallTyping ==
  ASSUME PcTypeOK, NEW script \in Scripts \union {"none", "ok", "fail"}, Call(script)
  PROVE  PcTypeOK'
BY DEF Call, PcTypeOK, Procs

LEMMA LoseTyping ==
  ASSUME PcTypeOK, NEW seen \in {"none", "fail"}, pc["fg"] \in Scripts, LoseSession(seen)
  PROVE  PcTypeOK'
<1>1. CASE Call(seen)
  BY <1>1, CallTyping
<1>2. CASE pc' = [pc EXCEPT !["fg"] = seen, !["bg"] = IF pc["fg"] \in Tail THEN "none" ELSE pc["fg"]]
  BY <1>2 DEF PcTypeOK, Procs
<1> QED
  BY <1>1, <1>2 DEF LoseSession

\* Each answer, each turn to the way back and each plain step leaves the engine well typed.
LEMMA AnswerTyping ==
  ASSUME EngineTypeOK, NEW r \in Results, Answer(r)
  PROVE  EngineTypeOK'
BY NoneIsPatch, NoChangeIsChange DEF EngineTypeOK, Answer, Steps, Results

LEMMA WayBackTyping ==
  ASSUME EngineTypeOK, NEW step \in Steps, NEW pre \in Patches,
         NEW why \in {"aborted", "rolledback", "recovered"},
         WayBack(step, pre, why)
  PROVE  EngineTypeOK'
BY NoneIsPatch DEF EngineTypeOK, WayBack

LEMMA ThenTyping ==
  ASSUME EngineTypeOK, NEW step \in Steps, Then(step)
  PROVE  EngineTypeOK'
BY DEF EngineTypeOK, Then

LEMMA CloudWriteTyping ==
  ASSUME cloud \in Docs, NEW patch \in Patches, NEW k \in DOMAIN patch,
         cloud' = [cloud EXCEPT ![k] = patch[k]]
  PROVE  cloud' \in Docs
BY PatchFacts DEF Docs

LEMMA ApplyTyping ==
  ASSUME TypeOK, ApplyStep
  PROVE  TypeOK'
<1> USE DEF TypeOK, RouterTypeOK
<1>1. CASE Writable
  <2>1. EngineTypeOK'
    BY <1>1, AnswerTyping, ThenTyping DEF Writable, Results, Steps
  <2> QED
    BY <1>1, <2>1 DEF Writable, DataTypeOK, PcTypeOK, routerVars, router, disk
<1>2. CASE Recover
  <2>1. journal # Torn => journal.pre \in Patches
    BY DEF DataTypeOK, Changes
  <2>2. EngineTypeOK'
    BY <1>2, <2>1, AnswerTyping, ThenTyping, WayBackTyping DEF Recover, Results, Steps
  <2> QED
    BY <1>2, <2>2 DEF Recover, DataTypeOK, PcTypeOK, routerVars, router, disk
<1>3. CASE Ready
  <2>1. EngineTypeOK'
    BY <1>3, AnswerTyping, ThenTyping DEF Ready, Results, Steps
  <2>2. PcTypeOK'
    BY <1>3, CallTyping DEF Ready, Scripts, Entry, PcTypeOK
  <2> QED
    BY <1>3, <2>1, <2>2 DEF Ready, DataTypeOK, disk, EngineTypeOK
<1>4. CASE Prepared
  <2>1. EngineTypeOK'
    BY <1>4, AnswerTyping DEF Prepared, Results, Steps, EngineTypeOK, Changes
  <2>2. PcTypeOK'
    BY <1>4, CallTyping DEF Prepared, HangUp
  <2> QED
    BY <1>4, <2>1, <2>2 DEF Prepared, DataTypeOK, disk
<1>5. CASE Stage
  <2> PICK k \in Keys : Stage!2!(k)
    BY <1>5 DEF Stage
  <2>1. k \in DOMAIN todo /\ todo \in Patches
    BY DEF First, EngineTypeOK
  <2>2. cloud' \in Docs
    BY <1>5, <2>1, CloudWriteTyping DEF DataTypeOK, Stage
  <2>3. Staged \in Patches
    BY OnlyIsPatch DEF Staged, EngineTypeOK, Changes
  <2>4. EngineTypeOK'
    <3>1. CASE WayBack("revert", Staged, "aborted")
      BY <3>1, <2>3, WayBackTyping DEF Steps, Results
    <3>2. CASE todo' = Without(todo, k) /\ UNCHANGED <<epc, change, undo, cause, result, probed>>
      BY <3>2, <2>1, WithoutIsPatch DEF EngineTypeOK
    <3> QED
      BY <3>1, <3>2
  <2>5. faults' \in 0..MaxFaults
    BY RouterAssumption DEF Fault, DataTypeOK
  <2> QED
    BY <1>5, <2>2, <2>4, <2>5 DEF Stage, DataTypeOK, PcTypeOK, disk
<1>6. CASE Commit
  <2>1. EngineTypeOK' /\ PcTypeOK'
    BY <1>6, ThenTyping, CallTyping DEF Commit, Steps, Scripts, Entry
  <2> QED
    BY <1>6, <2>1 DEF Commit, DataTypeOK, disk
<1>7. CASE Committed
  <2>1. EngineTypeOK' /\ PcTypeOK'
    BY <1>7, ThenTyping, WayBackTyping, CallTyping
       DEF Committed, HangUp, Steps, Results, EngineTypeOK, Changes
  <2> QED
    BY <1>7, <2>1 DEF Committed, DataTypeOK, disk
<1>8. CASE Verify
  <2>1. EngineTypeOK'
    BY <1>8, WayBackTyping DEF Verify, Steps, Results, EngineTypeOK, Changes, DataTypeOK
  <2>2. PcTypeOK'
    BY <1>8, CallTyping DEF Verify, Scripts, Entry, PcTypeOK
  <2> QED
    BY <1>8, <2>1, <2>2 DEF Verify, DataTypeOK, disk
<1>9. CASE Confirmed
  <2>1. EngineTypeOK' /\ PcTypeOK'
    BY <1>9, AnswerTyping, WayBackTyping, CallTyping
       DEF Confirmed, HangUp, Steps, Results, EngineTypeOK, Changes
  <2> QED
    BY <1>9, <2>1 DEF Confirmed, DataTypeOK, disk
<1>10. CASE Restore
  <2>1. EngineTypeOK'
    BY <1>10, AnswerTyping, ThenTyping DEF Restore, Steps, Results
  <2>2. PcTypeOK'
    BY <1>10, CallTyping DEF Restore, Scripts, Entry, PcTypeOK
  <2> QED
    BY <1>10, <2>1, <2>2 DEF Restore, DataTypeOK, disk
<1>11. CASE RolledBack \/ Released
  <2>1. EngineTypeOK' /\ PcTypeOK'
    BY <1>11, AnswerTyping, ThenTyping, CallTyping
       DEF RolledBack, Released, HangUp, Steps, Results, EngineTypeOK
  <2> QED
    BY <1>11, <2>1 DEF RolledBack, Released, DataTypeOK, disk
<1>12. CASE Revert
  <2> PICK k \in Keys : Revert!2!(k)
    BY <1>12 DEF Revert
  <2>1. k \in DOMAIN undo /\ undo \in Patches
    BY DEF Last, EngineTypeOK
  <2>2. cloud' \in Docs
    BY <1>12, <2>1, CloudWriteTyping DEF DataTypeOK, Revert
  <2>3. EngineTypeOK'
    <3>1. CASE Answer("stranded")
      BY <3>1, AnswerTyping DEF Results
    <3>2. CASE undo' = Without(undo, k) /\ UNCHANGED <<epc, change, todo, cause, result, probed>>
      BY <3>2, <2>1, WithoutIsPatch DEF EngineTypeOK
    <3> QED
      BY <3>1, <3>2
  <2>4. faults' \in 0..MaxFaults
    BY RouterAssumption DEF Fault, DataTypeOK
  <2> QED
    BY <1>12, <2>2, <2>3, <2>4 DEF Revert, DataTypeOK, PcTypeOK, disk
<1>13. CASE Release
  <2>1. EngineTypeOK' /\ PcTypeOK'
    BY <1>13, ThenTyping, CallTyping DEF Release, Steps, Scripts, Entry
  <2> QED
    BY <1>13, <2>1 DEF Release, DataTypeOK, disk
<1> QED
  BY <1>1, <1>2, <1>3, <1>4, <1>5, <1>6, <1>7, <1>8, <1>9, <1>10, <1>11, <1>12, <1>13
     DEF ApplyStep

LEMMA BeginTyping ==
  ASSUME TypeOK, NEW desired \in Docs, Begin(desired)
  PROVE  TypeOK'
<1>1. cloud \in Docs
  BY DEF TypeOK, RouterTypeOK, DataTypeOK
<1>2. EngineTypeOK'
  BY <1>1, PlanIsChange, AnswerTyping DEF Begin, TypeOK, EngineTypeOK, Steps, Results
<1>3. RouterTypeOK'
  BY DEF Begin, TypeOK, RouterTypeOK, DataTypeOK, PcTypeOK, routerVars, router, disk
<1> QED
  BY <1>2, <1>3 DEF TypeOK

LEMMA FaultTyping ==
  ASSUME TypeOK, FaultStep
  PROVE  TypeOK'
<1> USE DEF TypeOK, RouterTypeOK
<1>0. ASSUME NEW f, Fault(f) PROVE faults' \in 0..MaxFaults
  BY <1>0, RouterAssumption DEF Fault, DataTypeOK
<1>1. CASE Cut
  <2>1. PcTypeOK'
    BY <1>1, LoseTyping DEF Cut
  <2> QED
    BY <1>1, <1>0, <2>1 DEF Cut, DataTypeOK, EngineTypeOK, disk, engineVars
<1>2. CASE CutStatus
  <2>1. EngineTypeOK'
    BY <1>2, AnswerTyping DEF CutStatus, Results
  <2> QED
    BY <1>2, <1>0, <2>1 DEF CutStatus, DataTypeOK, PcTypeOK, router, disk
<1>3. CASE Crash
  <2>1. EngineTypeOK' /\ PcTypeOK'
    BY <1>3, AnswerTyping, LoseTyping, CallTyping DEF Crash, HangUp, Results
  <2> QED
    BY <1>3, <1>0, <2>1 DEF Crash, DataTypeOK, disk
<1>4. CASE Reboot /\ UNCHANGED engineVars
  <2>1. PcTypeOK'
    BY <1>4 DEF Reboot, PcTypeOK, Procs, Scripts, Entry
  <2> QED
    BY <1>4, <1>0, <2>1 DEF Reboot, DataTypeOK, EngineTypeOK, disk, engineVars
<1>5. CASE Edited
  BY <1>5, <1>0 DEF Edited, LocalEdit, DataTypeOK, PcTypeOK, EngineTypeOK, disk, engineVars
<1> QED
  BY <1>1, <1>2, <1>3, <1>4, <1>5 DEF FaultStep

LEMMA InitTyping == Init => TypeOK
<1> SUFFICES ASSUME Init PROVE TypeOK
  OBVIOUS
<1>1. DataTypeOK
  BY CompileType, NoChangeIsChange, RouterAssumption DEF Init, RouterInit, DataTypeOK, States
<1>2. PcTypeOK
  BY DEF Init, RouterInit, PcTypeOK, Procs
<1>3. EngineTypeOK
  BY CompileType, NoneIsPatch, NoChangeIsChange DEF Init, RouterInit, EngineTypeOK, Steps, Results
<1> QED
  BY <1>1, <1>2, <1>3 DEF TypeOK, RouterTypeOK

LEMMA NextTyping == TypeOK /\ [Next]_vars => TypeOK'
<1> SUFFICES ASSUME TypeOK, [Next]_vars PROVE TypeOK'
  OBVIOUS
<1>1. CASE \E desired \in Docs : Begin(desired)
  BY <1>1, BeginTyping
<1>2. CASE ApplyStep
  BY <1>2, ApplyTyping
<1>3. CASE RouterStep /\ UNCHANGED engineVars
  BY <1>3, RouterTyping DEF TypeOK, EngineTypeOK, engineVars
<1>4. CASE FaultStep
  BY <1>4, FaultTyping
<1>5. CASE UNCHANGED vars
  BY <1>5 DEF TypeOK, RouterTypeOK, DataTypeOK, PcTypeOK, EngineTypeOK, vars, routerVars,
              router, disk, engineVars
<1> QED
  BY <1>1, <1>2, <1>3, <1>4, <1>5 DEF Next

\* Every reachable state is well typed, whatever faults and races are allowed: in particular
\* the pre-images written back always come from a journal that was whole, only the
\* provider's own script waits for an answer, and no process loses its place.
THEOREM TypeCorrect == Spec => []TypeOK
<1> QED
  BY InitTyping, NextTyping, PTL DEF Spec

-----------------------------------------------------------------------------
(* Where the processes are, whatever fault comes: one lemma per statement of a script, per *)
(* step of the timer, of the agent and of the engine, and per fault.                     *)

\* prepare.sh
LEMMA PrepCheckOrder ==
  ASSUME Orderly, Ordered, NEW p \in Procs, PrepCheck(p), UNCHANGED engineVars
  PROVE  OrderOK' /\ WhereOK'
<1> USE DEF Ordered, PrepCheck, Exit, Goto, PcTypeOK, Procs, RouterTypeOK, TypeOK
<1>1. OrderOK'
  BY DEF OrderOK, ComSteps, ConfSteps, Critical, PrepSteps, RelSteps, RollbackSteps, TimerArmed,
       engineVars
<1>2. WhereOK'
  BY DEF WhereOK, At, Back, PrepSteps, RelSteps, RollbackSteps, Settled, Somebody, Undoing,
       engineVars
<1> QED
  BY <1>1, <1>2

LEMMA PrepConfigOrder ==
  ASSUME Orderly, Ordered, NEW p \in Procs, PrepConfig(p), UNCHANGED engineVars
  PROVE  OrderOK' /\ WhereOK'
<1> USE DEF Ordered, PrepConfig, Goto
<1>1. OrderOK'
  BY DEF OrderOK, ComSteps, ConfSteps, Critical, PrepSteps, RelSteps, RollbackSteps, engineVars
<1>2. WhereOK'
  BY DEF WhereOK, At, Back, PrepSteps, RelSteps, RollbackSteps, Settled, Somebody, Undoing,
       engineVars
<1> QED
  BY <1>1, <1>2

LEMMA PrepHashOrder ==
  ASSUME Orderly, Ordered, NEW p \in Procs, PrepHash(p), UNCHANGED engineVars
  PROVE  OrderOK' /\ WhereOK'
<1> USE DEF Ordered, PrepHash, Goto
<1>1. OrderOK'
  BY DEF OrderOK, ComSteps, ConfSteps, Critical, PrepSteps, RelSteps, RollbackSteps, engineVars
<1>2. WhereOK'
  BY DEF WhereOK, At, Back, PrepSteps, RelSteps, RollbackSteps, Settled, Somebody, Undoing,
       engineVars
<1> QED
  BY <1>1, <1>2

LEMMA PrepJournalOrder ==
  ASSUME Orderly, Ordered, NEW p \in Procs, PrepJournal(p), UNCHANGED engineVars
  PROVE  OrderOK' /\ WhereOK'
<1> USE DEF Ordered, PrepJournal, Goto
<1>1. OrderOK'
  BY DEF OrderOK, ComSteps, ConfSteps, Critical, PrepSteps, RelSteps, RollbackSteps, engineVars
<1>2. WhereOK'
  BY DEF WhereOK, At, Back, PrepSteps, RelSteps, RollbackSteps, Settled, Somebody, Undoing,
       engineVars
<1> QED
  BY <1>1, <1>2

LEMMA PrepGateOrder ==
  ASSUME Orderly, Ordered, NEW p \in Procs, PrepGate(p), UNCHANGED engineVars
  PROVE  OrderOK' /\ WhereOK'
<1> USE DEF Ordered, PrepGate, Goto
<1>1. OrderOK'
  BY DEF OrderOK, ComSteps, ConfSteps, Critical, PrepSteps, RelSteps, RollbackSteps, engineVars
<1>2. WhereOK'
  BY DEF WhereOK, OrderOK, At, Back, PcTypeOK, PrepSteps, Procs, RollbackSteps, RouterTypeOK,
       Somebody, TypeOK, Undoing, engineVars
<1> QED
  BY <1>1, <1>2

LEMMA PrepStopOrder ==
  ASSUME Orderly, Ordered, NEW p \in Procs, PrepStop(p), UNCHANGED engineVars
  PROVE  OrderOK' /\ WhereOK'
<1> USE DEF Ordered, PrepStop, Goto
<1>1. OrderOK'
  BY DEF OrderOK, ComSteps, ConfSteps, Critical, PrepSteps, RelSteps, RollbackSteps, engineVars
<1>2. WhereOK'
  BY DEF WhereOK, At, Back, RollbackSteps, Settled, Somebody, Undoing, engineVars
<1> QED
  BY <1>1, <1>2

LEMMA PrepWaitOrder ==
  ASSUME Orderly, Ordered, NEW p \in Procs, PrepWait(p), UNCHANGED engineVars
  PROVE  OrderOK' /\ WhereOK'
<1> USE DEF Ordered, PrepWait, Exit, Goto, PcTypeOK, Procs, RouterTypeOK, TypeOK
<1>1. OrderOK'
  BY DEF OrderOK, Critical, RollbackSteps, engineVars
<1>2. WhereOK'
  BY DEF WhereOK, OrderOK, At, Back, ComSteps, ConfSteps, RelSteps, RollbackSteps, Somebody,
       Undoing, engineVars
<1> QED
  BY <1>1, <1>2

\* commit.sh
LEMMA ComCheckOrder ==
  ASSUME Orderly, Ordered, NEW p \in Procs, ComCheck(p), UNCHANGED engineVars
  PROVE  OrderOK' /\ WhereOK'
<1> USE DEF Ordered, ComCheck, Goto, PcTypeOK, Procs, RouterTypeOK, TypeOK
<1>1. OrderOK'
  BY DEF OrderOK, Alone, ComSteps, ConfSteps, Exit, PrepSteps, RelSteps, RollbackSteps,
       Orderly, engineVars
<1>2. WhereOK'
  BY DEF WhereOK, At, Back, RollbackSteps, Settled, Somebody, Undoing, engineVars
<1> QED
  BY <1>1, <1>2

LEMMA ComMarkOrder ==
  ASSUME Orderly, Ordered, NEW p \in Procs, ComMark(p), UNCHANGED engineVars
  PROVE  OrderOK' /\ WhereOK'
<1> USE DEF Ordered, ComMark, Goto
<1>1. OrderOK'
  BY DEF OrderOK, ComSteps, ConfSteps, Critical, PrepSteps, RelSteps, RollbackSteps, engineVars
<1>2. WhereOK'
  BY DEF WhereOK, OrderOK, At, Back, PcTypeOK, Procs, RelSteps, RollbackSteps, RouterTypeOK,
       Somebody, TypeOK, Undoing, engineVars
<1> QED
  BY <1>1, <1>2

LEMMA ComArmOrder ==
  ASSUME Orderly, Ordered, NEW p \in Procs, ComArm(p), UNCHANGED engineVars
  PROVE  OrderOK' /\ WhereOK'
<1> USE DEF Ordered, ComArm, PcTypeOK, Procs, RouterTypeOK, TypeOK
<1>1. OrderOK'
  BY DEF OrderOK, ComSteps, ConfSteps, Critical, PrepSteps, RelSteps, RollbackSteps, engineVars
<1>2. WhereOK'
  BY DEF WhereOK, At, Back, PrepSteps, RelSteps, Settled, Somebody, Undoing, engineVars
<1> QED
  BY <1>1, <1>2

LEMMA ComStartOrder ==
  ASSUME Orderly, Ordered, NEW p \in Procs, ComStart(p), UNCHANGED engineVars
  PROVE  OrderOK' /\ WhereOK'
<1> USE DEF Ordered, ComStart, Exit, Goto, PcTypeOK, Procs, RouterTypeOK, TypeOK
<1>1. OrderOK'
  BY DEF OrderOK, ComSteps, ConfSteps, Critical, PrepSteps, RelSteps, RollbackSteps, engineVars
<1>2. WhereOK'
  BY DEF WhereOK, At, Back, PrepSteps, RelSteps, Settled, Somebody, Undoing, engineVars
<1> QED
  BY <1>1, <1>2

LEMMA ComWaitOrder ==
  ASSUME Orderly, Ordered, NEW p \in Procs, ComWait(p), UNCHANGED engineVars
  PROVE  OrderOK' /\ WhereOK'
<1> USE DEF Ordered, ComWait, Exit, Goto
<1>1. OrderOK'
  BY DEF OrderOK, Critical, RollbackSteps, engineVars
<1>2. WhereOK'
  BY DEF WhereOK, OrderOK, At, Back, ConfSteps, PrepSteps, RelSteps, RollbackSteps, Settled,
       Somebody, Undoing, engineVars
<1> QED
  BY <1>1, <1>2

\* confirm.sh
LEMMA ConfCheckOrder ==
  ASSUME Orderly, Ordered, NEW p \in Procs, ConfCheck(p), UNCHANGED engineVars
  PROVE  OrderOK' /\ WhereOK'
<1> USE DEF Ordered, ConfCheck, Exit, Goto, PcTypeOK, Procs, RouterTypeOK, TypeOK
<1>1. OrderOK'
  BY DEF OrderOK, Alone, ComSteps, ConfSteps, PrepSteps, RelSteps, RollbackSteps, Orderly,
       engineVars
<1>2. WhereOK'
  BY DEF WhereOK, At, Back, PrepSteps, RelSteps, Settled, Somebody, Undoing, engineVars
<1> QED
  BY <1>1, <1>2

LEMMA ConfMarkOrder ==
  ASSUME Orderly, Ordered, NEW p \in Procs, ConfMark(p), UNCHANGED engineVars
  PROVE  OrderOK' /\ WhereOK'
<1> USE DEF Ordered, ConfMark, Goto
<1>1. OrderOK'
  BY DEF OrderOK, ComSteps, ConfSteps, Critical, PrepSteps, RelSteps, RollbackSteps, engineVars
<1>2. WhereOK'
  BY DEF WhereOK, OrderOK, At, Back, Critical, PcTypeOK, Procs, RelSteps, RollbackSteps,
       RouterTypeOK, Somebody, TypeOK, Undoing, engineVars
<1> QED
  BY <1>1, <1>2

LEMMA ConfWaitOrder ==
  ASSUME Orderly, Ordered, NEW p \in Procs, ConfWait(p), UNCHANGED engineVars
  PROVE  OrderOK' /\ WhereOK'
<1> USE DEF Ordered, ConfWait, Exit, Goto, PcTypeOK, Procs, RouterTypeOK, TypeOK
<1>1. OrderOK'
  BY DEF OrderOK, Critical, RollbackSteps, engineVars
<1>2. WhereOK'
  BY DEF WhereOK, OrderOK, At, Back, ComSteps, PrepSteps, RelSteps, RollbackSteps, Somebody,
       Undoing, engineVars
<1> QED
  BY <1>1, <1>2

\* rollback.sh
LEMMA RbCheckOrder ==
  ASSUME Orderly, Ordered, NEW p \in Procs, RbCheck(p), UNCHANGED engineVars
  PROVE  OrderOK' /\ WhereOK'
<1> USE DEF Ordered, RbCheck, At, Exit, Goto, PcTypeOK, Procs, RollbackAnswer,
     RouterTypeOK, TypeOK
<1>1. OrderOK'
  BY DEF OrderOK, WhereOK, Alone, ComSteps, ConfSteps, Critical, PrepSteps, RollbackSteps,
       Somebody, Orderly, engineVars
<1>2. WhereOK'
  BY DEF WhereOK, OrderOK, Alone, Back, ConfSteps, Critical, PrepSteps, RelSteps, RollbackSteps,
       Settled, Somebody, Orderly, Undoing, engineVars
<1> QED
  BY <1>1, <1>2

LEMMA RbMarkOrder ==
  ASSUME Orderly, Ordered, NEW p \in Procs, RbMark(p), UNCHANGED engineVars
  PROVE  OrderOK' /\ WhereOK'
<1> USE DEF Ordered, RbMark, Goto
<1>1. OrderOK'
  BY DEF OrderOK, ComSteps, ConfSteps, Critical, PrepSteps, RelSteps, RollbackSteps, engineVars
<1>2. WhereOK'
  BY DEF WhereOK, OrderOK, At, Back, Critical, PcTypeOK, PrepSteps, Procs, RelSteps,
       RouterTypeOK, Somebody, TypeOK, engineVars
<1> QED
  BY <1>1, <1>2

LEMMA RbStopOrder ==
  ASSUME Orderly, Ordered, NEW p \in Procs, RbStop(p), UNCHANGED engineVars
  PROVE  OrderOK' /\ WhereOK'
<1> USE DEF Ordered, RbStop, Goto
<1>1. OrderOK'
  BY DEF OrderOK, ComSteps, ConfSteps, Critical, PrepSteps, RelSteps, RollbackSteps, engineVars
<1>2. WhereOK'
  BY DEF WhereOK, At, Back, PrepSteps, RelSteps, Settled, Somebody, Undoing, engineVars
<1> QED
  BY <1>1, <1>2

LEMMA RbConfigOrder ==
  ASSUME Orderly, Ordered, NEW p \in Procs, RbConfig(p), UNCHANGED engineVars
  PROVE  OrderOK' /\ WhereOK'
<1> USE DEF Ordered, RbConfig, Goto
<1>1. OrderOK'
  BY DEF OrderOK, ComSteps, ConfSteps, Critical, PrepSteps, RelSteps, RollbackSteps, engineVars
<1>2. WhereOK'
  BY DEF WhereOK, At, Back, PrepSteps, RelSteps, Settled, Somebody, Undoing, engineVars
<1> QED
  BY <1>1, <1>2

LEMMA RbHashOrder ==
  ASSUME Orderly, Ordered, NEW p \in Procs, RbHash(p), UNCHANGED engineVars
  PROVE  OrderOK' /\ WhereOK'
<1> USE DEF Ordered, RbHash, Goto
<1>1. OrderOK'
  BY DEF OrderOK, ComSteps, ConfSteps, Critical, PrepSteps, RelSteps, RollbackSteps, engineVars
<1>2. WhereOK'
  BY DEF WhereOK, At, Back, PrepSteps, RelSteps, Settled, Somebody, Undoing, engineVars
<1> QED
  BY <1>1, <1>2

LEMMA RbApplyOrder ==
  ASSUME Orderly, Ordered, NEW p \in Procs, RbApply(p), UNCHANGED engineVars
  PROVE  OrderOK' /\ WhereOK'
<1> USE DEF Ordered, RbApply, Exit, Goto, RollbackAnswer
<1>1. OrderOK'
  BY DEF OrderOK, Critical, RollbackSteps, engineVars
<1>2. WhereOK'
  BY DEF WhereOK, OrderOK, At, Back, ConfSteps, RelSteps, RollbackSteps, Settled, Somebody,
       Undoing, engineVars
<1> QED
  BY <1>1, <1>2

\* release.sh
LEMMA RelCheckOrder ==
  ASSUME Orderly, Ordered, NEW p \in Procs, RelCheck(p), UNCHANGED engineVars
  PROVE  OrderOK' /\ WhereOK'
<1> USE DEF Ordered, RelCheck, Goto, PcTypeOK, Procs, RouterTypeOK, TypeOK
<1>1. OrderOK'
  BY DEF OrderOK, Alone, ComSteps, ConfSteps, Exit, PrepSteps, RelSteps, RollbackSteps,
       Orderly, engineVars
<1>2. WhereOK'
  BY DEF WhereOK, At, Back, PrepSteps, RelSteps, RollbackSteps, Settled, Somebody, Undoing,
       engineVars
<1> QED
  BY <1>1, <1>2

LEMMA RelStartOrder ==
  ASSUME Orderly, Ordered, NEW p \in Procs, RelStart(p), UNCHANGED engineVars
  PROVE  OrderOK' /\ WhereOK'
<1> USE DEF Ordered, RelStart, Goto
<1>1. OrderOK'
  BY DEF OrderOK, ComSteps, ConfSteps, Critical, PrepSteps, RelSteps, RollbackSteps, engineVars
<1>2. WhereOK'
  BY DEF WhereOK, At, Back, PrepSteps, RelSteps, RollbackSteps, Settled, Somebody, Undoing,
       engineVars
<1> QED
  BY <1>1, <1>2

LEMMA RelWaitOrder ==
  ASSUME Orderly, Ordered, NEW p \in Procs, RelWait(p), UNCHANGED engineVars
  PROVE  OrderOK' /\ WhereOK'
<1> USE DEF Ordered, RelWait, Exit, Goto, PcTypeOK, Procs, RouterTypeOK, TypeOK
<1>1. OrderOK'
  BY DEF OrderOK, Critical, RollbackSteps, engineVars
<1>2. WhereOK'
  BY DEF WhereOK, OrderOK, At, Back, ComSteps, ConfSteps, PrepSteps, RelSteps, RollbackSteps,
       Somebody, Undoing, engineVars
<1> QED
  BY <1>1, <1>2

\* The timer and the agent.
LEMMA TimerBootOrder ==
  ASSUME Orderly, Ordered, TimerBoot, UNCHANGED engineVars
  PROVE  OrderOK' /\ WhereOK'
<1> USE DEF Ordered, TimerBoot, Goto
<1>1. OrderOK'
  BY DEF OrderOK, Critical, RollbackSteps, engineVars
<1>2. WhereOK'
  BY DEF WhereOK, At, Back, RollbackSteps, Settled, Somebody, Undoing, engineVars
<1> QED
  BY <1>1, <1>2

LEMMA TimerStandDownOrder ==
  ASSUME Orderly, Ordered, TimerStandDown, UNCHANGED engineVars
  PROVE  OrderOK' /\ WhereOK'
<1> USE DEF Ordered, TimerStandDown, Goto
<1>1. OrderOK'
  BY DEF OrderOK, Critical, RollbackSteps, engineVars
<1>2. WhereOK'
  BY DEF WhereOK, At, Back, RollbackSteps, Settled, Somebody, Undoing, engineVars
<1> QED
  BY <1>1, <1>2

LEMMA TimerExpireOrder ==
  ASSUME Orderly, Ordered, TimerExpire, UNCHANGED engineVars
  PROVE  OrderOK' /\ WhereOK'
<1> USE DEF Ordered, TimerExpire, Goto
<1>1. OrderOK'
  BY DEF OrderOK, Critical, RollbackSteps, engineVars
<1>2. WhereOK'
  BY DEF WhereOK, At, Back, RollbackSteps, Settled, Somebody, Undoing, engineVars
<1> QED
  BY <1>1, <1>2

LEMMA TimerExitOrder ==
  ASSUME Orderly, Ordered, TimerExit, UNCHANGED engineVars
  PROVE  OrderOK' /\ WhereOK'
<1> USE DEF Ordered, TimerExit, Goto
<1>1. OrderOK'
  BY DEF OrderOK, Critical, RollbackSteps, engineVars
<1>2. WhereOK'
  BY DEF WhereOK, At, Back, RollbackSteps, Settled, Somebody, Undoing, engineVars
<1> QED
  BY <1>1, <1>2

LEMMA AgentExitOrder ==
  ASSUME Orderly, Ordered, AgentExit, UNCHANGED engineVars
  PROVE  OrderOK' /\ WhereOK'
<1> USE DEF Ordered, AgentExit
<1>1. OrderOK'
  BY DEF OrderOK, engineVars
<1>2. WhereOK'
  BY DEF WhereOK, At, Back, Settled, Somebody, engineVars
<1> QED
  BY <1>1, <1>2

LEMMA PushOrder ==
  ASSUME Orderly, Ordered, Push, UNCHANGED engineVars
  PROVE  OrderOK' /\ WhereOK'
<1> USE DEF Ordered, Push
<1>1. OrderOK'
  BY DEF OrderOK, engineVars
<1>2. WhereOK'
  BY DEF WhereOK, At, Back, Settled, Somebody, engineVars
<1> QED
  BY <1>1, <1>2

LEMMA RouterOrder ==
  ASSUME Orderly, Ordered, RouterStep, UNCHANGED engineVars
  PROVE  OrderOK' /\ WhereOK'
<1>1. ASSUME NEW p \in Procs, PrepCheck(p) \/ PrepConfig(p) \/ PrepHash(p) \/ PrepJournal(p)
                              \/ PrepGate(p) \/ PrepStop(p) \/ PrepWait(p)
      PROVE  OrderOK' /\ WhereOK'
  BY <1>1, PrepCheckOrder, PrepConfigOrder, PrepHashOrder, PrepJournalOrder, PrepGateOrder,
       PrepStopOrder, PrepWaitOrder
<1>2. ASSUME NEW p \in Procs, ComCheck(p) \/ ComMark(p) \/ ComArm(p) \/ ComStart(p) \/ ComWait(p)
      PROVE  OrderOK' /\ WhereOK'
  BY <1>2, ComCheckOrder, ComMarkOrder, ComArmOrder, ComStartOrder, ComWaitOrder
<1>3. ASSUME NEW p \in Procs, ConfCheck(p) \/ ConfMark(p) \/ ConfWait(p)
      PROVE  OrderOK' /\ WhereOK'
  BY <1>3, ConfCheckOrder, ConfMarkOrder, ConfWaitOrder
<1>4. ASSUME NEW p \in Procs, RbCheck(p) \/ RbMark(p) \/ RbStop(p) \/ RbConfig(p) \/ RbHash(p) \/ RbApply(p)
      PROVE  OrderOK' /\ WhereOK'
  BY <1>4, RbCheckOrder, RbMarkOrder, RbStopOrder, RbConfigOrder, RbHashOrder, RbApplyOrder
<1>5. ASSUME NEW p \in Procs, RelCheck(p) \/ RelStart(p) \/ RelWait(p)
      PROVE  OrderOK' /\ WhereOK'
  BY <1>5, RelCheckOrder, RelStartOrder, RelWaitOrder
<1>6. CASE TimerStep
  BY <1>6, TimerBootOrder, TimerStandDownOrder, TimerExpireOrder, TimerExitOrder DEF TimerStep
<1>7. CASE AgentExit \/ Push
  BY <1>7, AgentExitOrder, PushOrder
<1> QED
  BY <1>1, <1>2, <1>3, <1>4, <1>5, <1>6, <1>7 DEF RouterStep, ScriptStep

\* The engine.
LEMMA BeginOrder ==
  ASSUME Orderly, Ordered, NEW desired \in Docs, Begin(desired)
  PROVE  OrderOK' /\ WhereOK'
<1> USE DEF Ordered, Begin, router, routerVars
<1>1. OrderOK'
  BY DEF OrderOK, Answer
<1>2. WhereOK'
  BY DEF WhereOK, Answer, At, Back, Settled, Somebody
<1> QED
  BY <1>1, <1>2

LEMMA WritableOrder ==
  ASSUME Orderly, Ordered, Writable
  PROVE  OrderOK' /\ WhereOK'
<1> USE DEF Ordered, Writable, router, routerVars
<1>1. OrderOK'
  BY DEF OrderOK, Answer, Calm, Orderly, Then
<1>2. WhereOK'
  BY DEF WhereOK, Answer, At, Back, Settled, Somebody, Then
<1> QED
  BY <1>1, <1>2

LEMMA RecoverOrder ==
  ASSUME Orderly, Ordered, Recover
  PROVE  OrderOK' /\ WhereOK'
<1> USE DEF Ordered, Recover, router, routerVars
<1>1. OrderOK'
  BY DEF OrderOK, Answer, Then, WayBack
<1>2. WhereOK'
  BY DEF WhereOK, Answer, At, Back, Settled, Somebody, Then, WayBack
<1> QED
  BY <1>1, <1>2

LEMMA ReadyOrder ==
  ASSUME Orderly, Ordered, Ready
  PROVE  OrderOK' /\ WhereOK'
<1> USE DEF Ordered, Ready, Call, PcTypeOK, Procs, RouterTypeOK, TypeOK
<1>1. OrderOK'
  BY DEF OrderOK, Answer, Critical, PrepSteps, RollbackSteps, Then
<1>2. WhereOK'
  BY DEF WhereOK, Answer, At, Back, Recoverable, RelSteps, RollbackSteps, Settled, Somebody,
       Startable, Then, TimerArmed, Undoing
<1> QED
  BY <1>1, <1>2

LEMMA PreparedOrder ==
  ASSUME Orderly, Ordered, Prepared
  PROVE  OrderOK' /\ WhereOK'
<1> USE DEF Ordered, Prepared, Call, HangUp, Succeeded
<1>1. OrderOK'
  BY DEF OrderOK, Answer, Critical, PcTypeOK, Procs, RollbackSteps, RouterTypeOK, TypeOK
<1>2. WhereOK'
  BY DEF WhereOK, Answer, At, Back, PrepSteps, RelSteps, RollbackSteps, Settled, Somebody,
       Undoing
<1> QED
  BY <1>1, <1>2

LEMMA CommitOrder ==
  ASSUME Orderly, Ordered, Commit
  PROVE  OrderOK' /\ WhereOK'
<1> USE DEF Ordered, Commit, Call
<1>1. OrderOK'
  BY DEF OrderOK, ComSteps, Critical, PcTypeOK, Procs, RollbackSteps, RouterTypeOK, Then, TypeOK
<1>2. WhereOK'
  BY DEF WhereOK, At, Back, PcTypeOK, Procs, RollbackSteps, RouterTypeOK, Settled, Somebody,
       Then, TypeOK, Undoing
<1> QED
  BY <1>1, <1>2

LEMMA CommittedOrder ==
  ASSUME Orderly, Ordered, Committed
  PROVE  OrderOK' /\ WhereOK'
<1> USE DEF Ordered, Committed, Call, HangUp
<1>1. OrderOK'
  BY DEF OrderOK, Critical, PcTypeOK, Procs, RollbackSteps, RouterTypeOK, Succeeded, Then,
       TypeOK, WayBack
<1>2. WhereOK'
  BY DEF WhereOK, At, Back, PrepSteps, RelSteps, RollbackSteps, Settled, Somebody, Succeeded,
       Then, Undoing, WayBack
<1> QED
  BY <1>1, <1>2

LEMMA VerifyOrder ==
  ASSUME Orderly, Ordered, Verify
  PROVE  OrderOK' /\ WhereOK'
<1> USE DEF Ordered, Verify, Call, PcTypeOK, Procs, RouterTypeOK, TypeOK
<1>1. OrderOK'
  BY DEF OrderOK, ConfSteps, Critical, RollbackSteps, WayBack
<1>2. WhereOK'
  BY DEF WhereOK, At, Back, PrepSteps, RelSteps, Settled, Somebody, Undoing, WayBack
<1> QED
  BY <1>1, <1>2

LEMMA ConfirmedOrder ==
  ASSUME Orderly, Ordered, Confirmed
  PROVE  OrderOK' /\ WhereOK'
<1> USE DEF Ordered, Confirmed, Call, HangUp
<1>1. OrderOK'
  BY DEF OrderOK, Answer, Critical, PcTypeOK, Procs, RollbackSteps, RouterTypeOK, TypeOK,
       WayBack
<1>2. WhereOK'
  BY DEF WhereOK, Answer, At, Back, PrepSteps, RelSteps, RollbackSteps, Settled, Somebody,
       Undoing, WayBack
<1> QED
  BY <1>1, <1>2

LEMMA RestoreOrder ==
  ASSUME Orderly, Ordered, Restore
  PROVE  OrderOK' /\ WhereOK'
<1> USE DEF Ordered, Restore, Call, PcTypeOK, Procs, RouterTypeOK, TypeOK
<1>1. OrderOK'
  BY DEF OrderOK, Answer, Calm, RollbackSteps, Orderly, Then
<1>2. WhereOK'
  BY DEF WhereOK, OrderOK, Answer, At, Back, Calm, Critical, RelSteps, RollbackSteps, Somebody,
       Orderly, Then, Undoing
<1> QED
  BY <1>1, <1>2

LEMMA RolledBackOrder ==
  ASSUME Orderly, Ordered, RolledBack
  PROVE  OrderOK' /\ WhereOK'
<1> USE DEF Ordered, RolledBack, Call, HangUp
<1>1. OrderOK'
  BY DEF OrderOK, Answer, Critical, PcTypeOK, Procs, RollbackSteps, RouterTypeOK, Succeeded,
       Then, TypeOK
<1>2. WhereOK'
  BY DEF WhereOK, Answer, At, Back, PrepSteps, RelSteps, RollbackSteps, Settled, Somebody,
       Succeeded, Then, Undoing
<1> QED
  BY <1>1, <1>2

LEMMA ReleaseOrder ==
  ASSUME Orderly, Ordered, Release
  PROVE  OrderOK' /\ WhereOK'
<1> USE DEF Ordered, Release, Call
<1>1. OrderOK'
  BY DEF OrderOK, Critical, PcTypeOK, Procs, RelSteps, RollbackSteps, RouterTypeOK, Then, TypeOK
<1>2. WhereOK'
  BY DEF WhereOK, At, Back, PcTypeOK, PrepSteps, Procs, RollbackSteps, RouterTypeOK, Settled,
       Somebody, Then, TypeOK, Undoing
<1> QED
  BY <1>1, <1>2

LEMMA ReleasedOrder ==
  ASSUME Orderly, Ordered, Released
  PROVE  OrderOK' /\ WhereOK'
<1> USE DEF Ordered, Released, Call, HangUp
<1>1. OrderOK'
  BY DEF OrderOK, Answer, Critical, PcTypeOK, Procs, RollbackSteps, RouterTypeOK, TypeOK
<1>2. WhereOK'
  BY DEF WhereOK, Answer, At, Back, PrepSteps, RelSteps, RollbackSteps, Settled, Somebody,
       Undoing
<1> QED
  BY <1>1, <1>2

\* The cloud writes, and the way back's, move nothing on the router.
LEMMA StageOrder ==
  ASSUME Ordered, Stage
  PROVE  OrderOK' /\ WhereOK'
<1>1. /\ epc = "stage" /\ epc' \in {"stage", "revert"}
      /\ UNCHANGED <<state, disk, journal, agent, pc, stdin, old, live>>
  BY DEF Stage, WayBack
<1>2. state = "gated" /\ pc["fg"] = "none" /\ pc["bg"] = "none"
  BY <1>1 DEF Ordered, WhereOK, OrderOK
<1>3. pc["timer"] \notin RollbackSteps
  BY <1>2 DEF Ordered, WhereOK, Somebody, Undoing, RollbackSteps, Procs
<1>4. OrderOK'
  BY <1>1, <1>2 DEF Ordered, OrderOK
<1>5. WhereOK'
  BY <1>1, <1>2, <1>3 DEF Ordered, WhereOK, Settled, At, Back, Somebody, RollbackSteps, Undoing,
     PrepSteps, RelSteps, Procs
<1> QED
  BY <1>4, <1>5

LEMMA RevertOrder ==
  ASSUME Ordered, Revert
  PROVE  OrderOK' /\ WhereOK'
<1>1. /\ epc = "revert" /\ epc' \in {"revert", "idle"}
      /\ UNCHANGED <<state, disk, journal, agent, pc, stdin, old, live>>
  BY DEF Revert, Answer
<1>2. ~Settled /\ pc["fg"] = "none" /\ pc["bg"] = "none" /\ ~Somebody(Undoing)
  BY <1>1 DEF Ordered, WhereOK, OrderOK, Settled
<1>3. OrderOK'
  BY <1>1, <1>2 DEF Ordered, OrderOK
<1>4. WhereOK'
  BY <1>1, <1>2 DEF Ordered, WhereOK, Settled, At, Back, Somebody
<1> QED
  BY <1>3, <1>4

LEMMA ApplyOrder ==
  ASSUME Orderly, Ordered, ApplyStep
  PROVE  OrderOK' /\ WhereOK'
BY WritableOrder, RecoverOrder, ReadyOrder, PreparedOrder, StageOrder, CommitOrder, CommittedOrder,
   VerifyOrder, ConfirmedOrder, RestoreOrder, RolledBackOrder, RevertOrder, ReleaseOrder,
   ReleasedOrder DEF ApplyStep

\* The faults.
LEMMA CutOrder ==
  ASSUME Orderly, Ordered, Cut
  PROVE  OrderOK' /\ WhereOK'
<1> USE DEF Ordered, Cut, Call, LoseSession, PcTypeOK, Procs, RouterTypeOK, TypeOK
<1>1. OrderOK'
  BY DEF OrderOK, Critical, Entry, RollbackSteps, Scripts, Tail, engineVars
<1>2. WhereOK'
  BY DEF WhereOK, At, Back, PrepSteps, RelSteps, RollbackSteps, Settled, Somebody, Undoing,
       engineVars
<1> QED
  BY <1>1, <1>2

LEMMA CutStatusOrder ==
  ASSUME Orderly, Ordered, CutStatus
  PROVE  OrderOK' /\ WhereOK'
<1> USE DEF Ordered, CutStatus, router
<1>1. OrderOK'
  BY DEF OrderOK, Answer
<1>2. WhereOK'
  BY DEF WhereOK, Answer, At, Back, Settled, Somebody
<1> QED
  BY <1>1, <1>2

LEMMA CrashOrder ==
  ASSUME Orderly, Ordered, Crash
  PROVE  OrderOK' /\ WhereOK'
<1> USE DEF Ordered, Crash, Call, HangUp, LoseSession, PcTypeOK, Procs, RouterTypeOK,
     TypeOK
<1>1. OrderOK'
  BY DEF OrderOK, Answer, Critical, RollbackSteps
<1>2. WhereOK'
  BY DEF WhereOK, Answer, At, Back, PrepSteps, RelSteps, RollbackSteps, Settled, Somebody,
       Undoing
<1> QED
  BY <1>1, <1>2

LEMMA RebootOrder ==
  ASSUME Ordered, Reboot, UNCHANGED engineVars
  PROVE  OrderOK' /\ WhereOK'
<1> USE DEF Ordered, Reboot, PcTypeOK, Procs, RouterTypeOK, TypeOK
<1>1. OrderOK'
  BY DEF OrderOK, Critical, RollbackSteps, Scripts, Entry, Tail, ComSteps, ConfSteps, PrepSteps,
       RelSteps, engineVars
<1>2. WhereOK'
  BY DEF WhereOK, At, Back, Critical, Scripts, Entry, Tail, PrepSteps, RelSteps, RollbackSteps,
       Settled, Somebody, Undoing, engineVars
<1> QED
  BY <1>1, <1>2

LEMMA EditedOrder ==
  ASSUME Ordered, Edited
  PROVE  OrderOK' /\ WhereOK'
<1> USE DEF Ordered, Edited, LocalEdit, engineVars
<1>1. OrderOK'
  BY DEF OrderOK
<1>2. WhereOK'
  BY DEF WhereOK, At, Back, Settled, Somebody
<1> QED
  BY <1>1, <1>2

LEMMA FaultOrder ==
  ASSUME Orderly, Ordered, FaultStep
  PROVE  OrderOK' /\ WhereOK'
BY CutOrder, CutStatusOrder, CrashOrder, RebootOrder, EditedOrder DEF FaultStep

LEMMA StutterOrder ==
  ASSUME Ordered, UNCHANGED vars
  PROVE  OrderOK' /\ WhereOK'
BY DEF Ordered, OrderOK, WhereOK, Settled, At, Back, Somebody, vars, routerVars, router, engineVars

LEMMA InitOrder ==
  ASSUME Init
  PROVE  Ordered
<1>1. TypeOK
  BY InitTyping
<1>2. OrderOK /\ WhereOK
  BY DEF Init, RouterInit, OrderOK, WhereOK, Settled, At, Back, Somebody, Procs, Critical, Entry,
         RollbackSteps, PrepSteps, ComSteps, ConfSteps, RelSteps, Undoing
<1> QED
  BY <1>1, <1>2 DEF Ordered

LEMMA NextOrder ==
  ASSUME Orderly, Ordered, [Next]_vars
  PROVE  Ordered'
<1>1. TypeOK'
  BY NextTyping DEF Ordered
<1>2. OrderOK' /\ WhereOK'
  BY BeginOrder, ApplyOrder, RouterOrder, FaultOrder, StutterOrder DEF Next
<1> QED
  BY <1>1, <1>2 DEF Ordered

\* Whatever fails, a lost script belongs to the call it was lost from, one process at a time
\* is between two writes, and the state file says what the step that runs counts on: no
\* edit, reboot, late answer, torn journal or late push brings two scripts into each other.
THEOREM ScriptsStayInOrder ==
  ASSUME Orderly
  PROVE  Spec => []Ordered
<1>1. Init => Ordered
  BY InitOrder
<1>2. Ordered /\ [Next]_vars => Ordered'
  BY NextOrder
<1> QED
  BY <1>1, <1>2, PTL DEF Spec

-----------------------------------------------------------------------------
(* What prepare.sh starts from is what commit.sh lets a push replace.        *)

LEMMA ScriptStart ==
  ASSUME Ordered, StartOK, NEW p \in Procs, ScriptStep(p), UNCHANGED engineVars
  PROVE  StartOK'
<1> USE DEF Ordered, StartOK, At, Back, InSync, Exit, Goto, PcTypeOK, Procs, RouterTypeOK, TypeOK
<1>1. CASE PrepCheck(p) \/ PrepConfig(p) \/ PrepHash(p) \/ PrepJournal(p) \/ PrepGate(p) \/ PrepStop(p)
  BY <1>1 DEF PrepCheck, PrepConfig, PrepHash, PrepJournal, PrepGate, PrepStop, PrepSteps,
     RollbackSteps, disk, engineVars
<1>2. CASE PrepWait(p)
  BY <1>2 DEF PrepWait, OrderOK, PrepSteps, RollbackSteps, disk, engineVars
<1>3. CASE ComCheck(p) \/ ComMark(p) \/ ComArm(p) \/ ComStart(p) \/ ComWait(p)
  BY <1>3 DEF ComCheck, ComMark, ComArm, ComStart, ComWait, OrderOK, ComSteps, PrepSteps,
     RollbackSteps, disk, engineVars
<1>4. CASE ConfCheck(p) \/ ConfMark(p) \/ ConfWait(p)
  BY <1>4 DEF ConfCheck, ConfMark, ConfWait, OrderOK, ConfSteps, PrepSteps, RollbackSteps, disk,
     engineVars
<1>5. CASE RbCheck(p) \/ RbMark(p) \/ RbStop(p) \/ RbApply(p)
  BY <1>5 DEF RbCheck, RbMark, RbStop, RbApply, RollbackAnswer, OrderOK, PrepSteps, RollbackSteps,
     disk, engineVars
<1>6. CASE RbConfig(p) \/ RbHash(p)
  <2>1. state = "rolled-back" /\ Somebody(RollbackSteps)
    BY <1>6 DEF RbConfig, RbHash, WhereOK, Somebody, Undoing, RollbackSteps
  <2>2. epc # "stage" /\ ~Back("prepare") /\ ~At({"com.check", "com.mark"}) /\ ~At(PrepSteps)
    BY <2>1 DEF WhereOK
  <2> QED
    BY <1>6, <2>1, <2>2 DEF RbConfig, RbHash, PrepSteps, RollbackSteps, engineVars
<1>7. CASE RelCheck(p) \/ RelStart(p) \/ RelWait(p)
  BY <1>7 DEF RelCheck, RelStart, RelWait, OrderOK, RelSteps, PrepSteps, RollbackSteps, disk, engineVars
<1> QED
  BY <1>1, <1>2, <1>3, <1>4, <1>5, <1>6, <1>7 DEF ScriptStep

LEMMA RouterStart ==
  ASSUME Ordered, StartOK, RouterStep, UNCHANGED engineVars
  PROVE  StartOK'
<1>1. CASE TimerStep
  BY <1>1 DEF TimerStep, TimerBoot, TimerStandDown, TimerExpire, TimerExit, Goto, StartOK, Back, At,
     InSync, Procs, Ordered, TypeOK, RouterTypeOK, PcTypeOK, disk, engineVars
<1>2. CASE AgentExit
  BY <1>2 DEF AgentExit, StartOK, Back, At, InSync, disk, engineVars
<1>3. CASE Push
  BY <1>3 DEF Push, StartOK, InSync
<1> QED
  BY <1>1, <1>2, <1>3, ScriptStart DEF RouterStep

LEMMA ApplyStart ==
  ASSUME Ordered, StartOK, ApplyStep
  PROVE  StartOK'
<1> USE DEF StartOK, At, Back, InSync, Answer, Then, WayBack, disk
<1>1. CASE Writable \/ Recover
  BY <1>1 DEF Writable, Recover, routerVars, router
<1>2. CASE Ready
  BY <1>2 DEF Ready, Startable, Call, Ordered, TypeOK, RouterTypeOK, PcTypeOK, Procs, OrderOK, InSync
<1>3. CASE Prepared \/ Committed \/ Confirmed \/ RolledBack \/ Released
  BY <1>3 DEF Prepared, Committed, Confirmed, RolledBack, Released, HangUp, Call, Succeeded, Failed,
     Ordered, TypeOK, RouterTypeOK, PcTypeOK, Procs, PrepSteps
<1>4. CASE Stage \/ Revert
  BY <1>4 DEF Stage, Revert
<1>5. CASE Commit \/ Verify \/ Restore \/ Release
  BY <1>5 DEF Commit, Verify, Restore, Release, Call, Ordered, TypeOK, RouterTypeOK, PcTypeOK, Procs,
     PrepSteps
<1> QED
  BY <1>1, <1>2, <1>3, <1>4, <1>5 DEF ApplyStep

LEMMA FaultStart ==
  ASSUME Orderly, Ordered, StartOK, FaultStep
  PROVE  StartOK'
<1> USE DEF StartOK, At, Back, InSync, disk
<1>1. CASE Cut
  BY <1>1 DEF Cut, LoseSession, Call, Ordered, TypeOK, RouterTypeOK, PcTypeOK, Procs, PrepSteps, engineVars
<1>2. CASE CutStatus
  BY <1>2 DEF CutStatus, Answer, router
<1>3. CASE Crash
  BY <1>3 DEF Crash, LoseSession, Call, HangUp, Answer, Ordered, TypeOK, RouterTypeOK, PcTypeOK, Procs
<1>4. CASE Reboot /\ UNCHANGED engineVars
  BY <1>4 DEF Reboot, Ordered, TypeOK, RouterTypeOK, PcTypeOK, Procs, PrepSteps, Scripts, Critical, engineVars
<1>5. CASE Edited
  <2>1. Settled /\ epc \in {"idle", "writable", "recover", "ready"} /\ UNCHANGED <<epc, pc, state>>
    BY <1>5 DEF Edited, LocalEdit, Recoverable, Orderly, engineVars
  <2>2. ~At({"com.check", "com.mark"})
    BY <2>1 DEF Ordered, WhereOK, Settled
  <2> QED
    BY <2>1, <2>2 DEF Settled
<1> QED
  BY <1>1, <1>2, <1>3, <1>4, <1>5 DEF FaultStep

LEMMA StartKept ==
  ASSUME Orderly, Ordered, StartOK, [Next]_vars
  PROVE  StartOK'
<1>1. CASE \E desired \in Docs : Begin(desired)
  BY <1>1 DEF Begin, Answer, StartOK, At, Back, InSync, routerVars, router, disk
<1>2. CASE UNCHANGED vars
  BY <1>2 DEF StartOK, At, Back, InSync, vars, routerVars, router, disk, engineVars
<1> QED
  BY <1>1, <1>2, ApplyStart, RouterStart, FaultStart DEF Next

\* From prepare.sh to the end of the transaction hash.txt describes config.json, whatever
\* fails: Ready lets no transaction start on an edited router.
THEOREM StartsInSync ==
  ASSUME Orderly
  PROVE  Spec => []StartOK
<1>1. Init => StartOK
  BY DEF Init, RouterInit, StartOK, At, Back, InSync, Procs
<1>2. Ordered /\ StartOK /\ [Next]_vars => StartOK'
  BY StartKept
<1> QED
  BY <1>1, <1>2, ScriptsStayInOrder, PTL DEF Spec

\* A push that reaches a router under transaction replaces only what an earlier push brought:
\* whatever dies, restarts or is edited, no change made on the router itself is lost to it.
THEOREM NoEditIsOverwritten ==
  ASSUME Orderly
  PROVE  Spec => EditsAreRefused
<1>1. StartOK /\ [Next]_vars => [state = "committed" /\ hash' # hash => InSync]_vars
  BY DEF StartOK
<1> QED
  BY <1>1, StartsInSync, PTL DEF Spec, EditsAreRefused

-----------------------------------------------------------------------------
(* What the probes ran on is what confirm.sh confirms.                       *)

\* The five statements that write the state file.
LEMMA StateWriters ==
  ASSUME Next, state' # state
  PROVE  \E p \in Procs : \/ PrepGate(p) /\ state' = "gated"
                          \/ ComMark(p) /\ state' = "committed"
                          \/ ConfMark(p) /\ state' = "confirmed"
                          \/ RbMark(p) /\ state' = "rolled-back"
                          \/ RelWait(p) /\ state' = "released"
<1>1. ~ApplyStep
  BY DEF ApplyStep, Writable, Recover, Ready, Prepared, Stage, Commit, Committed, Verify, Confirmed,
         Restore, RolledBack, Revert, Release, Released, routerVars, router
<1>2. ~FaultStep /\ ~\E desired \in Docs : Begin(desired)
  BY DEF FaultStep, Cut, CutStatus, Crash, Edited, Reboot, LocalEdit, Begin, routerVars, router
<1>3. ~TimerStep /\ ~AgentExit /\ ~Push
  BY DEF TimerStep, TimerBoot, TimerStandDown, TimerExpire, TimerExit, AgentExit, Push
<1>4. PICK p \in Procs : ScriptStep(p)
  BY <1>1, <1>2, <1>3 DEF Next, RouterStep
<1> QED
  BY <1>4 DEF ScriptStep, PrepCheck, PrepConfig, PrepHash, PrepJournal, PrepGate, PrepStop,
     PrepWait,
         ComCheck, ComMark, ComArm, ComStart, ComWait, ConfCheck, ConfMark, ConfWait, RbCheck, RbMark,
         RbStop, RbConfig, RbHash, RbApply, RelCheck, RelStart, RelWait

LEMMA PrepProbed ==
  ASSUME Ordered, ProbedOK, NEW p \in Procs, UNCHANGED engineVars,
         PrepCheck(p) \/ PrepConfig(p) \/ PrepHash(p) \/ PrepJournal(p) \/ PrepGate(p) \/ PrepStop(p)
         \/ PrepWait(p)
  PROVE  ProbedOK'
<1> USE DEF Ordered, ProbedOK, At, Back, InCloud, Exit, Goto, PcTypeOK, Procs, RouterTypeOK, TypeOK,
            disk, engineVars
<1>1. CASE PrepCheck(p) \/ PrepConfig(p) \/ PrepHash(p) \/ PrepJournal(p) \/ PrepGate(p)
  BY <1>1 DEF PrepCheck, PrepConfig, PrepHash, PrepJournal, PrepGate, OrderOK, PrepSteps, RollbackSteps
<1>2. CASE PrepStop(p)
  BY <1>2 DEF PrepStop, StopAgent, OrderOK, WhereOK, PrepSteps, RollbackSteps
<1>3. CASE PrepWait(p)
  BY <1>3 DEF PrepWait, OrderOK, PrepSteps, ComSteps, RollbackSteps
<1> QED
  BY <1>1, <1>2, <1>3

LEMMA ComProbed ==
  ASSUME Prompt, Ordered, ProbedOK, NEW p \in Procs, UNCHANGED engineVars,
         ComCheck(p) \/ ComMark(p) \/ ComArm(p) \/ ComStart(p) \/ ComWait(p)
  PROVE  ProbedOK'
<1> USE DEF Ordered, ProbedOK, At, Back, InCloud, Exit, Goto, PcTypeOK, Procs, RouterTypeOK, TypeOK,
            disk, engineVars
<1>1. CASE ComCheck(p)
  BY <1>1 DEF ComCheck, OrderOK, WhereOK, ComSteps, RollbackSteps, Alone, Critical, Prompt, Orderly
<1>2. CASE ComMark(p)
  BY <1>2 DEF ComMark, OrderOK, WhereOK, ComSteps, RollbackSteps
<1>3. CASE ComArm(p)
  BY <1>3 DEF ComArm, OrderOK, ComSteps, RollbackSteps
<1>4. CASE ComStart(p)
  BY <1>4 DEF ComStart, OrderOK, ComSteps, RollbackSteps
<1>5. CASE ComWait(p)
  BY <1>5 DEF ComWait, OrderOK, PrepSteps, ComSteps, RollbackSteps, Prompt
<1> QED
  BY <1>1, <1>2, <1>3, <1>4, <1>5

LEMMA ScriptProbed ==
  ASSUME Prompt, Ordered, ProbedOK, NEW p \in Procs, ScriptStep(p), UNCHANGED engineVars
  PROVE  ProbedOK'
<1> USE DEF Ordered, ProbedOK, At, Back, InCloud, Exit, Goto, PcTypeOK, Procs, RouterTypeOK, TypeOK,
            disk, engineVars
<1>1. CASE ConfCheck(p) \/ ConfMark(p) \/ ConfWait(p)
  BY <1>1 DEF ConfCheck, ConfMark, ConfWait, OrderOK, PrepSteps, ComSteps, ConfSteps, RollbackSteps
<1>2. CASE RbCheck(p) \/ RbMark(p) \/ RbStop(p)
  BY <1>2 DEF RbCheck, RbMark, RbStop, RollbackAnswer, StopAgent, OrderOK, WhereOK, PrepSteps, ComSteps,
     Somebody, Undoing, RollbackSteps
<1>3. CASE RbConfig(p) \/ RbHash(p) \/ RbApply(p)
  BY <1>3 DEF RbConfig, RbHash, RbApply, RollbackAnswer, OrderOK, WhereOK, PrepSteps, ComSteps,
     Somebody, Undoing, RollbackSteps
<1>4. CASE RelCheck(p) \/ RelStart(p) \/ RelWait(p)
  BY <1>4 DEF RelCheck, RelStart, RelWait, OrderOK, WhereOK, PrepSteps, ComSteps, RelSteps, RollbackSteps
<1> QED
  BY <1>1, <1>2, <1>3, <1>4, PrepProbed, ComProbed DEF ScriptStep

LEMMA RouterProbed ==
  ASSUME Prompt, Ordered, ProbedOK, RouterStep, UNCHANGED engineVars
  PROVE  ProbedOK'
<1> USE DEF ProbedOK, At, Back, InCloud, disk, engineVars
<1>1. CASE TimerStep
  BY <1>1 DEF TimerStep, TimerBoot, TimerStandDown, TimerExpire, TimerExit, Goto, Procs, Ordered,
     TypeOK, RouterTypeOK, PcTypeOK
<1>2. CASE AgentExit
  BY <1>2 DEF AgentExit
<1>3. CASE Push
  BY <1>3 DEF Push
<1> QED
  BY <1>1, <1>2, <1>3, ScriptProbed DEF RouterStep

LEMMA ApplyProbed ==
  ASSUME Ordered, ProbedOK, ApplyStep
  PROVE  ProbedOK'
<1> USE DEF Ordered, ProbedOK, At, Back, InCloud, Answer, Then, WayBack, disk
<1>1. CASE Writable \/ Recover
  BY <1>1 DEF Writable, Recover, routerVars, router
<1>2. CASE Ready
  BY <1>2 DEF Ready, Call, TypeOK, RouterTypeOK, PcTypeOK, Procs
<1>3. CASE Prepared \/ Committed \/ Confirmed \/ RolledBack \/ Released
  BY <1>3 DEF Prepared, Committed, Confirmed, RolledBack, Released, HangUp, Call, Succeeded, Failed,
     TypeOK, RouterTypeOK, PcTypeOK, Procs
<1>4. CASE Stage \/ Revert
  <2>1. /\ pc["fg"] = "none" /\ pc["bg"] = "none" /\ state \in {"gated", "rolled-back"}
        /\ epc' \in {"stage", "revert", "idle"} /\ (epc' = "stage" => epc = "stage")
        /\ UNCHANGED <<state, agent, pc>>
    BY <1>4 DEF Stage, Revert, OrderOK, WhereOK
  <2> QED
    BY <2>1
<1>5. CASE Commit
  BY <1>5 DEF Commit, Call, WhereOK, OrderOK, TypeOK, RouterTypeOK, PcTypeOK, Procs
<1>6. CASE Verify \/ Restore \/ Release
  BY <1>6 DEF Verify, Restore, Release, Call, OrderOK, TypeOK, RouterTypeOK, PcTypeOK, Procs
<1> QED
  BY <1>1, <1>2, <1>3, <1>4, <1>5, <1>6 DEF ApplyStep

LEMMA FaultProbed ==
  ASSUME Orderly, Ordered, ProbedOK, FaultStep
  PROVE  ProbedOK'
<1> USE DEF ProbedOK, At, Back, InCloud, disk
<1>1. CASE Cut
  BY <1>1 DEF Cut, LoseSession, Call, Ordered, TypeOK, RouterTypeOK, PcTypeOK, Procs, engineVars
<1>2. CASE CutStatus
  BY <1>2 DEF CutStatus, Answer, router
<1>3. CASE Crash
  BY <1>3 DEF Crash, LoseSession, Call, HangUp, Answer, Ordered, TypeOK, RouterTypeOK, PcTypeOK, Procs
<1>4. CASE Reboot /\ UNCHANGED engineVars
  BY <1>4 DEF Reboot, Ordered, TypeOK, RouterTypeOK, PcTypeOK, Procs, Scripts, Critical, Entry, Tail, engineVars
<1>5. CASE Edited
  <2>1. Settled /\ UNCHANGED <<epc, pc, state, agent, hash, old, cloud, probed>>
    BY <1>5 DEF Edited, LocalEdit, Recoverable, Orderly, engineVars
  <2> QED
    BY <2>1 DEF Settled
<1> QED
  BY <1>1, <1>2, <1>3, <1>4, <1>5 DEF FaultStep

LEMMA ProbedKept ==
  ASSUME Prompt, Ordered, ProbedOK, [Next]_vars
  PROVE  ProbedOK'
<1>1. CASE \E desired \in Docs : Begin(desired)
  BY <1>1 DEF Begin, Answer, ProbedOK, At, Back, InCloud, routerVars, router, disk
<1>2. CASE UNCHANGED vars
  BY <1>2 DEF ProbedOK, At, Back, InCloud, vars, routerVars, router, disk, engineVars
<1> QED
  BY <1>1, <1>2, ApplyProbed, RouterProbed, FaultProbed DEF Next, Prompt

\* confirm.sh confirms exactly what the probes ran on, whatever dies, restarts or is edited,
\* unless commit.sh gave up on a push that came later.
THEOREM ConfirmsWhatWasProbed ==
  ASSUME Prompt
  PROVE  Spec => OnlyProbedIsConfirmed
<1>1. Init => ProbedOK
  BY DEF Init, RouterInit, ProbedOK, At, Back, Procs
<1>2. Ordered /\ ProbedOK /\ [Next]_vars => ProbedOK'
  BY ProbedKept
<1>3. ASSUME Ordered, ProbedOK, Next, state' = "confirmed", state # "confirmed"
      PROVE  probed = live
  <2>1. PICK p \in Procs : ConfMark(p)
    BY <1>3, StateWriters
  <2>2. At({"conf.mark"})
    BY <2>1, <1>3 DEF ConfMark, At, Procs, Ordered, TypeOK, RouterTypeOK, PcTypeOK, RollbackSteps
  <2> QED
    BY <1>3, <2>2 DEF Ordered, WhereOK, ProbedOK, At
<1>4. Ordered /\ ProbedOK /\ [Next]_vars => [state' = "confirmed" /\ state # "confirmed" => probed = live]_vars
  BY <1>3
<1>5. Spec => []Ordered
  BY ScriptsStayInOrder DEF Prompt
<1> QED
  BY <1>1, <1>2, <1>4, <1>5, PTL DEF Spec, OnlyProbedIsConfirmed

-----------------------------------------------------------------------------
\* prepare.sh.  Nothing is in flight but this script, so what it copies agrees.

LEMMA PrepCheckKeeps ==
  ASSUME Survivable, IInv, NEW p \in Procs, PrepCheck(p), UNCHANGED engineVars
  PROVE  DataOK'
<1> USE DEF IInv, Ordered, DataOK, PrepCheck, Exit, Goto, PcTypeOK, Procs, RouterTypeOK, TypeOK
<1>1. FilesOK'
  BY DEF FilesOK, At, Back, Offered, RollbackSteps, Settled, Somebody, Undoing, disk, engineVars
<1>2. CloudOK'
  BY DEF CloudOK, At, InCloud, Offered, RelSteps, Settled, Somebody, Undoing, disk
<1>3. MemoryOK'
  BY DEF MemoryOK, At, Matches, PrepSteps, engineVars
<1>4. AgentOK'
  BY DEF AgentOK, Armed, At, Back, DeadMan, InCloud, Settled, Somebody, disk, engineVars
<1> QED
  BY <1>1, <1>2, <1>3, <1>4

LEMMA PrepConfigKeeps ==
  ASSUME Survivable, IInv, NEW p \in Procs, PrepConfig(p), UNCHANGED engineVars
  PROVE  DataOK'
<1> USE DEF IInv, Ordered, DataOK, PrepConfig, Goto
<1>1. FilesOK'
  BY DEF FilesOK, WhereOK, At, Back, Offered, PcTypeOK, Procs, RollbackSteps, RouterTypeOK,
       Settled, Somebody, TypeOK, engineVars
<1>2. CloudOK'
  BY DEF CloudOK, At, InCloud, Offered, RelSteps, Settled, Somebody, Undoing
<1>3. MemoryOK'
  BY DEF MemoryOK, At, Matches, PrepSteps, engineVars
<1>4. AgentOK'
  BY DEF AgentOK, FilesOK, Armed, At, Back, DeadMan, InCloud, Settled, Somebody, engineVars
<1> QED
  BY <1>1, <1>2, <1>3, <1>4

LEMMA PrepHashKeeps ==
  ASSUME Survivable, IInv, NEW p \in Procs, PrepHash(p), UNCHANGED engineVars
  PROVE  DataOK'
<1> USE DEF IInv, Ordered, DataOK, PrepHash, Goto
<1>1. FilesOK'
  BY DEF FilesOK, OrderOK, At, Back, Critical, DataTypeOK, Offered, PcTypeOK, Procs,
       RollbackSteps, RouterTypeOK, Settled, Somebody, States, TypeOK, Undoing
<1>2. CloudOK'
  BY DEF CloudOK, WhereOK, At, InCloud, PcTypeOK, Procs, RollbackSteps, RouterTypeOK, Settled,
       Somebody, TypeOK, Undoing
<1>3. MemoryOK'
  BY DEF MemoryOK, At, Matches, PrepSteps, engineVars
<1>4. AgentOK'
  BY DEF AgentOK, Armed, At, Back, DeadMan, InCloud, Settled, Somebody, engineVars
<1> QED
  BY <1>1, <1>2, <1>3, <1>4

LEMMA PrepJournalKeeps ==
  ASSUME Survivable, IInv, NEW p \in Procs, PrepJournal(p), UNCHANGED engineVars
  PROVE  DataOK'
<1> USE DEF IInv, Ordered, DataOK, PrepJournal, Goto
<1>1. FilesOK'
  BY DEF FilesOK, OrderOK, WhereOK, At, Back, PcTypeOK, PrepSteps, Procs, RollbackSteps,
       RouterTypeOK, Somebody, TypeOK, disk
<1>2. CloudOK'
  BY DEF CloudOK, WhereOK, At, InCloud, PcTypeOK, Procs, RelSteps, RollbackSteps, RouterTypeOK,
       Settled, Somebody, TypeOK, Undoing, disk
<1>3. MemoryOK'
  BY RouterAssumption DEF MemoryOK, OrderOK, At, ComSteps, ConfSteps, DataTypeOK, Matches,
       PcTypeOK, Procs, RollbackSteps, RouterTypeOK, Survivable, TypeOK, engineVars
<1>4. AgentOK'
  BY DEF AgentOK, Armed, At, Back, DeadMan, InCloud, Settled, Somebody, disk, engineVars
<1> QED
  BY <1>1, <1>2, <1>3, <1>4

LEMMA PrepGateKeeps ==
  ASSUME Survivable, IInv, NEW p \in Procs, PrepGate(p), UNCHANGED engineVars
  PROVE  DataOK'
<1> USE DEF IInv, Ordered, DataOK, PrepGate, Goto
<1>1. FilesOK'
  BY DEF FilesOK, WhereOK, At, Back, Offered, PcTypeOK, PrepSteps, Procs, RollbackSteps,
       RouterTypeOK, Somebody, TypeOK, disk, engineVars
<1>2. CloudOK'
  BY DEF CloudOK, WhereOK, FilesOK, MemoryOK, At, Compile, InCloud, Matches, PcTypeOK, Procs,
       RollbackSteps, RouterTypeOK, Settled, Somebody, TypeOK, Undoing, disk
<1>3. MemoryOK'
  BY DEF MemoryOK, At, Matches, PrepSteps, engineVars
<1>4. AgentOK'
  BY DEF AgentOK, Armed, At, Back, DeadMan, Settled, Somebody, engineVars
<1> QED
  BY <1>1, <1>2, <1>3, <1>4

LEMMA PrepStopKeeps ==
  ASSUME Survivable, IInv, NEW p \in Procs, PrepStop(p), UNCHANGED engineVars
  PROVE  DataOK'
<1> USE DEF IInv, Ordered, DataOK, PrepStop, Goto
<1>1. FilesOK'
  BY DEF FilesOK, At, Back, Offered, RollbackSteps, Settled, Somebody, Undoing, disk, engineVars
<1>2. CloudOK'
  BY DEF CloudOK, At, InCloud, Offered, RelSteps, Settled, Somebody, StopAgent, Undoing, disk
<1>3. MemoryOK'
  BY DEF MemoryOK, At, Matches, PrepSteps, engineVars
<1>4. AgentOK'
  BY DEF AgentOK, WhereOK, At, Back, DeadMan, PcTypeOK, Procs, RollbackSteps, RouterTypeOK,
       Settled, Somebody, StopAgent, TypeOK, engineVars
<1> QED
  BY <1>1, <1>2, <1>3, <1>4

LEMMA PrepWaitKeeps ==
  ASSUME Survivable, IInv, NEW p \in Procs, PrepWait(p), UNCHANGED engineVars
  PROVE  DataOK'
<1> USE DEF IInv, Ordered, DataOK, PrepWait, Exit, Goto, PcTypeOK, Procs, RouterTypeOK, TypeOK
<1>1. FilesOK'
  BY DEF FilesOK, OrderOK, At, Back, ConfSteps, Offered, RelSteps, RollbackSteps, Settled,
       Somebody, Undoing, disk, engineVars
<1>2. CloudOK'
  BY DEF CloudOK, At, InCloud, Offered, RelSteps, Settled, Somebody, Undoing, disk
<1>3. MemoryOK'
  BY DEF MemoryOK, At, Matches, PrepSteps, engineVars
<1>4. AgentOK'
  BY DEF AgentOK, WhereOK, At, Back, DeadMan, RollbackSteps, Settled, Somebody, engineVars
<1> QED
  BY <1>1, <1>2, <1>3, <1>4

-----------------------------------------------------------------------------
\* commit.sh.  The agent starts only behind the timer, and gives up only on an old cloud.

LEMMA ComCheckKeeps ==
  ASSUME Survivable, IInv, NEW p \in Procs, ComCheck(p), UNCHANGED engineVars
  PROVE  DataOK'
<1> USE DEF IInv, Ordered, DataOK, ComCheck, Goto, PcTypeOK, Procs, RouterTypeOK, TypeOK
<1>1. FilesOK'
  BY DEF FilesOK, At, Back, Exit, Offered, RollbackSteps, Settled, Somebody, Undoing, disk,
       engineVars
<1>2. CloudOK'
  BY DEF CloudOK, At, Exit, InCloud, Offered, RelSteps, Settled, Somebody, Undoing, disk
<1>3. MemoryOK'
  BY DEF MemoryOK, At, Exit, Matches, PrepSteps, engineVars
<1>4. AgentOK'
  BY DEF AgentOK, Armed, At, Back, DeadMan, Exit, Settled, Somebody, disk, engineVars
<1> QED
  BY <1>1, <1>2, <1>3, <1>4

LEMMA ComMarkKeeps ==
  ASSUME Survivable, IInv, NEW p \in Procs, ComMark(p), UNCHANGED engineVars
  PROVE  DataOK'
<1> USE DEF IInv, Ordered, DataOK, ComMark, Goto
<1>1. FilesOK'
  BY DEF FilesOK, WhereOK, At, Back, PcTypeOK, Procs, RollbackSteps, RouterTypeOK, TypeOK, disk,
       engineVars
<1>2. CloudOK'
  BY DEF CloudOK, WhereOK, At, InCloud, Offered, PcTypeOK, Procs, RelSteps, RollbackSteps,
       RouterTypeOK, Settled, TypeOK, disk
<1>3. MemoryOK'
  BY DEF MemoryOK, At, Matches, PrepSteps, engineVars
<1>4. AgentOK'
  BY DEF AgentOK, WhereOK, FilesOK, At, Back, DeadMan, PcTypeOK, Procs, RollbackSteps,
       RouterTypeOK, Settled, TypeOK, disk, engineVars
<1> QED
  BY <1>1, <1>2, <1>3, <1>4

LEMMA ComArmKeeps ==
  ASSUME Survivable, IInv, NEW p \in Procs, ComArm(p), UNCHANGED engineVars
  PROVE  DataOK'
<1> USE DEF IInv, Ordered, DataOK, ComArm, PcTypeOK, Procs, RouterTypeOK, TypeOK
<1>1. FilesOK'
  BY DEF FilesOK, WhereOK, At, Back, Settled, disk, engineVars
<1>2. CloudOK'
  BY DEF CloudOK, AgentOK, At, InCloud, Offered, RelSteps, Settled, Somebody, Undoing, disk
<1>3. MemoryOK'
  BY DEF MemoryOK, At, Matches, PrepSteps, engineVars
<1>4. AgentOK'
  BY DEF AgentOK, Armed, At, Back, DeadMan, Settled, engineVars
<1> QED
  BY <1>1, <1>2, <1>3, <1>4

LEMMA ComStartKeeps ==
  ASSUME Survivable, IInv, NEW p \in Procs, ComStart(p), UNCHANGED engineVars
  PROVE  DataOK'
<1> USE DEF IInv, Ordered, DataOK, ComStart, Exit, Goto, PcTypeOK, Procs, RouterTypeOK, TypeOK
<1>1. FilesOK'
  BY DEF FilesOK, At, Back, Offered, RollbackSteps, Settled, Somebody, Undoing, disk, engineVars
<1>2. CloudOK'
  BY DEF CloudOK, WhereOK, At, InCloud, Offered, RelSteps, RollbackSteps, Settled, disk
<1>3. MemoryOK'
  BY DEF MemoryOK, At, Matches, PrepSteps, engineVars
<1>4. AgentOK'
  BY DEF AgentOK, OrderOK, Armed, At, Back, DeadMan, RollbackSteps, Settled, Somebody,
       engineVars
<1> QED
  BY <1>1, <1>2, <1>3, <1>4

LEMMA ComWaitKeeps ==
  ASSUME Survivable, IInv, NEW p \in Procs, ComWait(p), UNCHANGED engineVars
  PROVE  DataOK'
<1> USE DEF IInv, Ordered, DataOK, ComWait, Exit, Goto
<1>1. FilesOK'
  BY DEF FilesOK, OrderOK, At, Back, ConfSteps, Offered, RelSteps, RollbackSteps, Settled,
       Somebody, Undoing, disk, engineVars
<1>2. CloudOK'
  BY DEF CloudOK, At, InCloud, Offered, RelSteps, Settled, Somebody, Undoing, disk
<1>3. MemoryOK'
  BY DEF MemoryOK, OrderOK, At, Matches, PrepSteps, engineVars
<1>4. AgentOK'
  BY DEF AgentOK, OrderOK, FilesOK, CloudOK, Armed, At, Back, DeadMan, InCloud, PrepSteps,
       Settled, Somebody, Survivable, disk, engineVars
<1> QED
  BY <1>1, <1>2, <1>3, <1>4

-----------------------------------------------------------------------------
\* confirm.sh.  The timer that has not marked its rollback by now will stand down.

LEMMA ConfCheckKeeps ==
  ASSUME Survivable, IInv, NEW p \in Procs, ConfCheck(p), UNCHANGED engineVars
  PROVE  DataOK'
<1> USE DEF IInv, Ordered, DataOK, ConfCheck, Exit, Goto, PcTypeOK, Procs, RouterTypeOK, TypeOK
<1>1. FilesOK'
  BY DEF FilesOK, At, Back, Offered, RollbackSteps, Settled, Somebody, Undoing, disk, engineVars
<1>2. CloudOK'
  BY DEF CloudOK, At, InCloud, Offered, RelSteps, Settled, Somebody, Undoing, disk
<1>3. MemoryOK'
  BY DEF MemoryOK, At, Matches, PrepSteps, engineVars
<1>4. AgentOK'
  BY DEF AgentOK, Armed, At, Back, DeadMan, InCloud, Settled, Somebody, disk, engineVars
<1> QED
  BY <1>1, <1>2, <1>3, <1>4

LEMMA ConfMarkKeeps ==
  ASSUME Survivable, IInv, NEW p \in Procs, ConfMark(p), UNCHANGED engineVars
  PROVE  DataOK'
<1> USE DEF IInv, Ordered, DataOK, ConfMark, Goto
<1>1. FilesOK'
  BY DEF FilesOK, WhereOK, CloudOK, AgentOK, At, Back, Offered, PcTypeOK, Procs, RollbackSteps,
       RouterTypeOK, Settled, Somebody, TypeOK, disk, engineVars
<1>2. CloudOK'
  BY DEF CloudOK, WhereOK, AgentOK, At, InCloud, Offered, PcTypeOK, Procs, RelSteps,
       RollbackSteps, RouterTypeOK, Settled, TypeOK, disk
<1>3. MemoryOK'
  BY DEF MemoryOK, At, Matches, PrepSteps, engineVars
<1>4. AgentOK'
  BY DEF AgentOK, WhereOK, At, Back, DeadMan, PcTypeOK, Procs, RollbackSteps, RouterTypeOK,
       Somebody, TypeOK, engineVars
<1> QED
  BY <1>1, <1>2, <1>3, <1>4

LEMMA ConfWaitKeeps ==
  ASSUME Survivable, IInv, NEW p \in Procs, ConfWait(p), UNCHANGED engineVars
  PROVE  DataOK'
<1> USE DEF IInv, Ordered, DataOK, ConfWait, Exit, Goto, PcTypeOK, Procs, RouterTypeOK, TypeOK
<1>1. FilesOK'
  BY DEF FilesOK, OrderOK, At, Back, Offered, RelSteps, RollbackSteps, Settled, Somebody,
       Undoing, disk, engineVars
<1>2. CloudOK'
  BY DEF CloudOK, At, InCloud, Offered, RelSteps, Settled, Somebody, Undoing, disk
<1>3. MemoryOK'
  BY DEF MemoryOK, OrderOK, At, Matches, PrepSteps, engineVars
<1>4. AgentOK'
  BY DEF AgentOK, OrderOK, Armed, At, Back, ComSteps, DeadMan, PrepSteps, Settled, Somebody,
       disk, engineVars
<1> QED
  BY <1>1, <1>2, <1>3, <1>4

-----------------------------------------------------------------------------
\* rollback.sh.  From the mark to the last file it is alone.

LEMMA RbCheckKeeps ==
  ASSUME Survivable, IInv, NEW p \in Procs, RbCheck(p), UNCHANGED engineVars
  PROVE  DataOK'
<1> USE DEF IInv, Ordered, DataOK, RbCheck, At, Exit, Goto, PcTypeOK, Procs, RollbackAnswer,
     RouterTypeOK, TypeOK
<1>1. FilesOK'
  BY DEF FilesOK, OrderOK, Back, ConfSteps, Offered, RelSteps, RollbackSteps, Settled, Somebody,
       Undoing, disk, engineVars
<1>2. CloudOK'
  BY DEF CloudOK, InCloud, Offered, RelSteps, Settled, Somebody, Undoing, disk
<1>3. MemoryOK'
  BY DEF MemoryOK, OrderOK, Matches, PrepSteps, engineVars
<1>4. AgentOK'
  BY DEF AgentOK, OrderOK, Alone, Back, Critical, DeadMan, InCloud, PrepSteps, Settled,
       Somebody, Survivable, disk, engineVars
<1> QED
  BY <1>1, <1>2, <1>3, <1>4

LEMMA RbMarkKeeps ==
  ASSUME Survivable, IInv, NEW p \in Procs, RbMark(p), UNCHANGED engineVars
  PROVE  DataOK'
<1> USE DEF IInv, Ordered, DataOK, RbMark, Goto
<1>1. FilesOK'
  BY DEF FilesOK, WhereOK, At, Back, Offered, RollbackSteps, Settled, Somebody, Tail, Undoing,
       disk, engineVars
<1>2. CloudOK'
  BY DEF CloudOK, WhereOK, At, InCloud, Offered, RelSteps, Settled, Somebody, Tail, Undoing,
       disk
<1>3. MemoryOK'
  BY DEF MemoryOK, At, Matches, PrepSteps, engineVars
<1>4. AgentOK'
  BY DEF AgentOK, OrderOK, At, Back, Critical, DeadMan, Procs, RollbackSteps, Settled, Somebody,
       engineVars
<1> QED
  BY <1>1, <1>2, <1>3, <1>4

LEMMA RbStopKeeps ==
  ASSUME Survivable, IInv, NEW p \in Procs, RbStop(p), UNCHANGED engineVars
  PROVE  DataOK'
<1> USE DEF IInv, Ordered, DataOK, RbStop, Goto
<1>1. FilesOK'
  BY DEF FilesOK, At, Back, Offered, RollbackSteps, Settled, Somebody, Tail, Undoing, disk,
       engineVars
<1>2. CloudOK'
  BY DEF CloudOK, At, InCloud, Offered, RelSteps, Settled, Somebody, Tail, Undoing, disk
<1>3. MemoryOK'
  BY DEF MemoryOK, At, Matches, PrepSteps, engineVars
<1>4. AgentOK'
  BY DEF AgentOK, WhereOK, At, Back, DeadMan, Settled, Somebody, StopAgent, Undoing, engineVars
<1> QED
  BY <1>1, <1>2, <1>3, <1>4

LEMMA RbConfigKeeps ==
  ASSUME Survivable, IInv, NEW p \in Procs, RbConfig(p), UNCHANGED engineVars
  PROVE  DataOK'
<1> USE DEF IInv, Ordered, DataOK, RbConfig, Goto
<1>1. FilesOK'
  BY DEF FilesOK, OrderOK, WhereOK, At, Back, Offered, PcTypeOK, RollbackSteps, RouterTypeOK,
       Settled, Somebody, Tail, TypeOK, Undoing, engineVars
<1>2. CloudOK'
  BY DEF CloudOK, At, InCloud, Offered, RelSteps, Settled, Somebody, Tail, Undoing
<1>3. MemoryOK'
  BY DEF MemoryOK, At, Matches, PrepSteps, engineVars
<1>4. AgentOK'
  BY DEF AgentOK, Armed, At, Back, DataTypeOK, DeadMan, RouterTypeOK, Settled, Somebody,
       Survivable, TypeOK, engineVars
<1> QED
  BY <1>1, <1>2, <1>3, <1>4

LEMMA RbHashKeeps ==
  ASSUME Survivable, IInv, NEW p \in Procs, RbHash(p), UNCHANGED engineVars
  PROVE  DataOK'
<1> USE DEF IInv, Ordered, DataOK, RbHash, Goto
<1>1. FilesOK'
  BY DEF FilesOK, WhereOK, At, Back, Offered, RollbackSteps, Settled, Somebody, Tail, Undoing,
       engineVars
<1>2. CloudOK'
  BY DEF CloudOK, WhereOK, AgentOK, At, InCloud, Offered, RelSteps, Settled, Somebody, Undoing
<1>3. MemoryOK'
  BY DEF MemoryOK, At, Matches, PrepSteps, engineVars
<1>4. AgentOK'
  BY DEF AgentOK, Armed, At, Back, DeadMan, Settled, Somebody, engineVars
<1> QED
  BY <1>1, <1>2, <1>3, <1>4

LEMMA RbApplyKeeps ==
  ASSUME Survivable, IInv, NEW p \in Procs, RbApply(p), UNCHANGED engineVars
  PROVE  DataOK'
<1> USE DEF IInv, Ordered, DataOK, RbApply, Exit, Goto, RollbackAnswer
<1>1. FilesOK'
  BY DEF FilesOK, OrderOK, WhereOK, At, Back, ConfSteps, Somebody, disk, engineVars
<1>2. CloudOK'
  BY DEF CloudOK, At, InCloud, Offered, RelSteps, Settled, Somebody, Undoing, disk
<1>3. MemoryOK'
  BY DEF MemoryOK, OrderOK, At, Matches, PrepSteps, engineVars
<1>4. AgentOK'
  BY DEF AgentOK, OrderOK, FilesOK, Armed, At, Back, DeadMan, InCloud, PrepSteps, Settled,
       Somebody, disk, engineVars
<1> QED
  BY <1>1, <1>2, <1>3, <1>4

-----------------------------------------------------------------------------
\* release.sh.  The files are the snapshot's, and so is what the cloud holds.

LEMMA RelCheckKeeps ==
  ASSUME Survivable, IInv, NEW p \in Procs, RelCheck(p), UNCHANGED engineVars
  PROVE  DataOK'
<1> USE DEF IInv, Ordered, DataOK, RelCheck, Goto, PcTypeOK, Procs, RouterTypeOK, TypeOK
<1>1. FilesOK'
  BY DEF FilesOK, At, Back, Exit, Offered, RollbackSteps, Settled, Somebody, Undoing, disk,
       engineVars
<1>2. CloudOK'
  BY DEF CloudOK, At, InCloud, Offered, RelSteps, RollbackSteps, Settled, Somebody, Undoing,
       disk
<1>3. MemoryOK'
  BY DEF MemoryOK, At, Exit, Matches, PrepSteps, engineVars
<1>4. AgentOK'
  BY DEF AgentOK, Armed, At, Back, DeadMan, Exit, InCloud, Settled, Somebody, disk, engineVars
<1> QED
  BY <1>1, <1>2, <1>3, <1>4

LEMMA RelStartKeeps ==
  ASSUME Survivable, IInv, NEW p \in Procs, RelStart(p), UNCHANGED engineVars
  PROVE  DataOK'
<1> USE DEF IInv, Ordered, DataOK, RelStart, Goto
<1>1. FilesOK'
  BY DEF FilesOK, At, Back, Offered, RollbackSteps, Settled, Somebody, Undoing, disk, engineVars
<1>2. CloudOK'
  BY DEF CloudOK, At, InCloud, Offered, PcTypeOK, Procs, RelSteps, RollbackSteps, RouterTypeOK,
       Settled, Somebody, TypeOK, Undoing, disk
<1>3. MemoryOK'
  BY DEF MemoryOK, At, Matches, PrepSteps, engineVars
<1>4. AgentOK'
  BY DEF AgentOK, OrderOK, WhereOK, At, Back, Critical, DeadMan, PcTypeOK, Procs, RelSteps,
       RollbackSteps, RouterTypeOK, Settled, Somebody, TypeOK, engineVars
<1> QED
  BY <1>1, <1>2, <1>3, <1>4

LEMMA RelWaitKeeps ==
  ASSUME Survivable, IInv, NEW p \in Procs, RelWait(p), UNCHANGED engineVars
  PROVE  DataOK'
<1> USE DEF IInv, Ordered, DataOK, RelWait, Exit, Goto, PcTypeOK, Procs, RouterTypeOK, TypeOK
<1>1. FilesOK'
  BY DEF FilesOK, OrderOK, WhereOK, At, ConfSteps, Critical, Offered, RelSteps, RollbackSteps,
       Somebody, disk, engineVars
<1>2. CloudOK'
  BY DEF CloudOK, WhereOK, FilesOK, At, InCloud, Offered, RelSteps, RollbackSteps, Settled,
       Somebody, Undoing, disk
<1>3. MemoryOK'
  BY DEF MemoryOK, OrderOK, At, Matches, PrepSteps, engineVars
<1>4. AgentOK'
  BY DEF AgentOK, OrderOK, Armed, At, Back, DeadMan, PrepSteps, Settled, Somebody, disk,
       engineVars
<1> QED
  BY <1>1, <1>2, <1>3, <1>4

-----------------------------------------------------------------------------
\* The timer and the agent.

LEMMA TimerBootKeeps ==
  ASSUME Survivable, IInv, TimerBoot, UNCHANGED engineVars
  PROVE  DataOK'
<1> USE DEF IInv, Ordered, DataOK, TimerBoot, Goto
<1>1. FilesOK'
  BY DEF FilesOK, At, Back, Offered, RollbackSteps, Settled, Somebody, Undoing, disk, engineVars
<1>2. CloudOK'
  BY DEF CloudOK, At, InCloud, Offered, Settled, Somebody, Undoing, disk
<1>3. MemoryOK'
  BY DEF MemoryOK, At, Matches, engineVars
<1>4. AgentOK'
  BY DEF AgentOK, Armed, At, Back, DeadMan, InCloud, Settled, Somebody, disk, engineVars
<1> QED
  BY <1>1, <1>2, <1>3, <1>4

LEMMA TimerStandDownKeeps ==
  ASSUME Survivable, IInv, TimerStandDown, UNCHANGED engineVars
  PROVE  DataOK'
<1> USE DEF IInv, Ordered, DataOK, TimerStandDown, Goto
<1>1. FilesOK'
  BY DEF FilesOK, At, Back, Offered, RollbackSteps, Settled, Somebody, Undoing, disk, engineVars
<1>2. CloudOK'
  BY DEF CloudOK, At, InCloud, Offered, Settled, Somebody, Undoing, disk
<1>3. MemoryOK'
  BY DEF MemoryOK, At, Matches, engineVars
<1>4. AgentOK'
  BY DEF AgentOK, WhereOK, At, Back, DeadMan, Settled, Somebody, engineVars
<1> QED
  BY <1>1, <1>2, <1>3, <1>4

LEMMA TimerExpireKeeps ==
  ASSUME Survivable, IInv, TimerExpire, UNCHANGED engineVars
  PROVE  DataOK'
<1> USE DEF IInv, Ordered, DataOK, TimerExpire, Goto
<1>1. FilesOK'
  BY DEF FilesOK, At, Back, Offered, RollbackSteps, Settled, Somebody, Undoing, disk, engineVars
<1>2. CloudOK'
  BY DEF CloudOK, At, InCloud, Offered, Settled, Somebody, Undoing, disk
<1>3. MemoryOK'
  BY DEF MemoryOK, At, Matches, engineVars
<1>4. AgentOK'
  BY DEF AgentOK, Armed, At, Back, DeadMan, InCloud, Settled, Somebody, disk, engineVars
<1> QED
  BY <1>1, <1>2, <1>3, <1>4

LEMMA TimerExitKeeps ==
  ASSUME Survivable, IInv, TimerExit, UNCHANGED engineVars
  PROVE  DataOK'
<1> USE DEF IInv, Ordered, DataOK, TimerExit, Goto
<1>1. FilesOK'
  BY DEF FilesOK, At, Back, Offered, RollbackSteps, Settled, Somebody, Undoing, disk, engineVars
<1>2. CloudOK'
  BY DEF CloudOK, At, InCloud, Offered, Settled, Somebody, Undoing, disk
<1>3. MemoryOK'
  BY DEF MemoryOK, At, Matches, engineVars
<1>4. AgentOK'
  BY DEF AgentOK, Armed, At, Back, DeadMan, Settled, Somebody, disk, engineVars
<1> QED
  BY <1>1, <1>2, <1>3, <1>4

LEMMA AgentExitKeeps ==
  ASSUME Survivable, IInv, AgentExit, UNCHANGED engineVars
  PROVE  DataOK'
<1> USE DEF IInv, Ordered, DataOK, AgentExit
<1>1. FilesOK'
  BY DEF FilesOK, At, Back, Offered, Settled, Somebody, disk, engineVars
<1>2. CloudOK'
  BY DEF CloudOK, At, InCloud, Offered, Settled, Somebody, disk
<1>3. MemoryOK'
  BY DEF MemoryOK, At, Matches, engineVars
<1>4. AgentOK'
  BY DEF AgentOK, At, DeadMan, Settled
<1> QED
  BY <1>1, <1>2, <1>3, <1>4

LEMMA PushKeeps ==
  ASSUME Survivable, IInv, Push, UNCHANGED engineVars
  PROVE  DataOK'
<1> USE DEF IInv, Ordered, DataOK, Push
<1>1. FilesOK'
  BY DEF FilesOK, OrderOK, WhereOK, CloudOK, AgentOK, At, Back, Critical, DataTypeOK, Entry,
       InCloud, Offered, PcTypeOK, RouterTypeOK, Scripts, Settled, Somebody, States, Tail,
       TypeOK, Undoing, engineVars
<1>2. CloudOK'
  BY DEF CloudOK, At, InCloud, Offered, Somebody
<1>3. MemoryOK'
  BY DEF MemoryOK, At, Matches, engineVars
<1>4. AgentOK'
  BY DEF AgentOK, At, Back, DataTypeOK, DeadMan, InCloud, RouterTypeOK, Settled, Somebody,
       TypeOK, engineVars
<1> QED
  BY <1>1, <1>2, <1>3, <1>4

-----------------------------------------------------------------------------
\* Together: what the router does by itself.
LEMMA RouterKeeps ==
  ASSUME Survivable, IInv, RouterStep, UNCHANGED engineVars
  PROVE  DataOK'
<1>1. ASSUME NEW p \in Procs, PrepCheck(p) \/ PrepConfig(p) \/ PrepHash(p) \/ PrepJournal(p) \/ PrepGate(p) \/ PrepStop(p) \/ PrepWait(p)
      PROVE  DataOK'
  BY <1>1, PrepCheckKeeps, PrepConfigKeeps, PrepHashKeeps, PrepJournalKeeps, PrepGateKeeps,
       PrepStopKeeps, PrepWaitKeeps
<1>2. ASSUME NEW p \in Procs, ComCheck(p) \/ ComMark(p) \/ ComArm(p) \/ ComStart(p) \/ ComWait(p)
      PROVE  DataOK'
  BY <1>2, ComCheckKeeps, ComMarkKeeps, ComArmKeeps, ComStartKeeps, ComWaitKeeps
<1>3. ASSUME NEW p \in Procs, ConfCheck(p) \/ ConfMark(p) \/ ConfWait(p)
      PROVE  DataOK'
  BY <1>3, ConfCheckKeeps, ConfMarkKeeps, ConfWaitKeeps
<1>4. ASSUME NEW p \in Procs, RbCheck(p) \/ RbMark(p) \/ RbStop(p) \/ RbConfig(p) \/ RbHash(p) \/ RbApply(p)
      PROVE  DataOK'
  BY <1>4, RbCheckKeeps, RbMarkKeeps, RbStopKeeps, RbConfigKeeps, RbHashKeeps, RbApplyKeeps
<1>5. ASSUME NEW p \in Procs, RelCheck(p) \/ RelStart(p) \/ RelWait(p)
      PROVE  DataOK'
  BY <1>5, RelCheckKeeps, RelStartKeeps, RelWaitKeeps
<1>6. CASE TimerStep
  BY <1>6, TimerBootKeeps, TimerStandDownKeeps, TimerExpireKeeps, TimerExitKeeps DEF TimerStep
<1>7. CASE AgentExit \/ Push
  BY <1>7, AgentExitKeeps, PushKeeps
<1> QED
  BY <1>1, <1>2, <1>3, <1>4, <1>5, <1>6, <1>7 DEF RouterStep, ScriptStep

-----------------------------------------------------------------------------
\* What the invariant says of the objects and the push.

LEMMA SameConfig ==
  ASSUME NEW a \in Configs, NEW b \in Configs, \A k \in Delivered : a[k] = b[k]
  PROVE  a = b
BY DEF Configs

LEMMA CompileFacts ==
  ASSUME NEW doc \in Docs
  PROVE  Compile(doc) \in Configs /\ \A k \in Delivered : k \in Keys /\ Compile(doc)[k] = doc[k]
BY CompileType, RouterAssumption DEF Compile

\* What the push brings, once every write is staged.
LEMMA StagedIsOffered ==
  ASSUME IInv, epc = "stage", todo = None
  PROVE  InCloud = Offered
<1>1. state = "gated" /\ journal # Torn /\ journal = change
  BY DEF IInv, Ordered, DataOK, WhereOK, CloudOK, MemoryOK, Settled
<1>2. \A k \in DOMAIN journal.writes : cloud[k] = journal.writes[k]
  BY <1>1 DEF IInv, Ordered, DataOK, MemoryOK, None
<1>3. \A k \in Delivered : k \notin DOMAIN journal.writes => cloud[k] = snap.hash[k]
  BY <1>1 DEF IInv, Ordered, DataOK, CloudOK, Settled
<1>4. snap.hash \in Configs /\ cloud \in Docs
  BY DEF IInv, Ordered, TypeOK, RouterTypeOK, DataTypeOK
<1>5. DOMAIN snap.hash = Delivered
  BY <1>4 DEF Configs
<1> QED
  BY <1>1, <1>2, <1>3, <1>5 DEF InCloud, Offered, Compile, Overlay

\* What is left, once every pre-image is written back.
LEMMA RevertedIsSnapshot ==
  ASSUME IInv, epc = "revert", undo = None
  PROVE  InCloud = snap.hash
<1>1. ~Settled
  BY DEF IInv, Ordered, DataOK, WhereOK, Settled
<1>2. \A k \in DOMAIN journal.pre : cloud[k] = journal.pre[k]
  BY DEF IInv, Ordered, DataOK, MemoryOK, None
<1>3. \A k \in Delivered : cloud[k] = snap.hash[k]
  BY <1>1, <1>2 DEF IInv, Ordered, DataOK, CloudOK
<1>4. snap.hash \in Configs /\ cloud \in Docs
  BY DEF IInv, Ordered, TypeOK, RouterTypeOK, DataTypeOK
<1> QED
  BY <1>3, <1>4, CompileFacts, SameConfig DEF InCloud

LEMMA PlanMatches ==
  ASSUME NEW doc \in Docs, NEW desired \in Docs
  PROVE  LET plan == PlanOf(doc, desired)
         IN  DOMAIN plan.pre = DOMAIN plan.writes /\ \A k \in DOMAIN plan.pre : doc[k] = plan.pre[k]
BY DEF PlanOf

-----------------------------------------------------------------------------
\* From the plan to the confirmation.

LEMMA BeginKeeps ==
  ASSUME Survivable, IInv, NEW desired \in Docs, Begin(desired)
  PROVE  DataOK'
<1> USE DEF IInv, Ordered, DataOK, Begin, router, routerVars
<1>1. FilesOK'
  BY DEF FilesOK, Answer, At, Back, Offered, Settled, Somebody, disk
<1>2. CloudOK'
  BY DEF CloudOK, At, InCloud, Offered, Settled, Somebody, disk
<1>3. MemoryOK'
  <2>1. epc = "idle" /\ pc["fg"] = "none" /\ UNCHANGED routerVars /\ epc' \in {"idle", "writable"}
    BY DEF OrderOK, Answer
  <2>2. ASSUME epc' = "writable"
        PROVE  Matches(change)'
    <3>1. change' = PlanOf(cloud, desired) /\ cloud' = cloud
      BY <2>1, <2>2 DEF Answer, routerVars, router
    <3>2. cloud \in Docs
      BY DEF TypeOK, RouterTypeOK, DataTypeOK
    <3> QED
      BY <3>1, <3>2, PlanMatches DEF Matches
  <2> QED
    BY <2>1, <2>2 DEF MemoryOK, routerVars, router, At, Matches
<1>4. AgentOK'
  BY DEF AgentOK, Answer, Armed, At, Back, DeadMan, InCloud, Settled, Somebody, disk
<1> QED
  BY <1>1, <1>2, <1>3, <1>4

LEMMA WritableKeeps ==
  ASSUME Survivable, IInv, Writable
  PROVE  DataOK'
<1> USE DEF IInv, Ordered, DataOK, Writable, router, routerVars
<1>1. FilesOK'
  BY DEF FilesOK, Answer, At, Back, Offered, Settled, Somebody, Then, disk
<1>2. CloudOK'
  BY DEF CloudOK, At, InCloud, Offered, Settled, Somebody, disk
<1>3. MemoryOK'
  BY DEF MemoryOK, Answer, At, Matches, Then
<1>4. AgentOK'
  BY DEF AgentOK, Answer, Armed, At, Back, DeadMan, InCloud, Settled, Somebody, Then, disk
<1> QED
  BY <1>1, <1>2, <1>3, <1>4

LEMMA RecoverKeeps ==
  ASSUME Survivable, IInv, Recover
  PROVE  DataOK'
<1> USE DEF IInv, Ordered, DataOK, Recover, router, routerVars
<1>1. FilesOK'
  BY DEF FilesOK, Answer, At, Back, Offered, Settled, Somebody, Then, WayBack, disk
<1>2. CloudOK'
  BY DEF CloudOK, At, InCloud, Offered, Settled, Somebody, disk
<1>3. MemoryOK'
  BY DEF MemoryOK, Answer, At, Matches, Then, WayBack
<1>4. AgentOK'
  BY DEF AgentOK, Answer, Armed, At, Back, DeadMan, InCloud, Settled, Somebody, Then, WayBack,
       disk
<1> QED
  BY <1>1, <1>2, <1>3, <1>4

LEMMA ReadyKeeps ==
  ASSUME Survivable, IInv, Ready
  PROVE  DataOK'
<1> USE DEF IInv, Ordered, DataOK, Ready, Call, PcTypeOK, Procs, RouterTypeOK, TypeOK
<1>1. FilesOK'
  BY DEF FilesOK, Answer, At, Back, Offered, Recoverable, Settled, Somebody, Startable, Tail,
       disk
<1>2. CloudOK'
  BY DEF CloudOK, At, InCloud, Offered, Recoverable, RelSteps, Settled, Somebody, Startable,
       Undoing, disk
<1>3. MemoryOK'
  BY DEF MemoryOK, Answer, At, Matches, Then
<1>4. AgentOK'
  BY DEF AgentOK, Answer, Armed, At, Back, DeadMan, InCloud, Settled, Somebody, Then, disk
<1> QED
  BY <1>1, <1>2, <1>3, <1>4

LEMMA PreparedKeeps ==
  ASSUME Survivable, IInv, Prepared
  PROVE  DataOK'
<1> USE DEF IInv, Ordered, DataOK, Prepared, Call, HangUp, Succeeded
<1>1. FilesOK'
  BY DEF FilesOK, Answer, At, Back, Failed, Offered, RollbackSteps, Settled, Somebody, Undoing,
       disk
<1>2. CloudOK'
  BY DEF CloudOK, At, Failed, InCloud, Offered, RelSteps, Settled, Somebody, Undoing, disk
<1>3. MemoryOK'
  BY DEF MemoryOK, Answer, At, Matches
<1>4. AgentOK'
  BY DEF AgentOK, Answer, Armed, At, Back, DeadMan, InCloud, Settled, Somebody, disk
<1> QED
  BY <1>1, <1>2, <1>3, <1>4

\* One write staged moves one object from its pre-image to its write; one refused turns back.
LEMMA StageKeeps ==
  ASSUME Survivable, IInv, Stage
  PROVE  DataOK'
<1> USE DEF IInv, Ordered, DataOK
<1> PICK k \in Keys : Stage!2!(k)
  BY DEF Stage
<1>1. /\ epc = "stage" /\ journal = change /\ k \in DOMAIN todo
      /\ UNCHANGED <<state, disk, journal, agent, pc, stdin, old, live, change>>
  BY DEF Stage, First, MemoryOK, WayBack
<1>2. state = "gated" /\ agent = "stopped" /\ pc["fg"] = "none" /\ pc["bg"] = "none"
  BY <1>1 DEF WhereOK, AgentOK, OrderOK
<1>3. pc["timer"] \notin RollbackSteps
  BY <1>2 DEF WhereOK, Somebody, Undoing, RollbackSteps, Procs
<1>4. epc' \in {"stage", "revert"}
  BY <1>1 DEF WayBack
<1>5. cloud \in Docs /\ change \in Changes /\ todo \in Patches
      /\ DOMAIN todo \subseteq DOMAIN change.writes
      /\ DOMAIN change.pre = DOMAIN change.writes
  BY <1>1, <1>2 DEF TypeOK, RouterTypeOK, DataTypeOK, EngineTypeOK, MemoryOK, CloudOK, Settled
<1>6. \A j \in Keys \ {k} : cloud'[j] = cloud[j]
  BY <1>5 DEF Survivable, Fault, Docs
<1>7. FilesOK'
  BY <1>1, <1>2, <1>3, <1>4 DEF FilesOK, Settled, At, Back, Somebody, Offered, disk
<1>8. CloudOK'
  <2>1. \A j \in Delivered : j \notin DOMAIN journal.pre => cloud'[j] = snap.hash[j]
    BY <1>1, <1>2, <1>5, <1>6, RouterAssumption DEF CloudOK, Settled
  <2> QED
    BY <1>1, <1>2, <1>3, <2>1 DEF CloudOK, Settled, At, Somebody, RelSteps, Undoing,
       RollbackSteps, disk, Procs
<1>9. MemoryOK'
  <2>1. CASE UNCHANGED epc
    <3>1. todo' = Without(todo, k) /\ cloud' = [cloud EXCEPT ![k] = todo[k]]
      BY <1>1, <2>1 DEF WayBack
    <3>2. cloud'[k] = change.writes[k]
      BY <1>1, <1>5, <3>1 DEF MemoryOK, Docs
    <3>3. DOMAIN todo' = DOMAIN todo \ {k} /\ \A j \in DOMAIN todo' : todo'[j] = todo[j]
      BY <3>1 DEF Without
    <3>4. DOMAIN change.writes \subseteq Keys
      BY <1>5, PatchFacts DEF Changes
    <3>5. \A j \in DOMAIN change.writes \ DOMAIN todo' : cloud'[j] = change.writes[j]
      BY <1>1, <1>6, <3>2, <3>3, <3>4 DEF MemoryOK
    <3>6. \A j \in DOMAIN todo' : todo'[j] = change.writes[j] /\ cloud'[j] = change.pre[j]
      BY <1>1, <1>5, <1>6, <3>3, <3>4 DEF MemoryOK
    <3> QED
      BY <1>1, <1>2, <1>5, <2>1, <3>3, <3>5, <3>6 DEF MemoryOK, At
  <2>2. CASE WayBack("revert", Staged, "aborted") /\ UNCHANGED cloud
    <3>1. DOMAIN Staged = DOMAIN change.pre \ DOMAIN todo
          /\ \A j \in DOMAIN Staged : Staged[j] = change.pre[j]
      BY DEF Staged, Only
    <3>2. \A j \in DOMAIN change.pre \ DOMAIN Staged : cloud[j] = change.pre[j]
      BY <1>1, <3>1 DEF MemoryOK
    <3>3. journal # Torn
      BY <1>2 DEF CloudOK, Settled
    <3> QED
      BY <1>1, <1>2, <2>2, <3>1, <3>2, <3>3 DEF MemoryOK, WayBack, At
  <2> QED
    BY <2>1, <2>2 DEF Survivable, Fault
<1>10. AgentOK'
  BY <1>1, <1>2, <1>3, <1>4 DEF AgentOK, DeadMan, Armed, Settled, At, Back, Somebody,
     RollbackSteps, Procs, disk
<1> QED
  BY <1>7, <1>8, <1>9, <1>10

LEMMA CommitKeeps ==
  ASSUME Survivable, IInv, Commit
  PROVE  DataOK'
<1> USE DEF IInv, Ordered, DataOK, Commit, Call
<1>1. FilesOK'
  BY DEF FilesOK, WhereOK, At, Then, disk
<1>2. CloudOK'
  BY StagedIsOffered DEF CloudOK, AgentOK, At, InCloud, Offered, RelSteps, Settled, disk
<1>3. MemoryOK'
  BY DEF MemoryOK, At, Matches, Then
<1>4. AgentOK'
  BY DEF AgentOK, Armed, At, Back, DeadMan, PcTypeOK, Procs, RouterTypeOK, Settled, Then,
       TypeOK, disk
<1> QED
  BY <1>1, <1>2, <1>3, <1>4

LEMMA CommittedKeeps ==
  ASSUME Survivable, IInv, Committed
  PROVE  DataOK'
<1> USE DEF IInv, Ordered, DataOK, Committed, Call, HangUp
<1>1. FilesOK'
  BY DEF FilesOK, At, Back, Failed, Offered, RollbackSteps, Settled, Somebody, Succeeded, Then,
       Undoing, WayBack, disk
<1>2. CloudOK'
  BY DEF CloudOK, At, Failed, InCloud, Offered, RelSteps, Settled, Somebody, Succeeded, Undoing,
       disk
<1>3. MemoryOK'
  BY RouterAssumption DEF MemoryOK, At, EngineTypeOK, Matches, Then, TypeOK, WayBack
<1>4. AgentOK'
  BY DEF AgentOK, Armed, At, Back, DeadMan, InCloud, Settled, Somebody, Succeeded, Then,
       WayBack, disk
<1> QED
  BY <1>1, <1>2, <1>3, <1>4

LEMMA VerifyKeeps ==
  ASSUME Survivable, IInv, Verify
  PROVE  DataOK'
<1> USE DEF IInv, Ordered, DataOK, Verify, Call, PcTypeOK, Procs, RouterTypeOK, TypeOK
<1>1. FilesOK'
  BY DEF FilesOK, OrderOK, At, Back, Offered, Settled, Somebody, disk
<1>2. CloudOK'
  BY DEF CloudOK, OrderOK, At, InCloud, Offered, RelSteps, Settled, Somebody, Undoing, disk
<1>3. MemoryOK'
  BY DEF MemoryOK, WhereOK, CloudOK, At, Settled, WayBack
<1>4. AgentOK'
  BY DEF AgentOK, Armed, At, Back, DeadMan, InCloud, Settled, Somebody, WayBack, disk
<1> QED
  BY <1>1, <1>2, <1>3, <1>4

LEMMA ConfirmedKeeps ==
  ASSUME Survivable, IInv, Confirmed
  PROVE  DataOK'
<1> USE DEF IInv, Ordered, DataOK, Confirmed, Call, HangUp
<1>1. FilesOK'
  BY DEF FilesOK, Answer, At, Back, Failed, Offered, RollbackSteps, Settled, Somebody,
       Succeeded, Undoing, disk
<1>2. CloudOK'
  BY DEF CloudOK, At, Failed, InCloud, Offered, RelSteps, Settled, Somebody, Succeeded, Undoing,
       disk
<1>3. MemoryOK'
  BY RouterAssumption DEF MemoryOK, Answer, At, EngineTypeOK, Matches, TypeOK, WayBack
<1>4. AgentOK'
  BY DEF AgentOK, Answer, Armed, At, Back, DeadMan, InCloud, Settled, Somebody, WayBack, disk
<1> QED
  BY <1>1, <1>2, <1>3, <1>4

-----------------------------------------------------------------------------
\* The way back.

LEMMA RestoreKeeps ==
  ASSUME Survivable, IInv, Restore
  PROVE  DataOK'
<1> USE DEF IInv, Ordered, DataOK, Restore, Call, PcTypeOK, Procs, RouterTypeOK, TypeOK
<1>1. FilesOK'
  BY DEF FilesOK, Answer, At, Back, Offered, Settled, Somebody, Then, disk
<1>2. CloudOK'
  BY DEF CloudOK, At, InCloud, Offered, RelSteps, Settled, Somebody, disk
<1>3. MemoryOK'
  BY DEF MemoryOK, Answer, At, Matches, Then
<1>4. AgentOK'
  BY DEF AgentOK, Answer, Armed, At, Back, DeadMan, InCloud, Settled, Somebody, Then, disk
<1> QED
  BY <1>1, <1>2, <1>3, <1>4

LEMMA RolledBackKeeps ==
  ASSUME Survivable, IInv, RolledBack
  PROVE  DataOK'
<1> USE DEF IInv, Ordered, DataOK, RolledBack, Call, HangUp
<1>1. FilesOK'
  BY DEF FilesOK, Answer, At, Back, Failed, Offered, RollbackSteps, Settled, Somebody,
       Succeeded, Then, Undoing, disk
<1>2. CloudOK'
  BY DEF CloudOK, At, Failed, InCloud, Offered, RelSteps, Settled, Somebody, Succeeded, Undoing,
       disk
<1>3. MemoryOK'
  BY DEF MemoryOK, Answer, At, Matches, Then
<1>4. AgentOK'
  BY DEF AgentOK, Answer, Armed, At, Back, DeadMan, InCloud, Settled, Somebody, Then, disk
<1> QED
  BY <1>1, <1>2, <1>3, <1>4

\* One pre-image written back, or one refused.
LEMMA RevertKeeps ==
  ASSUME Survivable, IInv, Revert
  PROVE  DataOK'
<1> USE DEF IInv, Ordered, DataOK
<1> PICK k \in Keys : Revert!2!(k)
  BY DEF Revert
<1>1. /\ epc = "revert" /\ k \in DOMAIN undo /\ k \in DOMAIN journal.pre /\ undo[k] = journal.pre[k]
      /\ UNCHANGED <<state, disk, journal, agent, pc, stdin, old, live>>
  BY DEF Revert, Last, MemoryOK
<1>2. ~Settled /\ state # "committed" /\ journal # Torn 
      /\ pc["fg"] = "none" /\ pc["bg"] = "none" /\ ~Somebody(Undoing)
  BY <1>1 DEF WhereOK, OrderOK, Settled, CloudOK
<1>3. cloud \in Docs /\ undo \in Patches
  BY DEF TypeOK, RouterTypeOK, DataTypeOK, EngineTypeOK
<1>4. CASE Answer("stranded") /\ UNCHANGED cloud
  <2>1. FilesOK' /\ CloudOK'
    BY <1>1, <1>2, <1>4 DEF FilesOK, CloudOK, Answer, Settled, At, Back, Somebody, Offered,
       InCloud, disk
  <2>2. MemoryOK' /\ AgentOK'
    BY <1>1, <1>2, <1>4 DEF MemoryOK, AgentOK, DeadMan, Armed, Answer, Settled, At, Back,
       Somebody, InCloud, disk
  <2> QED
    BY <2>1, <2>2
<1>5. CASE undo' = Without(undo, k) /\ cloud' = [cloud EXCEPT ![k] = undo[k]]
           /\ UNCHANGED <<epc, change, todo, cause, result, probed, faults>>
  <2>1. cloud' \in Docs /\ cloud'[k] = journal.pre[k] /\ \A j \in Keys \ {k} : cloud'[j] = cloud[j]
    BY <1>1, <1>3, <1>5, PatchFacts DEF Docs
  <2>2. InCloud = snap.hash => InCloud' = snap.hash
    <3> SUFFICES ASSUME InCloud = snap.hash, NEW j \in Delivered
                 PROVE  cloud'[j] = snap.hash[j]
      BY <2>1, CompileFacts, SameConfig DEF InCloud, TypeOK, RouterTypeOK, DataTypeOK
    <3>1. CASE j = k
      BY <1>1, <1>2, <2>1, <3>1 DEF CloudOK
    <3>2. CASE j # k
      BY <1>3, <2>1, <3>2, CompileFacts DEF InCloud
    <3> QED
      BY <3>1, <3>2
  <2>3. FilesOK'
    BY <1>1, <1>2, <1>5 DEF FilesOK, Settled, At, Back, Somebody, Offered, disk
  <2>4. CloudOK'
    <3>1. \A j \in Delivered : j \notin DOMAIN journal.pre => cloud'[j] = snap.hash[j]
      BY <1>1, <1>2, <2>1, RouterAssumption DEF CloudOK
    <3> QED
      BY <1>1, <1>2, <2>2, <3>1 DEF CloudOK, Settled, At, Somebody, disk
  <2>5. MemoryOK'
    <3>1. DOMAIN undo' = DOMAIN undo \ {k} /\ \A j \in DOMAIN undo' : undo'[j] = undo[j]
      BY <1>5 DEF Without
    <3>2. DOMAIN journal.pre \subseteq Keys
      BY <1>2, PatchFacts DEF TypeOK, RouterTypeOK, DataTypeOK, Changes
    <3>3. \A j \in DOMAIN journal.pre \ DOMAIN undo' : cloud'[j] = journal.pre[j]
      BY <1>1, <2>1, <3>1, <3>2 DEF MemoryOK
    <3> QED
      BY <1>1, <1>2, <1>5, <3>1, <3>3 DEF MemoryOK, At, Matches
  <2>6. AgentOK'
    BY <1>1, <1>2, <1>5 DEF AgentOK, DeadMan, Armed, Settled, At, Back, Somebody, disk
  <2> QED
    BY <2>3, <2>4, <2>5, <2>6
<1> QED
  BY <1>4, <1>5 DEF Survivable, Fault

LEMMA ReleaseKeeps ==
  ASSUME Survivable, IInv, Release
  PROVE  DataOK'
<1> USE DEF IInv, Ordered, DataOK, Release, Call
<1>1. FilesOK'
  BY DEF FilesOK, OrderOK, At, Back, Offered, Procs, Settled, Somebody, disk
<1>2. CloudOK'
  BY RevertedIsSnapshot DEF CloudOK, At, InCloud, Offered, Settled, Somebody, Undoing, disk
<1>3. MemoryOK'
  BY DEF MemoryOK, At, Matches, Then
<1>4. AgentOK'
  BY DEF AgentOK, Armed, At, Back, DeadMan, InCloud, Settled, Somebody, Then, disk
<1> QED
  BY <1>1, <1>2, <1>3, <1>4

LEMMA ReleasedKeeps ==
  ASSUME Survivable, IInv, Released
  PROVE  DataOK'
<1> USE DEF IInv, Ordered, DataOK, Released, Call, HangUp
<1>1. FilesOK'
  BY DEF FilesOK, Answer, At, Back, Failed, Offered, RollbackSteps, Settled, Somebody,
       Succeeded, Undoing, disk
<1>2. CloudOK'
  BY DEF CloudOK, At, Failed, InCloud, Offered, RelSteps, Settled, Somebody, Succeeded, Undoing,
       disk
<1>3. MemoryOK'
  BY DEF MemoryOK, Answer, At, Matches
<1>4. AgentOK'
  BY DEF AgentOK, Answer, Armed, At, Back, DeadMan, InCloud, Settled, Somebody, disk
<1> QED
  BY <1>1, <1>2, <1>3, <1>4

-----------------------------------------------------------------------------
\* The faults.

LEMMA CutKeeps ==
  ASSUME Survivable, IInv, Cut
  PROVE  DataOK'
<1> USE DEF IInv, Ordered, DataOK, Cut, Call, LoseSession, PcTypeOK, Procs, RouterTypeOK, TypeOK
<1>1. FilesOK'
  BY DEF FilesOK, At, Back, Offered, RollbackSteps, Settled, Somebody, Tail, Undoing, disk
<1>2. CloudOK'
  BY DEF CloudOK, At, Critical, Entry, InCloud, Offered, RelSteps, Scripts, Settled, Somebody,
       Tail, Undoing, disk
<1>3. MemoryOK'
  BY DEF MemoryOK, At, Matches, PrepSteps, engineVars
<1>4. AgentOK'
  BY DEF AgentOK, Armed, At, Back, DeadMan, InCloud, Settled, Somebody, disk, engineVars
<1> QED
  BY <1>1, <1>2, <1>3, <1>4

LEMMA CutStatusKeeps ==
  ASSUME Survivable, IInv, CutStatus
  PROVE  DataOK'
<1> USE DEF IInv, Ordered, DataOK, CutStatus, router
<1>1. FilesOK'
  BY DEF FilesOK, Answer, At, Back, Offered, Settled, Somebody, disk
<1>2. CloudOK'
  BY DEF CloudOK, At, InCloud, Offered, Settled, Somebody, disk
<1>3. MemoryOK'
  BY DEF MemoryOK, Answer, At, Matches
<1>4. AgentOK'
  BY DEF AgentOK, Answer, Armed, At, Back, DeadMan, InCloud, Settled, Somebody, disk
<1> QED
  BY <1>1, <1>2, <1>3, <1>4

LEMMA CrashKeeps ==
  ASSUME Survivable, IInv, Crash
  PROVE  DataOK'
<1> USE DEF IInv, Ordered, DataOK, Crash, Call, HangUp, LoseSession, PcTypeOK, Procs, RouterTypeOK,
     TypeOK
<1>1. FilesOK'
  BY DEF FilesOK, At, Back, Offered, RollbackSteps, Settled, Somebody, Tail, Undoing, disk
<1>2. CloudOK'
  BY DEF CloudOK, At, Critical, Entry, InCloud, Offered, RelSteps, Scripts, Settled, Somebody,
       Tail, Undoing, disk
<1>3. MemoryOK'
  BY DEF MemoryOK, Answer, At, Matches
<1>4. AgentOK'
  BY DEF AgentOK, Answer, Armed, At, Back, DeadMan, InCloud, Settled, Somebody, disk
<1> QED
  BY <1>1, <1>2, <1>3, <1>4

-----------------------------------------------------------------------------
\* The engine, its faults, and the invariant of every step.

LEMMA ApplyKeeps ==
  ASSUME Survivable, IInv, ApplyStep
  PROVE  DataOK'
BY WritableKeeps, RecoverKeeps, ReadyKeeps, PreparedKeeps, StageKeeps, CommitKeeps, CommittedKeeps,
   VerifyKeeps, ConfirmedKeeps, RestoreKeeps, RolledBackKeeps, RevertKeeps, ReleaseKeeps,
   ReleasedKeeps DEF ApplyStep

LEMMA FaultKeeps ==
  ASSUME Survivable, IInv, FaultStep
  PROVE  DataOK'
<1>1. ~Reboot /\ ~LocalEdit
  BY DEF Survivable, Reboot, LocalEdit, Fault
<1> QED
  BY <1>1, CutKeeps, CutStatusKeeps, CrashKeeps DEF FaultStep, Edited

LEMMA StutterKeeps ==
  ASSUME IInv, UNCHANGED vars
  PROVE  DataOK'
<1> USE DEF IInv, Ordered, DataOK, vars, routerVars, router, disk, engineVars
<1>1. FilesOK' /\ CloudOK'
  BY DEF FilesOK, CloudOK, Settled, At, Back, Somebody, Offered, InCloud
<1>2. MemoryOK' /\ AgentOK'
  BY DEF MemoryOK, AgentOK, Matches, DeadMan, Armed, Settled, At, Back, Somebody, InCloud
<1> QED
  BY <1>1, <1>2

LEMMA InitHolds ==
  ASSUME Init
  PROVE  IInv
<1>1. Ordered
  BY InitOrder
<1>2. FilesOK /\ CloudOK
  BY DEF Init, RouterInit, FilesOK, CloudOK, InCloud, Settled, At, Back, Somebody, Procs,
         RollbackSteps, PrepSteps, RelSteps, Undoing
<1>3. MemoryOK /\ AgentOK
  BY DEF Init, RouterInit, MemoryOK, AgentOK, DeadMan, Armed, Settled, At, Back, Somebody, Procs,
         PrepSteps
<1> QED
  BY <1>1, <1>2, <1>3 DEF IInv, DataOK

LEMMA NextKeeps ==
  ASSUME Survivable, IInv, [Next]_vars
  PROVE  IInv'
<1>1. Ordered'
  BY NextOrder DEF IInv, Survivable, Orderly
<1>2. DataOK'
  BY BeginKeeps, ApplyKeeps, RouterKeeps, FaultKeeps, StutterKeeps DEF Next
<1> QED
  BY <1>1, <1>2 DEF IInv

-----------------------------------------------------------------------------
\* Every state that the engine, the scripts, the timer and the agent reach together, with any
\* number of lost sessions, dead providers, refused writes and stubborn agents.
THEOREM Inductive ==
  ASSUME Survivable
  PROVE  Spec => []IInv
<1>1. Init => IInv
  BY InitHolds
<1>2. IInv /\ [Next]_vars => IInv'
  BY NextKeeps
<1> QED
  BY <1>1, <1>2, PTL DEF Spec

-----------------------------------------------------------------------------
(* What an apply undid itself ends with the agent running.                   *)

LEMMA ScriptResumed ==
  ASSUME Survivable, IInv, ResumedOK, NEW p \in Procs, ScriptStep(p), UNCHANGED engineVars
  PROVE  ResumedOK'
<1> USE DEF IInv, Ordered, ResumedOK, Undertaken
<1>1. ASSUME NEW l, Goto(p, l), pc[p] # "rb.config"
      PROVE  Somebody({"rb.config"}) => Somebody({"rb.config"})'
  BY <1>1 DEF Goto, Somebody, TypeOK, RouterTypeOK, PcTypeOK
<1>2. ASSUME NEW l, Goto(p, l), pc[p] \notin RelSteps \union {"fail"}
      PROVE  Back("release")' => Back("release")
  BY <1>2 DEF Goto, Back, Procs, OrderOK, TypeOK, RouterTypeOK, PcTypeOK, engineVars
<1>3. ASSUME NEW l, Goto(p, l), pc[p] \notin RelSteps \union {"fail", "rb.config"}, agent' \in {agent, "running"}
      PROVE  ResumedOK'
  BY <1>1, <1>2, <1>3 DEF engineVars
<1>4. CASE PrepCheck(p) \/ PrepConfig(p) \/ PrepHash(p) \/ PrepJournal(p) \/ PrepGate(p) \/ PrepWait(p)
  BY <1>3, <1>4 DEF PrepCheck, PrepConfig, PrepHash, PrepJournal, PrepGate, PrepWait, Exit, RelSteps
<1>5. CASE PrepStop(p)
  <2>1. ~Undertaken
    BY <1>5 DEF PrepStop, OrderOK, Procs, PrepSteps, ComSteps, ConfSteps, RelSteps, RollbackSteps,
       TypeOK, RouterTypeOK, PcTypeOK
  <2>2. ~Back("release")'
    BY <1>2, <1>5, <2>1 DEF PrepStop, RelSteps, Back, OrderOK, Procs, PrepSteps, RollbackSteps, TypeOK, RouterTypeOK,
       PcTypeOK
  <2> QED
    BY <2>1, <2>2 DEF engineVars
<1>6. CASE ComCheck(p) \/ ComMark(p) \/ ComArm(p) \/ ComStart(p) \/ ComWait(p)
  <2>1. CASE ComArm(p)
    <3>1. Back("release")' => Back("release")
      BY <2>1 DEF ComArm, Back, Procs, OrderOK, RelSteps, TypeOK, RouterTypeOK, PcTypeOK, engineVars
    <3>2. pc["timer"] # "rb.config"
      BY <2>1 DEF ComArm, OrderOK, Critical, RollbackSteps, Procs, TypeOK, RouterTypeOK, PcTypeOK
    <3>3. Somebody({"rb.config"}) => Somebody({"rb.config"})'
      BY <2>1, <3>2 DEF ComArm, Somebody, Procs, TypeOK, RouterTypeOK, PcTypeOK
    <3> QED
      BY <2>1, <3>1, <3>3 DEF ComArm, engineVars
  <2>2. CASE ComCheck(p) \/ ComMark(p) \/ ComStart(p) \/ ComWait(p)
    BY <1>3, <2>2 DEF ComCheck, ComMark, ComStart, ComWait, Exit, RelSteps
  <2> QED
    BY <1>6, <2>1, <2>2
<1>7. CASE ConfCheck(p) \/ ConfMark(p) \/ ConfWait(p)
  BY <1>3, <1>7 DEF ConfCheck, ConfMark, ConfWait, Exit, RelSteps
<1>8. CASE RbCheck(p) \/ RbMark(p) \/ RbHash(p) \/ RbApply(p)
  BY <1>3, <1>8 DEF RbCheck, RbMark, RbHash, RbApply, Exit, RelSteps
<1>9. CASE RbStop(p)
  <2>1. state = "rolled-back"
    BY <1>9 DEF RbStop, WhereOK, Undoing, Somebody
  <2>2. ~Back("release")'
    BY <1>2, <1>9, <2>1 DEF RbStop, WhereOK, RelSteps
  <2>3. Somebody({"rb.config"})'
    BY <1>9 DEF RbStop, Goto, Somebody, TypeOK, RouterTypeOK, PcTypeOK, Tail
  <2> QED
    BY <2>2, <2>3
<1>10. CASE RbConfig(p)
  BY <1>2, <1>10 DEF RbConfig, Survivable, RelSteps, engineVars
<1>11. CASE RelCheck(p) \/ RelStart(p)
  <2>1. ~Back("release")'
    BY <1>11 DEF RelCheck, RelStart, Exit, Goto, Back, Procs, OrderOK, RelSteps, RollbackSteps, TypeOK,
       RouterTypeOK, PcTypeOK, engineVars
  <2> QED
    BY <1>1, <1>11, <2>1 DEF RelCheck, RelStart, Exit, engineVars
<1>12. CASE RelWait(p)
  <2>1. ~Somebody({"rb.config"})
    BY <1>12 DEF RelWait, WhereOK, At, Somebody, RelSteps, Undoing, RollbackSteps, Procs, TypeOK, RouterTypeOK,
       PcTypeOK
  <2>2. Undertaken => agent # "stopping"
    BY <2>1
  <2>3. Back("release")' /\ ~Back("release") => agent # "stopped"
    BY <1>12 DEF RelWait, Exit, Goto, Back, Procs, TypeOK, RouterTypeOK, PcTypeOK, engineVars
  <2> QED
    BY <1>12, <2>2, <2>3 DEF RelWait, Back, TypeOK, RouterTypeOK, DataTypeOK, engineVars
<1> QED
  BY <1>4, <1>5, <1>6, <1>7, <1>8, <1>9, <1>10, <1>11, <1>12 DEF ScriptStep

LEMMA RouterResumed ==
  ASSUME Survivable, IInv, ResumedOK, RouterStep, UNCHANGED engineVars
  PROVE  ResumedOK'
<1> USE DEF ResumedOK, Undertaken, Somebody, Back
<1>1. CASE TimerStep
  BY <1>1 DEF TimerStep, TimerBoot, TimerStandDown, TimerExpire, TimerExit, Goto, Procs, IInv, Ordered,
     TypeOK, RouterTypeOK, PcTypeOK, engineVars
<1>2. CASE AgentExit \/ Push
  BY <1>2 DEF AgentExit, Push, engineVars
<1> QED
  BY <1>1, <1>2, ScriptResumed DEF RouterStep

LEMMA ApplyResumed ==
  ASSUME Survivable, IInv, ResumedOK, ApplyStep
  PROVE  ResumedOK'
<1> USE DEF ResumedOK, Undertaken, Somebody, Back, Answer, Then, WayBack
<1>1. CASE Writable \/ Recover
  BY <1>1 DEF Writable, Recover, routerVars, router
<1>2. CASE Ready
  BY <1>2 DEF Ready
<1>3. CASE Prepared
  BY <1>3 DEF Prepared, Succeeded, HangUp, Call, IInv, DataOK, AgentOK
<1>0. ASSUME NEW l, Call(l), pc["fg"] \in {"none", "ok", "fail"}
      PROVE  Somebody({"rb.config"}) => Somebody({"rb.config"})'
  BY <1>0 DEF Call, IInv, Ordered, TypeOK, RouterTypeOK, PcTypeOK, Procs
<1>4. CASE Committed \/ Confirmed \/ RolledBack \/ Released
  <2>1. pc["fg"] \in {"ok", "fail"} /\ Call("none")
    BY <1>4 DEF Committed, Confirmed, RolledBack, Released, HangUp, Succeeded, Failed
  <2>2. ~Back("release")'
    BY <2>1 DEF Call, IInv, Ordered, TypeOK, RouterTypeOK, PcTypeOK, Procs
  <2> QED
    BY <1>4, <1>0, <2>1, <2>2 DEF Committed, Confirmed, RolledBack, Released
<1>5. CASE Stage \/ Revert
  BY <1>5 DEF Stage, Revert
<1>6. CASE Commit \/ Verify \/ Restore \/ Release
  <2>1. pc["fg"] = "none"
    BY <1>6 DEF Commit, Verify, Restore, Release, IInv, Ordered, OrderOK
  <2>2. ~Back("release")'
    BY <1>6, <2>1 DEF Commit, Verify, Restore, Release, Call, IInv, Ordered, TypeOK, RouterTypeOK, PcTypeOK,
       Procs
  <2>3. Somebody({"rb.config"}) => Somebody({"rb.config"})'
    BY <1>6, <1>0, <2>1 DEF Commit, Verify, Restore, Release
  <2> QED
    BY <1>6, <2>2, <2>3 DEF Commit, Verify, Restore, Release
<1> QED
  BY <1>1, <1>2, <1>3, <1>4, <1>5, <1>6 DEF ApplyStep

LEMMA FaultResumed ==
  ASSUME Survivable, IInv, ResumedOK, FaultStep
  PROVE  ResumedOK'
<1> USE DEF ResumedOK, Undertaken, Somebody, Back
<1>1. CASE Cut
  <2>1. ~Back("release")'
    BY <1>1 DEF Cut, LoseSession, Call, IInv, Ordered, TypeOK, RouterTypeOK, PcTypeOK, Procs
  <2>2. Somebody({"rb.config"}) => Somebody({"rb.config"})'
    BY <1>1 DEF Cut, LoseSession, Call, IInv, Ordered, TypeOK, RouterTypeOK, PcTypeOK, Procs, RollbackSteps,
       Tail
  <2> QED
    BY <1>1, <2>1, <2>2 DEF Cut, engineVars
<1>2. CASE CutStatus
  BY <1>2 DEF CutStatus, Answer, router
<1>3. CASE Crash
  BY <1>3 DEF Crash, Answer
<1> QED
  BY <1>1, <1>2, <1>3 DEF FaultStep, Survivable, Reboot, Edited, LocalEdit, Fault

\* An agent that is still stopping when release.sh looks for it belongs to a transaction that
\* this apply found: one that it began itself and undid is given back to a running agent.
THEOREM AgentIsResumed ==
  ASSUME Survivable
  PROVE  Spec => []ResumedOK
<1>1. Init => ResumedOK
  BY DEF Init, RouterInit, ResumedOK, Undertaken, Back
<1>2. IInv /\ ResumedOK /\ [Next]_vars => ResumedOK'
  <2> SUFFICES ASSUME IInv, ResumedOK, [Next]_vars
               PROVE  ResumedOK'
    OBVIOUS
  <2>1. CASE \E desired \in Docs : Begin(desired)
    BY <2>1 DEF Begin, Answer, ResumedOK, Undertaken, Back
  <2>2. CASE UNCHANGED vars
    BY <2>2 DEF ResumedOK, Undertaken, Somebody, Back, vars, routerVars, router, engineVars
  <2> QED
    BY <2>1, <2>2, ApplyResumed, RouterResumed, FaultResumed DEF Next
<1> QED
  BY <1>1, <1>2, Inductive, PTL DEF Spec

-----------------------------------------------------------------------------
\* The router runs the snapshot or the whole change, never a mixture.
THEOREM RouterNeverMixes ==
  ASSUME Survivable
  PROVE  Spec => []NoPartialPush
<1>1. IInv => NoPartialPush
  BY DEF IInv, Ordered, DataOK, FilesOK, NoPartialPush
<1> QED
  BY <1>1, Inductive, PTL

\* An unconfirmed change that runs, or could be pushed, has a live timer behind it.
THEOREM TimerStandsBehind ==
  ASSUME Survivable
  PROVE  Spec => []DeadMan
<1>1. IInv => DeadMan
  BY DEF IInv, Ordered, DataOK, AgentOK
<1> QED
  BY <1>1, Inductive, PTL

\* The journal turns the cloud back into what the router was last sent, whatever was staged
\* and however much of it was already taken back.
THEOREM JournalAlwaysRepairs ==
  ASSUME Survivable
  PROVE  Spec => []JournalRepairs
<1>1. ASSUME IInv, ~Settled
      PROVE  journal # Torn /\ Compile(Overlay(cloud, journal.pre)) = snap.hash
  <2>1. /\ journal # Torn
        /\ \A k \in Delivered : IF k \in DOMAIN journal.pre THEN journal.pre[k] = snap.hash[k]
                                                             ELSE cloud[k] = snap.hash[k]
    BY <1>1 DEF IInv, Ordered, DataOK, CloudOK
  <2>2. snap.hash \in Configs /\ cloud \in Docs
    BY <1>1 DEF IInv, Ordered, TypeOK, RouterTypeOK, DataTypeOK
  <2>3. DOMAIN snap.hash = Delivered /\ DOMAIN cloud = Keys /\ Delivered \subseteq Keys
    BY <2>2, RouterAssumption DEF Configs, Docs
  <2>4. \A k \in Delivered : Overlay(cloud, journal.pre)[k] = snap.hash[k]
    BY <2>1, <2>3 DEF Overlay
  <2>5. Compile(Overlay(cloud, journal.pre)) = [k \in Delivered |-> snap.hash[k]]
    BY <2>4 DEF Compile
  <2> QED
    BY <2>1, <2>2, <2>5 DEF Configs
<1>2. IInv => JournalRepairs
  BY <1>1 DEF JournalRepairs
<1> QED
  BY <1>2, Inductive, PTL

\* On a settled router with nothing in flight files, running configuration and cloud agree; and
\* the agent runs, unless the gate was released.
THEOREM SettledIsClean ==
  ASSUME Survivable
  PROVE  Spec => []SettledAgrees
<1>1. IInv => SettledAgrees
  BY DEF IInv, Ordered, DataOK, FilesOK, CloudOK, AgentOK, SettledAgrees, Settled, Quiet, InSync,
         InCloud, RollbackSteps, Procs
<1> QED
  BY <1>1, Inductive, PTL

-----------------------------------------------------------------------------
\* release.sh gives the agent back only on the snapshot.
THEOREM ReleasesOnlyTheSnapshot ==
  ASSUME Survivable
  PROVE  Spec => ReleasedAfterRollback
<1>1. ASSUME IInv, Next, state' = "released", state # "released"
      PROVE  config = snap.config /\ InSync
  <2>1. PICK p \in Procs : RelWait(p)
    BY <1>1, StateWriters
  <2>2. At(RelSteps)
    BY <1>1, <2>1 DEF RelWait, RelSteps, At, Procs, IInv, Ordered, TypeOK, RouterTypeOK, PcTypeOK,
       RollbackSteps
  <2>3. state \in {"gated", "rolled-back"} /\ ~Somebody(Undoing)
    BY <1>1, <2>2 DEF IInv, Ordered, DataOK, WhereOK
  <2> QED
    BY <1>1, <2>3 DEF IInv, Ordered, DataOK, FilesOK, Settled, InSync
<1>2. IInv /\ [Next]_vars =>
        [state' = "released" /\ state # "released" => config = snap.config /\ InSync]_vars
  BY <1>1
<1> QED
  BY <1>2, Inductive, PTL DEF Spec, ReleasedAfterRollback

\* The report of an apply is true at the moment it is made.
Told ==
  epc' = "idle" /\ epc # "idle" =>
    /\ result' = "applied" => state = "confirmed" /\ live = Offered /\ ~Restoring
    /\ result' \in {"rolledback", "aborted"} => agent = "running"
    /\ result' \in {"rolledback", "aborted", "recovered"} =>
         /\ state = "released"
         /\ config = snap.config /\ hash = Compile(cloud)
         /\ live = config \/ pc["timer"] = "rb.apply"

THEOREM ReportsAreTrue ==
  ASSUME Survivable
  PROVE  Spec => VerdictHolds
<1>1. ASSUME IInv, Next, epc # "idle", epc' = "idle", result' = "applied"
      PROVE  Back("confirm")
  <2>1. ApplyStep
    BY <1>1 DEF Next, Begin, engineVars, FaultStep, Cut, CutStatus, Crash, Edited, Answer
  <2> QED
    BY <1>1, <2>1 DEF ApplyStep, Writable, Recover, Ready, Prepared, Stage, Commit, Committed,
       Verify,
       Confirmed, Restore, RolledBack, Revert, Release, Released, Answer, Then, WayBack, Succeeded,
       Failed, Back, IInv, Ordered, TypeOK, EngineTypeOK
<1>2. ASSUME IInv, Next, epc # "idle", epc' = "idle",
             result' \in {"rolledback", "aborted", "recovered"}
      PROVE  Back("release") /\ result' = cause
  <2>1. ApplyStep
    BY <1>2 DEF Next, Begin, engineVars, FaultStep, Cut, CutStatus, Crash, Edited, Answer
  <2> QED
    BY <1>2, <2>1 DEF ApplyStep, Writable, Recover, Ready, Prepared, Stage, Commit, Committed,
       Verify,
       Confirmed, Restore, RolledBack, Revert, Release, Released, Answer, Then, WayBack, Succeeded,
       Failed, Back, IInv, Ordered, TypeOK, EngineTypeOK
<1>3. ASSUME IInv, Back("confirm")
      PROVE  state = "confirmed" /\ live = Offered /\ ~Restoring
  <2>1. state = "confirmed" /\ live = Offered
    BY <1>3 DEF IInv, Ordered, DataOK, WhereOK, FilesOK, Back
  <2> QED
    BY <1>3, <2>1 DEF IInv, Ordered, DataOK, WhereOK, Restoring, Somebody, Undoing, RollbackSteps
<1>4. ASSUME IInv, ResumedOK, Back("release")
      PROVE  /\ state = "released" /\ (cause # "recovered" => agent = "running")
             /\ config = snap.config /\ hash = Compile(cloud)
             /\ live = config \/ pc["timer"] = "rb.apply"
  BY <1>4 DEF IInv, Ordered, DataOK, WhereOK, FilesOK, CloudOK, ResumedOK, InCloud, Settled
<1>5. IInv /\ ResumedOK /\ [Next]_vars => [Told]_vars
  BY <1>1, <1>2, <1>3, <1>4 DEF Told
<1> QED
  BY <1>5, Inductive, AgentIsResumed, PTL DEF Spec, VerdictHolds, Told

-----------------------------------------------------------------------------
(* The engine implements CommitConfirm: step by step, under the mapping of EngineRefinement. *)

\* A step that moves none of these is none of the abstract transaction's.
LEMMA Stutters ==
  ASSUME UNCHANGED <<state, snap, journal, live>>, Restoring' = Restoring
  PROVE  UNCHANGED Abstract!vars
BY DEF Abstract!vars, OnTrial, Offered

LEMMA OfferedType ==
  ASSUME TypeOK
  PROVE  Offered \in Configs
<1>1. snap.hash \in Configs /\ (journal # Torn => journal.writes \in Patches)
  BY DEF TypeOK, RouterTypeOK, DataTypeOK, Changes
<1>2. CASE journal = Torn
  BY <1>1, <1>2 DEF Offered
<1>3. CASE journal # Torn
  <2>1. DOMAIN snap.hash = Delivered /\ \A k \in Delivered : snap.hash[k] \in Vals
    BY <1>1 DEF Configs
  <2>2. \A k \in DOMAIN journal.writes : journal.writes[k] \in Vals
    BY <1>1, <1>3, PatchFacts
  <2> QED
    BY <1>3, <2>1, <2>2 DEF Offered, Overlay, Configs
<1> QED
  BY <1>2, <1>3

LEMMA InitImplements ==
  ASSUME Init
  PROVE  Abstract!Init
<1>1. ~OnTrial
  BY DEF Init, RouterInit, OnTrial, Restoring, Procs, RollbackSteps
<1>2. live \in Configs
  BY <1>1, InitTyping DEF TypeOK, RouterTypeOK, DataTypeOK
<1> QED
  BY <1>1, <1>2 DEF Abstract!Init

LEMMA ComMarkImplements ==
  ASSUME IInv, NEW p \in Procs, ComMark(p)
  PROVE  Abstract!Next
<1>1. p \in {"fg", "bg"} /\ At({"com.mark"})
  BY DEF IInv, Ordered, TypeOK, RouterTypeOK, PcTypeOK, ComMark, At, RollbackSteps, Procs
<1>2. state = "gated" /\ live = snap.config /\ ~Restoring
  BY <1>1 DEF IInv, Ordered, DataOK, WhereOK, FilesOK, At, Restoring, Somebody, Undoing, RollbackSteps, Settled
<1>3. ~OnTrial /\ OnTrial'
  BY <1>2 DEF ComMark, OnTrial
<1>4. Offered' = Offered /\ snap' = snap /\ live' = live
  BY DEF ComMark, Offered, disk
<1>5. Offered \in Configs
  BY OfferedType DEF IInv, Ordered
<1>6. Abstract!Open(Offered)
  BY <1>2, <1>3, <1>4 DEF Abstract!Open
<1> QED
  BY <1>5, <1>6 DEF Abstract!Next

\* confirm.sh accepts what runs; nobody is in the middle of a restore then.
LEMMA ConfMarkImplements ==
  ASSUME IInv, NEW p \in Procs, ConfMark(p)
  PROVE  Abstract!Next
<1>1. p \in {"fg", "bg"} /\ At({"conf.mark"})
  BY DEF IInv, Ordered, TypeOK, RouterTypeOK, PcTypeOK, ConfMark, At, RollbackSteps, Procs
<1>2. state = "committed"
  BY <1>1 DEF IInv, Ordered, DataOK, WhereOK, At
<1>8. ~Restoring
  BY <1>2 DEF IInv, Ordered, DataOK, WhereOK, Restoring, Somebody, Undoing, RollbackSteps
<1>3. state' = "confirmed" /\ live' = live
  BY DEF ConfMark
<1>4. ~Restoring'
  BY <1>8 DEF ConfMark, Goto, Restoring, RollbackSteps, IInv, Ordered, TypeOK, RouterTypeOK, PcTypeOK, Procs,
     Tail
<1>5. OnTrial /\ ~OnTrial'
  BY <1>2, <1>3, <1>4 DEF OnTrial
<1>6. Offered # NoOffer
  BY OfferedType, OfferAssumption DEF IInv, Ordered
<1>7. Abstract!Accept
  BY <1>3, <1>5, <1>6 DEF Abstract!Accept
<1> QED
  BY <1>7 DEF Abstract!Next

\* The restore is over when the router runs the snapshot again.
LEMMA RbApplyImplements ==
  ASSUME IInv, NEW p \in Procs, RbApply(p)
  PROVE  Abstract!Next
<1>1. pc[p] = "rb.apply" /\ Somebody({"rb.apply"}) /\ Restoring
  BY DEF RbApply, Somebody, Restoring, RollbackSteps
<1>2. state \in {"rolled-back", "released"} /\ config = snap.config
  BY <1>1 DEF IInv, Ordered, DataOK, WhereOK, FilesOK
<1>3. UNCHANGED <<state, snap>> /\ live' = snap.config
  BY <1>2 DEF RbApply, disk
<1>4. \A q \in Procs \ {p} : pc'[q] = pc[q]
  BY DEF RbApply, Exit, Goto, IInv, Ordered, TypeOK, RouterTypeOK, PcTypeOK
<1>5. pc'[p] \notin RollbackSteps
  BY DEF RbApply, Exit, Goto, RollbackAnswer, IInv, Ordered, TypeOK, RouterTypeOK, PcTypeOK, Procs, RollbackSteps
<1>6. \A q \in Procs \ {p} : pc[q] \notin RollbackSteps
  BY <1>1 DEF IInv, Ordered, DataOK, OrderOK, RollbackSteps
<1>7. ~Restoring'
  BY <1>4, <1>5, <1>6 DEF Restoring
<1>8. OnTrial /\ ~OnTrial'
  BY <1>1, <1>2, <1>3, <1>7 DEF OnTrial
<1>9. Offered # NoOffer
  BY OfferedType, OfferAssumption DEF IInv, Ordered
<1>10. Abstract!Undo
  BY <1>3, <1>8, <1>9 DEF Abstract!Undo
<1> QED
  BY <1>10 DEF Abstract!Next

\* A push brings the offer, and there is something to push only while it is on trial.
LEMMA PushImplements ==
  ASSUME IInv, Push
  PROVE  Abstract!Next
<1>1. hash # InCloud /\ agent # "stopped" /\ live' = InCloud /\ UNCHANGED <<state, snap, journal, pc>>
  BY DEF Push, InCloud
<1>2. CASE Settled
  BY <1>1, <1>2 DEF IInv, Ordered, DataOK, CloudOK
<1>3. CASE state = "gated"
  <2>1. ~Somebody(Undoing)
    BY <1>3 DEF IInv, Ordered, DataOK, WhereOK, Somebody, Undoing
  <2> QED
    BY <1>1, <1>3, <2>1 DEF IInv, Ordered, DataOK, CloudOK, FilesOK
<1>4. CASE state = "rolled-back" /\ ~Somebody(Undoing)
  BY <1>1, <1>4 DEF IInv, Ordered, DataOK, CloudOK, FilesOK
<1>5. CASE state = "committed" \/ (state = "rolled-back" /\ Somebody(Undoing))
  <2>1. InCloud = Offered
    BY <1>5 DEF IInv, Ordered, DataOK, CloudOK
  <2>2. state = "rolled-back" => \A q \in Procs : pc[q] # "rb.mark"
    BY DEF IInv, Ordered, DataOK, WhereOK, Somebody
  <2>3. OnTrial
    BY <1>5, <2>2 DEF OnTrial, Somebody, Undoing, Restoring, RollbackSteps
  <2>4. OnTrial' /\ Offered' = Offered
    BY <1>1, <2>3 DEF OnTrial, Restoring, Offered
  <2>5. Offered # NoOffer
    BY OfferedType, OfferAssumption DEF IInv, Ordered
  <2>6. Abstract!Try
    BY <1>1, <2>1, <2>3, <2>4, <2>5 DEF Abstract!Try
  <2> QED
    BY <2>6 DEF Abstract!Next
<1> QED
  BY <1>2, <1>3, <1>4, <1>5 DEF IInv, Ordered, TypeOK, RouterTypeOK, DataTypeOK, States, Settled

-----------------------------------------------------------------------------
\* The scripts' other steps.  prepare.sh rewrites the snapshot and the journal, but never
\* during a trial; the rest leaves both, and what runs, alone.
LEMMA PrepImplements ==
  ASSUME IInv, NEW p \in Procs, PrepConfig(p) \/ PrepHash(p) \/ PrepJournal(p) \/ PrepGate(p)
  PROVE  UNCHANGED Abstract!vars
<1>1. p \in {"fg", "bg"} /\ At({"prep.config", "prep.hash", "prep.journal", "prep.gate"})
  BY DEF IInv, Ordered, TypeOK, RouterTypeOK, PcTypeOK, PrepConfig, PrepHash, PrepJournal, PrepGate, At,
     RollbackSteps, Procs
<1>2. Settled /\ ~Somebody(RollbackSteps)
  BY <1>1 DEF IInv, Ordered, DataOK, WhereOK, At, PrepSteps
<1>3. live' = live /\ state' # "committed"
  BY <1>2 DEF PrepConfig, PrepHash, PrepJournal, PrepGate, Settled
<1>4. ~Restoring'
  BY <1>2 DEF PrepConfig, PrepHash, PrepJournal, PrepGate, Goto, Restoring, Somebody, RollbackSteps,
     IInv, Ordered, TypeOK, RouterTypeOK, PcTypeOK, Procs, Tail
<1>5. ~OnTrial
  BY <1>2 DEF OnTrial, Restoring, Somebody, Settled
<1> QED
  BY <1>3, <1>4, <1>5 DEF OnTrial, Abstract!vars

LEMMA ScriptImplements ==
  ASSUME IInv, NEW p \in Procs, ScriptStep(p)
  PROVE  [Abstract!Next]_(Abstract!vars)
<1> USE DEF Restoring, Goto, Exit, RollbackSteps, IInv, Ordered, TypeOK, RouterTypeOK, PcTypeOK, Procs, Tail
<1>1. CASE PrepCheck(p) \/ PrepStop(p) \/ PrepWait(p)
  BY <1>1, Stutters DEF PrepCheck, PrepStop, PrepWait, disk
<1>2. CASE PrepConfig(p) \/ PrepHash(p) \/ PrepJournal(p) \/ PrepGate(p)
  BY <1>2, PrepImplements
<1>3. CASE ComCheck(p) \/ ComWait(p)
  BY <1>3, Stutters DEF ComCheck, ComWait, disk
<1>13. CASE ComArm(p)
  <2>1. UNCHANGED <<state, snap, journal, live>>
    BY <1>13 DEF ComArm, disk
  <2>2. At({"com.arm"})
    BY <1>13 DEF ComArm, At
  <2>3. state = "committed"
    BY <2>2 DEF Ordered, WhereOK, At
  <2> QED
    BY <2>1, <2>3 DEF OnTrial, Offered, Abstract!vars
<1>14. CASE ComStart(p)
  BY <1>14, Stutters DEF ComStart, disk
<1>4. CASE ComMark(p)
  BY <1>4, ComMarkImplements
<1>5. CASE ConfCheck(p) \/ ConfWait(p)
  BY <1>5, Stutters DEF ConfCheck, ConfWait, disk
<1>6. CASE ConfMark(p)
  BY <1>6, ConfMarkImplements
<1>7. CASE RbCheck(p)
  BY <1>7, Stutters DEF RbCheck, RollbackAnswer, disk
<1>8. CASE RbMark(p)
  <2>1. state = "committed" /\ state' = "rolled-back" /\ UNCHANGED <<snap, journal, live>>
    BY <1>8 DEF RbMark, disk, Ordered, WhereOK, Somebody
  <2>2. Restoring'
    BY <1>8 DEF RbMark
  <2> QED
    BY <2>1, <2>2 DEF OnTrial, Offered, Abstract!vars
<1>9. CASE RbStop(p) \/ RbConfig(p) \/ RbHash(p)
  BY <1>9, Stutters DEF RbStop, RbConfig, RbHash, disk
<1>10. CASE RbApply(p)
  BY <1>10, RbApplyImplements
<1>11. CASE RelCheck(p) \/ RelStart(p)
  BY <1>11, Stutters DEF RelCheck, RelStart, disk
<1>12. CASE RelWait(p)
  <2>1. UNCHANGED <<snap, journal, live>> /\ Restoring' = Restoring
    BY <1>12 DEF RelWait, disk
  <2>2. At(RelSteps)
    BY <1>12 DEF RelWait, RelSteps, At
  <2>3. state # "committed" /\ state' # "committed"
    BY <1>12, <2>2 DEF RelWait, Ordered, WhereOK
  <2> QED
    BY <2>1, <2>3 DEF OnTrial, Offered, Abstract!vars
<1> QED
  BY <1>1, <1>2, <1>3, <1>4, <1>5, <1>6, <1>7, <1>8, <1>9, <1>10, <1>11, <1>12,
     <1>13, <1>14 DEF ScriptStep

LEMMA RouterImplements ==
  ASSUME IInv, RouterStep
  PROVE  [Abstract!Next]_(Abstract!vars)
<1>1. CASE \E p \in Procs : ScriptStep(p)
  BY <1>1, ScriptImplements
<1>2. CASE TimerStep
  BY <1>2, Stutters DEF TimerStep, TimerBoot, TimerStandDown, TimerExpire, TimerExit, Goto, Restoring,
     RollbackSteps, IInv, Ordered, TypeOK, RouterTypeOK, PcTypeOK, Procs, disk
<1>3. CASE AgentExit
  BY <1>3, Stutters DEF AgentExit, Restoring, disk
<1>4. CASE Push
  BY <1>4, PushImplements
<1> QED
  BY <1>1, <1>2, <1>3, <1>4 DEF RouterStep

\* The provider starts scripts and hears what became of them: it never touches the trial.
LEMMA CallKeepsRestoring ==
  ASSUME IInv, pc["fg"] \notin RollbackSteps, NEW l \in Entry \union {"none", "fail"}, Call(l)
  PROVE  Restoring' = Restoring
BY DEF Call, Restoring, Entry, RollbackSteps, IInv, Ordered, TypeOK, RouterTypeOK, PcTypeOK, Procs

LEMMA ApplyImplements ==
  ASSUME IInv, ApplyStep
  PROVE  UNCHANGED Abstract!vars
<1>1. UNCHANGED <<state, snap, journal, live>>
  BY DEF ApplyStep, Writable, Recover, Ready, Prepared, Stage, Commit, Committed, Verify, Confirmed,
     Restore, RolledBack, Revert, Release, Released, routerVars, router, disk
<1>2. Restoring' = Restoring
  <2>1. CASE pc' = pc
    BY <2>1 DEF Restoring
  <2>2. CASE Ready \/ Commit \/ Verify \/ Restore \/ Release
    <3>1. pc["fg"] = "none"
      BY <2>2 DEF IInv, Ordered, DataOK, OrderOK, Ready, Commit, Verify, Restore, Release
    <3>2. pc' = pc \/ \E l \in Entry : Call(l)
      BY <2>2 DEF Ready, Commit, Verify, Restore, Release, Entry
    <3> QED
      BY <3>1, <3>2, CallKeepsRestoring DEF Restoring, RollbackSteps
  <2>3. CASE Prepared \/ Committed \/ Confirmed \/ RolledBack \/ Released
    <3>1. pc["fg"] \in {"ok", "fail"} /\ Call("none")
      BY <2>3 DEF Prepared, Committed, Confirmed, RolledBack, Released, Succeeded, Failed, HangUp
    <3> QED
      BY <3>1, CallKeepsRestoring DEF RollbackSteps
  <2>4. CASE Writable \/ Recover \/ Stage \/ Revert
    BY <2>4, <2>1 DEF Writable, Recover, Stage, Revert, routerVars, router
  <2> QED
    BY <2>2, <2>3, <2>4 DEF ApplyStep
<1> QED
  BY <1>1, <1>2, Stutters

\* A script that is cut off or whose provider dies goes on where it was, or stops; the
\* restore always goes on.
LEMMA FaultImplements ==
  ASSUME Survivable, IInv, FaultStep
  PROVE  UNCHANGED Abstract!vars
<1>1. Cut \/ CutStatus \/ Crash
  BY DEF FaultStep, Edited, Survivable, Reboot, LocalEdit, Fault
<1>2. UNCHANGED <<state, snap, journal, live>>
  BY <1>1 DEF Cut, CutStatus, Crash, router, disk
<1>3. ASSUME NEW seen \in {"none", "fail"}, LoseSession(seen)
      PROVE  Restoring' = Restoring
  <2>1. CASE pc["fg"] \notin RollbackSteps /\ Call(seen)
    BY <2>1, CallKeepsRestoring
  <2>2. CASE pc["bg"] = "none" /\ pc' = [pc EXCEPT !["fg"] = seen, !["bg"] = IF pc["fg"] \in Tail THEN "none" ELSE pc["fg"]]
    BY <2>2 DEF Restoring, RollbackSteps, Tail, IInv, Ordered, TypeOK, RouterTypeOK, PcTypeOK, Procs
  <2> QED
    BY <1>3, <2>1, <2>2 DEF LoseSession
<1>4. CASE Cut
  BY <1>2, <1>3, <1>4, Stutters DEF Cut
<1>5. CASE CutStatus
  BY <1>2, <1>5, Stutters DEF CutStatus, router, Restoring
<1>6. CASE Crash
  <2>1. CASE pc["fg"] \in Scripts
    BY <1>2, <1>3, <1>6, <2>1, Stutters DEF Crash
  <2>2. CASE pc["fg"] \notin Scripts
    BY <1>2, <1>6, <2>2, CallKeepsRestoring, Stutters DEF Crash, HangUp, Scripts
  <2> QED
    BY <2>1, <2>2
<1> QED
  BY <1>1, <1>4, <1>5, <1>6

LEMMA NextImplements ==
  ASSUME Survivable, IInv, [Next]_vars
  PROVE  [Abstract!Next]_(Abstract!vars)
<1>1. CASE \E desired \in Docs : Begin(desired)
  BY <1>1, Stutters DEF Begin, routerVars, router, disk, Restoring
<1>2. CASE ApplyStep
  BY <1>2, ApplyImplements
<1>3. CASE RouterStep /\ UNCHANGED engineVars
  BY <1>3, RouterImplements
<1>4. CASE FaultStep
  BY <1>4, FaultImplements
<1>5. CASE UNCHANGED vars
  BY <1>5, Stutters DEF vars, routerVars, router, disk, Restoring
<1> QED
  BY <1>1, <1>2, <1>3, <1>4, <1>5 DEF Next

\* The gated transaction is a commit-confirmed change: whatever dies or is cut off, the router
\* leaves its good configuration only for the whole change, only inside a trial, and a trial
\* ends only by accepting what runs or by going back.
THEOREM EngineImplementsCommitConfirm ==
  ASSUME Survivable
  PROVE  Spec => Abstract!Safety
<1>1. Init => Abstract!Init
  BY InitImplements
<1>2. IInv /\ [Next]_vars => [Abstract!Next]_(Abstract!vars)
  BY NextImplements
<1> QED
  BY <1>1, <1>2, Inductive, PTL DEF Spec, Abstract!Safety
=============================================================================
