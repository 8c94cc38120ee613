------------------------------- MODULE Engine -------------------------------
(***************************************************************************)
(* internal/txn and the apply of a resource around it: plan against the    *)
(* cloud, refuse local edits, recover what an earlier run left, then one   *)
(* gated transaction - prepare, stage, commit, verify, confirm, or the     *)
(* way back.  One provider at a time; a crashed one is followed by another *)
(* that knows nothing but what the router and the cloud hold.              *)
(***************************************************************************)
EXTENDS Router

VARIABLES
  epc,     \* where the apply is
  change,  \* the planned change
  todo,    \* writes not yet staged
  undo,    \* pre-images not yet written back
  cause,   \* what the way back will report
  result,  \* what the last apply reported
  probed   \* history: the configuration the verification probes ran on

engineVars == <<epc, change, todo, undo, cause, result, probed>>
vars == <<routerVars, engineVars>>

Steps == {"idle", "writable", "recover", "ready", "prepare", "stage", "commit", "verify",
          "confirm", "restore", "rollback", "revert", "release"}
Results == {"none", "unchanged", "refused", "failed", "applied", "aborted", "rolledback",
            "recovered", "stranded", "crashed"}

\* A script the provider lost track of runs to its end before the provider's next call,
\* and no call lands between two writes of the timer's rollback, unless that race is allowed.
Calm ==
  \/ "overlap" \in Races
  \/ pc["bg"] = "none" /\ pc["timer"] \notin Critical

Answer(r) ==
  /\ epc' = "idle" /\ result' = r
  /\ change' = NoChange /\ todo' = None /\ undo' = None /\ cause' = "none"
  /\ UNCHANGED probed
WayBack(step, pre, why) ==
  /\ epc' = step /\ undo' = pre /\ cause' = why /\ todo' = None
  /\ UNCHANGED <<change, result, probed>>
Then(step) == epc' = step /\ UNCHANGED <<change, todo, undo, cause, result, probed>>

Call(script) == pc' = [pc EXCEPT !["fg"] = script]
HangUp == Call("none")
Succeeded == pc["fg"] = "ok"
Failed == pc["fg"] = "fail"

Only(patch, S) == [k \in DOMAIN patch \intersect S |-> patch[k]]
Without(patch, k) == [j \in DOMAIN patch \ {k} |-> patch[j]]
First(patch, k) == k \in DOMAIN patch /\ \A j \in DOMAIN patch : k <= j
Last(patch, k) == k \in DOMAIN patch /\ \A j \in DOMAIN patch : j <= k

PlanOf(doc, desired) ==
  LET changed == {k \in Keys : desired[k] # doc[k]}
  IN [writes |-> [k \in changed |-> desired[k]], pre |-> [k \in changed |-> doc[k]]]

-----------------------------------------------------------------------------
\* Read the cloud, plan, and stop if it already holds what is wanted.
Begin(desired) ==
  /\ epc = "idle"
  /\ IF desired = cloud THEN Answer("unchanged")
     ELSE /\ epc' = "writable" /\ result' = "none"
          /\ change' = PlanOf(cloud, desired)
          /\ UNCHANGED <<todo, undo, cause, probed>>
  /\ UNCHANGED routerVars

Recoverable == ~Settled \/ TimerArmed
\* Mutant of Startable: nobody asks whether the router carries local edits.
StartableBlind == ~Recoverable /\ agent # "stopped"

Startable == ~Recoverable /\ InSync /\ agent # "stopped"

\* Only local edits, or a router that does not answer, refuse here.
Writable ==
  /\ epc = "writable" /\ Calm
  /\ IF ~Recoverable /\ ~InSync THEN Answer("refused") ELSE Then("recover")
  /\ UNCHANGED routerVars

Recover ==
  /\ epc = "recover" /\ Calm
  /\ \/ ~Recoverable /\ Then("ready")
     \/ Recoverable /\ journal = Torn /\ Answer("failed")
     \/ Recoverable /\ journal # Torn /\ WayBack("restore", journal.pre, "recovered")
  /\ UNCHANGED routerVars

\* Ready and the baseline probes, then prepare.sh with the journal on its input.
Ready ==
  /\ epc = "ready" /\ Calm
  /\ pc["bg"] \notin {"prep.check", "prep.config", "prep.hash", "prep.journal"}
  /\ IF Startable THEN /\ Then("prepare") /\ Call("prep.check") /\ stdin' = change
                  ELSE Answer("refused") /\ UNCHANGED <<pc, stdin>>
  /\ UNCHANGED <<state, disk, journal, agent, old, cloud, live, faults>>

Prepared ==
  /\ epc = "prepare"
  /\ \/ /\ Succeeded
        /\ epc' = "stage" /\ todo' = change.writes
        /\ UNCHANGED <<change, undo, cause, result, probed>>
     \/ Failed /\ Answer("failed")
  /\ HangUp
  /\ UNCHANGED <<state, disk, journal, agent, stdin, old, cloud, live, faults>>

\* The pre-images of the writes that went through: the one that failed is not among them.
\* Mutant: an off-by-one that also leaves out the write before it.
StagedButLast ==
  LET done == DOMAIN change.pre \ DOMAIN todo
  IN Only(change.pre, {k \in done : \E j \in done : k < j})
Staged == Only(change.pre, DOMAIN change.pre \ DOMAIN todo)

\* One cloud write.
Stage ==
  /\ epc = "stage"
  /\ \E k \in Keys :
       /\ First(todo, k)
       /\ \/ /\ todo' = Without(todo, k)
             /\ cloud' = [cloud EXCEPT ![k] = todo[k]]
             /\ UNCHANGED <<epc, change, undo, cause, result, probed, faults>>
          \/ /\ WayBack("revert", Staged, "aborted")
             /\ \/ Fault("reject") /\ UNCHANGED cloud
                \/ Fault("lateReply") /\ cloud' = [cloud EXCEPT ![k] = todo[k]]
  /\ UNCHANGED <<state, disk, journal, agent, pc, stdin, old, live>>

Commit ==
  /\ epc = "stage" /\ todo = None /\ Calm
  /\ Then("commit") /\ Call("com.check")
  /\ UNCHANGED <<state, disk, journal, agent, stdin, old, cloud, live, faults>>

\* Mutant of Committed: confirmed as soon as it is pushed.
CommittedUnverified ==
  /\ epc = "commit"
  /\ \/ Succeeded /\ Then("confirm") /\ Call("conf.check")
     \/ Failed /\ WayBack("restore", change.pre, "rolledback") /\ HangUp
  /\ UNCHANGED <<state, disk, journal, agent, stdin, old, cloud, live, faults>>

Committed ==
  /\ epc = "commit"
  /\ \/ Succeeded /\ Then("verify")
     \/ Failed /\ WayBack("restore", change.pre, "rolledback")
  /\ HangUp
  /\ UNCHANGED <<state, disk, journal, agent, stdin, old, cloud, live, faults>>

\* Settle and probe again: no regression, or any reason not to go on.
Verify ==
  /\ epc = "verify" /\ Calm
  /\ \/ /\ epc' = "confirm" /\ probed' = live
        /\ UNCHANGED <<change, todo, undo, cause, result>>
        /\ Call("conf.check")
     \/ WayBack("restore", change.pre, "rolledback") /\ UNCHANGED pc
  /\ UNCHANGED <<state, disk, journal, agent, stdin, old, cloud, live, faults>>

\* Mutant of Confirmed: the error of confirm.sh is dropped.
ConfirmedAnyway ==
  /\ epc = "confirm" /\ (Succeeded \/ Failed) /\ Answer("applied") /\ HangUp
  /\ UNCHANGED <<state, disk, journal, agent, stdin, old, cloud, live, faults>>

Confirmed ==
  /\ epc = "confirm"
  /\ \/ Succeeded /\ Answer("applied")
     \/ Failed /\ WayBack("restore", change.pre, "rolledback")
  /\ HangUp
  /\ UNCHANGED <<state, disk, journal, agent, stdin, old, cloud, live, faults>>

-----------------------------------------------------------------------------
\* Mutants of Restore: a settled gate is repaired too, or a rolled-back one is not.
RestoreSettled ==
  /\ epc = "restore" /\ Calm
  /\ \/ state = "committed" /\ Then("rollback") /\ Call("rb.check")
     \/ state # "committed" /\ Then("revert") /\ UNCHANGED pc
  /\ UNCHANGED <<state, disk, journal, agent, stdin, old, cloud, live, faults>>
RestoreGatedOnly ==
  /\ epc = "restore" /\ Calm
  /\ \/ state = "committed" /\ Then("rollback") /\ Call("rb.check")
     \/ state = "gated" /\ Then("revert") /\ UNCHANGED pc
     \/ state \notin {"committed", "gated"} /\ Answer("stranded") /\ UNCHANGED pc
  /\ UNCHANGED <<state, disk, journal, agent, stdin, old, cloud, live, faults>>

\* restoreRouter, then repair: revert the cloud and release the router.
Restore ==
  /\ epc = "restore" /\ Calm
  /\ \/ state = "committed" /\ Then("rollback") /\ Call("rb.check")
     \/ state \in {"gated", "rolled-back"} /\ Then("revert") /\ UNCHANGED pc
     \/ Settled /\ Answer("stranded") /\ UNCHANGED pc
  /\ UNCHANGED <<state, disk, journal, agent, stdin, old, cloud, live, faults>>

RolledBack ==
  /\ epc = "rollback"
  /\ \/ Succeeded /\ Then("revert")
     \/ Failed /\ Answer("stranded")
  /\ HangUp
  /\ UNCHANGED <<state, disk, journal, agent, stdin, old, cloud, live, faults>>

Revert ==
  /\ epc = "revert"
  /\ \E k \in Keys :
       /\ Last(undo, k)
       /\ \/ /\ undo' = Without(undo, k)
             /\ cloud' = [cloud EXCEPT ![k] = undo[k]]
             /\ UNCHANGED <<epc, change, todo, cause, result, probed, faults>>
          \/ /\ Answer("stranded")
             /\ \/ Fault("reject") /\ UNCHANGED cloud
                \/ Fault("lateReply") /\ cloud' = [cloud EXCEPT ![k] = undo[k]]
  /\ UNCHANGED <<state, disk, journal, agent, pc, stdin, old, live>>

Release ==
  /\ epc = "revert" /\ undo = None /\ Calm
  /\ Then("release") /\ Call("rel.check")
  /\ UNCHANGED <<state, disk, journal, agent, stdin, old, cloud, live, faults>>

Released ==
  /\ epc = "release"
  /\ \/ Succeeded /\ Answer(cause)
     \/ Failed /\ Answer("stranded")
  /\ HangUp
  /\ UNCHANGED <<state, disk, journal, agent, stdin, old, cloud, live, faults>>

-----------------------------------------------------------------------------
\* The session ends without an answer.  The script may outlive it, or be killed where it
\* stands; rollback.sh is a child of rollback-now.sh and is never the one killed.
LoseSession(seen) ==
  \/ pc["fg"] \notin RollbackSteps /\ Call(seen)
  \/ pc["bg"] = "none" /\ pc' = [pc EXCEPT !["fg"] = seen, !["bg"] = IF pc["fg"] \in Tail THEN "none" ELSE pc["fg"]]

Cut ==
  /\ pc["fg"] \in Scripts /\ Fault("cut")
  /\ LoseSession("fail")
  /\ UNCHANGED <<state, disk, journal, agent, stdin, old, cloud, live, engineVars>>

\* A status or probe call that brings no answer.
CutStatus ==
  /\ epc \in {"writable", "recover", "ready", "restore"} /\ Fault("cut")
  /\ Answer(IF epc = "restore" THEN "stranded" ELSE "refused")
  /\ UNCHANGED router

\* The provider process ends.
Crash ==
  /\ epc # "idle" /\ Fault("crash")
  /\ Answer("crashed")
  /\ IF pc["fg"] \in Scripts THEN LoseSession("none") ELSE HangUp
  /\ UNCHANGED <<state, disk, journal, agent, stdin, old, cloud, live>>

-----------------------------------------------------------------------------
ApplyStep ==
  \/ Writable \/ Recover \/ Ready \/ Prepared \/ Stage \/ Commit \/ Committed \/ Verify
  \/ Confirmed \/ Restore \/ RolledBack \/ Revert \/ Release \/ Released

\* An edit that comes when the engine has already looked for edits takes unlucky timing.
Edited ==
  /\ (~Recoverable /\ epc \in {"idle", "writable", "recover", "ready"}) \/ "lateEdit" \in Races
  /\ LocalEdit /\ UNCHANGED engineVars

FaultStep == Cut \/ CutStatus \/ Crash \/ (Reboot /\ UNCHANGED engineVars) \/ Edited

Init ==
  /\ RouterInit
  /\ epc = "idle" /\ cause = "none" /\ result = "none"
  /\ change = NoChange /\ todo = None /\ undo = None
  /\ probed = live

Next ==
  \/ \E desired \in Docs : Begin(desired)
  \/ ApplyStep
  \/ RouterStep /\ UNCHANGED engineVars
  \/ FaultStep

Spec == Init /\ [][Next]_vars

EngineTypeOK ==
  /\ epc \in Steps /\ result \in Results
  /\ cause \in {"none", "aborted", "rolledback", "recovered"}
  /\ change \in Changes /\ {todo, undo} \subseteq Patches
  /\ probed \in Configs
TypeOK == RouterTypeOK /\ EngineTypeOK
=============================================================================
