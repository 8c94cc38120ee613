------------------------------- MODULE Router -------------------------------
(***************************************************************************)
(* One router and the cloud in front of it: the gate scripts of            *)
(* internal/device/scripts, step by step, the detached rollback timer, the *)
(* cloud agent, and the configuration each of them leaves behind.          *)
(*                                                                         *)
(* A process is where a script runs.  "fg" is the script whose session the *)
(* provider is waiting on, "bg" one whose session was lost while it ran,   *)
(* "timer" the detached process commit.sh starts.  pc[p] is the step p is  *)
(* at; a label names the script and the statement, "com.arm" is commit.sh  *)
(* about to start the timer.                                               *)
(***************************************************************************)
EXTENDS Naturals

CONSTANTS
  Keys,       \* the objects a change can write, numbered in write order
  Vals,       \* what an object can hold
  Delivered,  \* the objects the cloud compiles into config.json
  Faults,     \* the kinds of fault that may happen
  MaxFaults,  \* how many of them
  Races,      \* the orderings that need unlucky timing and are allowed
  Torn        \* a journal that was cut short, which json.Unmarshal refuses

VARIABLES
  state,    \* $D/state, the gate's position
  config,   \* config.json
  hash,     \* hash.txt, the configuration the agent last received
  snap,     \* $D/snap: config.json and hash.txt as prepare.sh copied them
  journal,  \* $D/journal.json
  agent,    \* the cloud agent process
  pc,       \* where each script is
  stdin,    \* what the last prepare.sh was sent on its standard input
  old,      \* commit.sh's copy of hash.txt
  cloud,    \* the objects the cloud holds
  live,     \* the configuration the router is running
  faults    \* faults left

disk == <<config, hash, snap>>
router == <<state, disk, journal, agent, pc, stdin, old, cloud, live>>
routerVars == <<router, faults>>

-----------------------------------------------------------------------------
Docs == [Keys -> Vals]
Configs == [Delivered -> Vals]
Patches == UNION {[S -> Vals] : S \in SUBSET Keys}
None == [k \in {} |-> k]
Changes == [writes : Patches, pre : Patches]
NoChange == [writes |-> None, pre |-> None]

Overlay(doc, patch) == [k \in DOMAIN doc |-> IF k \in DOMAIN patch THEN patch[k] ELSE doc[k]]
Compile(doc) == [k \in Delivered |-> doc[k]]

ASSUME RouterAssumption ==
  /\ Keys \subseteq Nat
  /\ Delivered \subseteq Keys
  /\ MaxFaults \in Nat
  /\ Torn \notin Changes

States == {"clean", "gated", "committed", "confirmed", "rolled-back", "released"}
Settled == state \in {"clean", "confirmed", "released"}
InSync == config = hash

Procs == {"fg", "bg", "timer"}
Entry == {"prep.check", "com.check", "conf.check", "rb.check", "rel.check"}
Tail == {"prep.wait", "com.wait", "conf.wait"}
RollbackSteps == {"rb.mark", "rb.stop", "rb.config", "rb.hash", "rb.apply"}
Critical == {"prep.config", "prep.hash", "prep.journal", "prep.gate", "prep.stop",
             "com.mark", "com.arm", "com.start", "conf.mark", "rel.start", "rel.wait"}
            \union (RollbackSteps \ {"rb.apply"})
Scripts == Entry \union Critical \union Tail \union RollbackSteps

\* timer.pid names a live process.
TimerArmed == pc["timer"] \notin {"none", "t.boot"}

\* A script starts while another is between two of its writes only if that race is allowed.
Alone(p) == "overlap" \in Races \/ \A q \in Procs \ {p} : pc[q] \notin Critical

\* A script whose session is gone has nothing left to do once it only waits.
Goto(p, l) == pc' = [pc EXCEPT ![p] = IF p = "bg" /\ l \in Tail THEN "none" ELSE l]
Exit(p, answer) ==
  Goto(p, IF p = "fg" THEN answer ELSE IF p = "bg" THEN "none" ELSE "t.exit")

StopAgent == agent' = IF agent = "running" THEN "stopping" ELSE agent

Fault(f) == f \in Faults /\ faults > 0 /\ faults' = faults - 1

-----------------------------------------------------------------------------
\* prepare.sh: snapshot, journal, gate, pause the agent.
PrepCheck(p) ==
  /\ pc[p] = "prep.check" /\ Alone(p)
  /\ IF TimerArmed THEN Exit(p, "fail") ELSE Goto(p, "prep.config")
  /\ UNCHANGED <<state, disk, journal, agent, stdin, old, cloud, live, faults>>

PrepConfig(p) ==
  /\ pc[p] = "prep.config"
  /\ snap' = [snap EXCEPT !.config = config]
  /\ Goto(p, "prep.hash")
  /\ UNCHANGED <<state, config, hash, journal, agent, stdin, old, cloud, live, faults>>

PrepHash(p) ==
  /\ pc[p] = "prep.hash"
  /\ snap' = [snap EXCEPT !.hash = hash]
  /\ Goto(p, "prep.journal")
  /\ UNCHANGED <<state, config, hash, journal, agent, stdin, old, cloud, live, faults>>

\* Mutants of PrepJournal: the journal keeps its old content, or only the pre-images.
PrepJournalKept(p) ==
  /\ pc[p] = "prep.journal" /\ Goto(p, "prep.gate")
  /\ UNCHANGED <<state, disk, journal, agent, stdin, old, cloud, live, faults>>
PrepJournalBare(p) ==
  /\ pc[p] = "prep.journal" /\ Goto(p, "prep.gate")
  /\ journal' = [pre |-> stdin.pre]
  /\ UNCHANGED <<state, disk, agent, stdin, old, cloud, live, faults>>

\* cat reads to the end of standard input, and a lost session ends it early.
PrepJournal(p) ==
  /\ pc[p] = "prep.journal"
  /\ journal' \in {stdin} \union (IF p = "bg" /\ "torn" \in Races THEN {Torn} ELSE {})
  /\ Goto(p, "prep.gate")
  /\ UNCHANGED <<state, disk, agent, stdin, old, cloud, live, faults>>

PrepGate(p) ==
  /\ pc[p] = "prep.gate"
  /\ state' = "gated"
  /\ Goto(p, "prep.stop")
  /\ UNCHANGED <<disk, journal, agent, stdin, old, cloud, live, faults>>

PrepStop(p) ==
  /\ pc[p] = "prep.stop"
  /\ StopAgent
  /\ Goto(p, "prep.wait")
  /\ UNCHANGED <<state, disk, journal, stdin, old, cloud, live, faults>>

\* Mutant of PrepWait: the agent is told to stop, and taken to have stopped.
PrepWaitSkipped(p) ==
  /\ pc[p] = "prep.wait" /\ Exit(p, "ok")
  /\ UNCHANGED <<state, disk, journal, agent, stdin, old, cloud, live, faults>>

PrepWait(p) ==
  /\ pc[p] = "prep.wait"
  /\ \/ agent = "stopped" /\ Exit(p, "ok") /\ UNCHANGED faults
     \/ agent = "running" /\ Exit(p, "fail") /\ UNCHANGED faults
     \/ agent = "stopping" /\ Fault("agent") /\ Exit(p, "fail")
  /\ UNCHANGED <<state, disk, journal, agent, stdin, old, cloud, live>>

-----------------------------------------------------------------------------
\* commit.sh: arm the timer, resume the agent, wait for the push.
ComCheck(p) ==
  /\ pc[p] = "com.check" /\ Alone(p)
  /\ IF state = "gated" THEN old' = hash /\ Goto(p, "com.mark")
                        ELSE Exit(p, "fail") /\ UNCHANGED old
  /\ UNCHANGED <<state, disk, journal, agent, stdin, cloud, live, faults>>

ComMark(p) ==
  /\ pc[p] = "com.mark"
  /\ state' = "committed"
  /\ Goto(p, "com.arm")
  /\ UNCHANGED <<disk, journal, agent, stdin, old, cloud, live, faults>>

\* Mutant of ComArm: the timer is never started.
ComArmForgotten(p) ==
  /\ pc[p] = "com.arm" /\ Goto(p, "com.start")
  /\ UNCHANGED <<state, disk, journal, agent, stdin, old, cloud, live, faults>>

ComArm(p) ==
  /\ pc[p] = "com.arm"
  /\ pc' = [pc EXCEPT ![p] = "com.start", !["timer"] = "t.boot"]
  /\ UNCHANGED <<state, disk, journal, agent, stdin, old, cloud, live, faults>>

ComStart(p) ==
  /\ pc[p] = "com.start"
  /\ \/ agent' = "running" /\ Goto(p, "com.wait") /\ UNCHANGED faults
     \/ Fault("agent") /\ Exit(p, "fail") /\ UNCHANGED agent
  /\ UNCHANGED <<state, disk, journal, stdin, old, cloud, live>>

\* Mutant of ComWait: no limit on the wait for the push.
ComWaitForever(p) ==
  /\ pc[p] = "com.wait" /\ hash # old /\ Exit(p, "ok")
  /\ UNCHANGED <<state, disk, journal, agent, stdin, old, cloud, live, faults>>

\* Giving up on the push is for a cloud with nothing to send, unless a push may be late.
ComWait(p) ==
  /\ pc[p] = "com.wait"
  /\ \/ hash # old
     \/ hash = Compile(cloud) \/ agent # "running" \/ "slowPush" \in Races
  /\ Exit(p, "ok")
  /\ UNCHANGED <<state, disk, journal, agent, stdin, old, cloud, live, faults>>

-----------------------------------------------------------------------------
\* confirm.sh: disarm the timer and wait for it to stand down.
ConfCheck(p) ==
  /\ pc[p] = "conf.check" /\ Alone(p)
  /\ IF state = "committed" THEN Goto(p, "conf.mark") ELSE Exit(p, "fail")
  /\ UNCHANGED <<state, disk, journal, agent, stdin, old, cloud, live, faults>>

ConfMark(p) ==
  /\ pc[p] = "conf.mark"
  /\ state' = "confirmed"
  /\ Goto(p, "conf.wait")
  /\ UNCHANGED <<disk, journal, agent, stdin, old, cloud, live, faults>>

\* Ten seconds outlast the timer's loop, but not a restore it has begun.
ConfWait(p) ==
  /\ pc[p] = "conf.wait"
  /\ \/ ~TimerArmed /\ Exit(p, "ok")
     \/ pc["timer"] \in RollbackSteps /\ Exit(p, "fail")
  /\ UNCHANGED <<state, disk, journal, agent, stdin, old, cloud, live, faults>>

-----------------------------------------------------------------------------
\* rollback.sh, run by the timer and, through rollback-now.sh, by the provider.
\* rollback-now.sh then wants to read rolled-back.
RollbackAnswer == IF state = "rolled-back" THEN "ok" ELSE "fail"

RbCheck(p) ==
  /\ pc[p] = "rb.check" /\ Alone(p)
  /\ IF state = "committed" THEN Goto(p, "rb.mark") ELSE Exit(p, RollbackAnswer)
  /\ UNCHANGED <<state, disk, journal, agent, stdin, old, cloud, live, faults>>

RbMark(p) ==
  /\ pc[p] = "rb.mark"
  /\ state' = "rolled-back"
  /\ Goto(p, "rb.stop")
  /\ UNCHANGED <<disk, journal, agent, stdin, old, cloud, live, faults>>

RbStop(p) ==
  /\ pc[p] = "rb.stop"
  /\ StopAgent
  /\ Goto(p, "rb.config")
  /\ UNCHANGED <<state, disk, journal, stdin, old, cloud, live, faults>>

\* Nothing here waits for the agent to be gone.
RbConfig(p) ==
  /\ pc[p] = "rb.config"
  /\ agent = "stopping" => "slowStop" \in Races
  /\ config' = snap.config
  /\ Goto(p, "rb.hash")
  /\ UNCHANGED <<state, hash, snap, journal, agent, stdin, old, cloud, live, faults>>

RbHash(p) ==
  /\ pc[p] = "rb.hash"
  /\ hash' = snap.hash
  /\ Goto(p, "rb.apply")
  /\ UNCHANGED <<state, config, snap, journal, agent, stdin, old, cloud, live, faults>>

\* Mutant of RbApply: the files are put back but the router is not told.
RbApplySkipped(p) ==
  /\ pc[p] = "rb.apply" /\ Exit(p, RollbackAnswer)
  /\ UNCHANGED <<state, disk, journal, agent, stdin, old, cloud, live, faults>>

RbApply(p) ==
  /\ pc[p] = "rb.apply"
  /\ live' = config
  /\ Exit(p, RollbackAnswer)
  /\ UNCHANGED <<state, disk, journal, agent, stdin, old, cloud, faults>>

-----------------------------------------------------------------------------
\* release.sh: resume the agent of a transaction that was aborted or repaired.
RelCheck(p) ==
  /\ pc[p] = "rel.check" /\ Alone(p)
  /\ IF state = "committed" THEN Exit(p, "fail") ELSE Goto(p, "rel.start")
  /\ UNCHANGED <<state, disk, journal, agent, stdin, old, cloud, live, faults>>

RelStart(p) ==
  /\ pc[p] = "rel.start"
  /\ \/ agent' = "running" /\ UNCHANGED faults
     \/ Fault("agent") /\ UNCHANGED agent
  /\ Goto(p, "rel.wait")
  /\ UNCHANGED <<state, disk, journal, stdin, old, cloud, live>>

\* Mutant of RelWait: no limit on the wait for the agent.
RelWaitForever(p) ==
  /\ pc[p] = "rel.wait" /\ agent # "stopped"
  /\ state' = "released" /\ Exit(p, "ok")
  /\ UNCHANGED <<disk, journal, agent, stdin, old, cloud, live, faults>>

\* pidof sees an agent that was told to stop and has not gone yet, too.
RelWait(p) ==
  /\ pc[p] = "rel.wait"
  /\ IF agent # "stopped" THEN state' = "released" /\ Exit(p, "ok")
                          ELSE Exit(p, "fail") /\ UNCHANGED state
  /\ UNCHANGED <<disk, journal, agent, stdin, old, cloud, live, faults>>

-----------------------------------------------------------------------------
\* The detached timer: writes its pid, polls the state, rolls back when the window ends.
TimerBoot ==
  /\ pc["timer"] = "t.boot" /\ Goto("timer", "t.loop")
  /\ UNCHANGED <<state, disk, journal, agent, stdin, old, cloud, live, faults>>

TimerStandDown ==
  /\ pc["timer"] = "t.loop" /\ state # "committed"
  /\ Goto("timer", "t.exit")
  /\ UNCHANGED <<state, disk, journal, agent, stdin, old, cloud, live, faults>>

TimerExpire ==
  /\ pc["timer"] = "t.loop"
  /\ Goto("timer", "rb.check")
  /\ UNCHANGED <<state, disk, journal, agent, stdin, old, cloud, live, faults>>

TimerExit ==
  /\ pc["timer"] = "t.exit" /\ Goto("timer", "none")
  /\ UNCHANGED <<state, disk, journal, agent, stdin, old, cloud, live, faults>>

-----------------------------------------------------------------------------
\* The cloud agent.  A push is skipped when hash.txt already names it.
AgentExit ==
  /\ agent = "stopping" /\ agent' = "stopped"
  /\ UNCHANGED <<state, disk, journal, pc, stdin, old, cloud, live, faults>>

Push ==
  /\ agent # "stopped"
  /\ hash # Compile(cloud)
  /\ config' = Compile(cloud) /\ hash' = Compile(cloud) /\ live' = Compile(cloud)
  /\ UNCHANGED <<state, snap, journal, agent, pc, stdin, old, cloud, faults>>

\* Power is lost: every script dies, and boot starts the agent on config.json.
Reboot ==
  /\ Fault("reboot")
  /\ agent' = "running" /\ live' = config
  /\ pc' = [pc EXCEPT !["fg"] = IF @ \in Scripts THEN "fail" ELSE @,
                      !["bg"] = "none", !["timer"] = "none"]
  /\ UNCHANGED <<state, disk, journal, stdin, old, cloud>>

\* Somebody changes the configuration on the router itself.
LocalEdit ==
  /\ Fault("edit")
  /\ config' \in Configs \ {config} /\ live' = config'
  /\ UNCHANGED <<state, hash, snap, journal, agent, pc, stdin, old, cloud>>

ScriptStep(p) ==
  \/ PrepCheck(p) \/ PrepConfig(p) \/ PrepHash(p) \/ PrepJournal(p)
  \/ PrepGate(p) \/ PrepStop(p) \/ PrepWait(p)
  \/ ComCheck(p) \/ ComMark(p) \/ ComArm(p) \/ ComStart(p) \/ ComWait(p)
  \/ ConfCheck(p) \/ ConfMark(p) \/ ConfWait(p)
  \/ RbCheck(p) \/ RbMark(p) \/ RbStop(p) \/ RbConfig(p) \/ RbHash(p) \/ RbApply(p)
  \/ RelCheck(p) \/ RelStart(p) \/ RelWait(p)

TimerStep == TimerBoot \/ TimerStandDown \/ TimerExpire \/ TimerExit

RouterStep == (\E p \in Procs : ScriptStep(p)) \/ TimerStep \/ AgentExit \/ Push

RouterInit ==
  /\ state = "clean"
  /\ cloud \in Docs
  /\ config = Compile(cloud) /\ hash = config /\ live = config
  /\ snap = [config |-> config, hash |-> config]
  /\ journal = NoChange /\ stdin = NoChange
  /\ agent = "running"
  /\ pc = [p \in Procs |-> "none"]
  /\ old = hash
  /\ faults = MaxFaults

\* Only the provider's own script waits, and only it answers.
PcTypeOK ==
  /\ pc \in [Procs -> Scripts \union {"none", "ok", "fail", "t.boot", "t.loop", "t.exit"}]
  /\ pc["fg"] \in Scripts \union {"none", "ok", "fail"}
  /\ pc["bg"] \in (Scripts \ Tail) \union {"none"}
  /\ pc["timer"] \in RollbackSteps \union {"none", "rb.check", "t.boot", "t.loop", "t.exit"}

DataTypeOK ==
  /\ state \in States
  /\ cloud \in Docs
  /\ {config, hash, live, old} \subseteq Configs
  /\ snap \in [config : Configs, hash : Configs]
  /\ journal \in Changes \union {Torn} /\ stdin \in Changes
  /\ agent \in {"running", "stopping", "stopped"}
  /\ faults \in 0..MaxFaults

RouterTypeOK == DataTypeOK /\ PcTypeOK
=============================================================================
