-------------------------- MODULE EngineProperties --------------------------
(***************************************************************************)
(* What the gated transaction promises, stated over Engine.                *)
(***************************************************************************)
EXTENDS Engine

\* The one configuration the journalled change compiles to.
Offered == IF journal = Torn THEN snap.hash ELSE Overlay(snap.hash, journal.writes)

\* rollback.sh has marked the state and the router is not back on the snapshot yet.
Restoring == \E p \in Procs : pc[p] \in RollbackSteps \ {"rb.mark"}

Quiet == epc = "idle" /\ \A p \in Procs : pc[p] \in {"none", "t.boot"}

\* The router never runs a mixture: at every moment it runs the snapshot or the whole
\* change, never some writes without the others, however staging ends.
NoPartialPush == live \in {snap.config, Offered}

\* While a change that is not confirmed runs, or could be pushed, a live timer process
\* stands behind it, so the router can undo it with nothing off the router.
DeadMan ==
  (state = "committed" /\ (live # snap.config \/ agent = "running"))
    => pc["timer"] \in {"t.boot", "t.loop", "rb.check", "rb.mark"}

\* Whatever was staged and however much of it was taken back, the journal's pre-images
\* turn the cloud into exactly what the router was last sent before the transaction.
JournalRepairs ==
  ~Settled => /\ journal # Torn
              /\ Compile(Overlay(cloud, journal.pre)) = snap.hash

\* When nothing is in flight and the gate is settled, cloud, disk and running configuration
\* agree; and the agent runs, unless the gate was released over one that was still stopping.
SettledAgrees ==
  (Settled /\ Quiet) => /\ live = config /\ InSync /\ hash = Compile(cloud)
                        /\ agent = "running" \/ state = "released"

\* The transaction completes only on the configuration the verification probes ran on.
OnlyProbedIsConfirmed ==
  [][state' = "confirmed" /\ state # "confirmed" => probed = live]_vars

\* The agent is given back only after the router has left the change, or never saw it.
ReleasedAfterRollback ==
  [][state' = "released" /\ state # "released" => config = snap.config /\ InSync]_vars

\* What an apply reports is so: applied means the whole change runs and stays, any
\* undone transaction means the cloud and the router's files are those it started from; and
\* one that this apply undid itself, unlike one it found and recovered, left the agent running.
VerdictHolds ==
  [][epc' = "idle" /\ epc # "idle" =>
       /\ result' = "applied" => state = "confirmed" /\ live = Offered /\ ~Restoring
       /\ result' \in {"rolledback", "aborted"} => agent = "running"
       /\ result' \in {"rolledback", "aborted", "recovered"} =>
            /\ state = "released"
            /\ config = snap.config /\ hash = Compile(cloud)
            /\ live = config \/ pc["timer"] = "rb.apply"]_vars

-----------------------------------------------------------------------------
\* Scripts, timer and agent run on the router and need nobody to keep going.
RouterFairness ==
  /\ \A p \in Procs : WF_vars(ScriptStep(p) /\ UNCHANGED engineVars)
  /\ WF_vars(TimerStep /\ UNCHANGED engineVars)
  /\ WF_vars((AgentExit \/ Push) /\ UNCHANGED engineVars)

RouterFairSpec == Spec /\ RouterFairness
FairSpec == RouterFairSpec /\ WF_vars(ApplyStep)

\* No apply waits for ever: whatever dies or fails on either side, it reports something.
ApplyReturns == epc # "idle" ~> epc = "idle"

\* One apply that meets an unfinished transaction, and no new fault, settles the router.
RecoveryConverges == (epc = "recover" /\ ~Settled /\ journal # Torn /\ faults = 0) ~> Settled

-----------------------------------------------------------------------------
\* The push that commit.sh lets through replaces only what an earlier push brought, never an edit
\* made on the router before the transaction began.
EditsAreRefused == [][state = "committed" /\ hash' # hash => InSync]_vars

-----------------------------------------------------------------------------
(***************************************************************************)
(* What the repository says of the transaction and its code does not do.   *)
(***************************************************************************)

\* gate.go, StateReleased: "agent resumed after an aborted or repaired transaction".  With the
\* gate settled and the agent gone, Ready refuses every apply and Recover finds nothing to do.
ReleasedAgentRuns == (state = "released" /\ Quiet) => agent # "stopped"

\* docs/DESIGN.md: "Rollback needs nothing off the router".  An unconfirmed change that
\* runs does not run for ever, whatever becomes of the provider.
WindowCloses == (state = "committed" /\ live # snap.config) ~> state # "committed"

\* docs/DESIGN.md: a later run can "finish an interrupted transaction before doing
\* anything else".  An apply that reports that nothing had to change found nothing unfinished.
RecoversFirst ==
  [][epc = "idle" /\ epc' = "idle" /\ result' = "unchanged" => ~Recoverable \/ pc["bg"] # "none"]_vars

\* engine.go, ErrStranded: "the router is on its known-good configuration with the cloud
\* agent paused".
StrandedIsSafe ==
  [][epc' = "idle" /\ epc # "idle" /\ result' = "stranded" => live = snap.config /\ agent # "running"]_vars
=============================================================================
