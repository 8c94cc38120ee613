-------------------------- MODULE EngineInvariant --------------------------
(***************************************************************************)
(* The inductive invariants behind the safety properties of the            *)
(* transaction engine, in layers.  Who may be where, what prepare.sh starts *)
(* from and what the probes ran on hold under every fault; what the files,  *)
(* the cloud and the apply's memory agree on needs the faults the engine is *)
(* built to survive, and no race.                                           *)
(***************************************************************************)
EXTENDS EngineProperties

\* A provider that dies, a session that ends, a write that is refused, an agent that does
\* not do as it is told: and no ordering that takes unlucky timing.
Survivable == Faults \subseteq {"cut", "crash", "reject", "agent"} /\ Races = {}

\* No script starts between two writes of another, and no edit comes after the engine has
\* looked for edits: any fault may happen, and what commit.sh waits for may never come.
Orderly == Races \intersect {"overlap", "lateEdit"} = {}

\* Besides, commit.sh does not give up on a push that comes later.
Prompt == Orderly /\ "slowPush" \notin Races

PrepSteps == {"prep.check", "prep.config", "prep.hash", "prep.journal",
              "prep.gate", "prep.stop", "prep.wait"}
ComSteps == {"com.check", "com.mark", "com.arm", "com.start", "com.wait"}
ConfSteps == {"conf.check", "conf.mark", "conf.wait"}
RelSteps == {"rel.check", "rel.start", "rel.wait"}
Undoing == {"rb.mark", "rb.stop", "rb.config", "rb.hash"}

\* The provider's script is at one of these steps, or its lost one is; or anybody's.
At(S) == pc["fg"] \in S \/ pc["bg"] \in S
Somebody(S) == \E p \in Procs : pc[p] \in S

\* The last call came back with no error.
Back(step) == epc = step /\ pc["fg"] = "ok"

-----------------------------------------------------------------------------
\* One script of the provider at a time, one process between two writes at a time, and a
\* lost script belongs to the call it was lost from.
OrderOK ==
  /\ pc["bg"] # "none" => pc["fg"] \in {"none", "fail"}
  /\ \A p, q \in Procs : p # q /\ pc[p] \in Critical => pc[q] \notin Critical
  /\ \A p, q \in Procs : p # q /\ pc[p] \in RollbackSteps => pc[q] \notin RollbackSteps
  /\ epc \notin {"prepare", "commit", "confirm", "rollback", "release"} => pc["fg"] = "none"
  /\ epc \in {"recover", "ready", "stage", "verify", "revert"} => pc["bg"] = "none"
  /\ epc = "restore" => pc["bg"] \in ComSteps \union ConfSteps \union {"none"}
  /\ \A c \in {<<"prepare", PrepSteps>>, <<"commit", ComSteps>>, <<"confirm", ConfSteps>>,
               <<"rollback", RollbackSteps \union {"rb.check"}>>, <<"release", RelSteps>>} :
       epc = c[1] => /\ pc["fg"] \in c[2] \union {"ok", "fail"}
                     /\ pc["bg"] \in c[2] \union {"none"}

\* What the state file says while a script, or the apply, is somewhere.
WhereOK ==
  /\ At({"prep.check", "prep.config", "prep.hash", "prep.journal", "prep.gate"}) => Settled
  /\ At({"prep.stop", "prep.wait", "com.check", "com.mark"}) => state = "gated"
  /\ At({"com.arm", "com.start", "conf.mark"}) => state = "committed"
  /\ At({"com.wait", "conf.check", "rb.check"}) => state \in {"committed", "rolled-back"}
  /\ At({"conf.wait"}) => state = "confirmed"
  /\ At(RelSteps) => state \in {"gated", "rolled-back"} /\ ~Somebody(Undoing)
  /\ Somebody({"rb.mark"}) => state = "committed"
  /\ Somebody(Undoing \ {"rb.mark"}) => state = "rolled-back"
  /\ Somebody({"rb.apply"}) => state \in {"rolled-back", "released"}
  /\ At({"rb.apply"}) => state = "rolled-back"
  /\ At(PrepSteps) => ~Somebody(RollbackSteps)
  /\ epc = "stage" \/ Back("prepare") => state = "gated"
  /\ epc = "verify" \/ Back("commit") => state \in {"committed", "rolled-back"}
  /\ Back("confirm") => state = "confirmed"
  /\ epc = "revert" => state \in {"gated", "rolled-back"} /\ ~Somebody(Undoing)
  /\ Back("rollback") => state = "rolled-back" /\ ~Somebody(Undoing)
  /\ Back("release") => state = "released"

InCloud == Compile(cloud)

Ordered == TypeOK /\ OrderOK /\ WhereOK

-----------------------------------------------------------------------------
\* From the check for local edits to the end of the transaction, hash.txt describes
\* config.json: no push replaces what the engine did not know of.
StartOK ==
  /\ epc = "prepare" /\ pc["fg"] \in PrepSteps => InSync
  /\ epc = "stage" \/ Back("prepare") => InSync
  /\ At({"com.check", "com.mark"}) => InSync
  /\ state = "committed" => InSync

\* Once commit.sh has answered nothing is left to push, for the agent was there to push it;
\* so what runs cannot move between the probes and the confirmation.
ProbedOK ==
  /\ epc = "stage" \/ Back("prepare") \/ At({"com.check", "com.mark"}) \/ state = "committed" =>
       agent # "stopping"
  /\ state = "committed" /\ At({"com.wait"}) => agent = "running"
  /\ At({"com.mark"}) \/ (state = "committed" /\ At({"com.arm", "com.start", "com.wait"})) =>
       hash \in {old, InCloud}
  /\ state = "committed" /\ (Back("commit") \/ epc = "verify" \/ At({"conf.check", "conf.mark"})) =>
       hash = InCloud
  /\ state = "committed" /\ At({"conf.check", "conf.mark"}) => probed = live

-----------------------------------------------------------------------------
\* What is on disk and what runs.
FilesOK ==
  /\ Settled => config = hash /\ (live = config \/ pc["timer"] = "rb.apply")
  /\ live \in {snap.config, Offered}
  /\ At({"prep.hash", "prep.journal", "prep.gate"}) => snap.config = config
  /\ At({"prep.journal", "prep.gate"}) => snap.hash = hash
  /\ ~Settled => snap.config = snap.hash
  /\ state = "gated" => config = snap.config /\ hash = snap.hash /\ live = snap.config
  /\ state = "committed" \/ Somebody({"rb.stop", "rb.config"}) =>
       config = hash /\ live = hash /\ hash \in {snap.hash, Offered}
  /\ Somebody({"rb.hash"}) => config = snap.config
  /\ (state = "rolled-back" /\ ~Somebody(Undoing)) \/ Somebody({"rb.apply"}) =>
       config = snap.config /\ hash = snap.hash
  /\ state = "rolled-back" /\ ~Somebody(RollbackSteps) => live = snap.config
  /\ At({"com.arm", "com.start"}) => live = snap.config
  /\ At({"com.mark", "com.arm", "com.start", "com.wait"}) => old = snap.hash
  /\ Back("release") => config = snap.config
  /\ epc = "confirm" /\ (At({"conf.wait"}) \/ Back("confirm")) => live = Offered

\* What the cloud holds, against the change, the journal and the files.
Matches(c) == DOMAIN c.pre = DOMAIN c.writes /\ \A k \in DOMAIN c.pre : cloud[k] = c.pre[k]

CloudOK ==
  /\ Settled => hash = InCloud
  /\ ~Settled =>
       /\ journal # Torn /\ DOMAIN journal.pre = DOMAIN journal.writes
       /\ \A k \in Delivered :
            IF k \in DOMAIN journal.pre THEN journal.pre[k] = snap.hash[k]
                                        ELSE cloud[k] = snap.hash[k]
  /\ state = "committed" \/ At({"com.check", "com.mark"}) \/ Somebody(Undoing) => InCloud = Offered
  /\ state \in {"gated", "rolled-back"} /\ ~Somebody(Undoing) /\ agent # "stopped" => InCloud = snap.hash
  /\ At(RelSteps) => InCloud = snap.hash

\* What the apply remembers, against the same.
MemoryOK ==
  /\ epc \in {"writable", "recover", "ready", "prepare"} => Matches(change)
  /\ At({"prep.check", "prep.config", "prep.hash", "prep.journal"}) => Matches(stdin)
  /\ At({"prep.gate", "prep.stop", "prep.wait"}) => journal # Torn /\ Matches(journal)
  /\ epc = "prepare" /\ pc["fg"] \in PrepSteps => stdin = change
  /\ epc = "prepare" /\ pc["fg"] \in {"prep.gate", "prep.stop", "prep.wait", "ok"} => journal = change
  /\ epc \in {"stage", "commit", "verify", "confirm"} => journal = change
  /\ epc = "stage" =>
       /\ DOMAIN todo \subseteq DOMAIN change.writes
       /\ \A k \in DOMAIN todo : todo[k] = change.writes[k] /\ cloud[k] = change.pre[k]
       /\ \A k \in DOMAIN change.writes \ DOMAIN todo : cloud[k] = change.writes[k]
  /\ epc \in {"restore", "rollback", "revert"} => journal # Torn
  /\ epc \in {"restore", "rollback"} => undo = journal.pre
  /\ epc = "revert" =>
       /\ DOMAIN undo \subseteq DOMAIN journal.pre
       /\ \A k \in DOMAIN undo : undo[k] = journal.pre[k]
       /\ \A k \in DOMAIN journal.pre \ DOMAIN undo : cloud[k] = journal.pre[k]

\* What the agent and the timer are doing.
Armed == pc["timer"] \in {"t.boot", "t.loop", "rb.check", "rb.mark"}

AgentOK ==
  /\ state \in {"clean", "confirmed"} => agent = "running"
  /\ epc = "stage" \/ Back("prepare") => agent = "stopped"
  /\ At({"com.check", "com.mark", "com.arm", "com.start"}) => agent = "stopped"
  /\ At({"com.start"}) => Armed
  /\ Somebody({"rb.config"}) => agent # "running"
  /\ Somebody({"rb.hash"}) => agent = "stopped"
  /\ DeadMan
  /\ state = "committed" => agent # "stopping"
  /\ state = "committed" /\ At({"com.wait"}) => agent = "running"
  /\ state = "committed" /\ (Back("commit") \/ epc = "verify" \/ At({"conf.check", "conf.mark"})) =>
       agent = "running" /\ hash = InCloud

DataOK == FilesOK /\ CloudOK /\ MemoryOK /\ AgentOK
IInv == Ordered /\ DataOK

-----------------------------------------------------------------------------
\* The apply is past its own prepare.sh, which waited for the agent to be gone.
Undertaken ==
  \/ epc \in {"stage", "commit", "verify", "confirm"}
  \/ epc \in {"restore", "rollback", "revert", "release"} /\ cause # "recovered"

\* So release.sh sees no agent that is still stopping, unless it ends what another apply began.
ResumedOK ==
  /\ Undertaken /\ ~Somebody({"rb.config"}) => agent # "stopping"
  /\ Back("release") /\ cause # "recovered" => agent = "running"
=============================================================================
