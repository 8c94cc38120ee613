------------------------------- MODULE Provider -------------------------------
(***************************************************************************)
(* One provider process and its applies: the element resources, which hold *)
(* ProviderData's lock from reading the document to the end of their       *)
(* transaction, and alta_router_config, which does not; the two requests   *)
(* that read a document; the writes, which replace a key of the cloud      *)
(* whole; the portal, which edits between any two of these steps; and a    *)
(* process that dies, after which another knows only the router's journal. *)
(* A transaction is Engine's, with what the router does left out: it is    *)
(* prepared, staged write by write, and committed or undone.               *)
(***************************************************************************)
EXTENDS Integers, FiniteSets

CONSTANTS
  Elements,    \* element resources, each with an item of its own
  Configs,     \* router_config resources
  SiteKeys,    \* the keys of the site object
  StateKeys,   \* the keys of the devices and clients, which a second request reads
  ItemsOf,     \* the items each key holds
  Owned,       \* the items each element and each router_config manages
  Vals,        \* the values of an item
  Asked,       \* what each apply may be asked to make of its items
  Settings,    \* [readOnly, ssh] of the provider block
  Overlap,     \* whether a router_config may be applied while others are
  MaxEdits,    \* the bound on the edits of the portal
  MaxFaults    \* the bound on the calls that fail and the processes that die

Appliers == Elements \cup Configs
Keys == SiteKeys \cup StateKeys
Items == UNION {ItemsOf[k] : k \in Keys}
KeyOf(i) == CHOOSE k \in Keys : i \in ItemsOf[k]
Absent == "absent"
Free == "free"
Values == Vals \cup {Absent}
None == <<>>

ASSUME OwnedAssumption ==
  /\ Elements \cap Configs = {} /\ SiteKeys \cap StateKeys = {} /\ Absent \notin Vals /\ Free \notin Appliers
  /\ \A k, j \in Keys : k # j => ItemsOf[k] \cap ItemsOf[j] = {}
  /\ \A a \in Appliers : Owned[a] \subseteq Items /\ Asked[a] \subseteq [Owned[a] -> Values]
  /\ \A a, b \in Appliers : a # b => Owned[a] \cap Owned[b] = {}

ASSUME BoundsAssumption == MaxEdits \in Nat /\ MaxFaults \in Nat

VARIABLES
  settings,  \* the provider's configuration
  lock,      \* who holds ProviderData.applying
  pc,        \* where each apply is
  want,      \* what each apply was asked to make of the items it owns
  doc,       \* the document each apply read, as far as it has; then what it writes back
  todo,      \* the keys each apply has still to write, or to write back
  journal,   \* on the router, the pre-images of an unfinished transaction
  cloud,     \* the value of every item
  recorded,  \* of each router_config, the items in its state: None until there is one
  meant,     \* history: every change the portal made or an apply committed, in order
  raced,     \* history: the items the portal edited while an apply that had read them ran
  stranded,  \* history: a way back failed, or the process died, and left a transaction open
  edits, faults

local == <<pc, want, doc, todo>>
history == <<meant, raced, stranded>>
vars == <<settings, lock, local, journal, cloud, recorded, history, edits, faults>>

Steps == {"idle", "lock", "site", "state", "writable", "recover", "prepare", "stage", "undo", "resite", "restate"}

OfKeys(d, K) == [i \in UNION {ItemsOf[k] : k \in K} |-> d[i]]
Overlaid(d, w) == [i \in DOMAIN d |-> IF i \in DOMAIN w THEN w[i] ELSE d[i]]
\* The document a first request began, completed by a second.
Completed(d) == [i \in Items |-> IF i \in DOMAIN d THEN d[i] ELSE cloud[i]]
\* The keys a plan writes: the ones with an item that changes.
Changed(d, w) == {KeyOf(i) : i \in {i \in DOMAIN w : w[i] # d[i]}}

Init ==
  /\ settings \in Settings
  /\ lock = Free
  /\ pc = [a \in Appliers |-> "idle"]
  /\ want = [a \in Appliers |-> None] /\ doc = [a \in Appliers |-> None]
  /\ todo = [a \in Appliers |-> {}]
  /\ journal = None
  /\ cloud = [i \in Items |-> Absent]
  /\ recorded = [c \in Configs |-> None]
  /\ stranded = FALSE
  /\ meant = cloud /\ raced = {}
  /\ edits = 0 /\ faults = 0

Fault == faults < MaxFaults /\ faults' = faults + 1
Goto(a, step) ==
  /\ pc' = [pc EXCEPT ![a] = step]
  /\ UNCHANGED <<want, todo>>
WayBack(a, d, keys) ==
  /\ pc' = [pc EXCEPT ![a] = "undo"] /\ doc' = [doc EXCEPT ![a] = d]
  /\ todo' = [todo EXCEPT ![a] = keys]
  /\ UNCHANGED <<lock, want>>

\* Whatever an apply answers, its lock is free and it keeps nothing.
Return(a) ==
  /\ lock' = IF lock = a THEN Free ELSE lock
  /\ pc' = [pc EXCEPT ![a] = "idle"]
  /\ want' = [want EXCEPT ![a] = None] /\ doc' = [doc EXCEPT ![a] = None]
  /\ todo' = [todo EXCEPT ![a] = {}]

(***************************************************************************)
(* Terraform.  What ModifyPlan checks decides nothing here: a saved plan   *)
(* may be applied to a cloud, and under settings, it did not see.          *)
(***************************************************************************)
MayStart(a) ==
  /\ pc[a] = "idle"
  /\ ~Overlap => \A b \in Appliers : a \in Configs \/ b \in Configs => pc[b] = "idle"
Begin(a) ==
  /\ MayStart(a)
  /\ \E w \in Asked[a] : want' = [want EXCEPT ![a] = w]
  /\ pc' = [pc EXCEPT ![a] = IF a \in Elements THEN "lock" ELSE "site"]
  /\ UNCHANGED <<settings, lock, doc, todo, journal, cloud, recorded, history, edits, faults>>
Refresh(c) ==
  /\ MayStart(c) /\ recorded[c] # None
  /\ Goto(c, "resite")
  /\ UNCHANGED <<settings, lock, doc, journal, cloud, recorded, history, edits, faults>>
Forget(c) ==
  /\ MayStart(c) /\ recorded[c] # None
  /\ recorded' = [recorded EXCEPT ![c] = None]
  /\ UNCHANGED <<settings, lock, local, journal, cloud, history, edits, faults>>

(***************************************************************************)
(* element.apply and RouterConfig.apply                                    *)
(***************************************************************************)
\* Mutant: nobody waits for the lock.
AcquireAnyway(a) ==
  /\ pc[a] = "lock" /\ lock' = a
  /\ Goto(a, "site")
  /\ UNCHANGED <<settings, doc, journal, cloud, recorded, history, edits, faults>>
Acquire(a) ==
  /\ pc[a] = "lock" /\ lock = Free /\ lock' = a
  /\ Goto(a, "site")
  /\ UNCHANGED <<settings, doc, journal, cloud, recorded, history, edits, faults>>

\* Cloud.Site
ReadSite(a) ==
  /\ pc[a] = "site"
  /\ \/ /\ Goto(a, "state") /\ doc' = [doc EXCEPT ![a] = OfKeys(cloud, SiteKeys)]
        /\ UNCHANGED <<lock, faults>>
     \/ Fault /\ Return(a)
  /\ UNCHANGED <<settings, journal, cloud, recorded, history, edits>>

\* Mutant: the sections are not compared with the last refresh.
DriftedNever(a, d) == FALSE
\* unchangedSince: the managed sections of d are not the recorded ones.
Drifted(a, d) == a \in Configs /\ recorded[a] # None /\ \E i \in Owned[a] : d[i] # recorded[a][i]
\* Mutant: what the configuration does not manage is recorded with it.
RecordedWhole(a, d) == IF a \in Configs THEN [recorded EXCEPT ![a] = d] ELSE recorded
Recorded(a, d) == IF a \in Configs THEN [recorded EXCEPT ![a] = [i \in Owned[a] |-> d[i]]] ELSE recorded
\* Mutant: a changed document is read again until it is not.
RefuseLater(a) == Goto(a, "site") /\ UNCHANGED <<lock, doc>>
Refuse(a) == Return(a)
\* Cloud.State, and what follows from the document without another request.
ReadState(a) ==
  LET d == Completed(doc[a]) IN
  /\ pc[a] = "state"
  /\ \/ Fault /\ Return(a) /\ UNCHANGED recorded
     \/ Drifted(a, d) /\ Refuse(a) /\ UNCHANGED <<recorded, faults>>
     \/ /\ ~Drifted(a, d) /\ Changed(d, want[a]) = {}
        /\ Return(a) /\ recorded' = Recorded(a, d) /\ UNCHANGED faults
     \/ /\ ~Drifted(a, d) /\ Changed(d, want[a]) # {}
        /\ Goto(a, "writable") /\ doc' = [doc EXCEPT ![a] = d]
        /\ UNCHANGED <<lock, recorded, faults>>
  /\ UNCHANGED <<settings, journal, cloud, history, edits>>

MayWrite == ~settings.readOnly /\ settings.ssh
\* Ready refuses local edits and a router that does not answer; Engine has it in full.
Writable(a) ==
  /\ pc[a] = "writable"
  /\ \/ MayWrite /\ Goto(a, "recover") /\ UNCHANGED <<lock, doc, faults>>
     \/ ~MayWrite /\ Return(a) /\ UNCHANGED faults
     \/ MayWrite /\ Fault /\ Return(a)
  /\ UNCHANGED <<settings, journal, cloud, recorded, history, edits>>
Recover(a) ==
  /\ pc[a] = "recover"
  /\ \/ journal = None /\ Goto(a, "prepare") /\ UNCHANGED <<lock, doc, faults>>
     \/ journal # None /\ WayBack(a, journal, {KeyOf(i) : i \in DOMAIN journal}) /\ UNCHANGED faults
     \/ Fault /\ Return(a)
  /\ UNCHANGED <<settings, journal, cloud, recorded, history, edits>>

(***************************************************************************)
(* Engine.Run.  A write that fails changes nothing here.                   *)
(***************************************************************************)
Prepare(a) ==
  LET keys == Changed(doc[a], want[a]) IN
  /\ pc[a] = "prepare"
  /\ \/ /\ journal = None /\ journal' = OfKeys(doc[a], keys)
        /\ pc' = [pc EXCEPT ![a] = "stage"] /\ todo' = [todo EXCEPT ![a] = keys]
        /\ UNCHANGED <<lock, want, doc, faults>>
     \/ journal # None /\ Return(a) /\ UNCHANGED <<journal, faults>>
     \/ Fault /\ Return(a) /\ UNCHANGED journal
  /\ UNCHANGED <<settings, cloud, recorded, history, edits>>
\* Mutant: what was staged stays.
AbortStagingAtOnce(a) == Return(a)
AbortStaging(a) == WayBack(a, doc[a], Changed(doc[a], want[a]) \ todo[a])
Stage(a) ==
  /\ pc[a] = "stage" /\ todo[a] # {}
  /\ \/ /\ \E k \in todo[a] :
             /\ cloud' = Overlaid(cloud, OfKeys(Overlaid(doc[a], want[a]), {k}))
             /\ todo' = [todo EXCEPT ![a] = @ \ {k}]
        /\ UNCHANGED <<lock, pc, want, doc, faults>>
     \/ Fault /\ AbortStaging(a) /\ UNCHANGED cloud
  /\ UNCHANGED <<settings, journal, recorded, history, edits>>
\* Pushed, verified and confirmed, or rolled back.
Commit(a) ==
  LET keys == Changed(doc[a], want[a]) IN
  /\ pc[a] = "stage" /\ todo[a] = {}
  /\ \/ /\ journal # None /\ journal' = None
        /\ meant' = Overlaid(meant, want[a])
        /\ IF a \in Elements THEN Return(a)
           ELSE Goto(a, "resite") /\ UNCHANGED <<lock, doc>>
        /\ UNCHANGED faults
     \/ journal # None /\ Fault /\ WayBack(a, doc[a], keys) /\ UNCHANGED <<journal, meant>>
     \/ journal = None /\ Return(a) /\ UNCHANGED <<journal, meant, faults>>
  /\ UNCHANGED <<settings, cloud, recorded, raced, stranded, edits>>
\* Mutant: the last pre-image is not written back.
UndoButOne(a) ==
  /\ pc[a] = "undo"
  /\ Return(a) /\ journal' = None /\ stranded' = FALSE
  /\ UNCHANGED <<settings, cloud, recorded, meant, raced, edits, faults>>
\* The pre-images, one by one, then the release of the gate.
Undo(a) ==
  /\ pc[a] = "undo"
  /\ \/ /\ \E k \in todo[a] :
             /\ cloud' = Overlaid(cloud, OfKeys(doc[a], {k}))
             /\ todo' = [todo EXCEPT ![a] = @ \ {k}]
        /\ UNCHANGED <<lock, pc, want, doc, journal, stranded, faults>>
     \/ todo[a] = {} /\ journal' = None /\ stranded' = FALSE /\ Return(a) /\ UNCHANGED <<cloud, faults>>
     \/ Fault /\ Return(a) /\ stranded' = TRUE /\ UNCHANGED <<journal, cloud>>
  /\ UNCHANGED <<settings, recorded, meant, raced, edits>>

\* What router_config records: the document, read anew after its transaction or by a refresh.
RereadSite(c) ==
  /\ pc[c] = "resite"
  /\ \/ /\ Goto(c, "restate") /\ doc' = [doc EXCEPT ![c] = OfKeys(cloud, SiteKeys)]
        /\ UNCHANGED <<lock, faults>>
     \/ Fault /\ Return(c)
  /\ UNCHANGED <<settings, journal, cloud, recorded, history, edits>>
RereadState(c) ==
  /\ pc[c] = "restate"
  /\ \/ /\ recorded' = Recorded(c, Completed(doc[c]))
        /\ Return(c)
        /\ UNCHANGED faults
     \/ Fault /\ Return(c) /\ UNCHANGED recorded
  /\ UNCHANGED <<settings, journal, cloud, history, edits>>

(***************************************************************************)
(* The portal, and a process that dies with everything but the journal.    *)
(***************************************************************************)
Edit(i) ==
  /\ edits < MaxEdits /\ edits' = edits + 1
  /\ \E v \in Values \ {cloud[i]} :
       cloud' = [cloud EXCEPT ![i] = v] /\ meant' = [meant EXCEPT ![i] = v]
  /\ raced' = IF i \in DOMAIN journal \cup UNION {DOMAIN doc[a] : a \in Appliers} THEN raced \cup {i} ELSE raced
  /\ UNCHANGED <<settings, lock, local, journal, recorded, stranded, faults>>
Crash ==
  /\ Fault
  /\ \E a \in Appliers : pc[a] # "idle"
  /\ settings' \in Settings /\ lock' = Free
  /\ pc' = [a \in Appliers |-> "idle"] /\ stranded' = (journal # None)
  /\ want' = [a \in Appliers |-> None] /\ doc' = [a \in Appliers |-> None]
  /\ todo' = [a \in Appliers |-> {}]
  /\ UNCHANGED <<journal, cloud, recorded, meant, raced, edits>>

Apply(a) ==
  \/ ReadSite(a) \/ ReadState(a) \/ Writable(a) \/ Recover(a)
  \/ Prepare(a) \/ Stage(a) \/ Commit(a) \/ Undo(a) \/ RereadSite(a) \/ RereadState(a)
Next ==
  \/ \E a \in Appliers : Begin(a) \/ Apply(a)
  \/ \E a \in Elements : Acquire(a)
  \/ \E c \in Configs : Refresh(c) \/ Forget(c)
  \/ \E i \in Items : Edit(i)
  \/ Crash
Spec == Init /\ [][Next]_vars

\* Every call returns or fails, and a sync.Mutex is handed to the one that waits longest.
Fairness ==
  /\ \A a \in Appliers : WF_vars(Apply(a))
  /\ \A a \in Elements : SF_vars(Acquire(a))
FairSpec == Spec /\ Fairness

-----------------------------------------------------------------------------
TypeOK ==
  /\ settings \in Settings /\ lock \in Elements \cup {Free}
  /\ pc \in [Appliers -> Steps]
  /\ \A a \in Appliers :
       /\ want[a] # None => want[a] \in Asked[a]
       /\ DOMAIN doc[a] \subseteq Items /\ todo[a] \subseteq Keys
       /\ pc[a] \in {"writable", "recover", "prepare", "stage"} => DOMAIN doc[a] = Items
  /\ DOMAIN journal \subseteq Items /\ cloud \in [Items -> Values]
  /\ \A c \in Configs : recorded[c] # None => recorded[c] \in [Owned[c] -> Values]
  /\ meant \in [Items -> Values] /\ raced \subseteq Items
  /\ edits \in 0..MaxEdits /\ faults \in 0..MaxFaults

\* "applying serialises read-modify-write of the shared site document" (data.go): outside
\* an unfinished transaction the cloud holds every committed change and every edit of the
\* portal, applied one after the other, and nothing else; only what the portal edited while
\* an apply was under way may be lost.
SerialCloud == \A i \in Items \ (raced \cup DOMAIN journal) : cloud[i] = meant[i]

\* At most one apply of the process is in a transaction, recovering one included.
OneTransaction ==
  \A a, b \in Appliers :
    pc[a] \in {"recover", "prepare", "stage", "undo"} /\ pc[b] \in {"recover", "prepare", "stage", "undo"} => a = b

\* An apply that has finished, whatever it answered, leaves no transaction behind unless the
\* way back failed or the process died.
NothingLeftOpen ==
  journal # None => stranded \/ \E a \in Appliers : pc[a] \in {"stage", "undo"}

\* A router_config writes over no change of the portal to a section it manages that was
\* there before it read the document and that its state does not show.
NothingUnseenIsOverwritten ==
  [][\A c \in Configs : pc[c] = "stage" /\ recorded[c] # None =>
       \A i \in Owned[c] \ raced : cloud'[i] # cloud[i] /\ edits' = edits => cloud[i] = recorded[c][i]]_vars

\* Every apply ends, in whatever order the others take the lock and fail.
EveryApplyReturns == \A a \in Appliers : pc[a] # "idle" ~> pc[a] = "idle"
=============================================================================
