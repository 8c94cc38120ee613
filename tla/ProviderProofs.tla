--------------------------- MODULE ProviderProofs ---------------------------
(***************************************************************************)
(* The applies of one process for any resources, keys and items, and any   *)
(* number of edits and faults.                                             *)
(***************************************************************************)
EXTENDS Provider, TLAPS

Of(K) == UNION {ItemsOf[k] : k \in K}
Partial(f) == DOMAIN f \subseteq Items /\ \A i \in DOMAIN f : f[i] \in Values
Asking == {"lock", "site", "state", "writable", "recover", "prepare", "stage"}
Whole == {"writable", "recover", "prepare", "stage"}

-----------------------------------------------------------------------------
(***************************************************************************)
(* Documents: functions of items, read and written by keys.                *)
(***************************************************************************)
LEMMA KeyOfItem ==
  /\ \A k \in Keys : \A i \in ItemsOf[k] : i \in Items /\ KeyOf(i) = k
  /\ \A i \in Items : KeyOf(i) \in Keys /\ i \in ItemsOf[KeyOf(i)]
<1>1. \A i \in Items : KeyOf(i) \in Keys /\ i \in ItemsOf[KeyOf(i)]
  BY DEF Items, KeyOf
<1>2. ASSUME NEW k \in Keys, NEW i \in ItemsOf[k]
      PROVE  i \in Items /\ KeyOf(i) = k
  <2>1. i \in Items
    BY DEF Items
  <2>2. KeyOf(i) \in Keys /\ i \in ItemsOf[KeyOf(i)]
    BY <1>1, <2>1
  <2> QED
    BY <2>1, <2>2, OwnedAssumption
<1> QED
  BY <1>1, <1>2

LEMMA OfKeysIs ==
  ASSUME NEW d, NEW K
  PROVE  DOMAIN OfKeys(d, K) = Of(K) /\ \A i \in Of(K) : OfKeys(d, K)[i] = d[i]
BY DEF OfKeys, Of

LEMMA OverlaidIs ==
  ASSUME NEW d, NEW w
  PROVE  /\ DOMAIN Overlaid(d, w) = DOMAIN d
         /\ \A i \in DOMAIN d : Overlaid(d, w)[i] = IF i \in DOMAIN w THEN w[i] ELSE d[i]
BY DEF Overlaid

LEMMA OfOne ==
  ASSUME NEW k
  PROVE  Of({k}) = ItemsOf[k]
BY DEF Of

LEMMA OfMember ==
  ASSUME NEW K, NEW k \in K
  PROVE  ItemsOf[k] \subseteq Of(K)
BY DEF Of

LEMMA AllOfKeys == Of(SiteKeys) \subseteq Items /\ Of(SiteKeys) \cup Of(StateKeys) = Items
BY DEF Of, Items, Keys

\* The keys of a plan hold the items it changes.
LEMMA ChangedIs ==
  ASSUME NEW d, NEW w, DOMAIN w \subseteq Items
  PROVE  /\ Changed(d, w) \subseteq Keys
         /\ \A i \in DOMAIN w : KeyOf(i) \notin Changed(d, w) => w[i] = d[i]
BY KeyOfItem DEF Changed

\* The second request completes the document of the first.
LEMMA CompletedIs ==
  ASSUME NEW d, Partial(d), cloud \in [Items -> Values]
  PROVE  /\ DOMAIN Completed(d) = Items /\ Partial(Completed(d))
         /\ \A i \in Items : Completed(d)[i] = IF i \in DOMAIN d THEN d[i] ELSE cloud[i]
BY DEF Completed, Partial

-----------------------------------------------------------------------------
(***************************************************************************)
(* Types, whatever overlaps.                                               *)
(***************************************************************************)
\* What an apply has at each of its steps: nothing to write but in a transaction, the part
\* of the document it has read, and what it was asked for until it has written it.
ApplyTyped(a) ==
  /\ pc[a] \in Steps
  /\ want[a] # None => want[a] \in Asked[a]
  /\ pc[a] \in Asking => want[a] \in Asked[a]
  /\ Partial(doc[a])
  /\ pc[a] \in {"state", "restate"} => DOMAIN doc[a] = Of(SiteKeys)
  /\ pc[a] \in Whole => DOMAIN doc[a] = Items
  /\ todo[a] \subseteq Keys /\ Of(todo[a]) \subseteq DOMAIN doc[a]
  /\ pc[a] \notin {"stage", "undo"} => todo[a] = {}

CloudTyped ==
  /\ settings \in Settings /\ lock \in Elements \cup {Free}
  /\ Partial(journal) /\ \A i \in DOMAIN journal : ItemsOf[KeyOf(i)] \subseteq DOMAIN journal
  /\ cloud \in [Items -> Values] /\ meant \in [Items -> Values] /\ raced \subseteq Items
  /\ DOMAIN recorded = Configs
  /\ \A c \in Configs : recorded[c] # None => recorded[c] \in [Owned[c] -> Values]
  /\ edits \in 0..MaxEdits /\ faults \in 0..MaxFaults

Shaped == pc = [a \in Appliers |-> pc[a]] /\ DOMAIN want = Appliers /\ DOMAIN doc = Appliers /\ DOMAIN todo = Appliers

TypeInv == Shaped /\ CloudTyped /\ \A a \in Appliers : ApplyTyped(a)

\* A step of one apply leaves the others' alone.
Alone(a) ==
  /\ pc' = [b \in Appliers |-> pc'[b]] /\ DOMAIN want' = Appliers /\ DOMAIN doc' = Appliers /\ DOMAIN todo' = Appliers
  /\ \A b \in Appliers \ {a} : pc'[b] = pc[b] /\ want'[b] = want[b] /\ doc'[b] = doc[b] /\ todo'[b] = todo[b]

LEMMA NoneHasNothing == DOMAIN None = {} /\ Partial(None)
BY DEF None, Partial

LEMMA WantedIs ==
  ASSUME NEW a \in Appliers, NEW w \in Asked[a]
  PROVE  w \in [Owned[a] -> Values] /\ DOMAIN w = Owned[a] /\ Owned[a] \subseteq Items
BY OwnedAssumption

LEMMA StepTyped ==
  ASSUME TypeInv, NEW a \in Appliers, Alone(a), CloudTyped', ApplyTyped(a)'
  PROVE  TypeInv'
<1>1. ASSUME NEW b \in Appliers \ {a}
      PROVE  ApplyTyped(b)'
  BY <1>1 DEF TypeInv, ApplyTyped, Alone
<1> QED
  BY <1>1 DEF TypeInv, Shaped, Alone

LEMMA GotoDoes ==
  ASSUME Shaped, NEW a \in Appliers, NEW step, Goto(a, step), UNCHANGED doc
  PROVE  pc'[a] = step /\ want'[a] = want[a] /\ todo'[a] = todo[a] /\ doc'[a] = doc[a] /\ Alone(a)
BY DEF Shaped, Goto, Alone

LEMMA ReadDoes ==
  ASSUME Shaped, NEW a \in Appliers, NEW step, Goto(a, step), NEW d, doc' = [doc EXCEPT ![a] = d]
  PROVE  pc'[a] = step /\ want'[a] = want[a] /\ todo'[a] = todo[a] /\ doc'[a] = d /\ Alone(a)
BY DEF Shaped, Goto, Alone

LEMMA ReturnDoes ==
  ASSUME Shaped, NEW a \in Appliers, Return(a)
  PROVE  /\ pc'[a] = "idle" /\ want'[a] = None /\ doc'[a] = None /\ todo'[a] = {}
         /\ Alone(a) /\ lock' = IF lock = a THEN Free ELSE lock
BY DEF Shaped, Return, Alone

LEMMA WayBackDoes ==
  ASSUME Shaped, NEW a \in Appliers, NEW d, NEW keys, WayBack(a, d, keys)
  PROVE  /\ pc'[a] = "undo" /\ want'[a] = want[a] /\ doc'[a] = d /\ todo'[a] = keys
         /\ Alone(a) /\ lock' = lock
BY DEF Shaped, WayBack, Alone

LEMMA ReturnTyped ==
  ASSUME TypeInv, NEW a \in Appliers, Return(a)
  PROVE  ApplyTyped(a)' /\ lock' \in Elements \cup {Free}
<1>1. pc'[a] = "idle" /\ want'[a] = None /\ doc'[a] = None /\ todo'[a] = {} /\ lock' = IF lock = a THEN Free ELSE lock
  BY ReturnDoes DEF TypeInv
<1>2. Of({}) = {}
  BY DEF Of
<1>3. Partial(doc'[a])
  BY <1>1, NoneHasNothing
<1> QED
  BY <1>1, <1>2, <1>3 DEF TypeInv, CloudTyped, ApplyTyped, Partial, Of, Steps, Asking, Whole

LEMMA FaultTyped ==
  ASSUME TypeInv, Fault
  PROVE  faults' \in 0..MaxFaults
BY BoundsAssumption DEF TypeInv, CloudTyped, Fault

LEMMA ItemsAreTyped ==
  ASSUME NEW d, NEW w, NEW keys, DOMAIN d = Items, Partial(d), keys \subseteq Keys
  PROVE  Of(keys) \subseteq Items /\ Partial(OfKeys(d, keys)) /\ DOMAIN OfKeys(d, keys) = Of(keys)
<1>1. Of(keys) \subseteq Items
  BY DEF Of, Items
<1>2. DOMAIN OfKeys(d, keys) = Of(keys) /\ \A i \in Of(keys) : OfKeys(d, keys)[i] = d[i]
  BY OfKeysIs
<1> QED
  BY <1>1, <1>2 DEF Partial

LEMMA InitTyped == Init => TypeInv
<1> SUFFICES ASSUME Init
             PROVE  TypeInv
  OBVIOUS
<1>1. Shaped
  BY DEF Init, Shaped
<1>2. CloudTyped
  BY NoneHasNothing, BoundsAssumption DEF Init, CloudTyped, Values
<1>3. ASSUME NEW a \in Appliers
      PROVE  ApplyTyped(a)
  <2>1. pc[a] = "idle" /\ want[a] = None /\ doc[a] = None /\ todo[a] = {}
    BY DEF Init
  <2> QED
    BY <2>1, NoneHasNothing DEF ApplyTyped, Of, Steps, Asking, Whole
<1> QED
  BY <1>1, <1>2, <1>3 DEF TypeInv

LEMMA TerraformTyped ==
  ASSUME TypeInv, NEW a \in Appliers, Begin(a) \/ (a \in Configs /\ Refresh(a))
  PROVE  TypeInv'
<1>1. Shaped /\ CloudTyped /\ ApplyTyped(a)
  BY DEF TypeInv
<1>2. CASE Begin(a)
  <2>1. PICK w \in Asked[a] : want' = [want EXCEPT ![a] = w]
    BY <1>2 DEF Begin
  <2>2. Alone(a) /\ want'[a] = w /\ pc'[a] \in {"lock", "site"} /\ doc' = doc /\ todo' = todo /\ pc[a] = "idle"
    BY <1>1, <1>2, <2>1 DEF Begin, MayStart, Shaped, Alone
  <2>3. CloudTyped'
    BY <1>1, <1>2 DEF Begin, CloudTyped, history
  <2>4. ApplyTyped(a)'
    BY <1>1, <2>1, <2>2 DEF ApplyTyped, Steps, Asking, Whole
  <2> QED
    BY <2>2, <2>3, <2>4, StepTyped
<1>3. CASE a \in Configs /\ Refresh(a)
  <2>1. Goto(a, "resite") /\ UNCHANGED doc /\ pc[a] = "idle"
    BY <1>3 DEF Refresh, MayStart
  <2>2. pc'[a] = "resite" /\ want'[a] = want[a] /\ todo'[a] = todo[a] /\ doc'[a] = doc[a] /\ Alone(a)
    BY <1>1, <2>1, GotoDoes
  <2>3. CloudTyped'
    BY <1>1, <1>3 DEF Refresh, CloudTyped, history
  <2>4. ApplyTyped(a)'
    BY <1>1, <2>1, <2>2 DEF ApplyTyped, Steps, Asking, Whole
  <2> QED
    BY <2>2, <2>3, <2>4, StepTyped
<1> QED
  BY <1>2, <1>3

LEMMA ForgetTyped ==
  ASSUME TypeInv, NEW c \in Configs, Forget(c)
  PROVE  TypeInv'
<1>1. Shaped' /\ \A a \in Appliers : ApplyTyped(a)'
  BY DEF TypeInv, Forget, local, Shaped, ApplyTyped
<1>2. CloudTyped'
  BY DEF TypeInv, Forget, history, CloudTyped
<1> QED
  BY <1>1, <1>2 DEF TypeInv

LEMMA AcquireTyped ==
  ASSUME TypeInv, NEW a \in Elements, Acquire(a)
  PROVE  TypeInv'
<1>1. Shaped /\ CloudTyped /\ ApplyTyped(a) /\ a \in Appliers
  BY DEF TypeInv, Appliers
<1>2. Goto(a, "site") /\ UNCHANGED doc /\ pc[a] = "lock"
  BY DEF Acquire
<1>3. pc'[a] = "site" /\ want'[a] = want[a] /\ todo'[a] = todo[a] /\ doc'[a] = doc[a] /\ Alone(a)
  BY <1>1, <1>2, GotoDoes
<1>4. CloudTyped'
  BY <1>1 DEF Acquire, CloudTyped, history
<1>5. ApplyTyped(a)'
  BY <1>1, <1>2, <1>3 DEF ApplyTyped, Steps, Asking, Whole
<1> QED
  BY <1>1, <1>3, <1>4, <1>5, StepTyped

LEMMA ReadSiteTyped ==
  ASSUME TypeInv, NEW a \in Appliers, ReadSite(a) \/ RereadSite(a)
  PROVE  TypeInv'
<1>1. Shaped /\ CloudTyped /\ ApplyTyped(a)
  BY DEF TypeInv
<1>2. UNCHANGED <<settings, journal, cloud, recorded, history, edits>> /\ pc[a] \in {"site", "resite"}
  BY DEF ReadSite, RereadSite
<1>3. CASE Fault /\ Return(a)
  <2>1. Alone(a) /\ ApplyTyped(a)' /\ lock' \in Elements \cup {Free} /\ faults' \in 0..MaxFaults
    BY <1>1, <1>3, ReturnDoes, ReturnTyped, FaultTyped
  <2>2. CloudTyped'
    BY <1>1, <1>2, <2>1 DEF CloudTyped, history
  <2> QED
    BY <2>1, <2>2, StepTyped
<1>4. ASSUME NEW step \in {"state", "restate"}, step = "state" <=> pc[a] = "site", Goto(a, step),
             doc' = [doc EXCEPT ![a] = OfKeys(cloud, SiteKeys)], UNCHANGED <<lock, faults>>
      PROVE  TypeInv'
  <2>1. pc'[a] = step /\ want'[a] = want[a] /\ todo'[a] = todo[a] /\ doc'[a] = OfKeys(cloud, SiteKeys) /\ Alone(a)
    BY <1>1, <1>4, ReadDoes
  <2>2. DOMAIN doc'[a] = Of(SiteKeys) /\ \A i \in Of(SiteKeys) : doc'[a][i] = cloud[i]
    BY <2>1, OfKeysIs
  <2>3. Partial(doc'[a])
    BY <1>1, <2>2, AllOfKeys DEF Partial, CloudTyped
  <2>4. ApplyTyped(a)'
    <3>1. todo'[a] = {} /\ Of({}) = {}
      BY <1>1, <1>2, <2>1 DEF ApplyTyped, Of
    <3> QED
      BY <1>1, <1>2, <1>4, <2>1, <2>2, <2>3, <3>1 DEF ApplyTyped, Steps, Asking, Whole
  <2>5. CloudTyped'
    BY <1>1, <1>2, <1>4 DEF CloudTyped, history
  <2> QED
    BY <2>1, <2>4, <2>5, StepTyped
<1> QED
  BY <1>3, <1>4 DEF ReadSite, RereadSite

\* What a router_config records of a whole document.
LEMMA RecordedTyped ==
  ASSUME CloudTyped, NEW a \in Appliers, NEW d, DOMAIN d = Items, Partial(d)
  PROVE  /\ DOMAIN Recorded(a, d) = Configs
         /\ \A c \in Configs : Recorded(a, d)[c] # None => Recorded(a, d)[c] \in [Owned[c] -> Values]
<1>1. DOMAIN recorded = Configs
  BY DEF CloudTyped
<1>2. CASE a \in Configs
  <2>1. Recorded(a, d) = [recorded EXCEPT ![a] = [i \in Owned[a] |-> d[i]]]
    BY <1>2 DEF Recorded
  <2>2. [i \in Owned[a] |-> d[i]] \in [Owned[a] -> Values]
    BY OwnedAssumption DEF Partial
  <2>3. DOMAIN Recorded(a, d) = Configs /\ Recorded(a, d)[a] = [i \in Owned[a] |-> d[i]]
        /\ \A c \in Configs \ {a} : Recorded(a, d)[c] = recorded[c]
    BY <1>1, <1>2, <2>1
  <2> QED
    BY <2>2, <2>3 DEF CloudTyped
<1>3. CASE a \notin Configs
  BY <1>3 DEF Recorded, CloudTyped
<1> QED
  BY <1>2, <1>3

LEMMA ReadStateTyped ==
  ASSUME TypeInv, NEW a \in Appliers, ReadState(a) \/ RereadState(a)
  PROVE  TypeInv'
<1> DEFINE d == Completed(doc[a])
<1>1. Shaped /\ CloudTyped /\ ApplyTyped(a)
  BY DEF TypeInv
<1>2. UNCHANGED <<settings, journal, cloud, history, edits>> /\ pc[a] \in {"state", "restate"}
  BY DEF ReadState, RereadState
<1>3. DOMAIN d = Items /\ Partial(d)
  BY <1>1, CompletedIs DEF ApplyTyped, CloudTyped
<1>4. CASE Return(a) /\ (UNCHANGED recorded \/ recorded' = Recorded(a, d)) /\ (UNCHANGED faults \/ Fault)
  <2>1. Alone(a) /\ ApplyTyped(a)' /\ lock' \in Elements \cup {Free}
    BY <1>1, <1>4, ReturnDoes, ReturnTyped
  <2>2. faults' \in 0..MaxFaults
    BY <1>1, <1>4, FaultTyped DEF CloudTyped
  <2>3. DOMAIN recorded' = Configs /\ \A c \in Configs : recorded'[c] # None => recorded'[c] \in [Owned[c] -> Values]
    BY <1>1, <1>3, <1>4, RecordedTyped DEF CloudTyped
  <2>4. CloudTyped'
    BY <1>1, <1>2, <2>1, <2>2, <2>3 DEF CloudTyped, history
  <2> QED
    BY <2>1, <2>4, StepTyped
<1>5. CASE /\ pc[a] = "state" /\ Goto(a, "writable") /\ doc' = [doc EXCEPT ![a] = d]
           /\ UNCHANGED <<lock, recorded, faults>>
  <2>1. pc'[a] = "writable" /\ want'[a] = want[a] /\ todo'[a] = todo[a] /\ doc'[a] = d /\ Alone(a)
    BY <1>1, <1>5, ReadDoes
  <2>2. ApplyTyped(a)'
    <3>1. todo'[a] = {} /\ Of({}) = {}
      BY <1>1, <1>5, <2>1 DEF ApplyTyped, Of
    <3>2. Partial(doc'[a]) /\ DOMAIN doc'[a] = Items
      BY <1>3, <2>1
    <3> QED
      BY <1>1, <1>5, <2>1, <3>1, <3>2 DEF ApplyTyped, Steps, Asking, Whole
  <2>3. CloudTyped'
    BY <1>1, <1>2, <1>5 DEF CloudTyped, history
  <2> QED
    BY <2>1, <2>2, <2>3, StepTyped
<1> QED
  BY <1>4, <1>5 DEF ReadState, RereadState, Refuse

\* An apply that stops, with or without a fault, and writes nothing.
LEMMA StopTyped ==
  ASSUME TypeInv, NEW a \in Appliers, Return(a), UNCHANGED faults \/ Fault,
         UNCHANGED <<settings, cloud, recorded, meant, raced, edits>>, journal' = journal \/ journal' = None
  PROVE  TypeInv'
<1>1. Shaped /\ CloudTyped
  BY DEF TypeInv
<1>2. Alone(a) /\ ApplyTyped(a)' /\ lock' \in Elements \cup {Free}
  BY <1>1, ReturnDoes, ReturnTyped
<1>3. faults' \in 0..MaxFaults
  BY <1>1, FaultTyped DEF CloudTyped
<1>4. Partial(journal') /\ \A i \in DOMAIN journal' : ItemsOf[KeyOf(i)] \subseteq DOMAIN journal'
  BY <1>1, NoneHasNothing DEF CloudTyped
<1>5. CloudTyped'
  BY <1>1, <1>2, <1>3, <1>4 DEF CloudTyped
<1> QED
  BY <1>2, <1>5, StepTyped

\* An apply that turns to writing keys of a document back.
LEMMA WayBackTyped ==
  ASSUME TypeInv, NEW a \in Appliers, NEW d, NEW keys, WayBack(a, d, keys), UNCHANGED faults \/ Fault,
         UNCHANGED <<settings, journal, cloud, recorded, history, edits>>,
         Partial(d), keys \subseteq Keys, Of(keys) \subseteq DOMAIN d
  PROVE  TypeInv'
<1>1. Shaped /\ CloudTyped /\ ApplyTyped(a)
  BY DEF TypeInv
<1>2. pc'[a] = "undo" /\ want'[a] = want[a] /\ doc'[a] = d /\ todo'[a] = keys /\ Alone(a) /\ lock' = lock
  BY <1>1, WayBackDoes
<1>3. faults' \in 0..MaxFaults
  BY <1>1, FaultTyped DEF CloudTyped
<1>4. CloudTyped'
  BY <1>1, <1>2, <1>3 DEF CloudTyped, history
<1>5. Partial(doc'[a]) /\ Of(todo'[a]) \subseteq DOMAIN doc'[a]
  BY <1>2
<1>6. ApplyTyped(a)'
  BY <1>1, <1>2, <1>5 DEF ApplyTyped, Steps, Asking, Whole
<1> QED
  BY <1>2, <1>4, <1>6, StepTyped

LEMMA ReadyTyped ==
  ASSUME TypeInv, NEW a \in Appliers, Writable(a) \/ Recover(a)
  PROVE  TypeInv'
<1>1. Shaped /\ CloudTyped /\ ApplyTyped(a) /\ pc[a] \in {"writable", "recover"}
      /\ UNCHANGED <<settings, journal, cloud, recorded, history, edits>>
  BY DEF TypeInv, Writable, Recover
<1>2. CASE Return(a) /\ (UNCHANGED faults \/ Fault)
  BY <1>1, <1>2, StopTyped DEF history
<1>3. ASSUME NEW step \in {"recover", "prepare"}, Goto(a, step), UNCHANGED <<lock, doc, faults>>
      PROVE  TypeInv'
  <2>1. pc'[a] = step /\ want'[a] = want[a] /\ todo'[a] = todo[a] /\ doc'[a] = doc[a] /\ Alone(a)
    BY <1>1, <1>3, GotoDoes
  <2>2. ApplyTyped(a)'
    BY <1>1, <2>1 DEF ApplyTyped, Steps, Asking, Whole
  <2>3. CloudTyped'
    BY <1>1, <1>3 DEF CloudTyped, history
  <2> QED
    BY <2>1, <2>2, <2>3, StepTyped
<1>4. CASE WayBack(a, journal, {KeyOf(i) : i \in DOMAIN journal}) /\ UNCHANGED faults
  <2> DEFINE keys == {KeyOf(i) : i \in DOMAIN journal}
  <2>1. keys \subseteq Keys
    BY <1>1, KeyOfItem DEF CloudTyped, Partial
  <2>2. Of(keys) \subseteq DOMAIN journal
    BY <1>1 DEF CloudTyped, Of
  <2> QED
    BY <1>1, <1>4, <2>1, <2>2, WayBackTyped DEF CloudTyped
<1> QED
  BY <1>2, <1>3, <1>4 DEF Writable, Recover

\* Of a plan: what is asked for, and the keys it changes.
LEMMA PlanIs ==
  ASSUME TypeInv, NEW a \in Appliers, pc[a] \in {"prepare", "stage"}
  PROVE  /\ want[a] \in [Owned[a] -> Values] /\ Owned[a] \subseteq Items
         /\ Partial(doc[a]) /\ DOMAIN doc[a] = Items
         /\ Changed(doc[a], want[a]) \subseteq Keys
         /\ Of(Changed(doc[a], want[a])) \subseteq Items
         /\ \A i \in Owned[a] : KeyOf(i) \notin Changed(doc[a], want[a]) => want[a][i] = doc[a][i]
<1>1. want[a] \in Asked[a] /\ Partial(doc[a]) /\ DOMAIN doc[a] = Items
  BY DEF TypeInv, ApplyTyped, Asking, Whole
<1>2. want[a] \in [Owned[a] -> Values] /\ DOMAIN want[a] = Owned[a] /\ Owned[a] \subseteq Items
  BY <1>1, WantedIs
<1>3. /\ Changed(doc[a], want[a]) \subseteq Keys
      /\ \A i \in Owned[a] : KeyOf(i) \notin Changed(doc[a], want[a]) => want[a][i] = doc[a][i]
  BY <1>2, ChangedIs
<1> QED
  BY <1>1, <1>2, <1>3, ItemsAreTyped

LEMMA PrepareTyped ==
  ASSUME TypeInv, NEW a \in Appliers, Prepare(a)
  PROVE  TypeInv'
<1> DEFINE keys == Changed(doc[a], want[a])
<1>1. Shaped /\ CloudTyped /\ ApplyTyped(a) /\ pc[a] = "prepare"
      /\ UNCHANGED <<settings, cloud, recorded, history, edits>>
  BY DEF TypeInv, Prepare
<1>2. CASE Return(a) /\ (UNCHANGED faults \/ Fault) /\ UNCHANGED journal
  BY <1>1, <1>2, StopTyped DEF history
<1>3. CASE /\ journal' = OfKeys(doc[a], keys)
           /\ pc' = [pc EXCEPT ![a] = "stage"] /\ todo' = [todo EXCEPT ![a] = keys]
           /\ UNCHANGED <<lock, want, doc, faults>>
  <2>1. keys \subseteq Keys /\ Of(keys) \subseteq Items /\ Partial(doc[a]) /\ DOMAIN doc[a] = Items
    BY <1>1, PlanIs
  <2>2. pc'[a] = "stage" /\ todo'[a] = keys /\ want'[a] = want[a] /\ doc'[a] = doc[a] /\ Alone(a)
    BY <1>1, <1>3 DEF Shaped, Alone
  <2>3. Partial(journal') /\ DOMAIN journal' = Of(keys)
    BY <1>3, <2>1, ItemsAreTyped
  <2>4. \A i \in DOMAIN journal' : ItemsOf[KeyOf(i)] \subseteq DOMAIN journal'
    <3>1. ASSUME NEW i \in Of(keys)
          PROVE  ItemsOf[KeyOf(i)] \subseteq Of(keys)
      <4>1. PICK k \in keys : i \in ItemsOf[k]
        BY DEF Of
      <4> QED
        BY <2>1, <4>1, KeyOfItem, OfMember
    <3> QED
      BY <2>3, <3>1
  <2>5. CloudTyped'
    BY <1>1, <1>3, <2>3, <2>4 DEF CloudTyped, history
  <2>6. Partial(doc'[a]) /\ DOMAIN doc'[a] = Items /\ Of(todo'[a]) \subseteq DOMAIN doc'[a] /\ todo'[a] \subseteq Keys
    BY <2>1, <2>2
  <2>7. ApplyTyped(a)'
    BY <1>1, <2>2, <2>6 DEF ApplyTyped, Steps, Asking, Whole
  <2> QED
    BY <2>2, <2>5, <2>7, StepTyped
<1> QED
  BY <1>2, <1>3 DEF Prepare

\* One key of a document, written to the cloud.
LEMMA KeyWritten ==
  ASSUME NEW k \in Keys, NEW d, ItemsOf[k] \subseteq DOMAIN d, cloud \in [Items -> Values],
         \A i \in ItemsOf[k] : d[i] \in Values, cloud' = Overlaid(cloud, OfKeys(d, {k}))
  PROVE  /\ cloud' \in [Items -> Values]
         /\ \A i \in Items : cloud'[i] = IF i \in ItemsOf[k] THEN d[i] ELSE cloud[i]
<1>1. DOMAIN OfKeys(d, {k}) = ItemsOf[k] /\ \A i \in ItemsOf[k] : OfKeys(d, {k})[i] = d[i]
  <2>1. Of({k}) = ItemsOf[k]
    BY OfOne
  <2>2. DOMAIN OfKeys(d, {k}) = Of({k}) /\ \A i \in Of({k}) : OfKeys(d, {k})[i] = d[i]
    BY OfKeysIs
  <2> QED
    BY <2>1, <2>2
<1>2. DOMAIN cloud' = Items
      /\ \A i \in Items : cloud'[i] = IF i \in DOMAIN OfKeys(d, {k}) THEN OfKeys(d, {k})[i] ELSE cloud[i]
  BY OverlaidIs
<1>3. \A i \in Items : cloud'[i] = IF i \in ItemsOf[k] THEN d[i] ELSE cloud[i]
  BY <1>1, <1>2
<1>4. \A i \in Items : cloud'[i] \in Values
  BY <1>3
<1>5. cloud' = [i \in Items |-> cloud'[i]]
  BY <1>2 DEF Overlaid
<1> QED
  BY <1>3, <1>4, <1>5

\* What stays to be written of a transaction when one key is.
LEMMA OneLessTodo ==
  ASSUME NEW a \in Appliers, Shaped, ApplyTyped(a), NEW k \in todo[a],
         todo' = [todo EXCEPT ![a] = @ \ {k}], UNCHANGED <<pc, want, doc>>, pc[a] \in {"stage", "undo"}
  PROVE  ApplyTyped(a)' /\ Alone(a) /\ todo'[a] = todo[a] \ {k}
<1>1. todo'[a] = todo[a] \ {k} /\ Alone(a) /\ pc'[a] = pc[a] /\ want'[a] = want[a] /\ doc'[a] = doc[a]
  BY DEF Shaped, Alone
<1>2. Of(todo'[a]) \subseteq Of(todo[a])
  BY <1>1 DEF Of
<1>3. Partial(doc'[a]) /\ Of(todo'[a]) \subseteq DOMAIN doc'[a] /\ todo'[a] \subseteq Keys
  BY <1>1, <1>2 DEF ApplyTyped
<1> QED
  BY <1>1, <1>3 DEF ApplyTyped

\* The document an apply stages, and what a key of it holds.
LEMMA StagedIs ==
  ASSUME TypeInv, NEW a \in Appliers, pc[a] = "stage"
  PROVE  /\ DOMAIN Overlaid(doc[a], want[a]) = Items
         /\ \A i \in Items : Overlaid(doc[a], want[a])[i] = IF i \in Owned[a] THEN want[a][i] ELSE doc[a][i]
         /\ \A i \in Items : Overlaid(doc[a], want[a])[i] \in Values
<1>1. want[a] \in [Owned[a] -> Values] /\ Owned[a] \subseteq Items /\ Partial(doc[a]) /\ DOMAIN doc[a] = Items
  BY PlanIs
<1>2. /\ DOMAIN Overlaid(doc[a], want[a]) = DOMAIN doc[a]
      /\ \A i \in DOMAIN doc[a] : Overlaid(doc[a], want[a])[i] = IF i \in DOMAIN want[a] THEN want[a][i] ELSE doc[a][i]
  BY OverlaidIs
<1>3. \A i \in Items : Overlaid(doc[a], want[a])[i] = IF i \in Owned[a] THEN want[a][i] ELSE doc[a][i]
  BY <1>1, <1>2
<1>4. ASSUME NEW i \in Items
      PROVE  Overlaid(doc[a], want[a])[i] \in Values
  <2>1. doc[a][i] \in Values /\ (i \in Owned[a] => want[a][i] \in Values)
    BY <1>1 DEF Partial
  <2> QED
    BY <1>3, <2>1
<1> QED
  BY <1>1, <1>2, <1>3, <1>4

LEMMA KeyStagedDoes ==
  ASSUME TypeInv, NEW a \in Appliers, pc[a] = "stage", NEW k \in todo[a],
         cloud' = Overlaid(cloud, OfKeys(Overlaid(doc[a], want[a]), {k}))
  PROVE  /\ cloud' \in [Items -> Values]
         /\ \A i \in Items : cloud'[i] = IF i \in ItemsOf[k] THEN Overlaid(doc[a], want[a])[i] ELSE cloud[i]
<1>1. k \in Keys /\ cloud \in [Items -> Values]
  BY DEF TypeInv, CloudTyped, ApplyTyped
<1>2. ItemsOf[k] \subseteq Items
  BY <1>1, KeyOfItem
<1>3. ItemsOf[k] \subseteq DOMAIN Overlaid(doc[a], want[a]) /\ \A i \in ItemsOf[k] : Overlaid(doc[a], want[a])[i] \in Values
  BY <1>2, StagedIs
<1> QED
  BY <1>1, <1>3, KeyWritten

LEMMA KeyUndoneDoes ==
  ASSUME TypeInv, NEW a \in Appliers, NEW k \in todo[a], cloud' = Overlaid(cloud, OfKeys(doc[a], {k}))
  PROVE  /\ cloud' \in [Items -> Values]
         /\ \A i \in Items : cloud'[i] = IF i \in ItemsOf[k] THEN doc[a][i] ELSE cloud[i]
<1>1. k \in Keys /\ cloud \in [Items -> Values] /\ Partial(doc[a]) /\ Of(todo[a]) \subseteq DOMAIN doc[a]
  BY DEF TypeInv, CloudTyped, ApplyTyped
<1>2. ItemsOf[k] \subseteq DOMAIN doc[a] /\ \A i \in ItemsOf[k] : doc[a][i] \in Values
  BY <1>1, OfMember DEF Partial
<1> QED
  BY <1>1, <1>2, KeyWritten

LEMMA StageTyped ==
  ASSUME TypeInv, NEW a \in Appliers, Stage(a)
  PROVE  TypeInv'
<1>1. Shaped /\ CloudTyped /\ ApplyTyped(a) /\ pc[a] = "stage"
      /\ UNCHANGED <<settings, journal, recorded, history, edits>>
  BY DEF TypeInv, Stage
<1>2. ASSUME NEW k \in todo[a], cloud' = Overlaid(cloud, OfKeys(Overlaid(doc[a], want[a]), {k})),
             todo' = [todo EXCEPT ![a] = @ \ {k}], UNCHANGED <<lock, pc, want, doc, faults>>
      PROVE  TypeInv'
  <2>1. cloud' \in [Items -> Values]
    BY <1>1, <1>2, KeyStagedDoes
  <2>2. ApplyTyped(a)' /\ Alone(a)
    BY <1>1, <1>2, OneLessTodo
  <2>3. CloudTyped'
    BY <1>1, <1>2, <2>1 DEF CloudTyped, history
  <2> QED
    BY <2>2, <2>3, StepTyped
<1>3. CASE Fault /\ AbortStaging(a) /\ UNCHANGED cloud
  <2> DEFINE keys == Changed(doc[a], want[a]) \ todo[a]
  <2>1. keys \subseteq Keys /\ Partial(doc[a]) /\ DOMAIN doc[a] = Items
    BY <1>1, PlanIs
  <2>2. Of(keys) \subseteq Items
    BY <2>1, ItemsAreTyped
  <2> QED
    BY <1>1, <1>3, <2>1, <2>2, WayBackTyped DEF AbortStaging
<1> QED
  BY <1>2, <1>3 DEF Stage

LEMMA CommitTyped ==
  ASSUME TypeInv, NEW a \in Appliers, Commit(a)
  PROVE  TypeInv'
<1> DEFINE keys == Changed(doc[a], want[a])
<1>1. Shaped /\ CloudTyped /\ ApplyTyped(a) /\ pc[a] = "stage" /\ todo[a] = {}
      /\ UNCHANGED <<settings, cloud, recorded, raced, stranded, edits>>
  BY DEF TypeInv, Commit
<1>2. want[a] \in [Owned[a] -> Values] /\ Owned[a] \subseteq Items /\ keys \subseteq Keys
      /\ Partial(doc[a]) /\ DOMAIN doc[a] = Items /\ Of(keys) \subseteq DOMAIN doc[a]
  BY <1>1, PlanIs
<1>3. CASE Return(a) /\ UNCHANGED <<journal, meant, faults>>
  BY <1>1, <1>3, StopTyped
<1>4. CASE Fault /\ WayBack(a, doc[a], keys) /\ UNCHANGED <<journal, meant>>
  BY <1>1, <1>2, <1>4, WayBackTyped DEF history
<1>5. CASE /\ journal' = None /\ meant' = Overlaid(meant, want[a]) /\ UNCHANGED faults
           /\ IF a \in Elements THEN Return(a) ELSE Goto(a, "resite") /\ UNCHANGED <<lock, doc>>
  <2>1. meant' \in [Items -> Values]
    <3>1. meant \in [Items -> Values]
      BY <1>1 DEF CloudTyped
    <3>2. DOMAIN meant' = Items
          /\ \A i \in Items : meant'[i] = IF i \in DOMAIN want[a] THEN want[a][i] ELSE meant[i]
      BY <1>5, <3>1, OverlaidIs
    <3>3. meant' = [i \in Items |-> meant'[i]]
      BY <1>5, <3>2 DEF Overlaid
    <3> QED
      BY <1>2, <3>1, <3>2, <3>3
  <2>2. ApplyTyped(a)' /\ Alone(a) /\ lock' \in Elements \cup {Free}
    <3>1. CASE Return(a)
      BY <1>1, <3>1, ReturnDoes, ReturnTyped
    <3>2. CASE Goto(a, "resite") /\ UNCHANGED <<lock, doc>>
      <4>1. pc'[a] = "resite" /\ want'[a] = want[a] /\ todo'[a] = todo[a] /\ doc'[a] = doc[a] /\ Alone(a)
        BY <1>1, <3>2, GotoDoes
      <4>2. ApplyTyped(a)'
        BY <1>1, <4>1 DEF ApplyTyped, Steps, Asking, Whole
      <4> QED
        BY <1>1, <3>2, <4>1, <4>2 DEF CloudTyped
    <3> QED
      BY <1>5, <3>1, <3>2
  <2>3. CloudTyped'
    <3>1. Partial(journal') /\ DOMAIN journal' = {}
      BY <1>5, NoneHasNothing
    <3> QED
      BY <1>1, <1>5, <2>1, <2>2, <3>1 DEF CloudTyped
  <2> QED
    BY <2>2, <2>3, StepTyped
<1> QED
  BY <1>3, <1>4, <1>5 DEF Commit

LEMMA UndoTyped ==
  ASSUME TypeInv, NEW a \in Appliers, Undo(a)
  PROVE  TypeInv'
<1>1. Shaped /\ CloudTyped /\ ApplyTyped(a) /\ pc[a] = "undo" /\ UNCHANGED <<settings, recorded, meant, raced, edits>>
  BY DEF TypeInv, Undo
<1>2. ASSUME NEW k \in todo[a], cloud' = Overlaid(cloud, OfKeys(doc[a], {k})),
             todo' = [todo EXCEPT ![a] = @ \ {k}], UNCHANGED <<lock, pc, want, doc, journal, stranded, faults>>
      PROVE  TypeInv'
  <2>1. cloud' \in [Items -> Values]
    BY <1>2, KeyUndoneDoes
  <2>2. ApplyTyped(a)' /\ Alone(a)
    BY <1>1, <1>2, OneLessTodo
  <2>3. CloudTyped'
    BY <1>1, <1>2, <2>1 DEF CloudTyped
  <2> QED
    BY <2>2, <2>3, StepTyped
<1>3. CASE Return(a) /\ (UNCHANGED faults \/ Fault) /\ UNCHANGED cloud /\ (journal' = None \/ UNCHANGED journal)
  BY <1>1, <1>3, StopTyped
<1> QED
  BY <1>2, <1>3 DEF Undo

LEMMA PortalTyped ==
  ASSUME TypeInv, NEW i \in Items, Edit(i)
  PROVE  TypeInv'
<1>1. CloudTyped
  BY DEF TypeInv
<1>2. Shaped' /\ \A a \in Appliers : ApplyTyped(a)'
  BY DEF TypeInv, Edit, local, Shaped, ApplyTyped
<1>3. PICK v \in Values : cloud' = [cloud EXCEPT ![i] = v] /\ meant' = [meant EXCEPT ![i] = v]
  BY DEF Edit
<1>4. cloud' \in [Items -> Values] /\ meant' \in [Items -> Values] /\ raced' \subseteq Items
  BY <1>1, <1>3 DEF CloudTyped, Edit
<1>5. edits' \in 0..MaxEdits
  BY <1>1, BoundsAssumption DEF CloudTyped, Edit
<1>6. CloudTyped'
  BY <1>1, <1>4, <1>5 DEF CloudTyped, Edit
<1> QED
  BY <1>2, <1>6 DEF TypeInv

LEMMA CrashTyped ==
  ASSUME TypeInv, Crash
  PROVE  TypeInv'
<1>1. Shaped'
  BY DEF Crash, Shaped
<1>2. ASSUME NEW a \in Appliers
      PROVE  ApplyTyped(a)'
  <2>1. pc'[a] = "idle" /\ want'[a] = None /\ doc'[a] = None /\ todo'[a] = {}
    BY DEF Crash
  <2>2. Partial(doc'[a])
    BY <2>1, NoneHasNothing
  <2> QED
    BY <2>1, <2>2 DEF ApplyTyped, Of, Steps, Asking, Whole
<1>3. faults' \in 0..MaxFaults
  BY FaultTyped DEF Crash
<1>4. CloudTyped'
  BY <1>3 DEF TypeInv, CloudTyped, Crash
<1> QED
  BY <1>1, <1>2, <1>4 DEF TypeInv

LEMMA NextTyped == TypeInv /\ [Next]_vars => TypeInv'
<1> SUFFICES ASSUME TypeInv, [Next]_vars
             PROVE  TypeInv'
  OBVIOUS
<1>1. ASSUME NEW a \in Appliers, Begin(a) \/ Apply(a)
      PROVE  TypeInv'
  BY <1>1, TerraformTyped, ReadSiteTyped, ReadStateTyped, ReadyTyped, PrepareTyped, StageTyped, CommitTyped, UndoTyped
     DEF Apply
<1>2. ASSUME NEW c \in Configs, Refresh(c) \/ Forget(c)
      PROVE  TypeInv'
  BY <1>2, TerraformTyped, ForgetTyped DEF Appliers
<1>3. CASE UNCHANGED vars
  BY <1>3 DEF vars, local, history, TypeInv, Shaped, CloudTyped, ApplyTyped
<1> QED
  BY <1>1, <1>2, <1>3, AcquireTyped, PortalTyped, CrashTyped DEF Next

\* Types, whatever overlaps: an apply has read the whole document when it plans, is staging
\* or undoing keys it has a value for, and knows what it was asked for until it has written it.
THEOREM ProviderTypeCorrect == Spec => []TypeOK
<1>1. TypeInv => TypeOK
  <2> SUFFICES ASSUME TypeInv
               PROVE  TypeOK
    OBVIOUS
  <2>1. pc \in [Appliers -> Steps]
    BY DEF TypeInv, Shaped, ApplyTyped
  <2> QED
    BY <2>1 DEF TypeInv, CloudTyped, ApplyTyped, Partial, TypeOK, Whole
<1>2. Spec => []TypeInv
  BY InitTyped, NextTyped, PTL DEF Spec
<1> QED
  BY <1>1, <1>2, PTL

-----------------------------------------------------------------------------
(***************************************************************************)
(* What the lock is for: with a router_config applied by itself, every     *)
(* apply is a transaction of its own, and the cloud holds what they and    *)
(* the portal meant, one after another.                                    *)
(***************************************************************************)
Plain == Items \ raced
Active(a) == pc[a] \notin {"idle", "lock"}

\* The one that holds the lock is the one element under way; a router_config is by itself.
OrderOK ==
  /\ \A a \in Elements : Active(a) <=> lock = a
  /\ \A c \in Configs : pc[c] # "lock" /\ (pc[c] # "idle" => \A b \in Appliers \ {c} : pc[b] = "idle")

\* Outside an unfinished transaction the cloud is what was meant; for the rest of it the
\* journal is.
JournalOK ==
  /\ \A i \in Plain \ DOMAIN journal : cloud[i] = meant[i]
  /\ \A i \in Plain \cap DOMAIN journal : journal[i] = meant[i]

\* What an apply has read is what is there.
ReadOK(a) == pc[a] \in {"state", "writable", "recover", "prepare"} => \A i \in Plain \cap DOMAIN doc[a] : doc[a][i] = cloud[i]

\* A transaction's keys hold what was read until they are staged; nothing else is written.
StageOK(a) ==
  pc[a] = "stage" =>
    LET keys == Changed(doc[a], want[a]) IN
    /\ journal = OfKeys(doc[a], keys) /\ todo[a] \subseteq keys
    /\ \A i \in Plain : cloud[i] = IF KeyOf(i) \in keys \ todo[a] THEN Overlaid(doc[a], want[a])[i] ELSE doc[a][i]

\* A way back writes the journal's pre-images, and those of no other key.
UndoOK(a) ==
  pc[a] = "undo" =>
    /\ Of(todo[a]) \subseteq DOMAIN journal /\ DOMAIN journal \subseteq DOMAIN doc[a]
    /\ \A i \in DOMAIN journal : doc[a][i] = journal[i]
    /\ \A i \in (Plain \cap DOMAIN journal) \ Of(todo[a]) : cloud[i] = doc[a][i]

\* The document a router_config goes on with shows what its state does.
SeenOK(a) ==
  a \in Configs /\ pc[a] \in Whole /\ recorded[a] # None => \A i \in Owned[a] : doc[a][i] = recorded[a][i]

ApplyOK(a) == ReadOK(a) /\ StageOK(a) /\ UndoOK(a) /\ SeenOK(a)
IInv == TypeInv /\ OrderOK /\ JournalOK /\ \A a \in Appliers : ApplyOK(a)

-----------------------------------------------------------------------------
(***************************************************************************)
(* No apply leaves a transaction behind.                                   *)
(***************************************************************************)
LEMMA NextLeavesNothing == TypeInv /\ NothingLeftOpen /\ [Next]_vars => NothingLeftOpen'
<1> SUFFICES ASSUME TypeInv, NothingLeftOpen, [Next]_vars
             PROVE  NothingLeftOpen'
  OBVIOUS
<1> USE DEF NothingLeftOpen
<1>0. Shaped
  BY DEF TypeInv
<1>1. ASSUME NEW a \in Appliers, Alone(a), UNCHANGED <<journal, stranded>>,
             pc[a] \in {"stage", "undo"} => pc'[a] \in {"stage", "undo"}
      PROVE  NothingLeftOpen'
  BY <1>1 DEF Alone
<1>2. ASSUME NEW a \in Appliers, Begin(a) \/ (a \in Configs /\ (Refresh(a) \/ Forget(a))) \/ (a \in Elements /\ Acquire(a))
      PROVE  NothingLeftOpen'
  <2>1. CASE Begin(a)
    <3>1. Alone(a) /\ UNCHANGED <<journal, stranded>> /\ pc[a] = "idle"
      BY <1>0, <2>1 DEF Begin, MayStart, Shaped, Alone, history
    <3> QED
      BY <1>1, <3>1
  <2>2. CASE Refresh(a) \/ Acquire(a)
    <3>1. UNCHANGED <<journal, stranded, doc>> /\ pc[a] \in {"idle", "lock"} /\ \E step \in Steps : Goto(a, step)
      BY <2>2 DEF Refresh, Acquire, MayStart, history, Steps
    <3>2. Alone(a)
      BY <1>0, <3>1, GotoDoes
    <3> QED
      BY <1>1, <3>1, <3>2
  <2>3. CASE Forget(a)
    BY <2>3 DEF Forget, local, history
  <2> QED
    BY <1>2, <2>1, <2>2, <2>3
<1>3. ASSUME NEW a \in Appliers, Apply(a)
      PROVE  NothingLeftOpen'
  <2>1. ASSUME Return(a), pc[a] \notin {"stage", "undo"}, UNCHANGED <<journal, stranded>>
        PROVE  NothingLeftOpen'
    <3>1. Alone(a)
      BY <1>0, <2>1, ReturnDoes
    <3> QED
      BY <1>1, <2>1, <3>1
  <2>2. ASSUME NEW step, NEW d, Goto(a, step), doc' = [doc EXCEPT ![a] = d] \/ UNCHANGED doc,
               pc[a] \notin {"stage", "undo"}, UNCHANGED <<journal, stranded>>
        PROVE  NothingLeftOpen'
    <3>1. Alone(a)
      BY <1>0, <2>2, GotoDoes, ReadDoes
    <3> QED
      BY <1>1, <2>2, <3>1
  <2>3. ASSUME NEW d, NEW keys, WayBack(a, d, keys), UNCHANGED <<journal, stranded>>
        PROVE  NothingLeftOpen'
    <3>1. Alone(a) /\ pc'[a] = "undo"
      BY <1>0, <2>3, WayBackDoes
    <3> QED
      BY <1>1, <2>3, <3>1
  <2>4. CASE ReadSite(a) \/ RereadSite(a)
    BY <2>1, <2>2, <2>4 DEF ReadSite, RereadSite, history
  <2>5. CASE ReadState(a) \/ RereadState(a)
    BY <2>1, <2>2, <2>5 DEF ReadState, RereadState, Refuse, history
  <2>6. CASE Writable(a) \/ Recover(a)
    BY <2>1, <2>2, <2>3, <2>6 DEF Writable, Recover, history
  <2>7. CASE Prepare(a)
    <3>1. CASE pc' = [pc EXCEPT ![a] = "stage"]
      BY <1>0, <3>1 DEF Shaped
    <3> QED
      BY <2>1, <2>7, <3>1 DEF Prepare, history
  <2>8. CASE Stage(a)
    <3>1. CASE UNCHANGED pc
      BY <2>8, <3>1 DEF Stage, history
    <3> QED
      BY <2>3, <2>8, <3>1 DEF Stage, AbortStaging, history
  <2>9. CASE Commit(a)
    BY <2>3, <2>9 DEF Commit
  <2>10. CASE Undo(a)
    BY <2>10 DEF Undo
  <2> QED
    BY <1>3, <2>4, <2>5, <2>6, <2>7, <2>8, <2>9, <2>10 DEF Apply
<1>4. ASSUME NEW i \in Items, Edit(i)
      PROVE  NothingLeftOpen'
  BY <1>4 DEF Edit, local
<1>5. CASE Crash
  BY <1>5 DEF Crash
<1>6. CASE UNCHANGED vars
  BY <1>6 DEF vars, local, history
<1> QED
  BY <1>2, <1>3, <1>4, <1>5, <1>6 DEF Next, Appliers

\* An apply that has finished, whatever it answered, leaves no transaction behind unless the
\* way back failed or the process died; whatever overlaps.
THEOREM NoApplyLeavesATransaction == Spec => []NothingLeftOpen
<1>1. Init => NothingLeftOpen
  BY DEF Init, NothingLeftOpen
<1>2. Spec => []TypeInv
  BY InitTyped, NextTyped, PTL DEF Spec
<1> QED
  BY <1>1, <1>2, NextLeavesNothing, PTL DEF Spec

-----------------------------------------------------------------------------
(***************************************************************************)
(* One apply at a time.                                                    *)
(***************************************************************************)
LEMMA OneActive ==
  ASSUME OrderOK, NEW a \in Appliers, NEW b \in Appliers, Active(a), Active(b)
  PROVE  a = b
<1>1. CASE a \in Elements /\ b \in Elements
  BY <1>1 DEF OrderOK
<1>2. CASE a \in Configs \/ b \in Configs
  BY <1>2 DEF OrderOK, Active
<1> QED
  BY <1>1, <1>2 DEF Appliers

\* A step of the one that is under way, which goes on with its lock or returns it.
LEMMA OrderStep ==
  ASSUME OrderOK, NEW a \in Appliers, Active(a), Alone(a),
         \/ Active(a)' /\ lock' = lock
         \/ pc'[a] = "idle" /\ lock' = IF lock = a THEN Free ELSE lock
  PROVE  OrderOK'
<1>1. \A b \in Appliers \ {a} : pc'[b] = pc[b] /\ ~Active(b)
  BY OneActive DEF Alone
<1>2. ASSUME NEW b \in Elements
      PROVE  Active(b)' <=> lock' = b
  <2>1. CASE b = a
    BY <2>1, OwnedAssumption DEF OrderOK, Active, Appliers
  <2>2. CASE b # a
    BY <1>1, <2>2, OwnedAssumption DEF OrderOK, Active, Appliers
  <2> QED
    BY <2>1, <2>2
<1>3. ASSUME NEW c \in Configs
      PROVE  pc'[c] # "lock" /\ (pc'[c] # "idle" => \A b \in Appliers \ {c} : pc'[b] = "idle")
  <2>1. CASE c = a
    <3>1. pc[c] # "idle" /\ pc[c] # "lock" /\ pc'[c] # "lock"
      BY <2>1 DEF Active
    <3>2. \A b \in Appliers \ {c} : pc[b] = "idle"
      BY <3>1 DEF OrderOK
    <3> QED
      BY <1>1, <2>1, <3>1, <3>2
  <2>2. CASE c # a
    <3>1. pc[c] = "idle" /\ pc'[c] = pc[c]
      BY <1>1, <2>2 DEF OrderOK, Active, Appliers
    <3> QED
      BY <3>1
  <2> QED
    BY <2>1, <2>2
<1> QED
  BY <1>2, <1>3 DEF OrderOK

LEMMA StepSafe ==
  ASSUME IInv, NEW a \in Appliers, Active(a), Alone(a), TypeInv',
         \/ Active(a)' /\ lock' = lock
         \/ pc'[a] = "idle" /\ lock' = IF lock = a THEN Free ELSE lock,
         JournalOK', ApplyOK(a)'
  PROVE  IInv'
<1>1. OrderOK'
  BY OrderStep DEF IInv
<1>2. ASSUME NEW b \in Appliers \ {a}
      PROVE  ApplyOK(b)'
  <2>1. pc'[b] \in {"idle", "lock"}
    BY OneActive DEF IInv, Alone, Active
  <2> QED
    BY <2>1 DEF ApplyOK, ReadOK, StageOK, UndoOK, SeenOK, Whole
<1> QED
  BY <1>1, <1>2 DEF IInv

\* An apply that stops before its transaction, or leaves it to the journal.
LEMMA StopSafe ==
  ASSUME IInv, NEW a \in Appliers, Active(a), TypeInv', Return(a), JournalOK'
  PROVE  IInv'
<1>1. Alone(a) /\ pc'[a] = "idle" /\ lock' = IF lock = a THEN Free ELSE lock
  BY ReturnDoes DEF IInv, TypeInv
<1>2. ApplyOK(a)'
  BY <1>1 DEF ApplyOK, ReadOK, StageOK, UndoOK, SeenOK, Whole
<1> QED
  BY <1>1, <1>2, StepSafe

LEMMA JournalSame ==
  ASSUME JournalOK, UNCHANGED <<journal, cloud, meant, raced>>
  PROVE  JournalOK'
BY DEF JournalOK, Plain

LEMMA ApplySame ==
  ASSUME NEW b \in Appliers, ApplyOK(b), pc'[b] = pc[b], want'[b] = want[b], doc'[b] = doc[b], todo'[b] = todo[b],
         UNCHANGED <<journal, cloud, raced>>, b \in Configs /\ pc[b] \in Whole => recorded'[b] = recorded[b]
  PROVE  ApplyOK(b)'
<1>1. ReadOK(b)' /\ UndoOK(b)'
  BY DEF ApplyOK, ReadOK, UndoOK, Plain
<1>2. StageOK(b)'
  <2> SUFFICES ASSUME pc'[b] = "stage"
               PROVE  StageOK(b)'
    BY DEF StageOK
  <2>1. Changed(doc'[b], want'[b]) = Changed(doc[b], want[b]) /\ Overlaid(doc'[b], want'[b]) = Overlaid(doc[b], want[b])
        /\ OfKeys(doc'[b], Changed(doc'[b], want'[b])) = OfKeys(doc[b], Changed(doc[b], want[b]))
    OBVIOUS
  <2> QED
    BY <2>1 DEF ApplyOK, StageOK, Plain
<1>3. SeenOK(b)'
  BY DEF ApplyOK, SeenOK
<1> QED
  BY <1>1, <1>2, <1>3 DEF ApplyOK

-----------------------------------------------------------------------------
(***************************************************************************)
(* Each step.                                                              *)
(***************************************************************************)
LEMMA BeginSafe ==
  ASSUME ~Overlap, IInv, TypeInv', NEW a \in Appliers, Begin(a) \/ (a \in Configs /\ Refresh(a))
  PROVE  IInv'
<1>1. /\ pc[a] = "idle" /\ UNCHANGED <<lock, journal, cloud, recorded, meant, raced, doc, todo>> /\ Shaped
      /\ \A b \in Appliers : a \in Configs \/ b \in Configs => pc[b] = "idle"
  <2>1. CASE Begin(a)
    BY <2>1 DEF IInv, TypeInv, Begin, MayStart, history
  <2>2. CASE a \in Configs /\ Refresh(a)
    BY <2>2 DEF IInv, TypeInv, Refresh, MayStart, history, Goto
  <2> QED
    BY <2>1, <2>2
<1>2. Alone(a) /\ pc'[a] = (IF a \in Elements THEN "lock" ELSE pc'[a]) /\ pc'[a] \in {"lock", "site", "resite"}
      /\ (a \in Configs => pc'[a] # "lock")
  <2>1. CASE Begin(a)
    BY <1>1, <2>1, OwnedAssumption DEF Begin, Shaped, Alone
  <2>2. CASE a \in Configs /\ Refresh(a)
    <3>1. Goto(a, "resite") /\ a \notin Elements
      BY <2>2, OwnedAssumption DEF Refresh
    <3> QED
      BY <1>1, <3>1, GotoDoes
  <2> QED
    BY <2>1, <2>2
<1>3. OrderOK'
  <2>1. ASSUME NEW b \in Elements
        PROVE  Active(b)' <=> lock' = b
    BY <1>1, <1>2 DEF IInv, OrderOK, Active, Alone, Appliers
  <2>2. ASSUME NEW c \in Configs
        PROVE  pc'[c] # "lock" /\ (pc'[c] # "idle" => \A b \in Appliers \ {c} : pc'[b] = "idle")
    BY <1>1, <1>2 DEF IInv, OrderOK, Alone, Appliers
  <2> QED
    BY <2>1, <2>2 DEF OrderOK
<1>4. JournalOK'
  BY <1>1, JournalSame DEF IInv
<1>5. ASSUME NEW b \in Appliers
      PROVE  ApplyOK(b)'
  <2>1. CASE b = a
    BY <1>2, <2>1 DEF ApplyOK, ReadOK, StageOK, UndoOK, SeenOK, Whole
  <2>2. CASE b # a
    BY <1>1, <1>2, <2>2, ApplySame DEF IInv, Alone
  <2> QED
    BY <2>1, <2>2
<1> QED
  BY <1>3, <1>4, <1>5 DEF IInv

LEMMA ForgetSafe ==
  ASSUME IInv, TypeInv', NEW c \in Configs, Forget(c)
  PROVE  IInv'
<1>1. pc[c] = "idle" /\ UNCHANGED <<lock, pc, want, doc, todo, journal, cloud, meant, raced>>
      /\ recorded' = [recorded EXCEPT ![c] = None]
  BY DEF Forget, MayStart, local, history
<1>2. OrderOK' /\ JournalOK'
  BY <1>1, JournalSame DEF IInv, OrderOK, Active
<1>3. ASSUME NEW b \in Appliers
      PROVE  ApplyOK(b)'
  <2>1. b \in Configs /\ pc[b] \in Whole => recorded'[b] = recorded[b]
    BY <1>1 DEF IInv, TypeInv, CloudTyped, Whole
  <2> QED
    BY <1>1, <2>1, ApplySame DEF IInv
<1> QED
  BY <1>2, <1>3 DEF IInv

LEMMA AcquireSafe ==
  ASSUME IInv, TypeInv', NEW a \in Elements, Acquire(a)
  PROVE  IInv'
<1>1. /\ pc[a] = "lock" /\ lock = Free /\ lock' = a /\ a \in Appliers
      /\ pc'[a] = "site" /\ Alone(a) /\ UNCHANGED <<journal, cloud, meant, raced>>
  BY GotoDoes DEF IInv, TypeInv, Acquire, history, Appliers
<1>2. \A b \in Appliers : ~Active(b)
  <2>1. \A b \in Elements : ~Active(b)
    BY <1>1, OwnedAssumption DEF IInv, OrderOK, Appliers
  <2>2. \A c \in Configs : pc[c] = "idle"
    BY <1>1, OwnedAssumption DEF IInv, OrderOK, Appliers
  <2> QED
    BY <2>1, <2>2 DEF Active, Appliers
<1>3. OrderOK'
  <2>1. ASSUME NEW b \in Elements
        PROVE  Active(b)' <=> lock' = b
    BY <1>1, <1>2 DEF Active, Alone, Appliers
  <2>2. ASSUME NEW c \in Configs
        PROVE  pc'[c] = "idle"
    BY <1>1, OwnedAssumption DEF IInv, OrderOK, Alone, Appliers
  <2> QED
    BY <2>1, <2>2 DEF OrderOK
<1>4. ASSUME NEW b \in Appliers
      PROVE  ApplyOK(b)'
  <2>1. pc'[b] \in {"idle", "lock", "site"}
    BY <1>1, <1>2 DEF Active, Alone
  <2> QED
    BY <2>1 DEF ApplyOK, ReadOK, StageOK, UndoOK, SeenOK, Whole
<1> QED
  BY <1>1, <1>3, <1>4, JournalSame DEF IInv

LEMMA ReadSiteSafe ==
  ASSUME IInv, TypeInv', NEW a \in Appliers, ReadSite(a) \/ RereadSite(a)
  PROVE  IInv'
<1>1. /\ UNCHANGED <<journal, cloud, meant, raced>> /\ Active(a) /\ JournalOK'
  BY JournalSame DEF IInv, ReadSite, RereadSite, Active, history
<1>2. CASE Return(a)
  BY <1>1, <1>2, StopSafe
<1>3. ASSUME NEW step \in {"state", "restate"}, Goto(a, step),
             doc' = [doc EXCEPT ![a] = OfKeys(cloud, SiteKeys)], UNCHANGED lock
      PROVE  IInv'
  <2>1. pc'[a] = step /\ doc'[a] = OfKeys(cloud, SiteKeys) /\ Alone(a)
    BY <1>3, ReadDoes DEF IInv, TypeInv
  <2>2. \A i \in DOMAIN doc'[a] : doc'[a][i] = cloud[i]
    BY <2>1, OfKeysIs
  <2>3. ApplyOK(a)'
    BY <1>1, <2>1, <2>2 DEF ApplyOK, ReadOK, StageOK, UndoOK, SeenOK, Whole
  <2> QED
    BY <1>1, <1>3, <2>1, <2>3, StepSafe DEF Active
<1> QED
  BY <1>2, <1>3 DEF ReadSite, RereadSite

LEMMA ReadStateSafe ==
  ASSUME IInv, TypeInv', NEW a \in Appliers, ReadState(a) \/ RereadState(a)
  PROVE  IInv'
<1> DEFINE d == Completed(doc[a])
<1>1. UNCHANGED <<journal, cloud, meant, raced>> /\ Active(a) /\ JournalOK'
  BY JournalSame DEF IInv, ReadState, RereadState, Active, history
<1>2. CASE Return(a)
  BY <1>1, <1>2, StopSafe
<1>3. CASE /\ pc[a] = "state" /\ ~Drifted(a, d) /\ Goto(a, "writable") /\ doc' = [doc EXCEPT ![a] = d]
           /\ UNCHANGED <<lock, recorded>>
  <2>1. pc'[a] = "writable" /\ doc'[a] = d /\ Alone(a)
    BY <1>3, ReadDoes DEF IInv, TypeInv
  <2>2. DOMAIN d = Items /\ \A i \in Items : d[i] = IF i \in DOMAIN doc[a] THEN doc[a][i] ELSE cloud[i]
    BY CompletedIs DEF IInv, TypeInv, CloudTyped, ApplyTyped
  <2>3. \A i \in Plain : d[i] = cloud[i]
    BY <1>3, <2>2 DEF IInv, ApplyOK, ReadOK, Plain
  <2>4. ReadOK(a)'
    BY <1>1, <2>1, <2>2, <2>3 DEF ReadOK, Plain
  <2>5. SeenOK(a)'
    BY <1>3, <2>1 DEF SeenOK, Drifted
  <2>6. ApplyOK(a)'
    BY <2>1, <2>4, <2>5 DEF ApplyOK, StageOK, UndoOK
  <2> QED
    BY <1>1, <1>3, <2>1, <2>6, StepSafe DEF Active
<1> QED
  BY <1>2, <1>3 DEF ReadState, RereadState, Refuse

\* An apply goes on to its transaction, or to the one that was left open.
LEMMA ReadySafe ==
  ASSUME IInv, TypeInv', NEW a \in Appliers, Writable(a) \/ Recover(a)
  PROVE  IInv'
<1>1. /\ UNCHANGED <<journal, cloud, recorded, meant, raced>> /\ Active(a) /\ JournalOK'
      /\ pc[a] \in {"writable", "recover"} /\ TypeInv /\ ApplyOK(a)
  BY JournalSame DEF IInv, Writable, Recover, Active, history
<1>2. CASE Return(a)
  BY <1>1, <1>2, StopSafe
<1>3. ASSUME NEW step \in {"recover", "prepare"}, Goto(a, step), UNCHANGED <<lock, doc>>
      PROVE  IInv'
  <2>1. pc'[a] = step /\ doc'[a] = doc[a] /\ Alone(a)
    BY <1>1, <1>3, GotoDoes DEF TypeInv
  <2>2. ApplyOK(a)'
    BY <1>1, <2>1 DEF ApplyOK, ReadOK, StageOK, UndoOK, SeenOK, Plain, Whole
  <2> QED
    BY <1>1, <1>3, <2>1, <2>2, StepSafe DEF Active
<1>4. CASE WayBack(a, journal, {KeyOf(i) : i \in DOMAIN journal})
  <2> DEFINE keys == {KeyOf(i) : i \in DOMAIN journal}
  <2>1. pc'[a] = "undo" /\ doc'[a] = journal /\ todo'[a] = keys /\ Alone(a) /\ lock' = lock
    BY <1>1, <1>4, WayBackDoes DEF TypeInv
  <2>2. Of(keys) = DOMAIN journal
    <3>1. Of(keys) \subseteq DOMAIN journal
      BY <1>1 DEF TypeInv, CloudTyped, Of
    <3>2. ASSUME NEW i \in DOMAIN journal
          PROVE  i \in Of(keys)
      <4>1. i \in ItemsOf[KeyOf(i)] /\ KeyOf(i) \in keys
        BY <1>1, KeyOfItem DEF TypeInv, CloudTyped, Partial
      <4> QED
        BY <4>1, OfMember
    <3> QED
      BY <3>1, <3>2
  <2>3. UndoOK(a)'
    BY <1>1, <2>1, <2>2 DEF UndoOK
  <2>4. ApplyOK(a)'
    BY <2>1, <2>3 DEF ApplyOK, ReadOK, StageOK, SeenOK, Whole
  <2> QED
    BY <1>1, <2>1, <2>4, StepSafe DEF Active
<1> QED
  BY <1>2, <1>3, <1>4 DEF Writable, Recover

LEMMA PrepareSafe ==
  ASSUME IInv, TypeInv', NEW a \in Appliers, Prepare(a)
  PROVE  IInv'
<1> DEFINE keys == Changed(doc[a], want[a])
<1>1. /\ UNCHANGED <<cloud, recorded, meant, raced>> /\ Active(a) /\ pc[a] = "prepare" /\ TypeInv /\ ApplyOK(a) /\ JournalOK
  BY DEF IInv, Prepare, Active, history
<1>2. CASE Return(a) /\ UNCHANGED journal
  BY <1>1, <1>2, StopSafe, JournalSame
<1>3. CASE /\ journal = None /\ journal' = OfKeys(doc[a], keys)
           /\ pc' = [pc EXCEPT ![a] = "stage"] /\ todo' = [todo EXCEPT ![a] = keys]
           /\ UNCHANGED <<lock, want, doc>>
  <2>1. pc'[a] = "stage" /\ todo'[a] = keys /\ want'[a] = want[a] /\ doc'[a] = doc[a] /\ Alone(a)
    BY <1>1, <1>3 DEF TypeInv, Shaped, Alone
  <2>2. DOMAIN doc[a] = Items /\ Of(keys) \subseteq Items
    BY <1>1, PlanIs
  <2>3. \A i \in Plain : doc[a][i] = cloud[i] /\ cloud[i] = meant[i]
    BY <1>1, <1>3, <2>2, NoneHasNothing DEF ApplyOK, ReadOK, JournalOK, Plain
  <2>4. DOMAIN journal' = Of(keys) /\ \A i \in Of(keys) : journal'[i] = doc[a][i]
    BY <1>3, OfKeysIs
  <2>5. JournalOK'
    BY <1>1, <2>3, <2>4 DEF JournalOK, Plain
  <2>6. StageOK(a)'
    <3>1. Changed(doc'[a], want'[a]) = keys /\ OfKeys(doc'[a], keys) = OfKeys(doc[a], keys)
      BY <2>1
    <3> QED
      BY <1>1, <1>3, <2>1, <2>3, <3>1 DEF StageOK, Plain
  <2>7. SeenOK(a)'
    BY <1>1, <2>1 DEF ApplyOK, SeenOK, Whole
  <2>8. ApplyOK(a)'
    BY <2>1, <2>6, <2>7 DEF ApplyOK, ReadOK, UndoOK
  <2> QED
    BY <1>1, <1>3, <2>1, <2>5, <2>8, StepSafe DEF Active
<1> QED
  BY <1>2, <1>3 DEF Prepare

\* What StageOK says of a transaction, with its keys' items spelled out.
LEMMA StageIs ==
  ASSUME IInv, NEW a \in Appliers, pc[a] = "stage"
  PROVE  /\ DOMAIN journal = Of(Changed(doc[a], want[a])) /\ \A i \in DOMAIN journal : journal[i] = doc[a][i]
         /\ todo[a] \subseteq Changed(doc[a], want[a]) /\ Changed(doc[a], want[a]) \subseteq Keys
         /\ DOMAIN doc[a] = Items /\ DOMAIN journal \subseteq Items
         /\ \A i \in Items : i \in DOMAIN journal <=> KeyOf(i) \in Changed(doc[a], want[a])
         /\ \A i \in Plain : cloud[i] = IF KeyOf(i) \in Changed(doc[a], want[a]) \ todo[a]
                                        THEN Overlaid(doc[a], want[a])[i] ELSE doc[a][i]
<1> DEFINE keys == Changed(doc[a], want[a])
<1>1. journal = OfKeys(doc[a], keys) /\ todo[a] \subseteq keys
      /\ \A i \in Plain : cloud[i] = IF KeyOf(i) \in keys \ todo[a] THEN Overlaid(doc[a], want[a])[i] ELSE doc[a][i]
  BY DEF IInv, ApplyOK, StageOK
<1>2. DOMAIN journal = Of(keys) /\ \A i \in Of(keys) : journal[i] = doc[a][i]
  BY <1>1, OfKeysIs
<1>3. keys \subseteq Keys /\ DOMAIN doc[a] = Items /\ Of(keys) \subseteq Items
  BY PlanIs DEF IInv
<1>4. ASSUME NEW i \in Items
      PROVE  i \in Of(keys) <=> KeyOf(i) \in keys
  <2>1. KeyOf(i) \in Keys /\ i \in ItemsOf[KeyOf(i)]
    BY KeyOfItem
  <2>2. ASSUME i \in Of(keys)
        PROVE  KeyOf(i) \in keys
    <3>1. PICK k \in keys : i \in ItemsOf[k]
      BY <2>2 DEF Of
    <3> QED
      BY <1>3, <3>1, KeyOfItem
  <2>3. ASSUME KeyOf(i) \in keys
        PROVE  i \in Of(keys)
    BY <2>1, <2>3, OfMember
  <2> QED
    BY <2>2, <2>3
<1> QED
  BY <1>1, <1>2, <1>3, <1>4

LEMMA StageSafe ==
  ASSUME IInv, TypeInv', NEW a \in Appliers, Stage(a)
  PROVE  IInv'
<1> DEFINE keys == Changed(doc[a], want[a])
<1>1. /\ UNCHANGED <<journal, recorded, meant, raced>> /\ Active(a) /\ pc[a] = "stage" /\ TypeInv /\ ApplyOK(a) /\ JournalOK
  BY DEF IInv, Stage, Active, history
<1>2. /\ DOMAIN journal = Of(keys) /\ \A i \in DOMAIN journal : journal[i] = doc[a][i]
      /\ todo[a] \subseteq keys /\ keys \subseteq Keys /\ DOMAIN doc[a] = Items /\ DOMAIN journal \subseteq Items
      /\ \A i \in Items : i \in DOMAIN journal <=> KeyOf(i) \in keys
      /\ \A i \in Plain : cloud[i] = IF KeyOf(i) \in keys \ todo[a] THEN Overlaid(doc[a], want[a])[i] ELSE doc[a][i]
  BY <1>1, StageIs
<1>3. ASSUME NEW k \in todo[a], cloud' = Overlaid(cloud, OfKeys(Overlaid(doc[a], want[a]), {k})),
             todo' = [todo EXCEPT ![a] = @ \ {k}], UNCHANGED <<lock, pc, want, doc>>
      PROVE  IInv'
  <2>1. \A i \in Items : cloud'[i] = IF i \in ItemsOf[k] THEN Overlaid(doc[a], want[a])[i] ELSE cloud[i]
    BY <1>1, <1>3, KeyStagedDoes
  <2>2. \A i \in Items : i \in ItemsOf[k] <=> KeyOf(i) = k
    BY <1>2, KeyOfItem
  <2>3. Alone(a) /\ todo'[a] = todo[a] \ {k}
    BY <1>1, <1>3, OneLessTodo DEF TypeInv
  <2>4. JournalOK'
    BY <1>1, <1>2, <2>1, <2>2 DEF JournalOK, Plain
  <2>5. StageOK(a)'
    <3>1. \A i \in Plain : cloud'[i] = IF KeyOf(i) \in keys \ todo'[a] THEN Overlaid(doc[a], want[a])[i] ELSE doc[a][i]
      BY <1>2, <2>1, <2>2, <2>3 DEF Plain
    <3>2. Changed(doc'[a], want'[a]) = keys /\ OfKeys(doc'[a], keys) = OfKeys(doc[a], keys)
          /\ Overlaid(doc'[a], want'[a]) = Overlaid(doc[a], want[a])
      BY <1>3
    <3> QED
      BY <1>1, <1>2, <1>3, <2>3, <3>1, <3>2 DEF StageOK, ApplyOK, Plain
  <2>6. SeenOK(a)'
    BY <1>1, <1>3 DEF ApplyOK, SeenOK
  <2>7. ApplyOK(a)'
    BY <1>1, <1>3, <2>5, <2>6 DEF ApplyOK, ReadOK, UndoOK
  <2> QED
    BY <1>1, <1>3, <2>3, <2>4, <2>7, StepSafe DEF Active
<1>4. CASE WayBack(a, doc[a], keys \ todo[a]) /\ UNCHANGED cloud
  <2>1. pc'[a] = "undo" /\ doc'[a] = doc[a] /\ todo'[a] = keys \ todo[a] /\ Alone(a) /\ lock' = lock
    BY <1>1, <1>4, WayBackDoes DEF TypeInv
  <2>2. Of(keys \ todo[a]) \subseteq Of(keys)
    BY DEF Of
  <2>3. ASSUME NEW i \in (Plain \cap DOMAIN journal) \ Of(keys \ todo[a])
        PROVE  cloud[i] = doc[a][i]
    <3>1. i \in Items /\ i \in ItemsOf[KeyOf(i)]
      BY KeyOfItem DEF Plain
    <3>2. KeyOf(i) \notin keys \ todo[a]
      BY <3>1, OfMember
    <3> QED
      BY <1>2, <3>2
  <2>4. UndoOK(a)'
    BY <1>1, <1>2, <1>4, <2>1, <2>2, <2>3 DEF UndoOK, Plain
  <2>5. ApplyOK(a)'
    BY <2>1, <2>4 DEF ApplyOK, ReadOK, StageOK, SeenOK, Whole
  <2> QED
    BY <1>1, <1>4, <2>1, <2>5, StepSafe, JournalSame DEF Active
<1> QED
  BY <1>3, <1>4 DEF Stage, AbortStaging

LEMMA CommitSafe ==
  ASSUME IInv, TypeInv', NEW a \in Appliers, Commit(a)
  PROVE  IInv'
<1> DEFINE keys == Changed(doc[a], want[a])
<1>1. /\ UNCHANGED <<cloud, recorded, raced>> /\ Active(a) /\ pc[a] = "stage" /\ todo[a] = {}
      /\ TypeInv /\ ApplyOK(a) /\ JournalOK
  BY DEF IInv, Commit, Active
<1>2. /\ DOMAIN journal = Of(keys) /\ \A i \in DOMAIN journal : journal[i] = doc[a][i]
      /\ DOMAIN doc[a] = Items /\ DOMAIN journal \subseteq Items
      /\ \A i \in Items : i \in DOMAIN journal <=> KeyOf(i) \in keys
      /\ \A i \in Plain : cloud[i] = IF KeyOf(i) \in keys THEN Overlaid(doc[a], want[a])[i] ELSE doc[a][i]
  BY <1>1, StageIs
<1>3. CASE Return(a) /\ UNCHANGED <<journal, meant>>
  BY <1>1, <1>3, StopSafe, JournalSame
<1>4. CASE WayBack(a, doc[a], keys) /\ UNCHANGED <<journal, meant>>
  <2>1. pc'[a] = "undo" /\ doc'[a] = doc[a] /\ todo'[a] = keys /\ Alone(a) /\ lock' = lock
    BY <1>1, <1>4, WayBackDoes DEF TypeInv
  <2>2. UndoOK(a)'
    BY <1>1, <1>2, <1>4, <2>1 DEF UndoOK, Plain
  <2>3. ApplyOK(a)'
    BY <2>1, <2>2 DEF ApplyOK, ReadOK, StageOK, SeenOK, Whole
  <2> QED
    BY <1>1, <1>4, <2>1, <2>3, StepSafe, JournalSame DEF Active
<1>5. CASE /\ journal' = None /\ meant' = Overlaid(meant, want[a])
           /\ Return(a) \/ (Goto(a, "resite") /\ UNCHANGED <<lock, doc>>)
  <2>1. \A i \in Items : meant'[i] = IF i \in Owned[a] THEN want[a][i] ELSE meant[i]
    <3>1. DOMAIN want[a] = Owned[a] /\ DOMAIN meant = Items
      BY <1>1, PlanIs DEF TypeInv, CloudTyped
    <3> QED
      BY <1>5, <3>1, OverlaidIs
  <2>2. ASSUME NEW i \in Plain
        PROVE  cloud[i] = meant'[i]
    <3>1. i \in Items
      BY DEF Plain
    <3>2. CASE KeyOf(i) \in keys
      <4>1. cloud[i] = IF i \in Owned[a] THEN want[a][i] ELSE doc[a][i]
        BY <1>1, <1>2, <3>1, <3>2, StagedIs
      <4>2. doc[a][i] = meant[i]
        BY <1>1, <1>2, <3>1, <3>2 DEF JournalOK
      <4> QED
        BY <2>1, <3>1, <4>1, <4>2
    <3>3. CASE KeyOf(i) \notin keys
      <4>1. cloud[i] = doc[a][i] /\ cloud[i] = meant[i]
        BY <1>1, <1>2, <3>1, <3>3 DEF JournalOK
      <4>2. i \in Owned[a] => want[a][i] = doc[a][i]
        BY <1>1, <3>3, PlanIs
      <4> QED
        BY <2>1, <3>1, <4>1, <4>2
    <3> QED
      BY <3>2, <3>3
  <2>3. JournalOK'
    BY <1>1, <1>5, <2>2, NoneHasNothing DEF JournalOK, Plain
  <2>4. CASE Return(a)
    BY <1>1, <2>3, <2>4, StopSafe
  <2>5. CASE Goto(a, "resite") /\ UNCHANGED <<lock, doc>>
    <3>1. pc'[a] = "resite" /\ Alone(a)
      BY <1>1, <2>5, GotoDoes DEF TypeInv
    <3>2. ApplyOK(a)'
      BY <3>1 DEF ApplyOK, ReadOK, StageOK, UndoOK, SeenOK, Whole
    <3> QED
      BY <1>1, <2>3, <2>5, <3>1, <3>2, StepSafe DEF Active
  <2> QED
    BY <1>5, <2>4, <2>5
<1> QED
  BY <1>3, <1>4, <1>5 DEF Commit

LEMMA UndoSafe ==
  ASSUME IInv, TypeInv', NEW a \in Appliers, Undo(a)
  PROVE  IInv'
<1>1. /\ UNCHANGED <<recorded, meant, raced>> /\ Active(a) /\ pc[a] = "undo" /\ TypeInv /\ JournalOK
      /\ Of(todo[a]) \subseteq DOMAIN journal /\ DOMAIN journal \subseteq DOMAIN doc[a] /\ DOMAIN journal \subseteq Items
      /\ \A i \in DOMAIN journal : doc[a][i] = journal[i]
      /\ \A i \in (Plain \cap DOMAIN journal) \ Of(todo[a]) : cloud[i] = doc[a][i]
  BY DEF IInv, Undo, Active, ApplyOK, UndoOK, TypeInv, CloudTyped, Partial
<1>2. ASSUME NEW k \in todo[a], cloud' = Overlaid(cloud, OfKeys(doc[a], {k})),
             todo' = [todo EXCEPT ![a] = @ \ {k}], UNCHANGED <<lock, pc, want, doc, journal>>
      PROVE  IInv'
  <2>1. \A i \in Items : cloud'[i] = IF i \in ItemsOf[k] THEN doc[a][i] ELSE cloud[i]
    BY <1>1, <1>2, KeyUndoneDoes
  <2>2. Alone(a) /\ todo'[a] = todo[a] \ {k}
    BY <1>1, <1>2, OneLessTodo DEF TypeInv
  <2>3. ItemsOf[k] \subseteq DOMAIN journal
    BY <1>1, OfMember
  <2>4. JournalOK'
    BY <1>1, <1>2, <2>1, <2>3 DEF JournalOK, Plain
  <2>5. Of(todo'[a]) \subseteq Of(todo[a]) /\ Of(todo[a]) \subseteq Of(todo'[a]) \cup ItemsOf[k]
    BY <2>2 DEF Of
  <2>6. \A i \in (Plain \cap DOMAIN journal) \ Of(todo'[a]) : cloud'[i] = doc[a][i]
    BY <1>1, <2>1, <2>5
  <2>7. UndoOK(a)'
    BY <1>1, <1>2, <2>5, <2>6 DEF UndoOK, Plain
  <2>8. ApplyOK(a)'
    BY <1>1, <1>2, <2>7 DEF ApplyOK, ReadOK, StageOK, SeenOK, Whole
  <2> QED
    BY <1>1, <1>2, <2>2, <2>4, <2>8, StepSafe DEF Active
<1>3. CASE todo[a] = {} /\ journal' = None /\ Return(a) /\ UNCHANGED cloud
  <2>1. Of(todo[a]) = {}
    BY <1>3 DEF Of
  <2>2. \A i \in Plain : cloud[i] = meant[i]
    BY <1>1, <2>1 DEF JournalOK
  <2>3. JournalOK'
    BY <1>1, <1>3, <2>2, NoneHasNothing DEF JournalOK, Plain
  <2> QED
    BY <1>1, <1>3, <2>3, StopSafe
<1>4. CASE Return(a) /\ UNCHANGED <<journal, cloud>>
  BY <1>1, <1>4, StopSafe, JournalSame
<1> QED
  BY <1>2, <1>3, <1>4 DEF Undo

\* An edit of what an apply has read, or has a pre-image of, is raced; any other changes
\* what is meant.
LEMMA EditSafe ==
  ASSUME IInv, TypeInv', NEW i \in Items, Edit(i)
  PROVE  IInv'
<1>1. /\ UNCHANGED <<lock, pc, want, doc, todo, journal, recorded>> /\ TypeInv /\ OrderOK /\ JournalOK
      /\ cloud \in [Items -> Values] /\ meant \in [Items -> Values]
  BY DEF IInv, TypeInv, CloudTyped, Edit, local
<1>2. PICK v : cloud' = [cloud EXCEPT ![i] = v] /\ meant' = [meant EXCEPT ![i] = v]
  BY DEF Edit
<1>3. /\ \A j \in Items \ {i} : cloud'[j] = cloud[j] /\ meant'[j] = meant[j]
      /\ cloud'[i] = meant'[i]
  BY <1>1, <1>2
<1>4. /\ Plain' \subseteq Plain
      /\ i \in Plain' => i \notin DOMAIN journal /\ \A a \in Appliers : i \notin DOMAIN doc[a]
  BY DEF Plain, Edit
<1>5. Plain' \subseteq Items
  BY DEF Plain
<1>6. OrderOK'
  BY <1>1 DEF OrderOK, Active
<1>7. JournalOK'
  <2>1. \A j \in Plain' \ DOMAIN journal : cloud'[j] = meant'[j]
    BY <1>1, <1>3, <1>4, <1>5 DEF JournalOK
  <2>2. \A j \in Plain' \cap DOMAIN journal : journal[j] = meant'[j]
    BY <1>1, <1>3, <1>4, <1>5 DEF JournalOK
  <2> QED
    BY <1>1, <2>1, <2>2 DEF JournalOK
<1>8. ASSUME NEW a \in Appliers
      PROVE  ApplyOK(a)'
  <2>1. ApplyOK(a)
    BY DEF IInv
  <2>2. ReadOK(a)'
    BY <1>1, <1>3, <1>4, <1>5, <2>1 DEF ApplyOK, ReadOK
  <2>3. StageOK(a)'
    <3> SUFFICES ASSUME pc[a] = "stage"
                 PROVE  StageOK(a)'
      BY <1>1 DEF StageOK
    <3>1. i \notin Plain'
      BY <1>4, StageIs
    <3>2. \A j \in Plain' : j \in Plain /\ cloud'[j] = cloud[j]
      BY <1>3, <1>4, <1>5, <3>1
    <3>3. Changed(doc'[a], want'[a]) = Changed(doc[a], want[a])
          /\ OfKeys(doc'[a], Changed(doc[a], want[a])) = OfKeys(doc[a], Changed(doc[a], want[a]))
          /\ Overlaid(doc'[a], want'[a]) = Overlaid(doc[a], want[a])
      BY <1>1
    <3> QED
      BY <1>1, <2>1, <3>2, <3>3 DEF ApplyOK, StageOK
  <2>4. UndoOK(a)'
    BY <1>1, <1>3, <1>4, <1>5, <2>1 DEF ApplyOK, UndoOK
  <2>5. SeenOK(a)'
    BY <1>1, <2>1 DEF ApplyOK, SeenOK
  <2> QED
    BY <2>2, <2>3, <2>4, <2>5 DEF ApplyOK
<1> QED
  BY <1>6, <1>7, <1>8 DEF IInv

LEMMA CrashSafe ==
  ASSUME IInv, TypeInv', Crash
  PROVE  IInv'
<1>1. \A a \in Appliers : pc'[a] = "idle"
  BY DEF Crash
<1>2. OrderOK'
  BY <1>1, OwnedAssumption DEF Crash, OrderOK, Active, Appliers
<1>3. JournalOK'
  BY JournalSame DEF IInv, Crash
<1>4. \A a \in Appliers : ApplyOK(a)'
  BY <1>1 DEF ApplyOK, ReadOK, StageOK, UndoOK, SeenOK, Whole
<1> QED
  BY <1>2, <1>3, <1>4 DEF IInv

LEMMA InitSafe == Init => IInv
<1> SUFFICES ASSUME Init
             PROVE  IInv
  OBVIOUS
<1>1. OrderOK
  BY OwnedAssumption DEF Init, OrderOK, Active, Appliers
<1>2. JournalOK
  BY NoneHasNothing DEF Init, JournalOK, Plain
<1>3. \A a \in Appliers : ApplyOK(a)
  BY DEF Init, ApplyOK, ReadOK, StageOK, UndoOK, SeenOK, Whole
<1> QED
  BY <1>1, <1>2, <1>3, InitTyped DEF IInv

LEMMA NextSafe ==
  ASSUME ~Overlap
  PROVE  IInv /\ [Next]_vars => IInv'
<1> SUFFICES ASSUME IInv, [Next]_vars
             PROVE  IInv'
  OBVIOUS
<1>1. TypeInv'
  BY NextTyped DEF IInv
<1>2. ASSUME NEW a \in Appliers, Begin(a) \/ Apply(a)
      PROVE  IInv'
  BY <1>1, <1>2, BeginSafe, ReadSiteSafe, ReadStateSafe, ReadySafe, PrepareSafe, StageSafe, CommitSafe, UndoSafe DEF Apply
<1>3. ASSUME NEW c \in Configs, Refresh(c) \/ Forget(c)
      PROVE  IInv'
  BY <1>1, <1>3, BeginSafe, ForgetSafe DEF Appliers
<1>4. CASE UNCHANGED vars
  <2>1. UNCHANGED <<lock, pc, want, doc, todo, journal, cloud, recorded, meant, raced>>
    BY <1>4 DEF vars, local, history
  <2>2. OrderOK' /\ JournalOK'
    BY <2>1, JournalSame DEF IInv, OrderOK, Active
  <2>3. \A a \in Appliers : ApplyOK(a)'
    BY <2>1, ApplySame DEF IInv
  <2> QED
    BY <1>1, <2>2, <2>3 DEF IInv
<1> QED
  BY <1>1, <1>2, <1>3, <1>4, AcquireSafe, EditSafe, CrashSafe DEF Next

-----------------------------------------------------------------------------
\* The invariant holds of every reachable state, with a router_config applied by itself.
THEOREM ProviderInvariant ==
  ASSUME ~Overlap
  PROVE  Spec => []IInv
BY InitSafe, NextSafe, PTL DEF Spec

\* Outside an unfinished transaction the cloud holds every committed change and every edit
\* of the portal, one after the other, but for what the portal edited under an apply.
THEOREM CloudIsSerial ==
  ASSUME ~Overlap
  PROVE  Spec => []SerialCloud
<1>1. IInv => SerialCloud
  BY DEF IInv, JournalOK, SerialCloud, Plain
<1> QED
  BY <1>1, ProviderInvariant, PTL

\* At most one apply of the process is in a transaction, recovering one included.
THEOREM TransactionsAreSerial ==
  ASSUME ~Overlap
  PROVE  Spec => []OneTransaction
<1>1. IInv => OneTransaction
  BY OneActive DEF IInv, OneTransaction, Active
<1> QED
  BY <1>1, ProviderInvariant, PTL

LEMMA StepOverwritesSeen ==
  ASSUME IInv, [Next]_vars, NEW c \in Configs, pc[c] = "stage", recorded[c] # None,
         NEW i \in Owned[c] \ raced, cloud'[i] # cloud[i], edits' = edits
  PROVE  cloud[i] = recorded[c][i]
<1>1. c \in Appliers /\ Active(c) /\ TypeInv
  BY DEF IInv, Active, Appliers
<1>2. i \in Plain /\ i \in Items
  BY <1>1, OwnedAssumption DEF Plain
<1>3. \A a \in Appliers \ {c} : ~Active(a)
  BY <1>1, OneActive DEF IInv
<1>4. ASSUME NEW j \in Items, Edit(j)
      PROVE  FALSE
  BY <1>1, <1>4 DEF TypeInv, CloudTyped, Edit
<1>5. \E a \in Appliers : Stage(a) \/ Undo(a)
  BY <1>4 DEF Next, Apply, Begin, Acquire, Refresh, Forget, ReadSite, ReadState, Writable, Recover, Prepare, Commit,
              RereadSite, RereadState, Crash, vars
<1>6. PICK k \in todo[c] : cloud' = Overlaid(cloud, OfKeys(Overlaid(doc[c], want[c]), {k}))
  BY <1>3, <1>5 DEF Active, Stage, Undo
<1>7. i \in ItemsOf[k]
  BY <1>1, <1>2, <1>6, KeyStagedDoes
<1>8. KeyOf(i) \in todo[c]
  BY <1>1, <1>6, <1>7, KeyOfItem DEF TypeInv, ApplyTyped
<1>9. cloud[i] = doc[c][i]
  BY <1>1, <1>2, <1>8, StageIs
<1> QED
  BY <1>1, <1>9 DEF IInv, ApplyOK, SeenOK, Whole

\* A router_config writes over no change of the portal that was there before it read the
\* document and that its state does not show.
THEOREM OverwritesOnlyWhatItSaw ==
  ASSUME ~Overlap
  PROVE  Spec => NothingUnseenIsOverwritten
<1>1. IInv /\ [Next]_vars =>
        [\A c \in Configs : pc[c] = "stage" /\ recorded[c] # None =>
           \A i \in Owned[c] \ raced : cloud'[i] # cloud[i] /\ edits' = edits => cloud[i] = recorded[c][i]]_vars
  BY StepOverwritesSeen
<1> QED
  BY <1>1, ProviderInvariant, PTL DEF Spec, NothingUnseenIsOverwritten
=============================================================================
