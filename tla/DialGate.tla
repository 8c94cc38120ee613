------------------------------ MODULE DialGate ------------------------------
(***************************************************************************)
(* internal/device/dialgate.go and the SSHRunner.Run around it: callers    *)
(* share a channel of slots, hold one across their dials, back-offs and    *)
(* the script, and hand it to the caller that has waited longest.          *)
(***************************************************************************)
EXTENDS Naturals, Sequences, FiniteSets

CONSTANTS Callers, Slots, Attempts

ASSUME GateAssumption ==
  /\ IsFiniteSet(Callers)
  /\ Slots \in Nat \ {0}
  /\ Attempts \in Nat \ {0}

VARIABLES
  at,         \* where each caller is
  queue,      \* callers blocked on the channel, in the order they came
  attempt,    \* dials made in this call
  cancelled,  \* whether the call's context is done
  ran,        \* history: scripts started in this call
  outcome     \* what the last call returned

vars == <<at, queue, attempt, cancelled, ran, outcome>>

Places == {"out", "queued", "dialing", "running", "backoff"}
Outcomes == {"none", "done", "failed", "refused", "cancelled"}

Holding == {c \in Callers : at[c] \in {"dialing", "running", "backoff"}}
Connected == {c \in Callers : at[c] \in {"dialing", "running"}}

-----------------------------------------------------------------------------
Init ==
  /\ at = [c \in Callers |-> "out"] /\ queue = <<>>
  /\ attempt = [c \in Callers |-> 0] /\ ran = [c \in Callers |-> 0]
  /\ cancelled = [c \in Callers |-> FALSE]
  /\ outcome = [c \in Callers |-> "none"]

\* A send to the channel succeeds at once when it has room, else it joins the queue.
\* Mutant: room is not looked at.
CallUnbounded(c) ==
  /\ at[c] = "out"
  /\ at' = [at EXCEPT ![c] = "dialing"]
  /\ attempt' = [attempt EXCEPT ![c] = 1] /\ ran' = [ran EXCEPT ![c] = 0]
  /\ cancelled' = [cancelled EXCEPT ![c] = FALSE]
  /\ UNCHANGED <<queue, outcome>>
Call(c) ==
  /\ at[c] = "out"
  /\ IF Cardinality(Holding) < Slots
       THEN at' = [at EXCEPT ![c] = "dialing"] /\ UNCHANGED queue
       ELSE at' = [at EXCEPT ![c] = "queued"] /\ queue' = Append(queue, c)
  /\ attempt' = [attempt EXCEPT ![c] = 1] /\ ran' = [ran EXCEPT ![c] = 0]
  /\ cancelled' = [cancelled EXCEPT ![c] = FALSE]
  /\ UNCHANGED outcome

\* A context that is already done never reaches the channel.
CallCancelled(c) ==
  /\ at[c] = "out" /\ outcome' = [outcome EXCEPT ![c] = "cancelled"]
  /\ UNCHANGED <<at, queue, attempt, cancelled, ran>>

\* The deferred receive: the slot goes to the caller at the head of the queue.
\* Mutant: the slot is taken back and nobody is woken.
ReturnUnheard(c, answer) ==
  /\ at' = [at EXCEPT ![c] = "out"]
  /\ outcome' = [outcome EXCEPT ![c] = answer]
  /\ UNCHANGED <<queue, attempt, cancelled, ran>>
Return(c, answer) ==
  /\ IF queue = <<>>
       THEN at' = [at EXCEPT ![c] = "out"] /\ UNCHANGED queue
       ELSE at' = [at EXCEPT ![c] = "out", ![Head(queue)] = "dialing"] /\ queue' = Tail(queue)
  /\ outcome' = [outcome EXCEPT ![c] = answer]
  /\ UNCHANGED <<attempt, cancelled, ran>>

Cancel(c) ==
  /\ at[c] # "out" /\ ~cancelled[c]
  /\ cancelled' = [cancelled EXCEPT ![c] = TRUE]
  /\ UNCHANGED <<at, queue, attempt, ran, outcome>>

Dropped(i) == [j \in 1..(Len(queue) - 1) |-> queue[IF j < i THEN j ELSE j + 1]]

QueueCancelled(c) ==
  /\ at[c] = "queued" /\ cancelled[c]
  /\ at' = [at EXCEPT ![c] = "out"]
  /\ \E i \in 1..Len(queue) : queue[i] = c /\ queue' = Dropped(i)
  /\ outcome' = [outcome EXCEPT ![c] = "cancelled"]
  /\ UNCHANGED <<attempt, cancelled, ran>>

\* No connection, or none that could open a session: a DialError.
\* Mutant: one dial too many.
DialRefusedOnceMore(c) ==
  /\ at[c] = "dialing"
  /\ IF attempt[c] > Attempts THEN Return(c, "refused")
     ELSE at' = [at EXCEPT ![c] = "backoff"]
          /\ UNCHANGED <<queue, attempt, cancelled, ran, outcome>>
DialRefused(c) ==
  /\ at[c] = "dialing"
  /\ IF attempt[c] = Attempts THEN Return(c, "refused")
     ELSE at' = [at EXCEPT ![c] = "backoff"]
          /\ UNCHANGED <<queue, attempt, cancelled, ran, outcome>>

ScriptStarts(c) ==
  /\ at[c] = "dialing"
  /\ at' = [at EXCEPT ![c] = "running"] /\ ran' = [ran EXCEPT ![c] = @ + 1]
  /\ UNCHANGED <<queue, attempt, cancelled, outcome>>

\* The script's own failure and a session lost while it ran are not DialErrors.
\* Mutant: any failure is retried.
ScriptEndsRetried(c) ==
  /\ at[c] = "running"
  /\ \/ Return(c, "done")
     \/ at' = [at EXCEPT ![c] = "backoff"] /\ UNCHANGED <<queue, attempt, cancelled, ran, outcome>>
ScriptEnds(c) ==
  /\ at[c] = "running"
  /\ Return(c, "done") \/ Return(c, "failed") \/ (cancelled[c] /\ Return(c, "cancelled"))

\* The timer and the context may both be ready: select takes either.
BackoffOver(c) ==
  /\ at[c] = "backoff"
  /\ at' = [at EXCEPT ![c] = "dialing"] /\ attempt' = [attempt EXCEPT ![c] = @ + 1]
  /\ UNCHANGED <<queue, cancelled, ran, outcome>>

BackoffCancelled(c) == at[c] = "backoff" /\ cancelled[c] /\ Return(c, "cancelled")

\* Every wait inside a call ends: dials and back-offs time out, scripts bound their loops.
Proceed(c) ==
  \/ DialRefused(c) \/ ScriptStarts(c) \/ ScriptEnds(c)
  \/ BackoffOver(c) \/ BackoffCancelled(c) \/ QueueCancelled(c)

Next == \E c \in Callers : Call(c) \/ CallCancelled(c) \/ Cancel(c) \/ Proceed(c)

Spec == Init /\ [][Next]_vars
FairSpec == Spec /\ \A c \in Callers : WF_vars(Proceed(c))

-----------------------------------------------------------------------------
TypeOK ==
  /\ at \in [Callers -> Places] /\ queue \in Seq(Callers)
  /\ attempt \in [Callers -> 0..Attempts] /\ ran \in [Callers -> Nat]
  /\ cancelled \in [Callers -> BOOLEAN] /\ outcome \in [Callers -> Outcomes]

\* "The provider dials one at a time" (docs/DESIGN.md): never more connections than slots,
\* through hand-overs, back-offs and cancelled waits alike.
Serialised == Cardinality(Connected) <= Slots

\* "Nothing half-run is repeated": one call starts its script at most once, however many
\* times it dials.
NothingRepeated == \A c \in Callers : ran[c] <= 1

\* No slot lies idle while a caller waits for one.
NoLostSlot == queue # <<>> => Cardinality(Holding) = Slots

\* A waiting caller is served or gives up, however often the others come back.
EveryoneServed == \A c \in Callers : at[c] = "queued" ~> at[c] # "queued"
=============================================================================
