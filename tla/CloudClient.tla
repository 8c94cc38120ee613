----------------------------- MODULE CloudClient -----------------------------
(***************************************************************************)
(* internal/cloud/client.go and cloud/cognito: requests of one provider,   *)
(* issued concurrently, that share an id token.  A mutex is held while a   *)
(* token is looked up, refreshed or asked for anew; a request the API      *)
(* refuses is sent once more after a login.  Time passes in units of the   *)
(* HTTP clients' timeout, 30 seconds, which no exchange outlasts.  The     *)
(* service signs tokens out, lets them end by its own clock, and may ask   *)
(* for a second factor.                                                    *)
(***************************************************************************)
EXTENDS Integers, Sequences

CONSTANTS
  Requests,   \* the requests of a run
  Posts,      \* those that write
  Denied,     \* those the account may not make, whatever its token
  Life,       \* how long an id token lasts
  Skew,       \* tokenSkew: how long before its end a token is no longer used
  MaxTime,    \* the bound on the clock
  MaxSignOuts,  \* the bound on the times the service signs the account out
  MaxFaults   \* the bound on the calls that fail

ASSUME TimeAssumption ==
  /\ Life \in Nat /\ Life > 2 /\ Skew = 2
  /\ Posts \subseteq Requests /\ Denied \subseteq Requests
  /\ {MaxTime, MaxSignOuts, MaxFaults} \subseteq Nat

VARIABLES
  pc,        \* where each request is
  attempt,   \* 1 once it was refused, 0 before
  token,     \* the id token it was given, 0 when it has none
  since,     \* when the exchange it waits for began, 0 when there is none
  mu,        \* who holds Client.mu
  tokens,    \* Client.tokens: the id token, whether it came with a refresh token, its end
  now,       \* the clock
  ends,      \* at the service, the end of each id token issued
  signedOut, \* the last id token signed out
  refreshable, \* whether the service takes the account's refresh token
  mfa,       \* whether the account has a second factor
  applied,   \* history: how often each write was applied
  signOuts, faults

client == <<pc, attempt, token, since>>
service == <<ends, signedOut, refreshable, mfa, applied>>
vars == <<client, mu, tokens, now, service, signOuts, faults>>

Free == "free"
ASSUME FreeAssumption == Free \notin Requests
NoTokens == [id |-> 0, refresh |-> FALSE, expires |-> 0]
Calling == {"refresh", "initiate", "respond", "sent"}
Steps == {"lock", "refresh", "initiate", "respond", "sent", "ok", "refused", "failed"}
Ended == {"ok", "refused", "failed"}

Init ==
  /\ pc = [r \in Requests |-> "lock"] /\ attempt = [r \in Requests |-> 0]
  /\ token = [r \in Requests |-> 0] /\ since = [r \in Requests |-> 0]
  /\ mu = Free /\ tokens = NoTokens /\ now = 0
  /\ ends = <<>> /\ signedOut = 0 /\ refreshable = TRUE /\ mfa \in BOOLEAN
  /\ applied = [r \in Requests |-> 0]
  /\ signOuts = 0 /\ faults = 0

Fault == faults < MaxFaults /\ faults' = faults + 1
Goto(r, step) == pc' = [pc EXCEPT ![r] = step]
CallAt(r, step) == Goto(r, step) /\ since' = [since EXCEPT ![r] = now]

(***************************************************************************)
(* Client.token                                                            *)
(***************************************************************************)
\* Mutant: a token is used to its very last moment.
FreshToTheEnd == tokens.id # 0 /\ now + Skew <= tokens.expires
Fresh == tokens.id # 0 /\ now + Skew < tokens.expires
\* Mutant: a refused token is taken from the cache again.
ForceLoginNever(r) == FALSE
ForceLogin(r) == attempt[r] > 0

HandOut(r, t) ==
  /\ CallAt(r, "sent") /\ token' = [token EXCEPT ![r] = t.id] /\ mu' = Free
Lock(r) ==
  /\ pc[r] = "lock" /\ mu = Free
  /\ \/ Fresh /\ ~ForceLogin(r) /\ HandOut(r, tokens)
     \/ ~Fresh /\ tokens.refresh /\ ~ForceLogin(r) /\ CallAt(r, "refresh") /\ mu' = r /\ UNCHANGED token
     \/ (Fresh \/ tokens.refresh => ForceLogin(r)) /\ CallAt(r, "initiate") /\ mu' = r /\ UNCHANGED token
  /\ UNCHANGED <<attempt, tokens, now, service, signOuts, faults>>

\* Mutant: a refresh that brings no refresh token forgets the one there was.
KeptRefreshNone(sent) == sent
\* A refresh answers with no refresh token of its own; a login does.
KeptRefresh(sent) == sent \/ tokens.refresh
\* The id token of an answer; its end is counted from now on, by the service from when it
\* was issued.
Receive(r, sent) ==
  LET t == [id |-> Len(ends) + 1, refresh |-> KeptRefresh(sent), expires |-> now + Life] IN
  /\ \E issued \in since[r]..now : ends' = Append(ends, issued + Life)
  /\ tokens' = t /\ HandOut(r, t)
RefreshCall(r) ==
  /\ pc[r] = "refresh"
  /\ \/ refreshable /\ Receive(r, FALSE) /\ UNCHANGED faults
     \/ ~refreshable /\ CallAt(r, "initiate") /\ UNCHANGED <<token, mu, tokens, ends, faults>>
     \/ Fault /\ CallAt(r, "initiate") /\ UNCHANGED <<token, mu, tokens, ends>>
  /\ UNCHANGED <<attempt, now, signedOut, refreshable, mfa, applied, signOuts>>

\* Mutant: a login that fails keeps the mutex.
FailHolding(r) ==
  /\ CallAt(r, "failed") /\ attempt' = [attempt EXCEPT ![r] = 0]
  /\ UNCHANGED <<token, mu, tokens, ends>>
Fail(r) ==
  /\ Goto(r, "failed") /\ mu' = Free /\ since' = [since EXCEPT ![r] = 0]
  /\ attempt' = [attempt EXCEPT ![r] = 0] /\ UNCHANGED <<token, tokens, ends>>
\* InitiateAuth, answered with a challenge of the password.
Initiate(r) ==
  /\ pc[r] = "initiate"
  /\ \/ CallAt(r, "respond") /\ UNCHANGED <<attempt, token, mu, tokens, ends, faults>>
     \/ Fault /\ Fail(r)
  /\ UNCHANGED <<now, signedOut, refreshable, mfa, applied, signOuts>>
\* RespondToAuthChallenge, answered with tokens or a further challenge.
Respond(r) ==
  /\ pc[r] = "respond"
  /\ \/ ~mfa /\ Receive(r, TRUE) /\ refreshable' = TRUE /\ UNCHANGED <<attempt, faults>>
     \/ mfa /\ Fail(r) /\ UNCHANGED <<refreshable, faults>>
     \/ Fault /\ Fail(r) /\ UNCHANGED refreshable
  /\ UNCHANGED <<now, signedOut, mfa, applied, signOuts>>

(***************************************************************************)
(* Client.do: a request on its way is served with the token it was given.  *)
(***************************************************************************)
\* Mutant: what got no answer is sent once more, too.
RepeatsLost(r, answer) == answer \in {"refused", "failed"} /\ attempt[r] = 0
Repeats(r, answer) == answer = "refused" /\ attempt[r] = 0
Answered(r, answer) ==
  /\ IF Repeats(r, answer)
     THEN Goto(r, "lock") /\ attempt' = [attempt EXCEPT ![r] = 1]
     ELSE Goto(r, answer) /\ attempt' = [attempt EXCEPT ![r] = 0]
  /\ since' = [since EXCEPT ![r] = 0] /\ token' = [token EXCEPT ![r] = 0]

Refuses(r) == token[r] <= signedOut \/ now >= ends[token[r]] \/ r \in Denied
Take(r) == applied' = IF r \in Posts THEN [applied EXCEPT ![r] = @ + 1] ELSE applied
Serve(r) ==
  /\ pc[r] = "sent"
  /\ \/ Refuses(r) /\ Answered(r, "refused") /\ UNCHANGED <<applied, faults>>
     \/ ~Refuses(r) /\ Take(r) /\ Answered(r, "ok") /\ UNCHANGED faults
     \/ Fault /\ Answered(r, "failed") /\ UNCHANGED applied
     \/ Fault /\ ~Refuses(r) /\ Take(r) /\ Answered(r, "failed")
  /\ UNCHANGED <<mu, tokens, now, ends, signedOut, refreshable, mfa, signOuts>>

(***************************************************************************)
(* The clock and the service.                                              *)
(***************************************************************************)
Tick ==
  /\ now < MaxTime /\ now' = now + 1
  /\ \A r \in Requests : pc[r] \in Calling => since[r] = now
  /\ UNCHANGED <<client, mu, tokens, service, signOuts, faults>>
SignOut ==
  /\ signOuts < MaxSignOuts /\ signOuts' = signOuts + 1
  /\ signedOut' = Len(ends) /\ refreshable' \in {refreshable, FALSE}
  /\ UNCHANGED <<client, mu, tokens, now, ends, mfa, applied, faults>>

Step(r) == Lock(r) \/ RefreshCall(r) \/ Initiate(r) \/ Respond(r) \/ Serve(r)
Next == (\E r \in Requests : Step(r)) \/ Tick \/ SignOut
Spec == Init /\ [][Next]_vars

\* Every exchange ends, and a mutex that is free is taken by who waits for it.
FairSpec == Spec /\ \A r \in Requests : WF_vars(Step(r))

-----------------------------------------------------------------------------
TypeOK ==
  /\ pc \in [Requests -> Steps] /\ attempt \in [Requests -> {0, 1}]
  /\ token \in [Requests -> 0..Len(ends)] /\ since \in [Requests -> 0..now]
  /\ mu \in Requests \cup {Free} /\ tokens.id \in 0..Len(ends) /\ tokens.refresh \in BOOLEAN
  /\ now \in 0..MaxTime /\ ends \in Seq(0..MaxTime + Life) /\ signedOut \in 0..Len(ends)
  /\ refreshable \in BOOLEAN /\ mfa \in BOOLEAN /\ applied \in [Requests -> Nat]
  /\ \A r \in Requests : mu = r <=> pc[r] \in {"refresh", "initiate", "respond"}
  /\ signOuts \in 0..MaxSignOuts /\ faults \in 0..MaxFaults

\* A write is applied once when it is answered, and never twice, although a refused one is
\* sent again; a refused one was not applied.
AppliedAtMostOnce ==
  \A r \in Requests :
    /\ applied[r] <= 1
    /\ pc[r] = "ok" /\ r \in Posts => applied[r] = 1
    /\ pc[r] = "refused" => applied[r] = 0

\* tokenSkew covers the age a token had when it was received and the time a request is on
\* its way: no token ends before the request it was handed out for is served.
NoneEndsInFlight ==
  \A r \in Requests : pc[r] = "sent" => now < ends[token[r]]

\* A request the account may make is answered as refused only when its second token was
\* signed out as the first one was: one sign-out is repaired by one login.
OneSignOutIsRepaired == \A r \in Requests : pc[r] = "refused" /\ r \notin Denied => signOuts >= 2

\* The password is sent again only for a refused request or when the refresh token is of no
\* use.
LoginIsLastResort ==
  \A r \in Requests : pc[r] = "initiate" /\ attempt[r] = 0 => tokens.id = 0 \/ ~refreshable \/ faults > 0

\* Every request ends, also when logins fail and tokens are signed out under it.
EveryRequestEnds == \A r \in Requests : <>(pc[r] \in Ended)
=============================================================================
