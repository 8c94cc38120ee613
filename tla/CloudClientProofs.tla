-------------------------- MODULE CloudClientProofs --------------------------
(***************************************************************************)
(* The cloud client for any requests, any length of run, and any number of *)
(* sign-outs and faults.                                                   *)
(***************************************************************************)
EXTENDS CloudClient, TLAPS

InToken == {"refresh", "initiate", "respond"}

\* An exchange lasts one unit of time at most, and a request is sent with a token.
ClockOK ==
  \A r \in Requests :
    /\ pc[r] \in Calling => now <= since[r] + 1
    /\ pc[r] = "sent" => token[r] # 0

\* The client thinks an id token lasts one unit longer than it does, at most; what it has
\* came with a refresh token, as the first tokens it got came from a login.
TokensOK ==
  /\ tokens \in [id : 0..Len(ends), refresh : BOOLEAN, expires : Nat]
  /\ tokens.id # 0 => tokens.refresh /\ tokens.expires <= ends[tokens.id] + 1
  /\ \A r \in Requests : pc[r] = "refresh" => tokens.refresh

\* The exchange a request is sent with ends before its token does.
SentOK == \A r \in Requests : pc[r] = "sent" => since[r] + 1 < ends[token[r]]

\* What has not been answered has not been applied.
AppliedOK ==
  \A r \in Requests :
    /\ pc[r] \notin Ended => applied[r] = 0
    /\ applied[r] <= 1
    /\ pc[r] = "ok" /\ r \in Posts => applied[r] = 1
    /\ pc[r] = "refused" => applied[r] = 0

\* A refused request has seen a sign-out, and its second token was not signed out when it
\* was issued.
SignOutsOK ==
  /\ signedOut > 0 => signOuts > 0
  /\ \A r \in Requests \ Denied :
       /\ attempt[r] = 1 => signOuts > 0
       /\ pc[r] = "sent" /\ attempt[r] = 1 /\ token[r] <= signedOut => signOuts > 1
       /\ pc[r] = "refused" => signOuts > 1

IInv == TypeOK /\ ClockOK /\ TokensOK /\ SentOK /\ AppliedOK /\ SignOutsOK /\ LoginIsLastResort

-----------------------------------------------------------------------------
\* The numbers of the state, and the ends of the tokens issued.
LEMMA Numbers ==
  ASSUME IInv
  PROVE  /\ now \in Nat /\ Len(ends) \in Nat /\ signedOut \in Nat /\ signedOut <= Len(ends)
         /\ ends \in Seq(0..MaxTime + Life) /\ signOuts \in Nat /\ faults \in Nat
         /\ \A n \in 1..Len(ends) : ends[n] \in Nat
         /\ \A r \in Requests :
              /\ since[r] \in Nat /\ since[r] <= now /\ token[r] \in 0..Len(ends)
              /\ pc[r] = "sent" => token[r] \in 1..Len(ends) /\ now < ends[token[r]]
<1> USE TimeAssumption
<1>1. /\ now \in Nat /\ Len(ends) \in Nat /\ signedOut \in Nat /\ signedOut <= Len(ends)
      /\ ends \in Seq(0..MaxTime + Life) /\ signOuts \in Nat /\ faults \in Nat
  BY DEF IInv, TypeOK
<1>2. \A n \in 1..Len(ends) : ends[n] \in Nat
  BY <1>1
<1>3. ASSUME NEW r \in Requests
      PROVE  since[r] \in Nat /\ since[r] <= now /\ token[r] \in 0..Len(ends)
  BY <1>1 DEF IInv, TypeOK
<1>4. ASSUME NEW r \in Requests, pc[r] = "sent"
      PROVE  token[r] \in 1..Len(ends) /\ now < ends[token[r]]
  <2>1. token[r] \in 1..Len(ends) /\ now <= since[r] + 1 /\ since[r] + 1 < ends[token[r]]
    BY <1>1, <1>3, <1>4 DEF IInv, ClockOK, SentOK, Calling
  <2> QED
    BY <1>1, <1>2, <1>3, <2>1
<1> QED
  BY <1>1, <1>2, <1>3, <1>4

\* A request's step that issues no token keeps the types when what it writes is typed.
LEMMA TypesKept ==
  ASSUME TypeOK, NEW r \in Requests,
         pc' = [pc EXCEPT ![r] = pc'[r]], pc'[r] \in Steps,
         attempt' = [attempt EXCEPT ![r] = attempt'[r]], attempt'[r] \in {0, 1},
         token' = [token EXCEPT ![r] = token'[r]], token'[r] \in 0..Len(ends),
         since' = [since EXCEPT ![r] = since'[r]], since'[r] \in 0..now,
         pc'[r] \in InToken => mu' = r /\ mu \in {r, Free},
         pc'[r] \notin InToken => mu' = IF mu = r THEN Free ELSE mu,
         UNCHANGED <<tokens, now, ends, signedOut, refreshable, mfa, signOuts>>,
         applied' \in [Requests -> Nat], faults' \in 0..MaxFaults
  PROVE  TypeOK'
<1> USE FreeAssumption
<1>1. pc' \in [Requests -> Steps] /\ attempt' \in [Requests -> {0, 1}]
  BY DEF TypeOK
<1>2. token' \in [Requests -> 0..Len(ends')] /\ since' \in [Requests -> 0..now']
  BY DEF TypeOK
<1>3. mu' \in Requests \cup {Free} /\ \A q \in Requests : mu' = q <=> pc'[q] \in {"refresh", "initiate", "respond"}
  <2>1. mu \in Requests \cup {Free} /\ \A q \in Requests : mu = q <=> pc[q] \in InToken
    BY DEF TypeOK, InToken
  <2>2. \A q \in Requests \ {r} : pc'[q] = pc[q]
    BY DEF TypeOK
  <2>3. CASE pc'[r] \in InToken
    BY <2>1, <2>2, <2>3 DEF InToken
  <2>4. CASE pc'[r] \notin InToken
    BY <2>1, <2>2, <2>4 DEF InToken
  <2> QED
    BY <2>3, <2>4
<1> QED
  BY <1>1, <1>2, <1>3 DEF TypeOK

LEMMA InitIInv == Init => IInv
BY TimeAssumption, FreeAssumption
   DEF Init, IInv, TypeOK, ClockOK, TokensOK, SentOK, AppliedOK, SignOutsOK, LoginIsLastResort, NoTokens, Steps, Calling, Ended

\* A token of the cache that is fresh outlasts the exchange it is handed out for.
LEMMA LockKeeps ==
  ASSUME IInv, NEW r \in Requests, Lock(r)
  PROVE  IInv'
<1> USE TimeAssumption, FreeAssumption
<1>1. TypeOK /\ ClockOK /\ TokensOK /\ SentOK /\ AppliedOK /\ SignOutsOK /\ LoginIsLastResort
  BY DEF IInv
<1>0. now \in Nat /\ Len(ends) \in Nat
  BY Numbers
<1>2. pc[r] = "lock" /\ mu = Free /\ UNCHANGED <<attempt, tokens, now, service, signOuts, faults>>
  BY DEF Lock
<1>3. \/ Fresh /\ HandOut(r, tokens)
      \/ tokens.refresh /\ CallAt(r, "refresh") /\ mu' = r /\ UNCHANGED token
      \/ (attempt[r] = 0 => tokens.id = 0) /\ CallAt(r, "initiate") /\ mu' = r /\ UNCHANGED token
  BY <1>1 DEF Lock, TokensOK, TypeOK, ForceLogin
<1>4. /\ pc'[r] \in {"sent", "refresh", "initiate"} /\ since'[r] = now
      /\ token'[r] \in 0..Len(ends)
      /\ pc'[r] = "sent" => Fresh /\ token'[r] = tokens.id
      /\ \A q \in Requests \ {r} : pc'[q] = pc[q] /\ since'[q] = since[q] /\ token'[q] = token[q]
      /\ ends' = ends /\ now' = now
  BY <1>1, <1>2, <1>3 DEF TypeOK, HandOut, CallAt, Goto, service
<1>5. TypeOK'
  <2>1. /\ pc' = [pc EXCEPT ![r] = pc'[r]] /\ since' = [since EXCEPT ![r] = now]
        /\ token' = [token EXCEPT ![r] = token'[r]] /\ attempt' = [attempt EXCEPT ![r] = attempt'[r]]
        /\ attempt[r] \in {0, 1} /\ now \in 0..now /\ pc'[r] \in Steps /\ attempt'[r] = attempt[r]
    BY <1>1, <1>2, <1>3, <1>0 DEF TypeOK, HandOut, CallAt, Goto, Steps
  <2>2. /\ pc'[r] \in InToken => mu' = r /\ mu \in {r, Free}
        /\ pc'[r] \notin InToken => mu' = IF mu = r THEN Free ELSE mu
    BY <1>1, <1>2, <1>3 DEF TypeOK, HandOut, CallAt, Goto, InToken
  <2>3. applied' \in [Requests -> Nat] /\ faults' \in 0..MaxFaults
        /\ UNCHANGED <<tokens, now, ends, signedOut, refreshable, mfa, signOuts>>
    BY <1>1, <1>2 DEF TypeOK, service
  <2> QED
    BY <1>1, <1>4, <2>1, <2>2, <2>3, TypesKept
<1>6. ClockOK' /\ TokensOK'
  <2>1. \A q \in Requests : pc'[q] = "refresh" => tokens.refresh
    BY <1>1, <1>2, <1>3, <1>4 DEF TypeOK, TokensOK, CallAt, Goto, HandOut
  <2>2. TokensOK'
    BY <1>1, <1>2, <1>4, <2>1 DEF TokensOK
  <2>3. ClockOK'
    BY <1>0, <1>1, <1>4 DEF ClockOK, Calling, Fresh
  <2> QED
    BY <2>2, <2>3
<1>7. SentOK'
  <2>1. ASSUME Fresh
        PROVE  now + 1 < ends[tokens.id]
    <3>1. /\ tokens.id \in 1..Len(ends) /\ tokens.expires \in Nat /\ now + 2 < tokens.expires
          /\ tokens.expires <= ends[tokens.id] + 1 /\ ends[tokens.id] \in Nat
      BY <1>1, <2>1, Numbers DEF TokensOK, Fresh
    <3>2. now \in Nat
      BY Numbers
    <3> QED
      BY <3>1, <3>2
  <2> QED
    BY <1>1, <1>4, <2>1 DEF SentOK
<1>8. AppliedOK'
  BY <1>1, <1>2, <1>3 DEF TypeOK, AppliedOK, HandOut, CallAt, Goto, Ended, service
<1>9. SignOutsOK'
  <2>1. CASE HandOut(r, tokens) /\ ~ForceLogin(r)
    BY <1>1, <1>2, <2>1 DEF TypeOK, SignOutsOK, HandOut, CallAt, Goto, ForceLogin, service
  <2>2. CASE ~(HandOut(r, tokens) /\ ~ForceLogin(r))
    BY <1>1, <1>2, <2>2 DEF Lock, TypeOK, SignOutsOK, CallAt, Goto, service
  <2> QED
    BY <2>1, <2>2
<1>10. LoginIsLastResort'
  BY <1>1, <1>2, <1>3 DEF TypeOK, LoginIsLastResort, HandOut, CallAt, Goto, service
<1> QED
  BY <1>5, <1>6, <1>7, <1>8, <1>9, <1>10 DEF IInv

\* A new token ends after the exchange it is received in and the one it is handed out for.
LEMMA ReceiveKeeps ==
  ASSUME IInv, NEW r \in Requests, pc[r] \in {"refresh", "respond"}, NEW sent \in BOOLEAN, Receive(r, sent),
         sent \/ tokens.refresh,
         pc[r] = "refresh" => refreshable' = refreshable, refreshable' \in BOOLEAN,
         faults' = faults,
         UNCHANGED <<attempt, now, signedOut, mfa, applied, signOuts>>
  PROVE  IInv'
<1> USE TimeAssumption, FreeAssumption
<1>1. TypeOK /\ ClockOK /\ TokensOK /\ SentOK /\ AppliedOK /\ SignOutsOK /\ LoginIsLastResort
  BY DEF IInv
<1>2. PICK issued \in since[r]..now : ends' = Append(ends, issued + Life)
  BY DEF Receive
<1>3. /\ tokens' = [id |-> Len(ends) + 1, refresh |-> TRUE, expires |-> now + Life]
      /\ pc' = [pc EXCEPT ![r] = "sent"] /\ since' = [since EXCEPT ![r] = now]
      /\ token' = [token EXCEPT ![r] = Len(ends) + 1] /\ mu' = Free
  BY <1>1 DEF Receive, HandOut, CallAt, Goto, KeptRefresh, TypeOK
<1>4. /\ since[r] \in Nat /\ now \in Nat /\ issued \in Nat /\ now <= since[r] + 1 /\ now <= MaxTime
      /\ issued + Life \in 0..MaxTime + Life /\ Len(ends) \in Nat /\ ends \in Seq(0..MaxTime + Life)
      /\ mu = r
  BY <1>1 DEF TypeOK, ClockOK, Calling
<1>5. /\ ends' \in Seq(0..MaxTime + Life) /\ Len(ends') = Len(ends) + 1
      /\ ends'[Len(ends) + 1] = issued + Life
      /\ \A n \in 1..Len(ends) : ends'[n] = ends[n]
  BY <1>2, <1>4
<1>6. TypeOK'
  <2>1. pc' \in [Requests -> Steps] /\ attempt' \in [Requests -> {0, 1}] /\ since' \in [Requests -> 0..now']
    BY <1>1, <1>3, <1>4 DEF TypeOK, Steps
  <2>2. token' \in [Requests -> 0..Len(ends')] /\ signedOut' \in 0..Len(ends')
    <3>1. \A q \in Requests : token[q] \in 0..Len(ends')
      BY <1>1, <1>4, <1>5 DEF TypeOK
    <3>2. signedOut' \in 0..Len(ends')
      BY <1>1, <1>4, <1>5 DEF TypeOK
    <3>3. Len(ends) + 1 \in 0..Len(ends')
      BY <1>4, <1>5
    <3>4. token \in [Requests -> 0..Len(ends')]
      BY <1>1, <3>1 DEF TypeOK
    <3>5. token' \in [Requests -> 0..Len(ends')]
      BY <1>3, <3>3, <3>4
    <3> QED
      BY <3>2, <3>5
  <2>3. \A q \in Requests : mu' = q <=> pc'[q] \in {"refresh", "initiate", "respond"}
    BY <1>1, <1>3, <1>4 DEF TypeOK
  <2> QED
    BY <1>1, <1>3, <1>4, <1>5, <2>1, <2>2, <2>3 DEF TypeOK
<1>7. ClockOK'
  BY <1>1, <1>3, <1>4 DEF TypeOK, ClockOK, Calling
<1>8. TokensOK'
  BY <1>3, <1>4, <1>5 DEF TokensOK
<1>9. SentOK'
  <2> SUFFICES ASSUME NEW q \in Requests, pc'[q] = "sent"
               PROVE  since'[q] + 1 < ends'[token'[q]]
    BY DEF SentOK
  <2>1. CASE q = r
    BY <1>1, <1>3, <1>4, <1>5, <2>1 DEF TypeOK
  <2>2. CASE q # r
    <3>1. token[q] \in 1..Len(ends) /\ pc[q] = "sent" /\ since'[q] = since[q] /\ token'[q] = token[q]
      BY <1>1, <1>3, <1>4, <2>2 DEF TypeOK, ClockOK
    <3> QED
      BY <1>1, <1>5, <3>1 DEF SentOK
  <2> QED
    BY <2>1, <2>2
<1>10. AppliedOK'
  BY <1>1, <1>3 DEF TypeOK, AppliedOK, Ended
<1>11. SignOutsOK'
  <2>1. signedOut <= Len(ends) /\ signedOut \in Nat
    BY <1>1 DEF TypeOK
  <2>2. ASSUME NEW q \in Requests \ Denied
        PROVE  /\ attempt'[q] = 1 => signOuts' > 0
               /\ pc'[q] = "sent" /\ attempt'[q] = 1 /\ token'[q] <= signedOut' => signOuts' > 1
               /\ pc'[q] = "refused" => signOuts' > 1
    <3>1. CASE q = r
      BY <1>1, <1>3, <1>4, <2>1, <2>2, <3>1 DEF TypeOK, SignOutsOK
    <3>2. CASE q # r
      BY <1>1, <1>3, <1>4, <2>2, <3>2 DEF TypeOK, SignOutsOK
    <3> QED
      BY <3>1, <3>2
  <2> QED
    BY <1>1, <2>2 DEF SignOutsOK
<1>12. LoginIsLastResort'
  <2>1. \A q \in Requests : pc'[q] # "initiate"
    BY <1>1, <1>3, <1>4 DEF TypeOK
  <2> QED
    BY <2>1 DEF LoginIsLastResort
<1> QED
  BY <1>6, <1>7, <1>8, <1>9, <1>10, <1>11, <1>12 DEF IInv

\* A request that goes on to another exchange, or ends, while it holds the mutex.
LEMMA TokenStepKeeps ==
  ASSUME IInv, NEW r \in Requests, pc[r] \in InToken, NEW step \in {"initiate", "respond", "failed"},
         pc' = [pc EXCEPT ![r] = step],
         step = "failed" => /\ mu' = Free /\ since' = [since EXCEPT ![r] = 0] /\ attempt' = [attempt EXCEPT ![r] = 0],
         step # "failed" => /\ mu' = mu /\ since' = [since EXCEPT ![r] = now] /\ attempt' = attempt,
         step = "initiate" => ~refreshable \/ faults' > 0,
         faults' \in 0..MaxFaults, faults' >= faults,
         UNCHANGED <<token, tokens, now, service, signOuts>>
  PROVE  IInv'
<1> USE TimeAssumption, FreeAssumption
<1>1. TypeOK /\ ClockOK /\ TokensOK /\ SentOK /\ AppliedOK /\ SignOutsOK /\ LoginIsLastResort
  BY DEF IInv
<1>2. mu = r
  BY <1>1 DEF TypeOK, InToken
<1>8. /\ pc'[r] = step /\ pc' = [pc EXCEPT ![r] = pc'[r]]
      /\ pc'[r] # "failed" => since'[r] = now
      /\ \A q \in Requests \ {r} : pc'[q] = pc[q] /\ since'[q] = since[q] /\ attempt'[q] = attempt[q]
      /\ UNCHANGED <<token, tokens, now, ends, signedOut, refreshable, mfa, applied, signOuts>>
  BY <1>1 DEF TypeOK, service
<1>3. TypeOK'
  <2>1. now \in Nat
    BY Numbers
  <2>2. /\ pc' = [pc EXCEPT ![r] = pc'[r]] /\ pc'[r] \in Steps
        /\ attempt' = [attempt EXCEPT ![r] = attempt'[r]] /\ attempt'[r] \in {0, 1}
        /\ token' = [token EXCEPT ![r] = token'[r]] /\ token'[r] \in 0..Len(ends)
        /\ since' = [since EXCEPT ![r] = since'[r]] /\ since'[r] \in 0..now
    <3>1. DOMAIN attempt = Requests /\ DOMAIN since = Requests /\ attempt[r] \in {0, 1} /\ token[r] \in 0..Len(ends)
          /\ since \in [Requests -> 0..now] /\ token \in [Requests -> 0..Len(ends)] /\ attempt \in [Requests -> {0, 1}]
      BY <1>1 DEF TypeOK
    <3>2. attempt' = [attempt EXCEPT ![r] = attempt'[r]] /\ attempt'[r] \in {0, 1}
      BY <3>1
    <3>3. since' = [since EXCEPT ![r] = since'[r]] /\ since'[r] \in 0..now
      BY <2>1, <3>1
    <3>4. token' = [token EXCEPT ![r] = token'[r]] /\ token'[r] \in 0..Len(ends)
      BY <3>1
    <3> QED
      BY <1>8, <3>2, <3>3, <3>4 DEF Steps
  <2>3. /\ pc'[r] \in InToken => mu' = r /\ mu \in {r, Free}
        /\ pc'[r] \notin InToken => mu' = IF mu = r THEN Free ELSE mu
    BY <1>1, <1>2 DEF TypeOK, InToken
  <2>4. /\ UNCHANGED <<tokens, now, ends, signedOut, refreshable, mfa, signOuts>>
        /\ applied' \in [Requests -> Nat] /\ faults' \in 0..MaxFaults
    BY <1>1 DEF TypeOK, service
  <2> QED
    BY <1>1, <2>2, <2>3, <2>4, TypesKept
<1>4. ClockOK' /\ TokensOK' /\ SentOK'
  <2>1. now \in Nat
    BY Numbers
  <2>2. ClockOK'
    BY <1>1, <1>8, <2>1 DEF ClockOK, Calling
  <2>3. TokensOK'
    <3>1. \A q \in Requests : pc'[q] = "refresh" => pc[q] = "refresh"
      BY <1>8
    <3> QED
      BY <1>1, <1>8, <3>1 DEF TokensOK
  <2>4. SentOK'
    BY <1>1, <1>8 DEF SentOK
  <2> QED
    BY <2>2, <2>3, <2>4
<1>5. AppliedOK'
  BY <1>1 DEF TypeOK, AppliedOK, InToken, Ended, service
<1>7. SignOutsOK'
  <2>1. /\ attempt'[r] = 1 => attempt[r] = 1
        /\ pc'[r] \notin {"sent", "refused"} /\ \A q \in Requests \ {r} : pc'[q] = pc[q] /\ attempt'[q] = attempt[q]
    BY <1>1 DEF TypeOK
  <2> QED
    BY <1>1, <2>1 DEF SignOutsOK, service
<1>6. LoginIsLastResort'
  BY <1>1, <1>2 DEF TypeOK, LoginIsLastResort, InToken, service
<1> QED
  BY <1>1, <1>3, <1>4, <1>5, <1>6, <1>7 DEF IInv

LEMMA RefreshCallKeeps ==
  ASSUME IInv, NEW r \in Requests, RefreshCall(r)
  PROVE  IInv'
<1>1. /\ pc[r] = "refresh" /\ TypeOK /\ TokensOK
      /\ UNCHANGED <<attempt, now, signedOut, refreshable, mfa, applied, signOuts>>
  BY DEF RefreshCall, IInv
<1>2. CASE Receive(r, FALSE) /\ UNCHANGED faults
  <2>1. tokens.refresh /\ refreshable' \in BOOLEAN
    BY <1>1 DEF TokensOK, TypeOK
  <2> QED
    BY <1>1, <1>2, <2>1, ReceiveKeeps
<1>3. CASE /\ CallAt(r, "initiate") /\ UNCHANGED <<token, mu, tokens, ends>>
           /\ (~refreshable /\ UNCHANGED faults) \/ Fault
  <2>1. faults' \in 0..MaxFaults /\ faults' >= faults /\ (~refreshable \/ faults' > 0)
    BY <1>1, <1>3, TimeAssumption DEF TypeOK, Fault
  <2>2. /\ pc' = [pc EXCEPT ![r] = "initiate"] /\ since' = [since EXCEPT ![r] = now]
        /\ UNCHANGED <<token, tokens, now, service, signOuts, mu, attempt>> /\ pc[r] \in InToken
    BY <1>1, <1>3 DEF CallAt, Goto, service, InToken
  <2> QED
    BY <2>1, <2>2, TokenStepKeeps
<1> QED
  BY <1>2, <1>3 DEF RefreshCall

LEMMA InitiateKeeps ==
  ASSUME IInv, NEW r \in Requests, Initiate(r)
  PROVE  IInv'
<1>1. /\ pc[r] \in InToken /\ TypeOK
      /\ UNCHANGED <<now, signedOut, refreshable, mfa, applied, signOuts>>
  BY DEF Initiate, IInv, InToken
<1>2. CASE CallAt(r, "respond") /\ UNCHANGED <<attempt, token, mu, tokens, ends, faults>>
  <2>1. /\ pc' = [pc EXCEPT ![r] = "respond"] /\ since' = [since EXCEPT ![r] = now]
        /\ UNCHANGED <<token, tokens, now, service, signOuts, mu, attempt>>
        /\ faults' \in 0..MaxFaults /\ faults' >= faults
    BY <1>1, <1>2, TimeAssumption DEF CallAt, Goto, service, TypeOK
  <2> QED
    BY <1>1, <2>1, TokenStepKeeps
<1>3. CASE Fault /\ Fail(r)
  <2>1. /\ pc' = [pc EXCEPT ![r] = "failed"] /\ mu' = Free
        /\ since' = [since EXCEPT ![r] = 0] /\ attempt' = [attempt EXCEPT ![r] = 0]
        /\ UNCHANGED <<token, tokens, now, service, signOuts>>
        /\ faults' \in 0..MaxFaults /\ faults' >= faults
    BY <1>1, <1>3, TimeAssumption DEF Fault, Fail, Goto, service, TypeOK
  <2> QED
    BY <1>1, <2>1, TokenStepKeeps
<1> QED
  BY <1>2, <1>3 DEF Initiate

LEMMA RespondKeeps ==
  ASSUME IInv, NEW r \in Requests, Respond(r)
  PROVE  IInv'
<1>1. /\ pc[r] = "respond" /\ pc[r] \in InToken /\ TypeOK
      /\ UNCHANGED <<now, signedOut, mfa, applied, signOuts>>
  BY DEF Respond, IInv, InToken
<1>2. CASE Receive(r, TRUE) /\ refreshable' = TRUE /\ UNCHANGED <<attempt, faults>>
  BY <1>1, <1>2, ReceiveKeeps
<1>3. CASE Fail(r) /\ UNCHANGED refreshable /\ (UNCHANGED faults \/ Fault)
  <2>1. /\ pc' = [pc EXCEPT ![r] = "failed"] /\ mu' = Free
        /\ since' = [since EXCEPT ![r] = 0] /\ attempt' = [attempt EXCEPT ![r] = 0]
        /\ UNCHANGED <<token, tokens, now, service, signOuts>>
        /\ faults' \in 0..MaxFaults /\ faults' >= faults
    BY <1>1, <1>3, TimeAssumption DEF Fault, Fail, Goto, service, TypeOK
  <2> QED
    BY <1>1, <2>1, TokenStepKeeps
<1> QED
  BY <1>2, <1>3 DEF Respond

\* A request on its way is refused only when its token was signed out, or it is denied.
LEMMA ServeKeeps ==
  ASSUME IInv, NEW r \in Requests, Serve(r)
  PROVE  IInv'
<1> USE TimeAssumption, FreeAssumption
<1>1. TypeOK /\ ClockOK /\ TokensOK /\ SentOK /\ AppliedOK /\ SignOutsOK /\ LoginIsLastResort
  BY DEF IInv
<1>2. /\ pc[r] = "sent" /\ UNCHANGED <<mu, tokens, now, ends, signedOut, refreshable, mfa, signOuts>>
      /\ since' = [since EXCEPT ![r] = 0] /\ token' = [token EXCEPT ![r] = 0]
  BY DEF Serve, Answered
<1>3. /\ now \in Nat /\ Len(ends) \in Nat /\ faults \in Nat /\ signedOut \in Nat /\ signOuts \in Nat
      /\ token[r] \in Nat \ {0} /\ now < ends[token[r]] /\ ends[token[r]] \in Nat
  BY <1>2, Numbers
<1>4. Refuses(r) => token[r] <= signedOut \/ r \in Denied
  BY <1>3 DEF Refuses
<1>5. faults' \in 0..MaxFaults /\ faults' >= faults
  <2>1. faults \in 0..MaxFaults
    BY <1>1 DEF TypeOK
  <2>2. UNCHANGED faults \/ Fault
    BY DEF Serve
  <2> QED
    BY <1>3, <2>1, <2>2 DEF Fault
<1>6. \/ Refuses(r) /\ Answered(r, "refused") /\ UNCHANGED applied
      \/ Take(r) /\ Answered(r, "ok")
      \/ Answered(r, "failed") /\ (UNCHANGED applied \/ Take(r))
  BY DEF Serve
<1>7. /\ \/ pc'[r] = "lock" /\ attempt'[r] = 1 /\ Refuses(r) /\ UNCHANGED applied
         \/ pc'[r] = "refused" /\ attempt'[r] = 0 /\ attempt[r] = 1 /\ Refuses(r) /\ UNCHANGED applied
         \/ pc'[r] = "ok" /\ attempt'[r] = 0 /\ Take(r)
         \/ pc'[r] = "failed" /\ attempt'[r] = 0 /\ (UNCHANGED applied \/ Take(r))
      /\ pc' = [pc EXCEPT ![r] = pc'[r]] /\ attempt' = [attempt EXCEPT ![r] = attempt'[r]]
  BY <1>1, <1>6 DEF Answered, Repeats, Goto, TypeOK
<1>8. \A q \in Requests \ {r} :
        pc'[q] = pc[q] /\ attempt'[q] = attempt[q] /\ token'[q] = token[q] /\ since'[q] = since[q]
        /\ applied'[q] = applied[q]
  BY <1>1, <1>2, <1>7 DEF TypeOK, Take
<1>9. TypeOK'
  <2>1. /\ pc'[r] \in Steps /\ attempt'[r] \in {0, 1} /\ pc'[r] \notin InToken
        /\ token'[r] \in 0..Len(ends) /\ since'[r] \in 0..now
        /\ token' = [token EXCEPT ![r] = token'[r]] /\ since' = [since EXCEPT ![r] = since'[r]]
    <3>1. pc'[r] \in Steps /\ attempt'[r] \in {0, 1} /\ pc'[r] \notin InToken
      BY <1>7 DEF Steps, InToken
    <3>2. DOMAIN token = Requests /\ DOMAIN since = Requests
      BY <1>1 DEF TypeOK
    <3>3. token'[r] = 0 /\ since'[r] = 0
      BY <1>2, <3>2
    <3>4. token' = [token EXCEPT ![r] = token'[r]] /\ since' = [since EXCEPT ![r] = since'[r]]
      BY <1>2, <3>3
    <3> QED
      BY <1>3, <3>1, <3>3, <3>4
  <2>2. mu' = IF mu = r THEN Free ELSE mu
    BY <1>1, <1>2 DEF TypeOK
  <2>3. applied' \in [Requests -> Nat]
    <3>1. applied \in [Requests -> Nat]
      BY <1>1 DEF TypeOK
    <3>2. applied' = applied \/ applied' = [applied EXCEPT ![r] = @ + 1]
      BY <1>7 DEF Take
    <3> QED
      BY <3>1, <3>2
  <2> QED
    BY <1>1, <1>2, <1>5, <1>7, <2>1, <2>2, <2>3, TypesKept
<1>10. ClockOK'
  BY <1>1, <1>2, <1>7, <1>8 DEF ClockOK, Calling
<1>11. TokensOK' /\ SentOK'
  BY <1>1, <1>2, <1>7, <1>8 DEF TokensOK, SentOK
<1>12. AppliedOK'
  <2>1. applied[r] = 0
    BY <1>1, <1>2 DEF AppliedOK, Ended
  <2>2. applied' = applied \/ applied'[r] = IF r \in Posts THEN 1 ELSE 0
    BY <1>1, <1>7, <2>1 DEF TypeOK, Take
  <2>3. /\ pc'[r] \notin Ended \/ pc'[r] = "refused" => applied'[r] = 0
        /\ applied'[r] <= 1
        /\ pc'[r] = "ok" /\ r \in Posts => applied'[r] = 1
    BY <1>1, <1>7, <2>1, <2>2 DEF Take, TypeOK, Ended
  <2> QED
    BY <1>1, <1>8, <2>3 DEF AppliedOK
<1>13. SignOutsOK'
  <2>1. ASSUME r \notin Denied
        PROVE  /\ attempt'[r] = 1 => signOuts > 0
               /\ pc'[r] # "sent"
               /\ pc'[r] = "refused" => signOuts > 1
    BY <1>1, <1>2, <1>3, <1>4, <1>7, <2>1 DEF SignOutsOK
  <2> QED
    BY <1>1, <1>2, <1>8, <2>1 DEF SignOutsOK
<1>14. LoginIsLastResort'
  BY <1>1, <1>2, <1>3, <1>5, <1>7, <1>8 DEF LoginIsLastResort
<1> QED
  BY <1>9, <1>10, <1>11, <1>12, <1>13, <1>14 DEF IInv

LEMMA TickKeeps ==
  ASSUME IInv, Tick
  PROVE  IInv'
<1>1. TypeOK'
  BY TimeAssumption DEF IInv, Tick, TypeOK, client, service
<1>2. ClockOK' /\ TokensOK' /\ SentOK'
  BY DEF IInv, Tick, TypeOK, ClockOK, TokensOK, SentOK, client, service
<1>3. AppliedOK' /\ SignOutsOK' /\ LoginIsLastResort'
  BY DEF IInv, Tick, AppliedOK, SignOutsOK, LoginIsLastResort, client, service
<1> QED
  BY <1>1, <1>2, <1>3 DEF IInv

LEMMA SignOutKeeps ==
  ASSUME IInv, SignOut
  PROVE  IInv'
<1>1. TypeOK'
  <2>0. Len(ends) \in Nat /\ signOuts \in Nat
    BY Numbers
  <2>1. signOuts' \in 0..MaxSignOuts /\ signedOut' \in 0..Len(ends)
    BY <2>0, TimeAssumption DEF SignOut
  <2>2. refreshable' \in BOOLEAN
    BY DEF IInv, SignOut, TypeOK
  <2> QED
    BY <2>1, <2>2 DEF IInv, SignOut, TypeOK, client
<1>2. ClockOK' /\ TokensOK' /\ SentOK' /\ AppliedOK'
  BY DEF IInv, SignOut, ClockOK, TokensOK, SentOK, AppliedOK, client
<1>3. SignOutsOK'
  <2>1. signOuts \in Nat
    BY Numbers
  <2> QED
    BY <2>1 DEF IInv, SignOut, SignOutsOK, client
<1>4. LoginIsLastResort'
  BY DEF IInv, SignOut, TypeOK, LoginIsLastResort, client
<1> QED
  BY <1>1, <1>2, <1>3, <1>4 DEF IInv

LEMMA NextKeeps == IInv /\ [Next]_vars => IInv'
<1> SUFFICES ASSUME IInv, [Next]_vars
             PROVE  IInv'
  OBVIOUS
<1>1. ASSUME NEW r \in Requests, Step(r)
      PROVE  IInv'
  BY <1>1, LockKeeps, RefreshCallKeeps, InitiateKeeps, RespondKeeps, ServeKeeps DEF Step
<1>2. CASE UNCHANGED vars
  BY <1>2 DEF vars, client, service, IInv, TypeOK, ClockOK, TokensOK, SentOK, AppliedOK, SignOutsOK, LoginIsLastResort
<1> QED
  BY <1>1, <1>2, TickKeeps, SignOutKeeps DEF Next

-----------------------------------------------------------------------------
\* The invariant holds of every reachable state, of which what follows are parts.
THEOREM ClientInvariant == Spec => []IInv
BY InitIInv, NextKeeps, PTL DEF Spec

\* Types; in particular the mutex is held by the one request that is getting a token.
THEOREM ClientTypeCorrect == Spec => []TypeOK
<1>1. IInv => TypeOK
  BY DEF IInv
<1> QED
  BY <1>1, ClientInvariant, PTL

\* A write is applied once when it is answered and never twice, although a refused one is
\* sent again.
THEOREM WritesAppliedAtMostOnce == Spec => []AppliedAtMostOnce
<1>1. IInv => AppliedAtMostOnce
  BY DEF IInv, AppliedOK, AppliedAtMostOnce
<1> QED
  BY <1>1, ClientInvariant, PTL

\* No token ends before the request it was handed out for is served.
THEOREM TokensOutlastRequests == Spec => []NoneEndsInFlight
<1>1. IInv => NoneEndsInFlight
  BY Numbers DEF NoneEndsInFlight
<1> QED
  BY <1>1, ClientInvariant, PTL

\* One sign-out is repaired by one login: it takes two to have a request refused.
THEOREM SignOutIsRepaired == Spec => []OneSignOutIsRepaired
<1>1. IInv => OneSignOutIsRepaired
  BY DEF IInv, TypeOK, SignOutsOK, OneSignOutIsRepaired
<1> QED
  BY <1>1, ClientInvariant, PTL

\* The password is sent again only after a refusal or when the refresh token is of no use.
THEOREM PasswordIsLastResort == Spec => []LoginIsLastResort
<1>1. IInv => LoginIsLastResort
  BY DEF IInv
<1> QED
  BY <1>1, ClientInvariant, PTL
=============================================================================
