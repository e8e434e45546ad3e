----------------------------- MODULE TokenProofs -----------------------------
(***************************************************************************)
(* ServiceToken for every lifetime, skew and lag its assumption allows and *)
(* for any number of tokens: TokenInv is inductive, and each property is   *)
(* one of its conjuncts.                                                   *)
(***************************************************************************)
EXTENDS ServiceToken, TLAPS

USE DEF keycloakVars, cacheVars, callVars, Points, Statuses, Results

(* No cache, no call: the invariant holds when the process starts.         *)
LEMMA TokenInitInv == TokenInit => TokenInv
  BY TokenAssumption
  DEF TokenInit, TokenInv, TokenTypeOK, CacheAge, InTime, CallSoFar,
      OnlyRevokedRefused, OneRetryWithNewToken, SuccessIsDone

(* A fresh call starts with the cached token if it has a journey and more to live. *)
LEMMA BeginInv ==
  ASSUME TokenInv, NEW c \in Clients, Begin(c)
  PROVE  TokenInv'
<1>1. TokenTypeOK'
  BY TokenAssumption
  DEF TokenInv, TokenTypeOK, CacheAge, InTime, CallSoFar, Begin, GetToken, IsExpired
<1>2. CacheAge'
  BY TokenAssumption
  DEF TokenInv, TokenTypeOK, CacheAge, InTime, Begin, GetToken, IsExpired
<1>3. InTime'
  BY TokenAssumption
  DEF TokenInv, TokenTypeOK, CacheAge, InTime, Begin, GetToken, IsExpired
<1>4. CallSoFar'
  BY TokenAssumption
  DEF TokenInv, TokenTypeOK, CacheAge, InTime, CallSoFar, Begin, GetToken, IsExpired
<1>5. OnlyRevokedRefused'
  BY TokenAssumption
  DEF TokenInv, TokenTypeOK, InTime, CallSoFar, OnlyRevokedRefused, Begin, GetToken, IsExpired
<1>6. OneRetryWithNewToken'
  BY TokenAssumption
  DEF TokenInv, TokenTypeOK, CacheAge, InTime, CallSoFar, OneRetryWithNewToken, Begin, GetToken, IsExpired
<1>7. SuccessIsDone'
  BY TokenAssumption
  DEF TokenInv, TokenTypeOK, CallSoFar, SuccessIsDone, Begin, GetToken, IsExpired
<1> QED
  BY <1>1, <1>2, <1>3, <1>4, <1>5, <1>6, <1>7 DEF TokenInv

(* The token's life begins while no message is under way. *)
LEMMA IssueInv ==
  ASSUME TokenInv, Issue
  PROVE  TokenInv'
<1>1. TokenTypeOK'
  BY TokenAssumption
  DEF TokenInv, TokenTypeOK, CacheAge, InTime, CallSoFar, Issue
<1>2. CacheAge'
  BY TokenAssumption
  DEF TokenInv, TokenTypeOK, CacheAge, InTime, Issue
<1>3. InTime'
  BY TokenAssumption
  DEF TokenInv, TokenTypeOK, CacheAge, InTime, Issue
<1>4. CallSoFar'
  BY TokenAssumption
  DEF TokenInv, TokenTypeOK, CacheAge, InTime, CallSoFar, Issue
<1>5. OnlyRevokedRefused'
  BY TokenAssumption
  DEF TokenInv, TokenTypeOK, InTime, CallSoFar, OnlyRevokedRefused, Issue
<1>6. OneRetryWithNewToken'
  BY TokenAssumption
  DEF TokenInv, TokenTypeOK, CacheAge, InTime, CallSoFar, OneRetryWithNewToken, Issue
<1>7. SuccessIsDone'
  BY TokenAssumption
  DEF TokenInv, TokenTypeOK, CallSoFar, SuccessIsDone, Issue
<1> QED
  BY <1>1, <1>2, <1>3, <1>4, <1>5, <1>6, <1>7 DEF TokenInv

(* The cache ages the token from its arrival, by at most one journey too late. *)
LEMMA ReceiveInv ==
  ASSUME TokenInv, Receive
  PROVE  TokenInv'
<1>1. TokenTypeOK'
  BY TokenAssumption
  DEF TokenInv, TokenTypeOK, CacheAge, InTime, CallSoFar, Receive
<1>2. CacheAge'
  BY TokenAssumption
  DEF TokenInv, TokenTypeOK, CacheAge, InTime, Receive
<1>3. InTime'
  BY TokenAssumption
  DEF TokenInv, TokenTypeOK, CacheAge, InTime, Receive
<1>4. CallSoFar'
  BY TokenAssumption
  DEF TokenInv, TokenTypeOK, CacheAge, InTime, CallSoFar, Receive
<1>5. OnlyRevokedRefused'
  BY TokenAssumption
  DEF TokenInv, TokenTypeOK, InTime, CallSoFar, OnlyRevokedRefused, Receive
<1>6. OneRetryWithNewToken'
  BY TokenAssumption
  DEF TokenInv, TokenTypeOK, CacheAge, InTime, CallSoFar, OneRetryWithNewToken, Receive
<1>7. SuccessIsDone'
  BY TokenAssumption
  DEF TokenInv, TokenTypeOK, CallSoFar, SuccessIsDone, Receive
<1> QED
  BY <1>1, <1>2, <1>3, <1>4, <1>5, <1>6, <1>7 DEF TokenInv

(* The call ends, the cache is left as it was. *)
LEMMA NoTokenInv ==
  ASSUME TokenInv, NoToken
  PROVE  TokenInv'
<1>1. TokenTypeOK'
  BY TokenAssumption
  DEF TokenInv, TokenTypeOK, CacheAge, InTime, CallSoFar, NoToken, Ended, Unanswered
<1>2. CacheAge'
  BY TokenAssumption
  DEF TokenInv, TokenTypeOK, CacheAge, InTime, NoToken, Ended, Unanswered
<1>3. InTime'
  BY TokenAssumption
  DEF TokenInv, TokenTypeOK, CacheAge, InTime, NoToken, Ended, Unanswered
<1>4. CallSoFar'
  BY TokenAssumption
  DEF TokenInv, TokenTypeOK, CacheAge, InTime, CallSoFar, NoToken, Ended, Unanswered
<1>5. OnlyRevokedRefused'
  BY TokenAssumption
  DEF TokenInv, TokenTypeOK, InTime, CallSoFar, OnlyRevokedRefused, NoToken, Ended, Unanswered
<1>6. OneRetryWithNewToken'
  BY TokenAssumption
  DEF TokenInv, TokenTypeOK, CacheAge, InTime, CallSoFar, OneRetryWithNewToken, NoToken, Ended, Unanswered
<1>7. SuccessIsDone'
  BY TokenAssumption
  DEF TokenInv, TokenTypeOK, CallSoFar, SuccessIsDone, NoToken, Ended, Unanswered
<1> QED
  BY <1>1, <1>2, <1>3, <1>4, <1>5, <1>6, <1>7 DEF TokenInv

(* What is not revoked is in time: the skew covered the journey. *)
LEMMA ArriveInv ==
  ASSUME TokenInv, Arrive
  PROVE  TokenInv'
<1>1. /\ posts \in 0 .. 1 /\ done = 0 /\ (posts = 1 => refused # 0)
      /\ cached \in 1 .. issued /\ clock + MaxLag < bornAt[cached] + Lifetime + lag
      /\ lag <= MaxLag /\ result = "none"
  BY TokenAssumption DEF TokenInv, TokenTypeOK, CacheAge, InTime, CallSoFar, Arrive
<1>2. clock < bornAt[cached] + Lifetime
  BY <1>1, TokenAssumption DEF TokenInv, TokenTypeOK
<1>3. \/ /\ answer' = "401" /\ refused' = cached /\ cached <= revoked
         /\ done' = 0
      \/ answer' = "accepted" /\ done' = 1 /\ refused' = refused
      \/ answer' = "other" /\ done' \in {0, 1} /\ refused' = refused
  BY <1>1, <1>2 DEF Arrive, Valid, TokenInv, TokenTypeOK
<1>4. /\ posts' = posts + 1 /\ pc' = "answered" /\ lag' = 0
      /\ UNCHANGED <<clock, issued, bornAt, revoked, cached, expires, client, result>>
  BY DEF Arrive
<1>5. posts' \in 1 .. 2 /\ (posts' = 2 => posts = 1)
  BY <1>1, <1>4
<1>6. TokenTypeOK'
  <2>1. refused' \in 0 .. MaxTokens /\ done' \in Nat /\ answer' \in Statuses
    BY <1>1, <1>3 DEF TokenInv, TokenTypeOK
  <2>2. lag' \in 0 .. MaxLag /\ pc' \in Points
    BY <1>4, TokenAssumption
  <2> QED
    BY <2>1, <2>2, <1>4, <1>5 DEF TokenInv, TokenTypeOK
<1>7. CacheAge'
  BY <1>4 DEF TokenInv, CacheAge
<1>8. InTime'
  BY <1>4 DEF InTime
<1>9. CallSoFar'
  BY <1>1, <1>3, <1>4, <1>5 DEF TokenInv, TokenTypeOK, CallSoFar
<1>10. OnlyRevokedRefused'
  BY <1>3, <1>4 DEF OnlyRevokedRefused
<1>11. OneRetryWithNewToken'
  <2>1. posts' = 2 => refused' # 0
    BY <1>1, <1>3, <1>5
  <2> QED
    BY <2>1, <1>4, <1>5 DEF OneRetryWithNewToken
<1>12. SuccessIsDone'
  BY <1>1, <1>3, <1>4 DEF SuccessIsDone
<1> QED
  BY <1>6, <1>7, <1>8, <1>9, <1>10, <1>11, <1>12 DEF TokenInv

(* The call ends without an outcome that counts. *)
LEMMA LostInv ==
  ASSUME TokenInv, Lost
  PROVE  TokenInv'
<1>1. TokenTypeOK'
  BY TokenAssumption
  DEF TokenInv, TokenTypeOK, CacheAge, InTime, CallSoFar, Lost, Ended, Unanswered
<1>2. CacheAge'
  BY TokenAssumption
  DEF TokenInv, TokenTypeOK, CacheAge, InTime, Lost, Ended, Unanswered
<1>3. InTime'
  BY TokenAssumption
  DEF TokenInv, TokenTypeOK, CacheAge, InTime, Lost, Ended, Unanswered
<1>4. CallSoFar'
  BY TokenAssumption
  DEF TokenInv, TokenTypeOK, CacheAge, InTime, CallSoFar, Lost, Ended, Unanswered
<1>5. OnlyRevokedRefused'
  BY TokenAssumption
  DEF TokenInv, TokenTypeOK, InTime, CallSoFar, OnlyRevokedRefused, Lost, Ended, Unanswered
<1>6. OneRetryWithNewToken'
  BY TokenAssumption
  DEF TokenInv, TokenTypeOK, CacheAge, InTime, CallSoFar, OneRetryWithNewToken, Lost, Ended, Unanswered
<1>7. SuccessIsDone'
  BY TokenAssumption
  DEF TokenInv, TokenTypeOK, CallSoFar, SuccessIsDone, Lost, Ended, Unanswered
<1> QED
  BY <1>1, <1>2, <1>3, <1>4, <1>5, <1>6, <1>7 DEF TokenInv

(* The cache is empty, so that the second post waits for a new token. *)
LEMMA RetryInv ==
  ASSUME TokenInv, Retry
  PROVE  TokenInv'
<1>1. TokenTypeOK'
  BY TokenAssumption
  DEF TokenInv, TokenTypeOK, CacheAge, InTime, CallSoFar, Retry, Invalidate, GetToken, IsExpired
<1>2. CacheAge'
  BY TokenAssumption
  DEF TokenInv, TokenTypeOK, CacheAge, InTime, Retry, Invalidate, GetToken, IsExpired
<1>3. InTime'
  BY TokenAssumption
  DEF TokenInv, TokenTypeOK, CacheAge, InTime, Retry, Invalidate, GetToken, IsExpired
<1>4. CallSoFar'
  BY TokenAssumption
  DEF TokenInv, TokenTypeOK, CacheAge, InTime, CallSoFar, Retry, Invalidate, GetToken, IsExpired
<1>5. OnlyRevokedRefused'
  BY TokenAssumption
  DEF TokenInv, TokenTypeOK, InTime, CallSoFar, OnlyRevokedRefused, Retry, Invalidate, GetToken, IsExpired
<1>6. OneRetryWithNewToken'
  BY TokenAssumption
  DEF TokenInv, TokenTypeOK, CacheAge, InTime, CallSoFar, OneRetryWithNewToken, Retry, Invalidate, GetToken, IsExpired
<1>7. SuccessIsDone'
  BY TokenAssumption
  DEF TokenInv, TokenTypeOK, CallSoFar, SuccessIsDone, Retry, Invalidate, GetToken, IsExpired
<1> QED
  BY <1>1, <1>2, <1>3, <1>4, <1>5, <1>6, <1>7 DEF TokenInv

(* Success is reported of an accepted call only. *)
LEMMA FinishInv ==
  ASSUME TokenInv, Finish
  PROVE  TokenInv'
<1>1. TokenTypeOK'
  BY TokenAssumption
  DEF TokenInv, TokenTypeOK, CacheAge, InTime, CallSoFar, Finish, Ended, Outcome
<1>2. CacheAge'
  BY TokenAssumption
  DEF TokenInv, TokenTypeOK, CacheAge, InTime, Finish, Ended, Outcome
<1>3. InTime'
  BY TokenAssumption
  DEF TokenInv, TokenTypeOK, CacheAge, InTime, Finish, Ended, Outcome
<1>4. CallSoFar'
  BY TokenAssumption
  DEF TokenInv, TokenTypeOK, CacheAge, InTime, CallSoFar, Finish, Ended, Outcome
<1>5. OnlyRevokedRefused'
  BY TokenAssumption
  DEF TokenInv, TokenTypeOK, InTime, CallSoFar, OnlyRevokedRefused, Finish, Ended, Outcome
<1>6. OneRetryWithNewToken'
  BY TokenAssumption
  DEF TokenInv, TokenTypeOK, CacheAge, InTime, CallSoFar, OneRetryWithNewToken, Finish, Ended, Outcome
<1>7. SuccessIsDone'
  BY TokenAssumption
  DEF TokenInv, TokenTypeOK, CallSoFar, SuccessIsDone, Finish, Ended, Outcome
<1> QED
  BY <1>1, <1>2, <1>3, <1>4, <1>5, <1>6, <1>7 DEF TokenInv

(* The message under way ages with the clock. *)
LEMMA TickInv ==
  ASSUME TokenInv, Tick
  PROVE  TokenInv'
<1>1. TokenTypeOK'
  BY TokenAssumption
  DEF TokenInv, TokenTypeOK, CacheAge, InTime, CallSoFar, Tick, Moving
<1>2. CacheAge'
  BY TokenAssumption
  DEF TokenInv, TokenTypeOK, CacheAge, InTime, Tick, Moving
<1>3. InTime'
  <2>1. CASE pc = "delivering"
    BY <2>1 DEF TokenInv, TokenTypeOK, InTime, Tick, Moving
  <2>2. CASE pc = "posting"
    <3>1. cached \in 1 .. MaxTokens /\ bornAt[cached] \in Nat
      BY <2>2 DEF TokenInv, TokenTypeOK, InTime
    <3>2. clock' = clock + 1 /\ lag' = lag + 1 /\ UNCHANGED <<bornAt, cached, pc>>
      BY <2>2 DEF Tick, Moving
    <3> QED
      BY <2>2, <3>1, <3>2, TokenAssumption DEF TokenInv, TokenTypeOK, InTime
  <2>3. CASE pc \notin {"delivering", "posting"}
    BY <2>3 DEF InTime, Tick
  <2> QED
    BY <2>1, <2>2, <2>3
<1>4. CallSoFar'
  BY TokenAssumption
  DEF TokenInv, TokenTypeOK, CacheAge, InTime, CallSoFar, Tick, Moving
<1>5. OnlyRevokedRefused'
  BY TokenAssumption
  DEF TokenInv, TokenTypeOK, InTime, CallSoFar, OnlyRevokedRefused, Tick, Moving
<1>6. OneRetryWithNewToken'
  BY TokenAssumption
  DEF TokenInv, TokenTypeOK, CacheAge, InTime, CallSoFar, OneRetryWithNewToken, Tick, Moving
<1>7. SuccessIsDone'
  BY TokenAssumption
  DEF TokenInv, TokenTypeOK, CallSoFar, SuccessIsDone, Tick, Moving
<1> QED
  BY <1>1, <1>2, <1>3, <1>4, <1>5, <1>6, <1>7 DEF TokenInv

(* More tokens are revoked, none less. *)
LEMMA RevokeInv ==
  ASSUME TokenInv, Revoke
  PROVE  TokenInv'
<1>1. TokenTypeOK'
  BY TokenAssumption
  DEF TokenInv, TokenTypeOK, CacheAge, InTime, CallSoFar, Revoke
<1>2. CacheAge'
  BY TokenAssumption
  DEF TokenInv, TokenTypeOK, CacheAge, InTime, Revoke
<1>3. InTime'
  BY TokenAssumption
  DEF TokenInv, TokenTypeOK, CacheAge, InTime, Revoke
<1>4. CallSoFar'
  BY TokenAssumption
  DEF TokenInv, TokenTypeOK, CacheAge, InTime, CallSoFar, Revoke
<1>5. OnlyRevokedRefused'
  BY TokenAssumption
  DEF TokenInv, TokenTypeOK, InTime, CallSoFar, OnlyRevokedRefused, Revoke
<1>6. OneRetryWithNewToken'
  BY TokenAssumption
  DEF TokenInv, TokenTypeOK, CacheAge, InTime, CallSoFar, OneRetryWithNewToken, Revoke
<1>7. SuccessIsDone'
  BY TokenAssumption
  DEF TokenInv, TokenTypeOK, CallSoFar, SuccessIsDone, Revoke
<1> QED
  BY <1>1, <1>2, <1>3, <1>4, <1>5, <1>6, <1>7 DEF TokenInv

(* Every step, and the step that changes nothing, keeps the invariant.     *)
THEOREM TokenStep == TokenInv /\ [TokenNext]_tokenVars => TokenInv'
<1> SUFFICES ASSUME TokenInv, [TokenNext]_tokenVars PROVE TokenInv'
  OBVIOUS
<1>1. ASSUME NEW c \in Clients, Begin(c) PROVE TokenInv'
  BY <1>1, BeginInv
<1>2. CASE Issue
  BY <1>2, IssueInv
<1>3. CASE Receive
  BY <1>3, ReceiveInv
<1>4. CASE NoToken
  BY <1>4, NoTokenInv
<1>5. CASE Arrive
  BY <1>5, ArriveInv
<1>6. CASE Lost
  BY <1>6, LostInv
<1>7. CASE Retry
  BY <1>7, RetryInv
<1>8. CASE Finish
  BY <1>8, FinishInv
<1>9. CASE Tick
  BY <1>9, TickInv
<1>10. CASE Revoke
  BY <1>10, RevokeInv
<1>11. CASE UNCHANGED tokenVars
  BY <1>11
  DEF tokenVars, TokenInv, TokenTypeOK, CacheAge, InTime, CallSoFar,
      OnlyRevokedRefused, OneRetryWithNewToken, SuccessIsDone
<1> QED
  BY <1>1, <1>2, <1>3, <1>4, <1>5, <1>6, <1>7, <1>8, <1>9, <1>10, <1>11 DEF TokenNext

(* The invariant holds in every state of every behaviour.                  *)
THEOREM TokenInvariance == TokenSpec => []TokenInv
<1> QED
  BY TokenInitInv, TokenStep, PTL DEF TokenSpec

(* Every variable of the token calls keeps its type: in particular a call is
   never posted a third time. *)
THEOREM TokenTypes == TokenSpec => []TokenTypeOK
<1>1. TokenInv => TokenTypeOK
  BY DEF TokenInv
<1> QED
  BY <1>1, TokenInvariance, PTL

(* The skew covers both journeys: the service refuses no token but a revoked
   one, whatever the lifetime and the lag. *)
THEOREM RefusedOnlyWhenRevoked == TokenSpec => []OnlyRevokedRefused
<1>1. TokenInv => OnlyRevokedRefused
  BY DEF TokenInv
<1> QED
  BY <1>1, TokenInvariance, PTL

(* A refused call is posted once more, with a younger token than the refused
   one, and the retry repeats nothing: a call the client reports as a success
   had its effect exactly once. *)
THEOREM SafeRetry == TokenSpec => []RetryIsSafe
<1>1. TokenInv => RetryIsSafe
  BY DEF TokenInv, RetryIsSafe
<1> QED
  BY <1>1, TokenInvariance, PTL

=============================================================================
