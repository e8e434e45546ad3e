---------------------------- MODULE ServiceToken ----------------------------
(***************************************************************************)
(* The calls that carry a Keycloak client-credentials token: the batch     *)
(* notification, the SPIN match of a manual upload and the poller's        *)
(* upload.  Each process has one provider and makes one call at a time.    *)
(* The provider measures the life of a token from the moment its answer    *)
(* arrives, Keycloak from the moment it was issued, and the service judges *)
(* it only when the call arrives: the skew has to cover both journeys.     *)
(***************************************************************************)
EXTENDS Naturals

CONSTANTS
  Clients,    \* which of "notify", "spin", "intake" make calls
  Lifetime,   \* expires_in of every token
  Skew,       \* _TOKEN_REFRESH_SKEW_SECONDS
  MaxLag,     \* the longest journey of a message
  MaxClock,   \* bound: the clock stops here
  MaxTokens   \* bound: tokens Keycloak issues

ASSUME TokenAssumption ==
  /\ Clients \subseteq {"notify", "spin", "intake"}
  /\ Lifetime \in Nat /\ Skew \in Nat /\ MaxLag \in Nat
  /\ MaxClock \in Nat /\ MaxTokens \in Nat
  /\ 2 * MaxLag <= Skew      \* what the skew is there for
  /\ 2 * MaxLag < Lifetime   \* a token outlives its own delivery

VARIABLES
  clock,    \* time.monotonic(), and the time at Keycloak and at the service
  issued,   \* how many tokens Keycloak has issued; a token is its number
  bornAt,   \* [1 .. MaxTokens -> when Keycloak issued it]
  revoked,  \* tokens up to this one are refused: keys rotated, client changed
  cached,   \* _access_token, 0 for None
  expires,  \* _expires_at_monotonic
  pc,       \* program point of the call
  client,   \* whose call it is
  lag,      \* age of the message under way
  posts,    \* requests of this call that were sent to the service
  answer,   \* HTTP status of the last one
  refused,  \* the token the service refused in this call, 0 for none
  done,     \* how often the service did what this call asks for
  result    \* what the client returned last

tokenVars == <<clock, issued, bornAt, revoked, cached, expires, pc, client, lag,
               posts, answer, refused, done, result>>
keycloakVars == <<issued, bornAt, revoked>>
cacheVars    == <<cached, expires>>
callVars     == <<client, posts, answer, refused, done, result>>

Points   == {"idle", "asking", "delivering", "posting", "answered"}
Statuses == {"none", "accepted", "401", "other"}
Results  == {"none", "success", "failure", "unavailable"}

\* Mutant: the skew is forgotten.
IsExpired_NoSkew == clock >= expires
IsExpired == clock + Skew >= expires

\* Mutant: the token is dropped, its replacement is not asked for.
Invalidate_KeepsToken == UNCHANGED cacheVars
Invalidate == cached' = 0 /\ expires' = 0

\* the service knows the token and it has not run out on arrival
Valid(t) == t > revoked /\ clock < bornAt[t] + Lifetime

\* what the client makes of a status that is not 401, or of the second 401:
\* 202 is "accepted" to notify and spin, a readable 200 or 422 to the poller
Outcome(status) == IF status = "accepted" THEN "success" ELSE "failure"

\* no answer: the notify client knows one kind of failure, the SPIN client says
\* it was unavailable, the poller's client raises
Unanswered == IF client = "notify" THEN "failure" ELSE "unavailable"

-----------------------------------------------------------------------------

Ended(r) == pc' = "idle" /\ result' = r /\ lag' = 0

\* get_access_token: the cached token, or _refresh
GetToken == pc' = IF cached' = 0 \/ IsExpired' THEN "asking" ELSE "posting"

Begin(c) ==
  /\ pc = "idle"
  /\ UNCHANGED <<clock, keycloakVars, cacheVars>>
  /\ GetToken
  /\ client' = c /\ posts' = 0 /\ answer' = "none" /\ refused' = 0 /\ done' = 0
  /\ lag' = 0 /\ result' = "none"

\* Keycloak issues a token, its life begins
Issue ==
  /\ pc = "asking" /\ issued < MaxTokens
  /\ issued' = issued + 1
  /\ bornAt' = [bornAt EXCEPT ![issued + 1] = clock]
  /\ pc' = "delivering" /\ lag' = 0
  /\ UNCHANGED <<clock, revoked, cacheVars, callVars>>

\* the answer arrives: _expires_at_monotonic counts from now
Receive ==
  /\ pc = "delivering"
  /\ cached' = issued /\ expires' = clock + Lifetime
  /\ pc' = "posting" /\ lag' = 0
  /\ UNCHANGED <<clock, keycloakVars, callVars>>

\* Keycloak cannot be reached, answers an error or nothing readable
NoToken ==
  /\ pc \in {"asking", "delivering"}
  /\ Ended(Unanswered)
  /\ UNCHANGED <<clock, keycloakVars, cacheVars, client, posts, answer, refused, done>>

\* the request arrives at the service, which may do what it is asked for and
\* still answer with an error or with something unreadable
Arrive ==
  /\ pc = "posting"
  /\ posts' = posts + 1
  /\ pc' = "answered" /\ lag' = 0
  /\ \/ ~Valid(cached) /\ answer' = "401" /\ refused' = cached /\ UNCHANGED done
     \/ Valid(cached) /\ answer' = "accepted" /\ done' = done + 1 /\ UNCHANGED refused
     \/ Valid(cached) /\ answer' = "other" /\ done' \in {done, done + 1} /\ UNCHANGED refused
  /\ UNCHANGED <<clock, keycloakVars, cacheVars, client, result>>

\* a timeout or a transport error before or after the request arrived
Lost ==
  /\ pc \in {"posting", "answered"}
  /\ Ended(Unanswered)
  /\ UNCHANGED <<clock, keycloakVars, cacheVars, client, posts, answer, refused, done>>

\* the first 401: invalidate, get_access_token, post again
Retry ==
  /\ pc = "answered" /\ answer = "401" /\ posts = 1
  /\ UNCHANGED <<clock, keycloakVars, callVars>>
  /\ Invalidate /\ GetToken /\ lag' = 0

Finish ==
  /\ pc = "answered" /\ ~(answer = "401" /\ posts = 1)
  /\ Ended(Outcome(answer))
  /\ UNCHANGED <<clock, keycloakVars, cacheVars, client, posts, answer, refused, done>>

-----------------------------------------------------------------------------

Moving == pc \in {"delivering", "posting"}

\* no message is under way for longer than MaxLag
Tick ==
  /\ clock < MaxClock /\ (Moving => lag < MaxLag)
  /\ clock' = clock + 1
  /\ lag' = IF Moving THEN lag + 1 ELSE lag
  /\ UNCHANGED <<keycloakVars, cacheVars, callVars, pc>>

Revoke ==
  /\ revoked < issued
  /\ revoked' = issued
  /\ UNCHANGED <<clock, issued, bornAt, cacheVars, callVars, pc, lag>>

TokenInit ==
  /\ clock = 0 /\ issued = 0 /\ bornAt = [t \in 1 .. MaxTokens |-> 0] /\ revoked = 0
  /\ cached = 0 /\ expires = 0
  /\ pc = "idle" /\ client \in Clients /\ lag = 0 /\ posts = 0
  /\ answer = "none" /\ refused = 0 /\ done = 0 /\ result = "none"

TokenNext ==
  \/ \E c \in Clients : Begin(c)
  \/ Issue \/ Receive \/ NoToken \/ Arrive \/ Lost \/ Retry \/ Finish
  \/ Tick \/ Revoke

TokenSpec == TokenInit /\ [][TokenNext]_tokenVars

-----------------------------------------------------------------------------
(* Properties.                                                             *)

TokenTypeOK ==
  /\ clock \in Nat /\ issued \in 0 .. MaxTokens
  /\ bornAt \in [1 .. MaxTokens -> Nat]
  /\ revoked \in 0 .. MaxTokens /\ cached \in 0 .. MaxTokens /\ expires \in Nat
  /\ pc \in Points /\ client \in Clients /\ lag \in 0 .. MaxLag
  /\ posts \in 0 .. 2 /\ answer \in Statuses /\ refused \in 0 .. MaxTokens
  /\ done \in Nat /\ result \in Results

\* A token that was in time when the provider handed it out is in time when it
\* arrives: the service refuses only what was revoked, so that a 401 never
\* comes of the cache alone.
OnlyRevokedRefused == pc = "answered" /\ answer = "401" => refused <= revoked

\* A call is sent again at most once, only because the service refused it, and
\* with a token younger than the refused one.
OneRetryWithNewToken ==
  /\ posts <= 2
  /\ posts = 2 => refused # 0
  /\ pc = "posting" /\ posts = 1 => cached > refused /\ refused # 0

\* The retry cannot repeat what was done: the service acts at most once per
\* call, and the client reports success only of a call it acted on.
SuccessIsDone == done <= 1 /\ (result = "success" => done = 1)

\* A 401 is answered by a request that cannot do harm: with another token, once,
\* and never after a request the service acted on.
RetryIsSafe == OneRetryWithNewToken /\ SuccessIsDone

-----------------------------------------------------------------------------
(* The inductive invariant: what the three properties rest on.             *)

\* The cache may trust a token longer than Keycloak does, by one journey.
CacheAge ==
  /\ cached <= issued
  /\ \A t \in 1 .. issued : bornAt[t] <= clock
  /\ cached # 0 => expires <= bornAt[cached] + MaxLag + Lifetime

\* A message is as old as its lag, and a token that is handed out has at least
\* one more journey to live.
InTime ==
  /\ pc = "delivering" => issued # 0 /\ clock = bornAt[issued] + lag
  /\ pc = "posting" => cached # 0 /\ clock + MaxLag < bornAt[cached] + Lifetime + lag

\* What a call has sent, got and caused at each of its points.
CallSoFar ==
  /\ refused <= issued
  /\ pc \in {"asking", "delivering", "posting"} =>
       posts <= 1 /\ done = 0 /\ (posts = 1 => refused # 0)
  /\ pc = "delivering" /\ posts = 1 => issued > refused
  /\ pc = "answered" => /\ posts # 0
                        /\ answer = "accepted" => done = 1
                        /\ answer = "401" => done = 0 /\ refused # 0
  /\ pc # "idle" => result = "none"

TokenInv == /\ TokenTypeOK /\ CacheAge /\ InTime /\ CallSoFar
            /\ OnlyRevokedRefused /\ OneRetryWithNewToken /\ SuccessIsDone
=============================================================================
