------------------------------ MODULE CFClient ------------------------------
(***************************************************************************)
(* The token with which a program calls Cloud Foundry.  Its goroutines     *)
(* share it: each looks under a mutex whether it is about to expire, and   *)
(* gets a new one, with the refresh token or, if that fails, by a new      *)
(* login.  A token lives from the moment in which the authorization server *)
(* (UAA) grants it; the client counts from the moment in which it has the  *)
(* answer.                                                                 *)
(***************************************************************************)
EXTENDS Naturals

CONSTANTS
  Callers,
  ExpiresIn,       \* the life of a token, in ticks
  TimeToRefresh,   \* TimeToRefreshBeforeTokenExpire
  MaxDelay         \* bound on the time that an answer of UAA takes

ASSUME ClientAssumption ==
  /\ ExpiresIn \in Nat /\ TimeToRefresh \in Nat /\ MaxDelay \in Nat
  /\ MaxDelay < TimeToRefresh /\ TimeToRefresh < ExpiresIn

VARIABLES
  left,            \* what is left of the life of the token
  age,             \* the time since grantTime
  caller,          \* where the callers of GetTokensWithRefresh are, and what is left of
                   \* the life of the token in an answer for them
  refused          \* the callers that asked for a new token and got none

clientVars == <<left, age, caller, refused>>

WithoutAnswer(place) == [at |-> place, answer |-> 0]

ClientInit ==
  /\ left \in ExpiresIn - MaxDelay .. ExpiresIn /\ age = 0
  /\ caller = [c \in Callers |-> WithoutAnswer("idle")] /\ refused = {}

-----------------------------------------------------------------------------

Step(c, from, to) == caller[c].at = from /\ caller' = [caller EXCEPT ![c].at = to]

Locked == \E c \in Callers : caller[c].at \in {"refresh", "endpoints", "login", "unlock"}

\* mutant: a token is used until it expires.
IsTokenToBeExpired_Late == age > ExpiresIn

IsTokenToBeExpired == age > ExpiresIn - TimeToRefresh

GetTokensWithRefresh(c) ==
  /\ ~Locked /\ Step(c, "idle", IF IsTokenToBeExpired THEN "refresh" ELSE "unlock")
  /\ UNCHANGED <<left, age, refused>>

\* UAA grants a token ...
RequestTokenGrant(c) ==
  /\ caller[c].at \in {"refresh", "login"} /\ caller[c].answer = 0
  /\ caller' = [caller EXCEPT ![c].answer = ExpiresIn]
  /\ UNCHANGED <<left, age, refused>>

\* ... and its answer arrives.
Granted(c) ==
  /\ caller[c].answer # 0
  /\ left' = caller[c].answer /\ age' = 0
  /\ caller' = [caller EXCEPT ![c] = WithoutAnswer("unlock")]
  /\ UNCHANGED refused

\* The refresh token is refused or there is none, UAA is down or its answer is lost.
RefreshFails(c) ==
  /\ caller[c].at = "refresh"
  /\ caller' = [caller EXCEPT ![c] = WithoutAnswer("endpoints")]
  /\ UNCHANGED <<left, age, refused>>

RetrieveEndpoints(c) == Step(c, "endpoints", "login") /\ UNCHANGED <<left, age, refused>>

LoginFails(c) ==
  /\ caller[c].at \in {"endpoints", "login"}
  /\ caller' = [caller EXCEPT ![c] = WithoutAnswer("unlock")]
  /\ refused' = refused \cup {c}
  /\ UNCHANGED <<left, age>>

\* The token is read after the mutex is unlocked.
Unlock(c) == Step(c, "unlock", "read") /\ UNCHANGED <<left, age, refused>>

Return(c) ==
  /\ Step(c, "read", "idle") /\ refused' = refused \ {c}
  /\ UNCHANGED <<left, age>>

\* Only UAA takes time, and its answers no more than MaxDelay.
TokenAges ==
  /\ \A c \in Callers : /\ caller[c].at \notin {"unlock", "read"}
                        /\ caller[c].answer # 0 => caller[c].answer > ExpiresIn - MaxDelay
  /\ left' = IF left = 0 THEN 0 ELSE left - 1
  /\ age' = IF age > ExpiresIn THEN age ELSE age + 1
  /\ caller' = [c \in Callers |->
       [caller[c] EXCEPT !.answer = IF @ = 0 THEN 0 ELSE @ - 1]]
  /\ UNCHANGED refused

ClientNext ==
  \/ \E c \in Callers :
       \/ GetTokensWithRefresh(c) \/ RequestTokenGrant(c) \/ Granted(c) \/ RefreshFails(c)
       \/ RetrieveEndpoints(c) \/ LoginFails(c) \/ Unlock(c) \/ Return(c)
  \/ TokenAges

ClientSpec == ClientInit /\ [][ClientNext]_clientVars
-----------------------------------------------------------------------------

\* Nobody is given a token that has expired, though nobody knows exactly when it does,
\* others may be getting a new one, and any request may fail: unless both the refresh
\* and the login of this caller have failed (GetTokensWithRefresh, RefreshAuthToken).
TokensAreAlive ==
  \A c \in Callers : caller[c].at = "read" => left > 0 \/ c \in refused
=============================================================================
