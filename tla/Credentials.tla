---------------------------- MODULE Credentials ----------------------------
(***************************************************************************)
(* The credentials with which an app sends its custom metrics.  API        *)
(* servers make, replace and delete them in a table; API servers and       *)
(* metrics forwarders check them, each with a cache of its own in front of *)
(* the table.  Only the API server that serves a change knows of it; the   *)
(* other caches forget what they have after a time to live.                *)
(*                                                                         *)
(* This is one app.  Credentials are numbers, in the order in which they   *)
(* are made, and no credentials are 0.                                     *)
(***************************************************************************)
EXTENDS Naturals

CONSTANTS
  ApiServers, Forwarders,
  Clients,       \* requests that may overlap
  CacheTTL,      \* in ticks
  LastCreds      \* bound on the credentials that are made

Verifiers == ApiServers \cup Forwarders

VARIABLES
  creds,         \* the table
  made,          \* how many credentials have been made
  cache,         \* each verifier: the credentials it knows, and for how long yet
  stale,         \* the API servers that have still to delete what they know
  client         \* the requests: at whom, with which credentials, how far

credsVars == <<creds, made, cache, stale, client>>

Unknown == [creds |-> 0, left |-> 0]

\* A client that has not yet sent anything.  "current" remembers for the property below
\* that its credentials have been those of the table ever since it sent them.
Silent == [at |-> "silent", to |-> CHOOSE v \in Verifiers : TRUE, creds |-> 0, found |-> 0,
           current |-> FALSE]

CredsInit ==
  /\ creds = 0 /\ made = 0 /\ stale = {}
  /\ cache = [v \in Verifiers |-> Unknown]
  /\ client = [c \in Clients |-> Silent]

-----------------------------------------------------------------------------

\* The table has the credentials x from now on.
Store(x) ==
  /\ creds' = x
  /\ client' = [c \in Clients |-> [client[c] EXCEPT !.current = FALSE]]

\* createOrUpdateCredentials: what the server knows is deleted only if there were
\* credentials to update, and not after an error that came too late to prevent it.
CreateOrUpdate(s) ==
  /\ made < LastCreds /\ made' = made + 1 /\ Store(made + 1)
  /\ stale' \in {stale, IF creds # 0 THEN stale \cup {s} ELSE stale}
  /\ UNCHANGED cache

DeleteCredentials(s) ==
  /\ creds # 0 /\ Store(0)
  /\ stale' \in {stale, stale \cup {s}}
  /\ UNCHANGED <<made, cache>>

Forget(s) ==
  /\ s \in stale
  /\ stale' = stale \ {s}
  /\ cache' = [cache EXCEPT ![s] = Unknown]
  /\ UNCHANGED <<creds, made, client>>

-----------------------------------------------------------------------------

Send(c, v, x) ==
  /\ client[c].at \in {"silent", "accepted", "refused"}
  /\ client' = [client EXCEPT ![c] =
       [at |-> "sent", to |-> v, creds |-> x, found |-> 0, current |-> creds = x]]
  /\ UNCHANGED <<creds, made, cache, stale>>

\* mutant: credentials that are in use stay in the cache.
Known_Renews(c) ==
  /\ client[c].at = "sent" /\ cache[client[c].to].creds = client[c].creds
  /\ client' = [client EXCEPT ![c].at = "accepted"]
  /\ cache' = [cache EXCEPT ![client[c].to].left = CacheTTL]
  /\ UNCHANGED <<creds, made, stale>>

\* The cache has the credentials of the client.
Known(c) ==
  /\ client[c].at = "sent" /\ cache[client[c].to].creds = client[c].creds
  /\ client' = [client EXCEPT ![c].at = "accepted"]
  /\ UNCHANGED <<creds, made, cache, stale>>

\* mutant: others that the cache has are taken for those of the table.
Miss_TrustsTheCache(c) ==
  LET known == cache[client[c].to].creds
  IN  /\ client[c].at = "sent" /\ known # client[c].creds
      /\ client' = [client EXCEPT ![c].at =
                      IF known # 0 \/ creds = 0 THEN "refused" ELSE "miss",
                                  ![c].found = creds]
      /\ UNCHANGED <<creds, made, cache, stale>>

\* It has others or none: the table is asked, and may not answer or have none.
Miss(c) ==
  /\ client[c].at = "sent" /\ cache[client[c].to].creds # client[c].creds
  /\ client' = [client EXCEPT ![c].at = IF creds = 0 THEN "refused" ELSE "miss",
                              ![c].found = creds]
  /\ UNCHANGED <<creds, made, cache, stale>>

MissFails(c) ==
  /\ client[c].at = "sent" /\ cache[client[c].to].creds # client[c].creds
  /\ client' = [client EXCEPT ![c] = Silent]
  /\ UNCHANGED <<creds, made, cache, stale>>

\* What was found is cached, whether it is what the client has or not.
Fill(c) ==
  /\ client[c].at = "miss"
  /\ cache' = [cache EXCEPT ![client[c].to] = [creds |-> client[c].found, left |-> CacheTTL]]
  /\ client' = [client EXCEPT ![c].at =
       IF client[c].found = client[c].creds THEN "accepted" ELSE "refused"]
  /\ UNCHANGED <<creds, made, stale>>

Expire ==
  /\ cache' = [v \in Verifiers |->
       IF cache[v].left <= 1 THEN Unknown ELSE [cache[v] EXCEPT !.left = @ - 1]]
  /\ UNCHANGED <<creds, made, stale, client>>

CredsNext ==
  \/ \E s \in ApiServers : CreateOrUpdate(s) \/ DeleteCredentials(s) \/ Forget(s)
  \/ \E c \in Clients : \/ \E v \in Verifiers, x \in 1 .. made : Send(c, v, x)
                        \/ Known(c) \/ Miss(c) \/ MissFails(c) \/ Fill(c)
  \/ Expire

\* Time passes, and a verifier goes on with what the table has answered.
CredsFairness ==
  WF_credsVars(Expire) /\ \A c \in Clients : WF_credsVars(Fill(c))

-----------------------------------------------------------------------------

\* Replaced credentials are refused in the end, by every verifier and however they are
\* used meanwhile, though a request that was under way when they were replaced may put
\* them into a cache again (validateCredentials, PublishMetrics).
RetiredAreRefused ==
  \A x \in 1 .. LastCreds :
    (made >= x /\ creds # x)
      ~> [](\A v \in Verifiers : cache[v].creds # x)

\* Nobody has to wait for the caches: credentials that were those of the table all the
\* time are not refused, whatever a cache has.
CurrentAreAccepted == \A c \in Clients : client[c].at = "refused" => ~client[c].current
=============================================================================
