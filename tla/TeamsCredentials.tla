-------------------------- MODULE TeamsCredentials ---------------------------
(* The two caches of the Teams adapter: the access token that replies carry *)
(* and the signing keys that inbound requests are verified with.  Both are  *)
(* read under a lock, refreshed without one and written under it again, so  *)
(* refreshes overlap and finish in any order.                               *)
EXTENDS Integers, FiniteSets

CONSTANTS Replies, Requests,   \* tasks that need a token, or keys
          None,
          Life, Margin,        \* of a token, and how much earlier it is renewed
          TTL,                 \* of the keys
          Slow, MaxTime        \* bounds: how long a fetch takes, and the clock

VARIABLES now,
          token, reply,        \* the cached token; tasks that fetch or hold one
          keys, request        \* the cached keys; tasks that fetch or hold them

vars == <<now, token, reply, keys, request>>

TeamsCredentialsAssumption == {Life, Margin, TTL, Slow, MaxTime} \subseteq Nat

Fetching(at) == [pc |-> "fetching", issued |-> at, at |-> at]
Holding(issued) == [pc |-> "holding", issued |-> issued, at |-> now]
Task == [pc : {"fetching", "holding"}, issued : 0..MaxTime, at : 0..MaxTime]

Init == /\ now = 0
        /\ token = None /\ reply = [r \in Replies |-> None]
        /\ keys = None  /\ request = [r \in Requests |-> None]

\* A token that is not due yet, or a request for a new one, which the server
\* issues right away.
GetToken(r) ==
    /\ reply[r] = None
    /\ reply' = [reply EXCEPT ![r] =
                    IF token # None /\ token.expires > now
                    THEN Holding(token.issued) ELSE Fetching(now)]
    /\ UNCHANGED <<now, token, keys, request>>

\* Mutant: a token is used to its last second.
TokenArrivesLate(r) ==
    /\ reply[r] # None /\ reply[r].pc = "fetching"
    /\ token' = [issued |-> reply[r].issued, expires |-> now + Life]
    /\ reply' = [reply EXCEPT ![r] = Holding(reply[r].issued)]
    /\ UNCHANGED <<now, keys, request>>

\* The answer arrives: the time it is renewed counts from now.
TokenArrives(r) ==
    /\ reply[r] # None /\ reply[r].pc = "fetching"
    /\ token' = [issued |-> reply[r].issued,
                 expires |-> now + (IF Life > Margin THEN Life - Margin ELSE 0)]
    /\ reply' = [reply EXCEPT ![r] = Holding(reply[r].issued)]
    /\ UNCHANGED <<now, keys, request>>

\* Keys fetched less than the TTL ago, or a request for them.
GetKeys(r) ==
    /\ request[r] = None
    /\ request' = [request EXCEPT ![r] =
                      IF keys # None /\ now - keys.fetched < TTL
                      THEN Holding(keys.issued) ELSE Fetching(now)]
    /\ UNCHANGED <<now, token, reply, keys>>

KeysArrive(r) ==
    /\ request[r] # None /\ request[r].pc = "fetching"
    /\ keys' = [issued |-> request[r].issued, fetched |-> now]
    /\ request' = [request EXCEPT ![r] = Holding(request[r].issued)]
    /\ UNCHANGED <<now, token, reply>>

\* The token or the keys are used, or the fetch has failed.
Done(r) == \/ /\ r \in Replies /\ reply[r] # None
              /\ reply' = [reply EXCEPT ![r] = None] /\ UNCHANGED request
           \/ /\ r \in Requests /\ request[r] # None
              /\ request' = [request EXCEPT ![r] = None] /\ UNCHANGED reply
DoneAny == (\E r \in Replies \cup Requests : Done(r)) /\ UNCHANGED <<now, token, keys>>

Fetches == {reply[r] : r \in Replies} \cup {request[r] : r \in Requests}

Tick == /\ now < MaxTime /\ now' = now + 1
        /\ \A f \in Fetches \ {None} : f.pc = "fetching" => now' - f.at <= Slow
        /\ UNCHANGED <<token, reply, keys, request>>

Next == \/ \E r \in Replies : GetToken(r) \/ TokenArrives(r)
        \/ \E r \in Requests : GetKeys(r) \/ KeysArrive(r)
        \/ DoneAny \/ Tick

Spec == Init /\ [][Next]_vars

TypeOK == /\ now \in 0..MaxTime
          /\ token \in [issued : 0..MaxTime, expires : 0..(MaxTime + Life)] \cup {None}
          /\ keys \in [issued : 0..MaxTime, fetched : 0..MaxTime] \cup {None}
          /\ reply \in [Replies -> Task \cup {None}]
          /\ request \in [Requests -> Task \cup {None}]

\* A token is valid when it is handed out, as long as answers take no longer
\* than the margin and tokens live longer than it; and a request is verified
\* with keys that the server gave no longer ago than the TTL and the time of a
\* fetch.  Refreshes that finish out of order do not change this.
CredentialsFresh ==
    /\ Slow <= Margin /\ Margin < Life =>
          \A r \in Replies : reply[r] # None /\ reply[r].pc = "holding" =>
              reply[r].at < reply[r].issued + Life
    /\ \A r \in Requests : request[r] # None /\ request[r].pc = "holding" =>
          request[r].at - request[r].issued <= TTL + Slow
=============================================================================
