------------------------------ MODULE Sessions ------------------------------
(***************************************************************************)
(* SessionManager (crates/ngenorca-gateway/src/sessions.rs) driven by the  *)
(* request handlers that use it: POST /api/v1/chat, the WebSocket handler, *)
(* the inbound channel worker, the pairing and challenge routes, and the   *)
(* background pruning task of gateway/src/lib.rs.                          *)
(*                                                                         *)
(* The manager owns two std::sync::RwLocks, `sessions` and                 *)
(* `user_sessions`.  A critical section that takes one lock and releases   *)
(* it is one atomic step.  Two places hold one lock while they wait for    *)
(* the other: get_or_create keeps user_sessions.read() while it takes      *)
(* sessions.read(), and prune_expired keeps sessions.write() while it      *)
(* takes user_sessions.write().  Those are split at the inner acquisition, *)
(* with the outer lock recorded in usersRead and in prune = "locked".      *)
(*                                                                         *)
(* Abstractions: a UUIDv7 SessionId is the next number, model, thinking    *)
(* level and the message and token counters are left out, and time is a    *)
(* counter that Tick advances.                                             *)
(***************************************************************************)
EXTENDS Integers, FiniteSets

CONSTANTS Users,        \* canonical and alias user ids
          NoUser,       \* user_id = None: an anonymous session
          Channels,     \* channel names
          Handlers,     \* concurrent request handlers (tokio tasks)
          MaxSessions,  \* bound: session ids that may be created
          MaxTime,      \* bound: last value of the clock
          TTL           \* gateway.session_ttl_secs, in clock ticks

ASSUME SessionsAssumption ==
    /\ NoUser \notin Users
    /\ Channels # {}
    /\ IsFiniteSet(Handlers)
    /\ MaxSessions \in Nat
    /\ MaxTime \in Nat
    /\ TTL \in Nat \ {0}

VARIABLES sessions,       \* the HashMap SessionId -> Session
          user_sessions,  \* the HashMap (user, channel) -> SessionId
          nextId,         \* the id SessionId::new() will return
          now,            \* Utc::now()
          usersRead,      \* handlers that hold user_sessions.read()
          prune,          \* where the pruning task is
          cutoff,         \* its local: now - ttl
          pc, req         \* per handler: next step and local variables

vars == <<sessions, user_sessions, nextId, now, usersRead, prune,
          cutoff, pc, req>>

Ids       == 1..MaxSessions
NoSession == 0
Keys      == Users \X Channels
Session   == [user: Users \cup {NoUser}, channel: Channels,
              state: {"Active", "Idle", "Ended"}, last_active: 0..MaxTime]
Missing   == [state |-> "missing"]

(* A handler's locals.  `user` is the resolved user, `sid` the session in  *)
(* hand, `old` and `channel` the key snapshot of promote_to_user (channel  *)
(* is the request's channel until then), `existing` the canonical session  *)
(* found, `t` the creation time read before the lock is taken.  `kind`     *)
(* tells the callers of promote_to_user apart.                             *)
Request == [kind: {"chat", "alias", "pair"}, user: Users \cup {NoUser},
            channel: Channels, sid: Ids \cup {NoSession},
            old: Users \cup {NoUser}, existing: Ids \cup {NoSession},
            t: 0..MaxTime]

NoRequest == [kind |-> "chat", user |-> NoUser,
              channel |-> CHOOSE c \in Channels : TRUE, sid |-> NoSession,
              old |-> NoUser, existing |-> NoSession, t |-> 0]

Steps == {"idle", "lookup", "reuse", "insert", "map", "promote", "find",
          "check", "end", "detach", "touch", "bind", "remap", "serve"}

Present(s) == sessions[s] # Missing
Open(s)    == Present(s) /\ sessions[s].state \in {"Active", "Idle"}

\* RwLock guards: what other tasks hold across a step.
SessionsFree == prune # "locked"
UsersWriteFree == usersRead = {}

Init == /\ sessions = [s \in Ids |-> Missing]
        /\ user_sessions = [k \in Keys |-> NoSession]
        /\ nextId = 1
        /\ now = 0
        /\ usersRead = {}
        /\ prune = "idle"
        /\ cutoff = 0
        /\ pc = [h \in Handlers |-> "idle"]
        /\ req = [h \in Handlers |-> NoRequest]

\* The locals a handler still needs at `step`; the others are dead there and
\* are reset, so that TLC does not tell them apart.
Live(step, r) ==
    IF step = "idle" THEN NoRequest
    ELSE IF step = "serve" THEN [NoRequest EXCEPT !.sid = r.sid]
    ELSE IF step = "lookup" THEN
        [NoRequest EXCEPT !.user = r.user, !.channel = r.channel]
    ELSE IF step = "insert" THEN
        [NoRequest EXCEPT !.user = r.user, !.channel = r.channel, !.t = r.t]
    ELSE [r EXCEPT !.t = 0]

\* Handler h goes on at `step` with locals r.
Goto(h, step, r) == /\ pc' = [pc EXCEPT ![h] = step]
                    /\ req' = [req EXCEPT ![h] = Live(step, r)]

\* A new request starts only while MaxSessions leaves it an id to create.
Busy == {h \in Handlers : pc[h] # "idle"}
NewRequest(h, kind, u, c, s, step) ==
    /\ pc[h] = "idle"
    /\ nextId + Cardinality(Busy) <= MaxSessions
    /\ Goto(h, step, [kind |-> kind, user |-> u, channel |-> c, sid |-> s,
                      old |-> NoUser, existing |-> NoSession, t |-> now])

StoreUnchanged == UNCHANGED <<sessions, user_sessions, nextId, now>>
LocksUnchanged == UNCHANGED <<usersRead, prune, cutoff>>

\* `if let Some(session) = sessions.get_mut(s)`: s becomes `new` if present.
Update(s, new) ==
    sessions' = [sessions EXCEPT ![s] = IF Present(s) THEN new ELSE @]

-----------------------------------------------------------------------------
(* Entry points.                                                           *)

\* chat and handle_client_message without a usable session id:
\* get_or_create(user_id, channel); an anonymous caller never looks up.
StartChat(h, u, c) ==
    /\ NewRequest(h, "chat", u, c, NoSession,
                  IF u = NoUser THEN "insert" ELSE "lookup")
    /\ StoreUnchanged /\ LocksUnchanged

\* A client can name a session only once get_or_create has returned its id.
Issued(s) == /\ s < nextId
             /\ \A h \in Handlers : pc[h] = "map" => req[h].sid # s

\* chat and handle_client_message with a session id: a known session is
\* promoted to the caller, or served as it is to an anonymous caller.
StartChatWithId(h, u, c, s) ==
    /\ SessionsFree
    /\ Issued(s)
    /\ NewRequest(h, "chat", u, c, s,
                  IF u = NoUser
                  THEN IF Present(s) THEN "serve" ELSE "insert"
                  ELSE IF Present(s) THEN "promote" ELSE "lookup")
    /\ StoreUnchanged /\ LocksUnchanged

\* The inbound worker: promote_alias_to_user(alias, channel, canonical),
\* then get_or_create when the alias has no session.
StartAlias(h, alias, u, c) ==
    LET s == user_sessions[<<alias, c>>] IN
    /\ alias # u
    /\ NewRequest(h, "alias", u, c, s,
                  IF s = NoSession THEN "lookup" ELSE "promote")
    /\ StoreUnchanged /\ LocksUnchanged

\* The pairing and challenge routes promote the session the client names.
\* They name no channel: promote_to_user takes the session's.
StartPair(h, u, s) ==
    /\ Issued(s)
    /\ NewRequest(h, "pair", u, NoRequest.channel, s, "promote")
    /\ StoreUnchanged /\ LocksUnchanged

-----------------------------------------------------------------------------
(* get_or_create and create_session.                                       *)

LookupUser(h) ==
    LET s == user_sessions[<<req[h].user, req[h].channel>>] IN
    /\ pc[h] = "lookup"
    /\ \/ /\ s = NoSession
          /\ Goto(h, "insert", [req[h] EXCEPT !.t = now])
          /\ UNCHANGED usersRead
       \/ /\ s # NoSession
          /\ Goto(h, "reuse", [req[h] EXCEPT !.sid = s])
          /\ usersRead' = usersRead \cup {h}
    /\ StoreUnchanged /\ UNCHANGED <<prune, cutoff>>

\* Mutant: the read guard outlives a miss.
ReuseSessionKeepsGuard(h) ==
    /\ pc[h] = "reuse"
    /\ SessionsFree
    /\ IF Open(req[h].sid)
       THEN Goto(h, "serve", req[h]) /\ usersRead' = usersRead \ {h}
       ELSE Goto(h, "insert", [req[h] EXCEPT !.t = now]) /\ UNCHANGED usersRead
    /\ StoreUnchanged /\ UNCHANGED <<prune, cutoff>>

\* Still under user_sessions.read(): sessions.read(), then both released.
ReuseSession(h) ==
    /\ pc[h] = "reuse"
    /\ SessionsFree
    /\ IF Open(req[h].sid)
       THEN Goto(h, "serve", req[h])
       ELSE Goto(h, "insert", [req[h] EXCEPT !.t = now])
    /\ usersRead' = usersRead \ {h}
    /\ StoreUnchanged /\ UNCHANGED <<prune, cutoff>>

InsertSession(h) ==
    /\ pc[h] = "insert"
    /\ SessionsFree
    /\ nextId <= MaxSessions
    /\ sessions' = [sessions EXCEPT ![nextId] =
                      [user |-> req[h].user, channel |-> req[h].channel,
                       state |-> "Active", last_active |-> req[h].t]]
    /\ nextId' = nextId + 1
    /\ Goto(h, IF req[h].user = NoUser THEN "serve" ELSE "map",
            [req[h] EXCEPT !.sid = nextId])
    /\ UNCHANGED <<user_sessions, now>> /\ LocksUnchanged

MapSession(h) ==
    /\ pc[h] = "map"
    /\ UsersWriteFree
    /\ user_sessions' = [user_sessions EXCEPT
                           ![<<req[h].user, req[h].channel>>] = req[h].sid]
    /\ Goto(h, "serve", req[h])
    /\ UNCHANGED <<sessions, nextId, now>> /\ LocksUnchanged

-----------------------------------------------------------------------------
(* promote_to_user.                                                        *)

\* Where the caller goes on: the pairing routes only report the id.
AfterPromote(h) == IF req[h].kind = "pair" THEN "idle" ELSE "serve"

\* NotFound: the worker falls back to get_or_create, a chat answers with the
\* error, the pairing routes log it.
AfterNotFound(h) == IF req[h].kind = "alias" THEN "lookup" ELSE "idle"

\* Mutant: the key is built from the request's channel.
PromoteOnRequestChannel(h) ==
    LET s == req[h].sid IN
    /\ pc[h] = "promote"
    /\ SessionsFree
    /\ \/ ~Present(s) /\ Goto(h, AfterNotFound(h), req[h])
       \/ /\ Present(s)
          /\ Goto(h, IF sessions[s].user = req[h].user THEN "touch" ELSE "find",
                  [req[h] EXCEPT !.old = sessions[s].user])
    /\ StoreUnchanged /\ LocksUnchanged

Promote(h) ==
    LET s == req[h].sid IN
    /\ pc[h] = "promote"
    /\ SessionsFree
    /\ \/ ~Present(s) /\ Goto(h, AfterNotFound(h), req[h])
       \/ /\ Present(s)
          /\ Goto(h, IF sessions[s].user = req[h].user THEN "touch" ELSE "find",
                  [req[h] EXCEPT !.old = sessions[s].user,
                                 !.channel = sessions[s].channel])
    /\ StoreUnchanged /\ LocksUnchanged

\* active_session_for_key takes and releases the two locks in turn.
FindExisting(h) ==
    LET s == user_sessions[<<req[h].user, req[h].channel>>] IN
    /\ pc[h] = "find"
    /\ Goto(h, IF s = NoSession THEN "bind" ELSE "check",
            [req[h] EXCEPT !.existing = s])
    /\ StoreUnchanged /\ LocksUnchanged

CheckExisting(h) ==
    LET found == Open(req[h].existing) /\ req[h].existing # req[h].sid IN
    /\ pc[h] = "check"
    /\ SessionsFree
    /\ IF found THEN Goto(h, "end", req[h])
       ELSE Goto(h, "bind", [req[h] EXCEPT !.existing = NoSession])
    /\ StoreUnchanged /\ LocksUnchanged

EndSession(h) ==
    LET s == req[h].sid IN
    /\ pc[h] = "end"
    /\ SessionsFree
    /\ Update(s, [sessions[s] EXCEPT !.state = "Ended"])
    /\ Goto(h, "detach", req[h])
    /\ UNCHANGED <<user_sessions, nextId, now>> /\ LocksUnchanged

\* The mapping without the entry of the key snapshot, if that entry is s.
\* Anonymous sessions have no entry.
Detached(u, c, s) ==
    [k \in Keys |-> IF k = <<u, c>> /\ user_sessions[k] = s
                    THEN NoSession ELSE user_sessions[k]]

DetachSession(h) ==
    /\ pc[h] = "detach"
    /\ UsersWriteFree
    /\ user_sessions' = Detached(req[h].old, req[h].channel, req[h].sid)
    /\ Goto(h, "touch", [req[h] EXCEPT !.sid = req[h].existing])
    /\ UNCHANGED <<sessions, nextId, now>> /\ LocksUnchanged

\* Mutant: the time of expiry is stored for the time of the last use.
TouchSessionExpiry(h) ==
    LET s == req[h].sid IN
    /\ pc[h] = "touch"
    /\ SessionsFree
    /\ Update(s, [sessions[s] EXCEPT !.last_active = now + TTL])
    /\ Goto(h, AfterPromote(h), req[h])
    /\ UNCHANGED <<user_sessions, nextId, now>> /\ LocksUnchanged

TouchSession(h) ==
    LET s == req[h].sid IN
    /\ pc[h] = "touch"
    /\ SessionsFree
    /\ Update(s, [sessions[s] EXCEPT
                     !.last_active = now,
                     !.state = IF @ = "Idle" THEN "Active" ELSE @])
    /\ Goto(h, AfterPromote(h), req[h])
    /\ UNCHANGED <<user_sessions, nextId, now>> /\ LocksUnchanged

BindSession(h) ==
    LET s == req[h].sid IN
    /\ pc[h] = "bind"
    /\ SessionsFree
    /\ \/ ~Present(s) /\ Goto(h, AfterNotFound(h), req[h]) /\ UNCHANGED sessions
       \/ /\ Present(s)
          /\ Update(s, [sessions[s] EXCEPT !.user = req[h].user,
                                           !.last_active = now])
          /\ Goto(h, "remap", req[h])
    /\ UNCHANGED <<user_sessions, nextId, now>> /\ LocksUnchanged

\* Mutant: the entry of the old key stays behind.
RemapSessionKeepsOld(h) ==
    /\ pc[h] = "remap"
    /\ UsersWriteFree
    /\ user_sessions' = [user_sessions EXCEPT
                           ![<<req[h].user, req[h].channel>>] = req[h].sid]
    /\ Goto(h, AfterPromote(h), req[h])
    /\ UNCHANGED <<sessions, nextId, now>> /\ LocksUnchanged

RemapSession(h) ==
    /\ pc[h] = "remap"
    /\ UsersWriteFree
    /\ user_sessions' =
         [Detached(req[h].old, req[h].channel, req[h].sid) EXCEPT
            ![<<req[h].user, req[h].channel>>] = req[h].sid]
    /\ Goto(h, AfterPromote(h), req[h])
    /\ UNCHANGED <<sessions, nextId, now>> /\ LocksUnchanged

-----------------------------------------------------------------------------
(* After the orchestrator has answered.                                    *)

RecordMessage(h) ==
    LET s == req[h].sid IN
    /\ pc[h] = "serve"
    /\ SessionsFree
    /\ Update(s, [sessions[s] EXCEPT !.state = "Active",
                                     !.last_active = now])
    /\ Goto(h, "idle", req[h])
    /\ UNCHANGED <<user_sessions, nextId, now>> /\ LocksUnchanged

\* The orchestrator (or the classifier) failed: nothing is recorded.
ServeFails(h) ==
    /\ pc[h] = "serve"
    /\ Goto(h, "idle", req[h])
    /\ StoreUnchanged /\ LocksUnchanged

-----------------------------------------------------------------------------
(* prune_expired, run by the background task.                              *)

\* Mutant: the time to live is not subtracted.
PruneBeginNoTtl ==
    /\ prune = "idle"
    /\ prune' = "waiting"
    /\ cutoff' = now
    /\ StoreUnchanged /\ UNCHANGED <<usersRead, pc, req>>

\* The clock is read before the locks are requested.
PruneBegin ==
    /\ prune = "idle"
    /\ prune' = "waiting"
    /\ cutoff' = now - TTL
    /\ StoreUnchanged /\ UNCHANGED <<usersRead, pc, req>>

PruneLock ==
    /\ prune = "waiting"
    /\ prune' = "locked"
    /\ StoreUnchanged /\ UNCHANGED <<usersRead, cutoff, pc, req>>

Expired(s) == Present(s) /\ sessions[s].last_active < cutoff

\* Mutant: the entry is removed whichever session it names.
PrunedEntryAnySession(k) ==
    \E s \in Ids : Expired(s) /\ k = <<sessions[s].user, sessions[s].channel>>

\* The mapping entry prune_expired removes with session s: that of the
\* session's own key, and only if it still names s.
PrunedEntry(k) ==
    LET s == user_sessions[k] IN
    s # NoSession /\ Expired(s)
        /\ k = <<sessions[s].user, sessions[s].channel>>

PruneFinish ==
    /\ prune = "locked"
    /\ UsersWriteFree
    /\ sessions' = [s \in Ids |-> IF Expired(s) THEN Missing ELSE sessions[s]]
    /\ user_sessions' = [k \in Keys |-> IF PrunedEntry(k)
                                        THEN NoSession ELSE user_sessions[k]]
    /\ prune' = "idle"
    /\ cutoff' = 0
    /\ UNCHANGED <<nextId, now, usersRead, pc, req>>

Tick == /\ now < MaxTime
        /\ now' = now + 1
        /\ UNCHANGED <<sessions, user_sessions, nextId, pc, req>>
        /\ LocksUnchanged

-----------------------------------------------------------------------------
Start(h) ==
    \/ \E u \in Users \cup {NoUser}, c \in Channels :
         \/ StartChat(h, u, c)
         \/ \E s \in Ids : StartChatWithId(h, u, c, s)
    \/ \E alias, u \in Users, c \in Channels : StartAlias(h, alias, u, c)
    \/ \E u \in Users, s \in Ids : StartPair(h, u, s)

\* Steps that wait for user_sessions.write().
UserWrite(h) == MapSession(h) \/ DetachSession(h) \/ RemapSession(h)

\* The other steps of a request that has started.
Continue(h) ==
    \/ LookupUser(h) \/ ReuseSession(h) \/ InsertSession(h)
    \/ Promote(h) \/ FindExisting(h) \/ CheckExisting(h) \/ EndSession(h)
    \/ TouchSession(h) \/ BindSession(h)
    \/ RecordMessage(h) \/ ServeFails(h)

HandlerNext == \/ \E h \in Handlers : Start(h) \/ Continue(h) \/ UserWrite(h)
               \/ Tick
Next == HandlerNext \/ PruneBegin \/ PruneLock \/ PruneFinish

Spec == Init /\ [][Next]_vars

(* A tokio task that can run is run; a blocked RwLock writer goes before   *)
(* readers that arrive after it (the futex RwLock of std), hence strong    *)
(* fairness for user_sessions.write().                                     *)
HandlerFairness == \A h \in Handlers : /\ WF_vars(Continue(h))
                                       /\ SF_vars(UserWrite(h))
FairSpec == Spec /\ HandlerFairness /\ WF_vars(PruneLock)
                 /\ SF_vars(PruneFinish)

\* The gateway between two cycles of the pruning task.
BetweenPrunes == Init /\ [][HandlerNext]_vars /\ HandlerFairness
-----------------------------------------------------------------------------
(* Properties.                                                             *)

\* Every variable keeps its type; the session HashMap holds only Session
\* values and the handlers only locals the code could hold.
TypeOK ==
    /\ sessions \in [Ids -> Session \cup {Missing}]
    /\ user_sessions \in [Keys -> Ids \cup {NoSession}]
    /\ nextId \in 1..(MaxSessions + 1)
    /\ now \in 0..MaxTime
    /\ usersRead \subseteq Handlers
    /\ prune \in {"idle", "waiting", "locked"}
    /\ cutoff \in Int
    /\ pc \in [Handlers -> Steps]
    /\ req \in [Handlers -> Request]

\* "per-user/per-channel isolation" (CHANGELOG.md:25), the channel half: an
\* entry of user_sessions never leads to a session of another channel,
\* whatever races between promotions, creations and pruning.
ChannelIsolation ==
    \A k \in Keys : LET s == user_sessions[k] IN
        s # NoSession /\ Present(s) => sessions[s].channel = k[2]

\* The user half, when no request is in flight: an entry leads to a session
\* of its own user.  promote_to_user must move the entry with the session.
UserIsolation ==
    Busy = {} =>
        \A k \in Keys : LET s == user_sessions[k] IN
            s # NoSession /\ Present(s) => sessions[s].user = k[1]

\* prune_expired clears an entry only together with the session it names:
\* an entry that has meanwhile been given to a younger session survives.
PruneKeepsEntries ==
    [][prune = "locked" /\ prune' = "idle" =>
         \A k \in Keys : user_sessions'[k] # user_sessions[k] =>
             /\ Present(user_sessions[k])
             /\ sessions'[user_sessions[k]] = Missing]_vars

\* No session used within the last TTL is ever dropped, although prune_expired
\* reads the clock before it waits for its two locks.
RecentSurvive ==
    [][\A s \in Ids : Present(s) /\ sessions'[s] = Missing
         => sessions[s].last_active + TTL < now]_vars

\* Between two pruning cycles no request waits for a lock forever.
RequestsFinish == \A h \in Handlers : pc[h] # "idle" ~> pc[h] = "idle"

\* "background cleanup every 5 minutes" (CHANGELOG.md:25): a pruning cycle
\* that has begun completes.
PruneCompletes == prune # "idle" ~> prune = "idle"
=============================================================================
