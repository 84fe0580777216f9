--------------------------- MODULE SessionsProofs ---------------------------
(***************************************************************************)
(* Theorems about Sessions for every set of users, channels and handlers   *)
(* and every bound: types, channel isolation, the two promises of the      *)
(* pruning task, and user isolation for requests that do not overlap.  The *)
(* steps are treated one critical section at a time.                       *)
(***************************************************************************)
EXTENDS MCSessions, TLAPS

\* The steps that look the user up in user_sessions, those that use the session
\* in hand, and those that end it in favour of the canonical one.
KeyedSteps   == {"lookup", "map", "promote", "find", "check", "bind", "remap"}
HoldingSteps == {"reuse", "map", "promote", "find", "check", "end", "detach",
                 "touch", "bind", "remap", "serve"}
EndingSteps  == {"check", "end", "detach"}

\* TypeOK alone is not inductive: an anonymous key is outside the domain of
\* user_sessions, and no session outside that of sessions.  The steps that use
\* a local are reached only with that local set.
Ready(step, r) == /\ step \in KeyedSteps => r.user \in Users
                  /\ step \in HoldingSteps => r.sid \in Ids
                  /\ step \in EndingSteps => r.existing \in Ids
LocalsReady == \A h \in Handlers : Ready(pc[h], req[h])

TypeInv == TypeOK /\ LocalsReady

\* The steps at which a handler is about to write an entry for its session.
WritingSteps == {"map", "find", "check", "bind", "remap"}

(* What channel isolation rests on.  Ids that were not handed out yet are  *)
(* unknown to everyone, so inserting a session cannot change the meaning   *)
(* of an existing entry or local.                                          *)
Fresh ==
    /\ \A s \in Ids : s >= nextId => sessions[s] = Missing
    /\ \A k \in Keys : user_sessions[k] < nextId
    /\ \A h \in Handlers : req[h].sid < nextId /\ req[h].existing < nextId

\* There a handler has the channel of the session in its locals.
HandlerChannel ==
    \A h \in Handlers :
        pc[h] \in WritingSteps /\ Present(req[h].sid) =>
           sessions[req[h].sid].channel = req[h].channel

IInv == TypeInv /\ Fresh /\ HandlerChannel /\ ChannelIsolation

-----------------------------------------------------------------------------
(* Lemmas on the helpers.                                                  *)

\* The locals of an idle handler are well typed.
LEMMA NoRequestType == NoRequest \in Request
  <1>1. (CHOOSE c \in Channels : TRUE) \in Channels
    BY SessionsAssumption
  <1>. QED  BY <1>1, SessionsAssumption DEF NoRequest, Request, NoSession, Ids

\* Resetting dead locals keeps the type.
LEMMA LiveType ==
    ASSUME NEW step \in Steps, NEW r \in Request
    PROVE  Live(step, r) \in Request
  <1>1. CASE step = "idle"
    BY <1>1, NoRequestType DEF Live
  <1>2. CASE step = "serve"
    BY <1>2, NoRequestType DEF Live, Request
  <1>3. CASE step = "lookup"
    BY <1>3, NoRequestType DEF Live, Request
  <1>4. CASE step = "insert"
    BY <1>4, NoRequestType DEF Live, Request
  <1>5. CASE step \notin {"idle", "serve", "lookup", "insert"}
    BY <1>5, SessionsAssumption DEF Live, Request
  <1>. QED  BY <1>1, <1>2, <1>3, <1>4, <1>5

\* Resetting dead locals keeps the session in hand or forgets it, and keeps
\* the locals that later steps read.
LEMMA LiveKeeps ==
    ASSUME NEW step \in Steps, NEW r \in Request
    PROVE  /\ Live(step, r).sid \in {r.sid, NoSession}
           /\ Live(step, r).existing \in {r.existing, NoSession}
           /\ Ready(step, r) => Ready(step, Live(step, r))
           /\ step \in WritingSteps => /\ Live(step, r).sid = r.sid
                                      /\ Live(step, r).channel = r.channel
  <1>. USE DEF Ready, KeyedSteps, HoldingSteps, EndingSteps, WritingSteps
  <1>1. /\ NoRequest.sid = NoSession /\ NoRequest.existing = NoSession
        /\ NoRequest \in Request
    BY NoRequestType DEF NoRequest
  <1>2. CASE step \in {"idle", "serve", "lookup", "insert"}
    BY <1>1, <1>2 DEF Live, Request
  <1>3. CASE step \notin {"idle", "serve", "lookup", "insert"}
    BY <1>3 DEF Live, Request
  <1>. QED  BY <1>2, <1>3

\* What Goto leaves in pc and req.
LEMMA GotoEffect ==
    ASSUME TypeOK, NEW h \in Handlers, NEW step \in Steps, NEW r \in Request,
           Goto(h, step, r)
    PROVE  /\ pc' \in [Handlers -> Steps]
           /\ req' \in [Handlers -> Request]
           /\ pc'[h] = step
           /\ req'[h] = Live(step, r)
           /\ \A g \in Handlers \ {h} : pc'[g] = pc[g] /\ req'[g] = req[g]
  <1>1. Live(step, r) \in Request
    BY LiveType
  <1>. QED  BY <1>1 DEF TypeOK, Goto

\* The locals a new request starts with, and the step it starts at.
LEMMA NewRequestEffect ==
    ASSUME TypeOK, NEW h \in Handlers, NEW kind \in {"chat", "alias", "pair"},
           NEW u \in Users \cup {NoUser}, NEW c \in Channels,
           NEW s \in Ids \cup {NoSession}, NEW step \in Steps,
           NewRequest(h, kind, u, c, s, step)
    PROVE  \E r \in Request : /\ r.sid = s /\ r.user = u
                              /\ r.existing = NoSession
                              /\ Goto(h, step, r)
  <1>. DEFINE r == [kind |-> kind, user |-> u, channel |-> c, sid |-> s,
                    old |-> NoUser, existing |-> NoSession, t |-> now]
  <1>1. r \in Request
    BY DEF TypeOK, Request
  <1>2. Goto(h, step, r)
    BY DEF NewRequest
  <1>. QED  BY <1>1, <1>2

-----------------------------------------------------------------------------
(* Types.                                                                  *)

\* The initial state is well typed.
LEMMA InitType == Init => TypeInv
  BY NoRequestType, SessionsAssumption
     DEF Init, TypeInv, TypeOK, LocalsReady, Ready, KeyedSteps,
         HoldingSteps, EndingSteps, Steps, NoSession, Keys

\* A step that keeps the types of the store and of the locks, and goes on with
\* typed locals, keeps the types.
LEMMA GotoType ==
    ASSUME TypeInv, NEW h \in Handlers, NEW step \in Steps, NEW r \in Request,
           Goto(h, step, r), Ready(step, r),
           sessions' \in [Ids -> Session \cup {Missing}],
           user_sessions' \in [Keys -> Ids \cup {NoSession}],
           nextId' \in 1..(MaxSessions + 1), usersRead' \subseteq Handlers,
           UNCHANGED <<now, prune, cutoff>>
    PROVE  TypeInv'
  <1>. USE DEF TypeInv
  <1>1. TypeOK'
    BY GotoEffect DEF TypeOK
  <1>2. LocalsReady'
    <2>. SUFFICES ASSUME NEW g \in Handlers PROVE Ready(pc'[g], req'[g])
      BY DEF LocalsReady, Ready
    <2>1. CASE g = h
      BY <2>1, GotoEffect, LiveKeeps
    <2>2. CASE g # h
      BY <2>2, GotoEffect DEF LocalsReady
    <2>. QED  BY <2>1, <2>2
  <1>. QED  BY <1>1, <1>2

\* A new request of well-typed arguments keeps the types.
LEMMA NewRequestType ==
    ASSUME TypeInv, NEW h \in Handlers, NEW kind \in {"chat", "alias", "pair"},
           NEW u \in Users \cup {NoUser}, NEW c \in Channels,
           NEW s \in Ids \cup {NoSession}, NEW step \in Steps,
           NewRequest(h, kind, u, c, s, step), StoreUnchanged, LocksUnchanged,
           step \in {"idle", "insert"} \/ (step = "lookup" /\ u \in Users)
               \/ (step = "promote" /\ u \in Users /\ s \in Ids)
               \/ (step = "serve" /\ s \in Ids)
    PROVE  TypeInv'
  <1>1. PICK r \in Request : r.sid = s /\ r.user = u /\ Goto(h, step, r)
    BY NewRequestEffect DEF TypeInv
  <1>. QED
    BY <1>1, GotoType DEF TypeInv, TypeOK, StoreUnchanged, LocksUnchanged,
       Ready, KeyedSteps, HoldingSteps, EndingSteps

\* Starting a request keeps the types.
LEMMA StartType ==
    ASSUME TypeInv, NEW h \in Handlers, Start(h)
    PROVE  TypeInv'
  <1>1. ASSUME NEW u \in Users \cup {NoUser}, NEW c \in Channels,
               StartChat(h, u, c)
        PROVE  TypeInv'
    <2>. DEFINE step == IF u = NoUser THEN "insert" ELSE "lookup"
    <2>1. step \in Steps
      BY DEF Steps
    <2>. QED  BY <1>1, <2>1, NewRequestType DEF StartChat
  <1>2. ASSUME NEW u \in Users \cup {NoUser}, NEW c \in Channels,
               NEW s \in Ids, StartChatWithId(h, u, c, s)
        PROVE  TypeInv'
    <2>. DEFINE step == IF u = NoUser
                        THEN IF Present(s) THEN "serve" ELSE "insert"
                        ELSE IF Present(s) THEN "promote" ELSE "lookup"
    <2>1. step \in Steps
      BY DEF Steps
    <2>. QED  BY <1>2, <2>1, NewRequestType DEF StartChatWithId
  <1>3. ASSUME NEW alias \in Users, NEW u \in Users, NEW c \in Channels,
               StartAlias(h, alias, u, c)
        PROVE  TypeInv'
    <2>. DEFINE step == IF user_sessions[<<alias, c>>] = NoSession
                        THEN "lookup" ELSE "promote"
    <2>1. user_sessions[<<alias, c>>] \in Ids \cup {NoSession}
      BY DEF TypeInv, TypeOK, Keys
    <2>2. step \in Steps
      BY DEF Steps
    <2>. QED  BY <1>3, <2>1, <2>2, NewRequestType DEF StartAlias
  <1>4. ASSUME NEW u \in Users, NEW s \in Ids, StartPair(h, u, s)
        PROVE  TypeInv'
    <2>1. NoRequest.channel \in Channels
      BY NoRequestType DEF Request
    <2>. QED  BY <1>4, <2>1, NewRequestType DEF StartPair, Steps
  <1>. QED  BY <1>1, <1>2, <1>3, <1>4 DEF Start

\* An update of a present session by a session keeps the type of the map.
LEMMA UpdateType ==
    ASSUME TypeOK, NEW s \in Ids, NEW new, Present(s) => new \in Session,
           Update(s, new)
    PROVE  sessions' \in [Ids -> Session \cup {Missing}]
  BY DEF TypeOK, Update

\* A request that goes on keeps the types.
LEMMA HandlerType ==
    ASSUME TypeInv, NEW h \in Handlers, Continue(h) \/ UserWrite(h)
    PROVE  TypeInv'
  <1>. DEFINE r == req[h]
              key == <<r.user, r.channel>>
  <1>1. /\ r \in Request
        /\ sessions \in [Ids -> Session \cup {Missing}]
        /\ user_sessions \in [Keys -> Ids \cup {NoSession}]
        /\ nextId \in 1..(MaxSessions + 1) /\ usersRead \subseteq Handlers
        /\ now \in 0..MaxTime
        /\ Ready(pc[h], r)
    BY DEF TypeInv, TypeOK, LocalsReady
  <1>2. ASSUME NEW s \in Ids, Present(s) PROVE sessions[s] \in Session
    BY <1>1, <1>2 DEF Present
  <1>3. pc[h] \in KeyedSteps => key \in Keys
    BY <1>1 DEF Request, Keys, Ready, KeyedSteps
  <1>4. \A u, c, s : Detached(u, c, s) \in [Keys -> Ids \cup {NoSession}]
    BY <1>1 DEF Detached
  <1>. USE DEF StoreUnchanged, LocksUnchanged, Steps, Ready, KeyedSteps,
              HoldingSteps, EndingSteps
  <1>. HIDE DEF r, key
  <1>5. CASE LookupUser(h)
    <2>1. user_sessions[key] \in Ids \cup {NoSession}
      BY <1>1, <1>3, <1>5 DEF LookupUser
    <2>2. CASE user_sessions[key] = NoSession
      <3>1. [r EXCEPT !.t = now] \in Request
        BY <1>1 DEF Request
      <3>. QED
        BY <1>1, <1>5, <2>2, <3>1, GotoType DEF LookupUser, r, key
    <2>3. CASE user_sessions[key] # NoSession
      <3>. DEFINE q == [r EXCEPT !.sid = user_sessions[key]]
      <3>1. q \in Request /\ Ready("reuse", q)
        BY <1>1, <2>1, <2>3 DEF Request
      <3>2. Goto(h, "reuse", q)
        BY <1>5, <2>3 DEF LookupUser, r, key
      <3>3. usersRead' \subseteq Handlers
        BY <1>1, <1>5, <2>3 DEF LookupUser, r, key
      <3>4. UNCHANGED <<sessions, user_sessions, nextId, now, prune, cutoff>>
        BY <1>5 DEF LookupUser
      <3>. HIDE DEF q, Ready
      <3>. QED  BY <1>1, <3>1, <3>2, <3>3, <3>4, GotoType
    <2>. QED  BY <2>2, <2>3
  <1>6. CASE ReuseSession(h)
    <2>1. [r EXCEPT !.t = now] \in Request
      BY <1>1 DEF Request
    <2>. QED  BY <1>1, <1>6, <2>1, GotoType DEF ReuseSession, r
  <1>7. CASE InsertSession(h)
    <2>. DEFINE new == [user |-> r.user, channel |-> r.channel,
                        state |-> "Active", last_active |-> r.t]
    <2>1. new \in Session
      BY <1>1 DEF Request, Session
    <2>2. sessions' = [sessions EXCEPT ![nextId] = new]
      BY <1>7 DEF InsertSession, r
    <2>3. sessions' \in [Ids -> Session \cup {Missing}]
      BY <1>1, <2>1, <2>2
    <2>4. nextId \in Ids /\ nextId' \in 1..(MaxSessions + 1)
      BY <1>1, <1>7, SessionsAssumption DEF InsertSession, Ids
    <2>. DEFINE step == IF r.user = NoUser THEN "serve" ELSE "map"
                q == [r EXCEPT !.sid = nextId]
    <2>5. q \in Request /\ step \in Steps /\ Ready(step, q)
      BY <1>1, <2>4 DEF Request
    <2>6. Goto(h, step, q)
      BY <1>7 DEF InsertSession, r
    <2>7. UNCHANGED <<user_sessions, now, usersRead, prune, cutoff>>
      BY <1>7 DEF InsertSession
    <2>. HIDE DEF step, q, Ready
    <2>. QED  BY <1>1, <2>3, <2>4, <2>5, <2>6, <2>7, GotoType
  <1>8. CASE MapSession(h)
    <2>1. user_sessions' \in [Keys -> Ids \cup {NoSession}]
      BY <1>1, <1>3, <1>8 DEF MapSession, r, key, Request
    <2>. QED  BY <1>1, <1>8, <2>1, GotoType DEF MapSession, r
  <1>9. CASE Promote(h)
    <2>1. CASE ~Present(r.sid)
      BY <1>1, <1>9, <2>1, GotoType DEF Promote, AfterNotFound, r
    <2>2. CASE Present(r.sid)
      <3>. DEFINE step == IF sessions[r.sid].user = r.user
                          THEN "touch" ELSE "find"
                  q == [r EXCEPT !.old = sessions[r.sid].user,
                                 !.channel = sessions[r.sid].channel]
      <3>1. r.sid \in Ids /\ r.user \in Users
        BY <1>1, <1>9 DEF Promote
      <3>2. sessions[r.sid] \in Session
        BY <1>2, <2>2, <3>1
      <3>3. q \in Request /\ step \in Steps /\ Ready(step, q)
        BY <1>1, <3>1, <3>2 DEF Request, Session
      <3>4. Goto(h, step, q)
        BY <1>9, <2>2 DEF Promote, r
      <3>5. UNCHANGED <<sessions, user_sessions, nextId, now, usersRead, prune,
                        cutoff>>
        BY <1>9 DEF Promote
      <3>. HIDE DEF step, q, Ready
      <3>. QED  BY <1>1, <3>3, <3>4, <3>5, GotoType
    <2>. QED  BY <2>1, <2>2
  <1>10. CASE FindExisting(h)
    <2>1. user_sessions[key] \in Ids \cup {NoSession}
      BY <1>1, <1>3, <1>10 DEF FindExisting
    <2>. DEFINE step == IF user_sessions[key] = NoSession
                        THEN "bind" ELSE "check"
                q == [r EXCEPT !.existing = user_sessions[key]]
    <2>2. q \in Request /\ step \in Steps /\ Ready(step, q)
      BY <1>1, <1>10, <2>1 DEF Request, FindExisting
    <2>3. Goto(h, step, q)
      BY <1>10 DEF FindExisting, r, key
    <2>4. UNCHANGED <<sessions, user_sessions, nextId, now, usersRead, prune,
                      cutoff>>
      BY <1>10 DEF FindExisting
    <2>. HIDE DEF step, q, Ready
    <2>. QED  BY <1>1, <2>2, <2>3, <2>4, GotoType
  <1>11. CASE CheckExisting(h)
    <2>1. [r EXCEPT !.existing = NoSession] \in Request
      BY <1>1 DEF Request
    <2>. QED  BY <1>1, <1>11, <2>1, GotoType DEF CheckExisting, r, Request
  <1>12. CASE EndSession(h)
    <2>1. sessions' \in [Ids -> Session \cup {Missing}]
      <3>1. r.sid \in Ids
        BY <1>1, <1>12 DEF EndSession
      <3>. QED
        BY <1>1, <1>2, <1>12, <3>1 DEF EndSession, Update, Session, Request, r
    <2>. QED  BY <1>1, <1>12, <2>1, GotoType DEF EndSession, r
  <1>13. CASE DetachSession(h)
    <2>. DEFINE q == [r EXCEPT !.sid = r.existing]
    <2>1. q \in Request /\ Ready("touch", q)
      BY <1>1, <1>13 DEF Request, DetachSession
    <2>2. Goto(h, "touch", q)
      BY <1>13 DEF DetachSession, r
    <2>3. user_sessions' \in [Keys -> Ids \cup {NoSession}]
      BY <1>4, <1>13 DEF DetachSession
    <2>4. UNCHANGED <<sessions, nextId, now, usersRead, prune, cutoff>>
      BY <1>13 DEF DetachSession
    <2>. HIDE DEF q, Ready
    <2>. QED  BY <1>1, <2>1, <2>2, <2>3, <2>4, GotoType
  <1>14. CASE TouchSession(h)
    <2>1. sessions' \in [Ids -> Session \cup {Missing}]
      <3>1. r.sid \in Ids
        BY <1>1, <1>14 DEF TouchSession
      <3>. DEFINE new == [sessions[r.sid] EXCEPT
                    !.last_active = now,
                    !.state = IF @ = "Idle" THEN "Active" ELSE @]
      <3>2. Present(r.sid) => new \in Session
        BY <1>1, <1>2, <3>1 DEF Session, Request
      <3>3. Update(r.sid, new)
        BY <1>14, <3>1 DEF TouchSession, Update, Present, r
      <3>. HIDE DEF new
      <3>. QED  BY <3>1, <3>2, <3>3, UpdateType DEF TypeInv
    <2>. QED
      BY <1>1, <1>14, <2>1, GotoType DEF TouchSession, AfterPromote, r
  <1>15. CASE BindSession(h)
    <2>1. sessions' \in [Ids -> Session \cup {Missing}]
      <3>1. r.sid \in Ids
        BY <1>1, <1>15 DEF BindSession
      <3>. DEFINE new == [sessions[r.sid] EXCEPT !.user = r.user,
                                                  !.last_active = now]
      <3>2. Present(r.sid) => new \in Session
        BY <1>1, <1>2, <3>1 DEF Session, Request
      <3>3. Update(r.sid, new)
        BY <1>1, <1>15, <3>1 DEF BindSession, Update, Present, r
      <3>. HIDE DEF new
      <3>. QED  BY <3>1, <3>2, <3>3, UpdateType DEF TypeInv
    <2>. QED
      BY <1>1, <1>15, <2>1, GotoType DEF BindSession, AfterNotFound, r
  <1>16. CASE RemapSession(h)
    <2>1. user_sessions' \in [Keys -> Ids \cup {NoSession}]
      <3>1. r.sid \in Ids \cup {NoSession}
        BY <1>1 DEF Request
      <3>2. user_sessions' = [Detached(r.old, r.channel, r.sid) EXCEPT
                                ![key] = r.sid]
        BY <1>16 DEF RemapSession, r, key
      <3>. QED  BY <1>4, <3>1, <3>2
    <2>. QED
      BY <1>1, <1>16, <2>1, GotoType DEF RemapSession, AfterPromote, r
  <1>17. CASE RecordMessage(h)
    <2>1. sessions' \in [Ids -> Session \cup {Missing}]
      <3>1. r.sid \in Ids
        BY <1>1, <1>17 DEF RecordMessage
      <3>. DEFINE new == [sessions[r.sid] EXCEPT !.state = "Active",
                                                  !.last_active = now]
      <3>2. Present(r.sid) => new \in Session
        BY <1>1, <1>2, <3>1 DEF Session, Request
      <3>3. Update(r.sid, new)
        BY <1>17, <3>1 DEF RecordMessage, Update, Present, r
      <3>. HIDE DEF new
      <3>. QED  BY <3>1, <3>2, <3>3, UpdateType DEF TypeInv
    <2>. QED  BY <1>1, <1>17, <2>1, GotoType DEF RecordMessage, r
  <1>18. CASE ServeFails(h)
    BY <1>1, <1>18, GotoType DEF ServeFails, r
  <1>. QED
    BY <1>5, <1>6, <1>7, <1>8, <1>9, <1>10, <1>11, <1>12, <1>13, <1>14, <1>15,
       <1>16, <1>17, <1>18 DEF Continue, UserWrite

\* The pruning task and the clock keep the types.
LEMMA BackgroundType ==
    ASSUME TypeInv, PruneBegin \/ PruneLock \/ PruneFinish \/ Tick
    PROVE  TypeInv'
  <1>. USE SessionsAssumption DEF TypeInv, TypeOK, LocalsReady, StoreUnchanged,
                                  LocksUnchanged
  <1>1. CASE PruneBegin
    BY <1>1 DEF PruneBegin
  <1>2. CASE PruneLock
    BY <1>2 DEF PruneLock
  <1>3. CASE PruneFinish
    BY <1>3 DEF PruneFinish
  <1>4. CASE Tick
    BY <1>4 DEF Tick
  <1>. QED  BY <1>1, <1>2, <1>3, <1>4

\* Every step keeps the types.
LEMMA NextType == TypeInv /\ [Next]_vars => TypeInv'
  <1>. SUFFICES ASSUME TypeInv, [Next]_vars PROVE TypeInv'
    OBVIOUS
  <1>1. CASE UNCHANGED vars
    BY <1>1 DEF vars, TypeInv, TypeOK, LocalsReady
  <1>2. CASE Next
    BY <1>2, StartType, HandlerType, BackgroundType DEF Next, HandlerNext
  <1>. QED  BY <1>1, <1>2

\* The types of every variable hold in every reachable state.
THEOREM TypeCorrect == Spec => []TypeOK
  <1>1. TypeInv => TypeOK
    BY DEF TypeInv
  <1>. QED  BY <1>1, InitType, NextType, PTL DEF Spec

-----------------------------------------------------------------------------
(* Channel isolation.                                                      *)

\* The step neither creates nor drops a session, nor moves it to another
\* channel.
SameSessions ==
    \A s \in Ids :
        /\ sessions'[s] # Missing <=> Present(s)
        /\ Present(s) => sessions'[s].channel = sessions[s].channel

\* A handler step that creates no session, changes the channel of none, and
\* writes no entry whose session is on another channel, keeps the invariant.
\* Every handler step but InsertSession is of this form.
LEMMA QuietStep ==
    ASSUME IInv, TypeInv', NEW h \in Handlers, NEW step \in Steps,
           NEW r \in Request, Goto(h, step, r), nextId' = nextId,
           r.sid < nextId, r.existing < nextId,
           step \in WritingSteps /\ Present(r.sid)
               => sessions[r.sid].channel = r.channel,
           SameSessions,
           \A k \in Keys : LET s == user_sessions'[k] IN
               \/ s \in {user_sessions[k], NoSession}
               \/ s < nextId /\ (Present(s) => sessions[s].channel = k[2])
    PROVE  IInv'
  <1>1. Fresh'
    <2>1. \A s \in Ids : s >= nextId' => sessions'[s] = Missing
      BY DEF IInv, Fresh, Present, SameSessions
    <2>2. \A k \in Keys : user_sessions'[k] < nextId'
      BY DEF IInv, TypeInv, Fresh, TypeOK, NoSession
    <2>3. \A g \in Handlers : req'[g].sid < nextId' /\ req'[g].existing < nextId'
      <3>. SUFFICES ASSUME NEW g \in Handlers
                    PROVE  req'[g].sid < nextId /\ req'[g].existing < nextId
        OBVIOUS
      <3>1. NoSession < nextId
        BY DEF IInv, TypeInv, TypeOK, NoSession
      <3>2. CASE g = h
        <4>1. req'[h] = Live(step, r)
          BY GotoEffect DEF IInv, TypeInv
        <4>. QED  BY <3>1, <3>2, <4>1, LiveKeeps
      <3>3. CASE g # h
        <4>1. req'[g] = req[g]
          BY <3>3, GotoEffect DEF IInv, TypeInv
        <4>. QED  BY <4>1 DEF IInv, Fresh
      <3>. QED  BY <3>2, <3>3
    <2>. QED  BY <2>1, <2>2, <2>3 DEF Fresh
  <1>2. HandlerChannel'
    <2>. SUFFICES ASSUME NEW g \in Handlers,
                         pc'[g] \in WritingSteps,
                         sessions'[req'[g].sid] # Missing
                  PROVE  sessions'[req'[g].sid].channel = req'[g].channel
      BY DEF HandlerChannel, Present
    <2>1. CASE g = h
      <3>1. req'[h].sid = r.sid /\ req'[h].channel = r.channel
        BY <2>1, GotoEffect, LiveKeeps DEF IInv, TypeInv
      <3>2. r.sid \in Ids /\ pc'[h] = step
        BY <2>1, <3>1, GotoEffect
           DEF IInv, TypeInv, LocalsReady, Ready, WritingSteps, HoldingSteps
      <3>. QED  BY <2>1, <3>1, <3>2 DEF SameSessions
    <2>2. CASE g # h
      <3>1. pc'[g] = pc[g] /\ req'[g] = req[g]
        BY <2>2, GotoEffect DEF IInv, TypeInv
      <3>2. req[g].sid \in Ids
        BY <3>1 DEF IInv, TypeInv, LocalsReady, Ready, WritingSteps, HoldingSteps
      <3>. QED  BY <3>1, <3>2 DEF IInv, HandlerChannel, SameSessions
    <2>. QED  BY <2>1, <2>2
  <1>3. ChannelIsolation'
    <2>. SUFFICES ASSUME NEW k \in Keys, user_sessions'[k] # NoSession,
                         sessions'[user_sessions'[k]] # Missing
                  PROVE  sessions'[user_sessions'[k]].channel = k[2]
      BY DEF ChannelIsolation, Present
    <2>1. user_sessions'[k] \in Ids
      BY DEF TypeInv, TypeOK
    <2>. QED  BY <2>1 DEF IInv, ChannelIsolation, SameSessions, Present
  <1>. QED  BY <1>1, <1>2, <1>3 DEF IInv

\* Updating a session in place is such a step.
LEMMA UpdateSame ==
    ASSUME TypeOK, NEW s \in Ids, NEW new, Update(s, new),
           Present(s) => new \in Session /\ new.channel = sessions[s].channel
    PROVE  SameSessions
  <1>1. Missing \notin Session
    BY DEF Missing, Session
  <1>. QED  BY <1>1 DEF TypeOK, Update, SameSessions, Present

\* So are all steps of a request but InsertSession.
LEMMA HandlerSame ==
    ASSUME TypeInv, NEW h \in Handlers,
           Start(h) \/ Continue(h) \/ UserWrite(h), ~InsertSession(h)
    PROVE  SameSessions
  <1>1. /\ TypeOK
        /\ req[h] \in Request
        /\ now \in 0..MaxTime
        /\ Ready(pc[h], req[h])
    BY DEF TypeInv, TypeOK, LocalsReady
  <1>2. ASSUME NEW s \in Ids, Present(s) PROVE sessions[s] \in Session
    BY <1>2 DEF TypeInv, TypeOK, Present
  <1>3. sessions' = sessions => SameSessions
    BY DEF SameSessions, Present
  <1>4. CASE Start(h)
    BY <1>3, <1>4 DEF Start, StartChat, StartChatWithId, StartAlias, StartPair,
                      StoreUnchanged
  <1>5. CASE \/ LookupUser(h) \/ ReuseSession(h) \/ Promote(h) \/ FindExisting(h)
             \/ CheckExisting(h) \/ ServeFails(h) \/ UserWrite(h)
    BY <1>3, <1>5 DEF LookupUser, ReuseSession, Promote, FindExisting,
                      CheckExisting, ServeFails, UserWrite, MapSession,
                      DetachSession, RemapSession, StoreUnchanged
  <1>. DEFINE s == req[h].sid
  <1>6. pc[h] \in {"end", "touch", "bind", "serve"} => s \in Ids
    BY <1>1 DEF Ready, HoldingSteps
  <1>7. CASE EndSession(h)
    <2>. DEFINE new == [sessions[s] EXCEPT !.state = "Ended"]
    <2>1. s \in Ids /\ Update(s, new)
      BY <1>6, <1>7 DEF EndSession
    <2>2. Present(s) => new \in Session /\ new.channel = sessions[s].channel
      BY <1>2, <2>1 DEF Session
    <2>. HIDE DEF new
    <2>. QED  BY <1>1, <2>1, <2>2, UpdateSame
  <1>8. CASE TouchSession(h)
    <2>. DEFINE new == [sessions[s] EXCEPT
                          !.last_active = now,
                          !.state = IF @ = "Idle" THEN "Active" ELSE @]
    <2>1. s \in Ids /\ Update(s, new)
      BY <1>6, <1>8 DEF TouchSession
    <2>2. Present(s) => new \in Session /\ new.channel = sessions[s].channel
      BY <1>1, <1>2, <2>1 DEF Session
    <2>. HIDE DEF new
    <2>. QED  BY <1>1, <2>1, <2>2, UpdateSame
  <1>9. CASE BindSession(h)
    <2>. DEFINE new == [sessions[s] EXCEPT !.user = req[h].user,
                                           !.last_active = now]
    <2>1. s \in Ids
      BY <1>6, <1>9 DEF BindSession
    <2>2. Present(s) => new \in Session /\ new.channel = sessions[s].channel
      BY <1>1, <1>2, <2>1 DEF Session, Request
    <2>3. Present(s) => Update(s, new)
      BY <1>9 DEF BindSession
    <2>4. ~Present(s) => SameSessions
      BY <1>3, <1>9 DEF BindSession
    <2>. HIDE DEF new
    <2>. QED  BY <1>1, <2>1, <2>2, <2>3, <2>4, UpdateSame
  <1>10. CASE RecordMessage(h)
    <2>. DEFINE new == [sessions[s] EXCEPT !.state = "Active",
                                           !.last_active = now]
    <2>1. s \in Ids /\ Update(s, new)
      BY <1>6, <1>10 DEF RecordMessage
    <2>2. Present(s) => new \in Session /\ new.channel = sessions[s].channel
      BY <1>1, <1>2, <2>1 DEF Session
    <2>. HIDE DEF new
    <2>. QED  BY <1>1, <2>1, <2>2, UpdateSame
  <1>. QED  BY <1>4, <1>5, <1>7, <1>8, <1>9, <1>10 DEF Continue

\* Nothing is created, mapped or promised in the initial state.
LEMMA InitInv == Init => IInv
  <1>. SUFFICES ASSUME Init PROVE IInv
    OBVIOUS
  <1>1. TypeInv
    BY InitType
  <1>2. Fresh /\ HandlerChannel /\ ChannelIsolation
    BY DEF Init, Fresh, HandlerChannel, ChannelIsolation, WritingSteps,
           NoRequest, NoSession, Keys
  <1>. QED  BY <1>1, <1>2 DEF IInv

\* A new request holds no session that was not handed out, and does not write
\* an entry at once.
LEMMA StartGoto ==
    ASSUME IInv, NEW h \in Handlers, Start(h)
    PROVE  \E step \in Steps \ WritingSteps, r \in Request :
             Goto(h, step, r) /\ r.sid < nextId /\ r.existing < nextId
  <1>. DEFINE Goal == \E step \in Steps \ WritingSteps, r \in Request :
                        /\ Goto(h, step, r)
                        /\ r.sid < nextId /\ r.existing < nextId
  <1>. USE DEF Steps, WritingSteps
  <1>1. TypeOK /\ NoSession < nextId /\ NoRequest.channel \in Channels
    BY NoRequestType DEF IInv, TypeInv, TypeOK, NoSession, Request
  <1>. HIDE DEF Goal
  <1>2. ASSUME NEW kind \in {"chat", "alias", "pair"},
               NEW u \in Users \cup {NoUser}, NEW c \in Channels,
               NEW s \in Ids \cup {NoSession}, NEW step \in Steps \ WritingSteps,
               NewRequest(h, kind, u, c, s, step), s < nextId
        PROVE  Goal
    BY <1>1, <1>2, NewRequestEffect DEF Goal
  <1>3. ASSUME NEW u \in Users \cup {NoUser}, NEW c \in Channels,
               StartChat(h, u, c)
        PROVE  Goal
    BY <1>1, <1>2, <1>3 DEF StartChat
  <1>4. ASSUME NEW u \in Users \cup {NoUser}, NEW c \in Channels,
               NEW s \in Ids, StartChatWithId(h, u, c, s)
        PROVE  Goal
    <2>. DEFINE step == IF u = NoUser
                        THEN IF Present(s) THEN "serve" ELSE "insert"
                        ELSE IF Present(s) THEN "promote" ELSE "lookup"
    <2>1. step \in Steps \ WritingSteps
      OBVIOUS
    <2>2. NewRequest(h, "chat", u, c, s, step) /\ s < nextId
      BY <1>4 DEF StartChatWithId, Issued
    <2>. HIDE DEF step
    <2>. QED  BY <1>2, <2>1, <2>2
  <1>5. ASSUME NEW alias \in Users, NEW u \in Users, NEW c \in Channels,
               StartAlias(h, alias, u, c)
        PROVE  Goal
    <2>. DEFINE s == user_sessions[<<alias, c>>]
                step == IF s = NoSession THEN "lookup" ELSE "promote"
    <2>1. s \in Ids \cup {NoSession} /\ s < nextId
      BY DEF IInv, TypeInv, TypeOK, Fresh, Keys
    <2>2. step \in Steps \ WritingSteps
      OBVIOUS
    <2>3. NewRequest(h, "alias", u, c, s, step)
      BY <1>5 DEF StartAlias
    <2>. HIDE DEF s, step
    <2>. QED  BY <1>2, <2>1, <2>2, <2>3
  <1>6. ASSUME NEW u \in Users, NEW s \in Ids, StartPair(h, u, s)
        PROVE  Goal
    BY <1>1, <1>2, <1>6 DEF StartPair, Issued
  <1>7. Goal
    BY <1>3, <1>4, <1>5, <1>6 DEF Start
  <1>. QED  BY <1>7 DEF Goal

\* A request that goes on with a step that writes an entry for its session
\* has that session's channel in its locals.
LEMMA ContinueGoto ==
    ASSUME IInv, NEW h \in Handlers, Continue(h) \/ UserWrite(h),
           ~InsertSession(h)
    PROVE  \E step \in Steps, r \in Request :
             /\ Goto(h, step, r)
             /\ r.sid < nextId /\ r.existing < nextId
             /\ step \in WritingSteps /\ Present(r.sid)
                  => sessions[r.sid].channel = r.channel
  <1>. DEFINE r == req[h]
              Good(step, q) == /\ Goto(h, step, q)
                               /\ q.sid < nextId /\ q.existing < nextId
                               /\ step \in WritingSteps /\ Present(q.sid)
                                    => sessions[q.sid].channel = q.channel
              Goal == \E step \in Steps, q \in Request : Good(step, q)
  <1>1. /\ r \in Request /\ r.sid < nextId /\ r.existing < nextId
        /\ Ready(pc[h], r)
        /\ pc[h] \in WritingSteps /\ Present(r.sid)
             => sessions[r.sid].channel = r.channel
    BY DEF IInv, TypeInv, TypeOK, LocalsReady, Fresh, HandlerChannel
  <1>2. user_sessions \in [Keys -> Ids \cup {NoSession}] /\ now \in 0..MaxTime
        /\ \A k \in Keys : user_sessions[k] < nextId
    BY DEF IInv, TypeInv, TypeOK, Fresh
  <1>. USE DEF Steps, WritingSteps
  <1>. HIDE DEF r
  <1>3. CASE LookupUser(h)
    <2>. DEFINE s == user_sessions[<<r.user, r.channel>>]
    <2>1. s \in Ids \cup {NoSession} /\ s < nextId
      BY <1>1, <1>2, <1>3 DEF LookupUser, Ready, KeyedSteps, Request, Keys
    <2>2. CASE s = NoSession
      <3>. DEFINE q == [r EXCEPT !.t = now]
      <3>1. q \in Request /\ q.sid = r.sid /\ q.existing = r.existing
        BY <1>1, <1>2 DEF Request
      <3>2. Goto(h, "insert", q)
        BY <1>3, <2>2 DEF LookupUser, r
      <3>. HIDE DEF q
      <3>. QED  BY <1>1, <3>1, <3>2
    <2>3. CASE s # NoSession
      <3>. DEFINE q == [r EXCEPT !.sid = s]
      <3>1. q \in Request /\ q.sid = s /\ q.existing = r.existing
        BY <1>1, <2>1 DEF Request
      <3>2. Goto(h, "reuse", q)
        BY <1>3, <2>3 DEF LookupUser, r
      <3>. HIDE DEF q
      <3>. QED  BY <1>1, <2>1, <3>1, <3>2
    <2>. QED  BY <2>2, <2>3
  <1>4. CASE ReuseSession(h)
    <2>. DEFINE q == [r EXCEPT !.t = now]
    <2>1. q \in Request /\ q.sid = r.sid /\ q.existing = r.existing
      BY <1>1, <1>2 DEF Request
    <2>2. Goto(h, "serve", r) \/ Goto(h, "insert", q)
      BY <1>4 DEF ReuseSession, r
    <2>. HIDE DEF q
    <2>. QED  BY <1>1, <2>1, <2>2
  <1>5. CASE Promote(h)
    <2>1. CASE ~Present(r.sid)
      BY <1>1, <1>5, <2>1 DEF Promote, AfterNotFound, r
    <2>2. CASE Present(r.sid)
      <3>. DEFINE step == IF sessions[r.sid].user = r.user
                          THEN "touch" ELSE "find"
                  q == [r EXCEPT !.old = sessions[r.sid].user,
                                 !.channel = sessions[r.sid].channel]
      <3>1. sessions[r.sid] \in Session
        BY <1>1, <1>5, <2>2 DEF Promote, Ready, HoldingSteps, Present, IInv,
                                TypeInv, TypeOK
      <3>2. q \in Request /\ q.sid = r.sid /\ q.existing = r.existing
            /\ q.channel = sessions[r.sid].channel
        BY <1>1, <3>1 DEF Request, Session
      <3>3. Goto(h, step, q) /\ step \in Steps
        BY <1>5, <2>2 DEF Promote, r
      <3>. HIDE DEF step, q
      <3>. QED  BY <1>1, <3>2, <3>3
    <2>. QED  BY <2>1, <2>2
  <1>6. CASE FindExisting(h)
    <2>. DEFINE s == user_sessions[<<r.user, r.channel>>]
                step == IF s = NoSession THEN "bind" ELSE "check"
                q == [r EXCEPT !.existing = s]
    <2>1. s \in Ids \cup {NoSession} /\ s < nextId
      BY <1>1, <1>2, <1>6 DEF FindExisting, Ready, KeyedSteps, Request, Keys
    <2>2. q \in Request /\ q.sid = r.sid /\ q.channel = r.channel
          /\ q.existing = s
      BY <1>1, <2>1 DEF Request
    <2>3. Goto(h, step, q) /\ step \in Steps /\ pc[h] = "find"
      BY <1>6 DEF FindExisting, r
    <2>. HIDE DEF step, q
    <2>. QED  BY <1>1, <2>1, <2>2, <2>3
  <1>7. CASE CheckExisting(h)
    <2>. DEFINE q == [r EXCEPT !.existing = NoSession]
    <2>1. q \in Request /\ q.sid = r.sid /\ q.channel = r.channel
          /\ q.existing = NoSession /\ NoSession < nextId
      BY <1>1 DEF Request, IInv, TypeInv, TypeOK, NoSession
    <2>2. pc[h] = "check" /\ (Goto(h, "end", r) \/ Goto(h, "bind", q))
      BY <1>7 DEF CheckExisting, r
    <2>. HIDE DEF q
    <2>. QED  BY <1>1, <2>1, <2>2
  <1>8. CASE DetachSession(h)
    <2>. DEFINE q == [r EXCEPT !.sid = r.existing]
    <2>1. q \in Request /\ q.sid = r.existing /\ q.existing = r.existing
      BY <1>1 DEF Request
    <2>2. Goto(h, "touch", q) /\ pc[h] = "detach"
      BY <1>8 DEF DetachSession, r
    <2>. HIDE DEF q
    <2>. QED  BY <1>1, <2>1, <2>2
  <1>9. CASE BindSession(h)
    BY <1>1, <1>9 DEF BindSession, AfterNotFound, r
  <1>10. CASE EndSession(h) \/ TouchSession(h) \/ RecordMessage(h)
              \/ ServeFails(h) \/ MapSession(h) \/ RemapSession(h)
    <2>1. \E step \in Steps \ WritingSteps : Goto(h, step, r)
      BY <1>10 DEF EndSession, TouchSession, RecordMessage, ServeFails,
                   MapSession, RemapSession, AfterPromote, r
    <2>. QED  BY <1>1, <2>1
  <1>. QED
    BY <1>3, <1>4, <1>5, <1>6, <1>7, <1>8, <1>9, <1>10
       DEF Continue, UserWrite

\* The entries a request writes are taken away, or lead to the session it has
\* in hand, on the channel of that session.
LEMMA EntriesWritten ==
    ASSUME IInv, NEW h \in Handlers,
           Start(h) \/ Continue(h) \/ UserWrite(h), ~InsertSession(h),
           NEW k \in Keys
    PROVE  LET s == user_sessions'[k] IN
             \/ s \in {user_sessions[k], NoSession}
             \/ s < nextId /\ (Present(s) => sessions[s].channel = k[2])
  <1>. DEFINE r == req[h]
              key == <<r.user, r.channel>>
  <1>1. /\ r \in Request /\ r.sid < nextId
        /\ pc[h] \in WritingSteps /\ Present(r.sid)
             => sessions[r.sid].channel = r.channel
        /\ user_sessions \in [Keys -> Ids \cup {NoSession}]
    BY DEF IInv, TypeInv, TypeOK, Fresh, HandlerChannel
  <1>2. key[2] = r.channel
    OBVIOUS
  <1>3. \A u, c, s : Detached(u, c, s) \in [Keys -> Ids \cup {NoSession}]
                    /\ Detached(u, c, s)[k] \in {user_sessions[k], NoSession}
    BY <1>1 DEF Detached
  <1>. HIDE DEF r, key
  <1>4. CASE user_sessions' = user_sessions
    BY <1>4
  <1>5. CASE MapSession(h)
    BY <1>1, <1>2, <1>5 DEF MapSession, WritingSteps, r, key
  <1>6. CASE DetachSession(h)
    BY <1>3, <1>6 DEF DetachSession
  <1>7. CASE RemapSession(h)
    <2>1. user_sessions' = [Detached(r.old, r.channel, r.sid) EXCEPT
                              ![key] = r.sid]
      BY <1>7 DEF RemapSession, r, key
    <2>. QED
      BY <1>1, <1>2, <1>3, <1>7, <2>1 DEF RemapSession, WritingSteps
  <1>. QED
    BY <1>4, <1>5, <1>6, <1>7
       DEF Start, StartChat, StartChatWithId, StartAlias, StartPair, Continue,
           UserWrite, LookupUser, ReuseSession, Promote, FindExisting,
           CheckExisting, EndSession, TouchSession, BindSession, RecordMessage,
           ServeFails, InsertSession, StoreUnchanged

\* A request that starts or goes on keeps the invariant, except in the step
\* that creates a session.
LEMMA HandlerInv ==
    ASSUME IInv, NEW h \in Handlers,
           Start(h) \/ Continue(h) \/ UserWrite(h), ~InsertSession(h)
    PROVE  IInv'
  <1>1. TypeInv' /\ SameSessions
    BY StartType, HandlerType, HandlerSame DEF IInv
  <1>2. nextId' = nextId
    BY DEF Start, StartChat, StartChatWithId, StartAlias, StartPair, Continue,
           UserWrite, LookupUser, ReuseSession, Promote, FindExisting,
           CheckExisting, EndSession, TouchSession, BindSession, RecordMessage,
           ServeFails, MapSession, DetachSession, RemapSession, StoreUnchanged
  <1>3. PICK step \in Steps, r \in Request :
          /\ Goto(h, step, r)
          /\ r.sid < nextId /\ r.existing < nextId
          /\ step \in WritingSteps /\ Present(r.sid)
               => sessions[r.sid].channel = r.channel
    BY StartGoto, ContinueGoto
  <1>. QED  BY <1>1, <1>2, <1>3, EntriesWritten, QuietStep

\* Creating a session: nothing refers to the new id yet but its creator.
LEMMA InsertInv ==
    ASSUME IInv, NEW h \in Handlers, InsertSession(h)
    PROVE  IInv'
  <1>. DEFINE r == req[h]
              step == IF r.user = NoUser THEN "serve" ELSE "map"
              q == [r EXCEPT !.sid = nextId]
              new == [user |-> r.user, channel |-> r.channel,
                      state |-> "Active", last_active |-> r.t]
  <1>1. TypeInv' /\ TypeOK /\ r \in Request
    BY HandlerType DEF IInv, TypeInv, TypeOK, Continue
  <1>2. /\ nextId \in Ids /\ nextId' = nextId + 1
        /\ sessions' = [sessions EXCEPT ![nextId] = new]
        /\ user_sessions' = user_sessions
        /\ Goto(h, step, q)
    BY SessionsAssumption DEF InsertSession, IInv, TypeInv, TypeOK, Ids
  <1>3. /\ q \in Request /\ step \in Steps
        /\ q.sid = nextId /\ q.channel = r.channel /\ q.existing = r.existing
    BY <1>1, <1>2 DEF Request, Steps
  <1>4. /\ sessions'[nextId].channel = r.channel
        /\ \A s \in Ids : s # nextId => sessions'[s] = sessions[s]
    BY <1>1, <1>2 DEF TypeOK
  <1>. HIDE DEF q, step, new
  <1>5. /\ pc'[h] = step
        /\ req'[h].sid \in {nextId, NoSession}
        /\ req'[h].existing \in {r.existing, NoSession}
        /\ step \in WritingSteps => req'[h].channel = r.channel
        /\ \A g \in Handlers \ {h} : pc'[g] = pc[g] /\ req'[g] = req[g]
    BY <1>1, <1>2, <1>3, GotoEffect, LiveKeeps
  <1>6. Fresh'
    <2>1. \A s \in Ids : s >= nextId' => sessions'[s] = Missing
      BY <1>1, <1>2, <1>4 DEF IInv, Fresh, TypeOK, Ids
    <2>2. \A k \in Keys : user_sessions'[k] < nextId'
      BY <1>1, <1>2 DEF IInv, Fresh, TypeOK, Ids, NoSession
    <2>3. \A g \in Handlers : req'[g].sid < nextId' /\ req'[g].existing < nextId'
      <3>. SUFFICES ASSUME NEW g \in Handlers
                    PROVE  req'[g].sid < nextId' /\ req'[g].existing < nextId'
        OBVIOUS
      <3>1. req[g] \in Request /\ req[g].sid < nextId /\ req[g].existing < nextId
        BY <1>1 DEF IInv, Fresh, TypeOK
      <3>2. CASE g = h
        BY <1>2, <1>5, <3>1, <3>2 DEF Ids, NoSession, Request
      <3>3. CASE g # h
        BY <1>2, <1>5, <3>1, <3>3 DEF Ids, NoSession, Request
      <3>. QED  BY <3>2, <3>3
    <2>. QED  BY <2>1, <2>2, <2>3 DEF Fresh
  <1>7. HandlerChannel'
    <2>. SUFFICES ASSUME NEW g \in Handlers, pc'[g] \in WritingSteps,
                         sessions'[req'[g].sid] # Missing
                  PROVE  sessions'[req'[g].sid].channel = req'[g].channel
      BY DEF HandlerChannel, Present
    <2>1. req'[g].sid \in Ids
      BY <1>1 DEF TypeInv, LocalsReady, Ready, WritingSteps, HoldingSteps
    <2>2. CASE g = h
      BY <1>4, <1>5, <2>1, <2>2 DEF Ids, NoSession
    <2>3. CASE g # h
      <3>1. pc'[g] = pc[g] /\ req'[g] = req[g] /\ req[g].sid < nextId
        BY <1>5, <2>3 DEF IInv, Fresh
      <3>2. req[g].sid # nextId
        BY <1>2, <2>1, <3>1 DEF Ids
      <3>. QED
        BY <1>4, <2>1, <3>1, <3>2 DEF IInv, HandlerChannel, Present
    <2>. QED  BY <2>2, <2>3
  <1>8. ChannelIsolation'
    <2>. SUFFICES ASSUME NEW k \in Keys, user_sessions[k] # NoSession,
                         sessions'[user_sessions[k]] # Missing
                  PROVE  sessions'[user_sessions[k]].channel = k[2]
      BY <1>2 DEF ChannelIsolation, Present
    <2>1. user_sessions[k] \in Ids /\ user_sessions[k] < nextId
      BY <1>1 DEF IInv, Fresh, TypeOK
    <2>2. user_sessions[k] # nextId
      BY <1>2, <2>1 DEF Ids
    <2>. QED  BY <1>4, <2>1, <2>2 DEF IInv, ChannelIsolation, Present
  <1>. QED  BY <1>1, <1>6, <1>7, <1>8 DEF IInv

\* Pruning only takes sessions and entries away.
LEMMA BackgroundInv ==
    ASSUME IInv, PruneBegin \/ PruneLock \/ PruneFinish \/ Tick
    PROVE  IInv'
  <1>1. TypeInv' /\ TypeOK
    BY BackgroundType DEF IInv, TypeInv
  <1>2. CASE PruneFinish
    <2>1. /\ UNCHANGED <<nextId, pc, req>>
          /\ \A s \in Ids : sessions'[s] \in {sessions[s], Missing}
          /\ \A k \in Keys : user_sessions'[k] \in {user_sessions[k], NoSession}
      BY <1>2 DEF PruneFinish
    <2>2. Fresh'
      BY <1>1, <2>1 DEF IInv, Fresh, TypeOK, NoSession
    <2>3. HandlerChannel'
      <3>. SUFFICES ASSUME NEW h \in Handlers, pc[h] \in WritingSteps,
                           sessions'[req[h].sid] # Missing
                    PROVE  sessions'[req[h].sid].channel = req[h].channel
        BY <2>1 DEF HandlerChannel, Present
      <3>1. req[h].sid \in Ids
        BY DEF IInv, TypeInv, LocalsReady, Ready, WritingSteps, HoldingSteps
      <3>. QED  BY <2>1, <3>1 DEF IInv, HandlerChannel, Present
    <2>4. ChannelIsolation'
      <3>. SUFFICES ASSUME NEW k \in Keys, user_sessions'[k] # NoSession,
                           sessions'[user_sessions'[k]] # Missing
                    PROVE  sessions'[user_sessions'[k]].channel = k[2]
        BY DEF ChannelIsolation, Present
      <3>1. user_sessions'[k] = user_sessions[k] /\ user_sessions[k] \in Ids
        BY <1>1, <2>1 DEF TypeOK
      <3>. QED  BY <2>1, <3>1 DEF IInv, ChannelIsolation, Present
    <2>. QED  BY <1>1, <2>2, <2>3, <2>4 DEF IInv
  <1>3. CASE PruneBegin \/ PruneLock \/ Tick
    <2>1. UNCHANGED <<sessions, user_sessions, nextId, pc, req>>
      BY <1>3 DEF PruneBegin, PruneLock, Tick, StoreUnchanged
    <2>. QED  BY <1>1, <2>1 DEF IInv, Fresh, HandlerChannel, ChannelIsolation,
                               Present
  <1>. QED  BY <1>2, <1>3

\* Every step keeps the invariant.
LEMMA NextInv == IInv /\ [Next]_vars => IInv'
  <1>. SUFFICES ASSUME IInv, [Next]_vars PROVE IInv'
    OBVIOUS
  <1>1. CASE UNCHANGED vars
    <2>1. TypeInv'
      BY <1>1, NextType DEF IInv
    <2>. QED
      BY <1>1, <2>1 DEF vars, IInv, Fresh, HandlerChannel, ChannelIsolation,
                        Present
  <1>2. CASE Next
    BY <1>2, HandlerInv, InsertInv, BackgroundInv DEF Next, HandlerNext
  <1>. QED  BY <1>1, <1>2

\* No entry of user_sessions ever leads to a session of another channel.
THEOREM ChannelIsolated == Spec => []ChannelIsolation
  <1>1. IInv => ChannelIsolation
    BY DEF IInv
  <1>. QED  BY <1>1, InitInv, NextInv, PTL DEF Spec

-----------------------------------------------------------------------------
(* The pruning task.                                                       *)

\* The cutoff was read in the past: the clock only advances while the task
\* waits for its locks.
CutoffInv == prune # "idle" => cutoff + TTL <= now

\* Requests have nothing to do with it.
LEMMA HandlerLeavesPrune ==
    ASSUME NEW h \in Handlers, Start(h) \/ Continue(h) \/ UserWrite(h)
    PROVE  UNCHANGED <<prune, cutoff, now>>
  BY DEF StoreUnchanged, LocksUnchanged, Start, StartChat, StartChatWithId,
         StartAlias, StartPair, Continue, UserWrite, LookupUser, ReuseSession,
         Promote, FindExisting, CheckExisting, EndSession, TouchSession,
         BindSession, RecordMessage, ServeFails, InsertSession, MapSession,
         DetachSession, RemapSession

\* Every step keeps the cutoff in the past.
LEMMA NextCutoff == TypeInv /\ CutoffInv /\ [Next]_vars => CutoffInv'
  <1>. SUFFICES ASSUME TypeOK, CutoffInv, [Next]_vars PROVE CutoffInv'
    BY DEF TypeInv
  <1>. USE SessionsAssumption DEF TypeOK, CutoffInv, StoreUnchanged, LocksUnchanged
  <1>1. CASE UNCHANGED <<prune, cutoff, now>>
    BY <1>1
  <1>2. CASE PruneBegin
    BY <1>2 DEF PruneBegin
  <1>3. CASE PruneLock
    BY <1>3 DEF PruneLock
  <1>4. CASE PruneFinish
    BY <1>4 DEF PruneFinish
  <1>5. CASE Tick
    BY <1>5 DEF Tick
  <1>6. CASE UNCHANGED vars
    BY <1>6 DEF vars
  <1>. QED
    BY <1>1, <1>2, <1>3, <1>4, <1>5, <1>6, HandlerLeavesPrune
       DEF Next, HandlerNext

\* Only prune_expired drops sessions, and only expired ones.
LEMMA DropExpired ==
    ASSUME IInv, Next, NEW s \in Ids, Present(s), sessions'[s] = Missing
    PROVE  PruneFinish /\ Expired(s)
  <1>1. ASSUME NEW h \in Handlers, Start(h) \/ Continue(h) \/ UserWrite(h)
        PROVE  FALSE
    <2>1. CASE InsertSession(h)
      <3>1. s # nextId
        BY <2>1 DEF InsertSession, IInv, TypeInv, TypeOK, Fresh, Present, Ids
      <3>. QED
        BY <2>1, <3>1 DEF InsertSession, Present, IInv, TypeInv, TypeOK
    <2>2. CASE ~InsertSession(h)
      BY <1>1, <2>2, HandlerSame DEF SameSessions, IInv
    <2>. QED  BY <2>1, <2>2
  <1>2. CASE PruneBegin \/ PruneLock \/ Tick
    BY <1>2 DEF PruneBegin, PruneLock, Tick, StoreUnchanged, Present
  <1>3. CASE PruneFinish
    BY <1>3 DEF PruneFinish, Present
  <1>. QED  BY <1>1, <1>2, <1>3 DEF Next, HandlerNext

\* No session used within the last TTL is dropped, however long prune_expired
\* waits for its locks after it read the clock.
THEOREM RecentSessionsSurvive == Spec => RecentSurvive
  <1>1. Init => CutoffInv
    BY DEF Init, CutoffInv
  <1>2. IInv => TypeInv
    BY DEF IInv
  <1>3. IInv /\ CutoffInv /\ [Next]_vars =>
          [\A s \in Ids : Present(s) /\ sessions'[s] = Missing
             => sessions[s].last_active + TTL < now]_vars
    <2>. SUFFICES ASSUME IInv, CutoffInv, Next, NEW s \in Ids, Present(s),
                         sessions'[s] = Missing
                  PROVE  sessions[s].last_active + TTL < now
      OBVIOUS
    <2>1. PruneFinish /\ Expired(s)
      BY DropExpired
    <2>2. cutoff + TTL <= now /\ sessions[s].last_active < cutoff
      BY <2>1 DEF PruneFinish, CutoffInv, Expired
    <2>3. sessions[s] \in Session
      BY DEF IInv, TypeInv, TypeOK, Present
    <2>. QED
      BY <2>2, <2>3, SessionsAssumption DEF IInv, TypeInv, TypeOK, Session
  <1>. QED  BY <1>1, <1>2, <1>3, InitInv, NextInv, NextCutoff, PTL
            DEF Spec, RecentSurvive

\* prune_expired takes an entry away only together with the session it names.
THEOREM PruneKeepsLiveEntries == Spec => PruneKeepsEntries
  <1>1. TypeInv /\ [Next]_vars =>
          [prune = "locked" /\ prune' = "idle" =>
             \A k \in Keys : user_sessions'[k] # user_sessions[k] =>
                 /\ Present(user_sessions[k])
                 /\ sessions'[user_sessions[k]] = Missing]_vars
    <2>. SUFFICES ASSUME TypeOK, Next, prune = "locked", prune' = "idle",
                         NEW k \in Keys, user_sessions'[k] # user_sessions[k]
                  PROVE  /\ Present(user_sessions[k])
                         /\ sessions'[user_sessions[k]] = Missing
      BY DEF TypeInv
    <2>1. PruneFinish
      BY HandlerLeavesPrune DEF Next, HandlerNext, PruneBegin, PruneLock, Tick,
                                LocksUnchanged
    <2>2. PrunedEntry(k)
      BY <2>1 DEF PruneFinish
    <2>3. user_sessions[k] \in Ids
      BY <2>2 DEF PrunedEntry, TypeOK
    <2>. QED  BY <2>1, <2>2, <2>3 DEF PruneFinish, PrunedEntry, Expired
  <1>. QED  BY <1>1, InitType, NextType, PTL DEF Spec, PruneKeepsEntries

-----------------------------------------------------------------------------
(***************************************************************************)
(* Requests one at a time, with pruning cycles in between.                 *)
(***************************************************************************)

\* What a request knows of the user of its session while no other runs: the
\* one that promote_to_user took down, or the one it has given it.
UserKnown(step, r, ss) ==
    /\ step \in {"find", "check", "bind"} /\ ss[r.sid] # Missing
          => ss[r.sid].user = r.old
    /\ step \in {"map", "remap"} /\ ss[r.sid] # Missing
          => ss[r.sid].user = r.user
UsersKnown == \A h \in Handlers : UserKnown(pc[h], req[h], sessions)

\* An entry leads to a session of its user, but for the entry of the key that
\* the session had before promote_to_user changed its user.
LeadsHome(k) == LET s == user_sessions[k] IN
    s # NoSession /\ Present(s) => sessions[s].user = k[1]
OldEntry(k) == \E h \in Handlers :
    /\ pc[h] = "remap" /\ user_sessions[k] = req[h].sid
    /\ k = <<req[h].old, req[h].channel>>
EntriesLeadHome == \A k \in Keys : LeadsHome(k) \/ OldEntry(k)

SInv == OneAtATime /\ UsersKnown /\ EntriesLeadHome

-----------------------------------------------------------------------------
(* How one request at a time moves.                                         *)

\* The locals that promote_to_user and create_session still read are kept.
LEMMA LiveUser ==
    ASSUME NEW step \in WritingSteps, NEW r \in Request, NEW ss
    PROVE  UserKnown(step, r, ss) => UserKnown(step, Live(step, r), ss)
  <1>1. /\ Live(step, r).sid = r.sid /\ Live(step, r).user = r.user
        /\ Live(step, r).old = r.old
    BY DEF Live, WritingSteps, Request
  <1>. QED  BY <1>1 DEF UserKnown

\* The request that goes on is the only one; it knows enough.
LEMMA SoleGoesOn ==
    ASSUME TypeOK, OneAtATime, OneAtATime', NEW h \in Handlers,
           NEW step \in Steps, NEW r \in Request, Goto(h, step, r),
           pc[h] # "idle" \/ step # "idle",
           UserKnown(step, r, sessions')
    PROVE  UsersKnown'
  <1>. SUFFICES ASSUME NEW g \in Handlers, pc'[g] \in WritingSteps
                PROVE  UserKnown(pc'[g], req'[g], sessions')
    BY DEF UsersKnown, UserKnown, WritingSteps
  <1>1. pc'[h] = step /\ req'[h] = Live(step, r) /\ (g # h => pc'[g] = pc[g])
    BY GotoEffect
  <1>2. CASE g = h
    BY <1>1, <1>2, LiveUser
  <1>3. CASE g # h
    <2>1. pc[g] # "idle" /\ pc'[g] # "idle"
      BY <1>1, <1>3 DEF WritingSteps
    <2>2. pc[h] = "idle" /\ step = "idle"
      BY <1>1, <1>3, <2>1 DEF OneAtATime, Busy
    <2>. QED  BY <2>2
  <1>. QED  BY <1>2, <1>3

\* The step neither creates a session nor gives one to another user.
SameUsers == \A s \in Ids : sessions'[s] # Missing =>
    Present(s) /\ sessions'[s].user = sessions[s].user

\* A step that leaves the users of sessions alone and only takes entries away,
\* or writes those that lead home, leaves entries as they are to be.
LEMMA StillHome ==
    ASSUME TypeOK, TypeOK', EntriesLeadHome, SameUsers,
           \A k \in Keys : LET s == user_sessions'[k] IN
              s \in {user_sessions[k], NoSession}
                \/ (s \in Ids /\ (sessions'[s] # Missing => sessions'[s].user = k[1])),
           \A h \in Handlers : pc[h] = "remap" => pc'[h] = "remap" /\ req'[h] = req[h]
    PROVE  EntriesLeadHome'
  <1>. SUFFICES ASSUME NEW k \in Keys PROVE LeadsHome(k)' \/ OldEntry(k)'
    BY DEF EntriesLeadHome
  <1>1. CASE user_sessions'[k] = NoSession
    BY <1>1 DEF LeadsHome
  <1>2. CASE user_sessions'[k] = user_sessions[k] /\ user_sessions[k] # NoSession
    <2>1. user_sessions[k] \in Ids
      BY <1>2 DEF TypeOK
    <2>2. CASE OldEntry(k)
      BY <1>2, <2>2 DEF OldEntry
    <2>3. CASE LeadsHome(k)
      BY <1>2, <2>1, <2>3 DEF LeadsHome, SameUsers, Present
    <2>. QED  BY <2>2, <2>3 DEF EntriesLeadHome
  <1>3. CASE LET s == user_sessions'[k] IN
               s \in Ids /\ (sessions'[s] # Missing => sessions'[s].user = k[1])
    BY <1>3 DEF LeadsHome, Present
  <1>. QED  BY <1>1, <1>2, <1>3

\* While a request is not at its last write, nobody is.
LEMMA NobodyRemaps ==
    ASSUME TypeOK, OneAtATime, OneAtATime', NEW h \in Handlers,
           NEW step \in Steps, NEW r \in Request, Goto(h, step, r), pc[h] # "remap"
    PROVE  \A g \in Handlers : pc[g] = "remap" => pc'[g] = "remap" /\ req'[g] = req[g]
  BY GotoEffect

\* A request starts without locals it has to know.
LEMMA SoleStarts ==
    ASSUME IInv, IInv', SInv, OneAtATime', NEW h \in Handlers, Start(h)
    PROVE  SInv'
  <1>1. PICK step \in Steps \ WritingSteps, r \in Request : Goto(h, step, r)
    BY StartGoto
  <1>2. UNCHANGED <<sessions, user_sessions>> /\ pc[h] = "idle"
    BY DEF Start, StartChat, StartChatWithId, StartAlias, StartPair, NewRequest,
           StoreUnchanged
  <1>. USE DEF IInv, TypeInv, SInv
  <1>3. step # "idle" => UsersKnown'
    BY <1>1, <1>2, SoleGoesOn DEF UserKnown, WritingSteps
  <1>4. step = "idle" => UsersKnown'
    <2>. SUFFICES ASSUME step = "idle", NEW g \in Handlers, pc'[g] \in WritingSteps
                  PROVE  UserKnown(pc'[g], req'[g], sessions')
      BY DEF UsersKnown, UserKnown, WritingSteps
    <2>1. pc'[g] = pc[g] /\ req'[g] = req[g]
      BY <1>1, GotoEffect DEF WritingSteps
    <2>. QED  BY <1>2, <2>1 DEF UsersKnown
  <1>5. EntriesLeadHome'
    <2>1. \A g \in Handlers : pc[g] = "remap" => pc'[g] = "remap" /\ req'[g] = req[g]
      BY <1>1, <1>2, NobodyRemaps
    <2>. QED  BY <1>2, <2>1, StillHome DEF SameUsers, Present
  <1>. QED  BY <1>3, <1>4, <1>5

\* Pruning takes sessions away, and entries.
LEMMA SolePrunes ==
    ASSUME IInv, IInv', SInv, PruneBegin \/ PruneLock \/ PruneFinish \/ Tick
    PROVE  SInv'
  <1>1. /\ UNCHANGED <<pc, req>>
        /\ \A s \in Ids : sessions'[s] \in {sessions[s], Missing}
        /\ \A k \in Keys : user_sessions'[k] \in {user_sessions[k], NoSession}
    BY DEF PruneBegin, PruneLock, PruneFinish, Tick, StoreUnchanged
  <1>. USE DEF IInv, TypeInv, SInv
  <1>2. OneAtATime'
    BY <1>1 DEF OneAtATime, Busy
  <1>3. SameUsers
    BY <1>1 DEF SameUsers, Present
  <1>4. UsersKnown'
    <2>. SUFFICES ASSUME NEW h \in Handlers, pc[h] \in WritingSteps
                  PROVE  UserKnown(pc[h], req[h], sessions')
      BY <1>1 DEF UsersKnown, UserKnown, WritingSteps
    <2>1. req[h].sid \in Ids
      BY DEF LocalsReady, Ready, WritingSteps, HoldingSteps
    <2>2. UserKnown(pc[h], req[h], sessions)
      BY DEF UsersKnown
    <2>. QED  BY <1>3, <2>1, <2>2 DEF UserKnown, SameUsers, Present
  <1>5. EntriesLeadHome'
    BY <1>1, <1>3, StillHome
  <1>. QED  BY <1>2, <1>4, <1>5

\* The steps that only read, change the state of a session, or take its entry
\* away, and where they lead.
LEMMA QuietLocals ==
    ASSUME IInv, SInv, NEW h \in Handlers, Continue(h) \/ DetachSession(h),
           ~InsertSession(h), ~BindSession(h)
    PROVE  \E step \in Steps, r \in Request :
              Goto(h, step, r) /\ UserKnown(step, r, sessions)
  <1>. DEFINE r == req[h]
              Goal == \E step \in Steps, q \in Request :
                         Goto(h, step, q) /\ UserKnown(step, q, sessions)
  <1>1. /\ r \in Request /\ Ready(pc[h], r) /\ UserKnown(pc[h], r, sessions)
        /\ now \in 0..MaxTime
    BY DEF IInv, TypeInv, TypeOK, LocalsReady, SInv, UsersKnown
  <1>. HIDE DEF r
  <1>2. ASSUME NEW step \in Steps \ WritingSteps, NEW q \in Request, Goto(h, step, q)
        PROVE  Goal
    BY <1>2 DEF UserKnown, WritingSteps
  <1>3. CASE Promote(h)
    <2>1. CASE ~Present(r.sid)
      BY <1>1, <1>2, <1>3, <2>1 DEF Promote, AfterNotFound, r, Steps, WritingSteps
    <2>2. CASE Present(r.sid)
      <3>1. PICK u, c : u = sessions[r.sid].user /\ c = sessions[r.sid].channel
        OBVIOUS
      <3>2. PICK q : q = [r EXCEPT !.old = u, !.channel = c]
        OBVIOUS
      <3>3. sessions[r.sid] \in Session
        BY <1>1, <1>3, <2>2 DEF Promote, Ready, HoldingSteps, Present, IInv,
                                TypeInv, TypeOK, r
      <3>4. q \in Request /\ q.sid = r.sid /\ q.old = u
        BY <1>1, <3>1, <3>2, <3>3 DEF Request, Session
      <3>5. \E step \in {"touch", "find"} : Goto(h, step, q)
        BY <1>3, <2>2, <3>1, <3>2 DEF Promote, r
      <3>. QED  BY <3>1, <3>4, <3>5 DEF UserKnown, Steps
    <2>. QED  BY <2>1, <2>2
  <1>4. CASE FindExisting(h) \/ CheckExisting(h)
    <2>1. PICK e \in Ids \cup {NoSession} :
             \/ \E step \in {"bind", "check"} : Goto(h, step, [r EXCEPT !.existing = e])
             \/ Goto(h, "end", r)
      <3>1. CASE FindExisting(h)
        <4>1. user_sessions[<<r.user, r.channel>>] \in Ids \cup {NoSession}
          BY <1>1, <3>1 DEF FindExisting, Ready, KeyedSteps, Request, Keys, IInv,
                            TypeInv, TypeOK, r
        <4>. QED  BY <3>1, <4>1 DEF FindExisting, r
      <3>2. CASE CheckExisting(h)
        BY <3>2 DEF CheckExisting, r
      <3>. QED  BY <1>4, <3>1, <3>2
    <2>2. PICK q : q = [r EXCEPT !.existing = e]
      OBVIOUS
    <2>3. q \in Request /\ q.sid = r.sid /\ q.old = r.old
      BY <1>1, <2>2 DEF Request
    <2>4. pc[h] \in {"find", "check"}
      BY <1>4 DEF FindExisting, CheckExisting
    <2>5. ASSUME NEW step \in {"bind", "check"} PROVE UserKnown(step, q, sessions)
      BY <1>1, <2>3, <2>4 DEF UserKnown
    <2>6. CASE Goto(h, "end", r)
      BY <1>1, <1>2, <2>6 DEF Steps, WritingSteps
    <2>. QED  BY <2>1, <2>2, <2>3, <2>5, <2>6 DEF Steps
  <1>5. CASE LookupUser(h) \/ ReuseSession(h) \/ DetachSession(h)
    <2>1. PICK step \in Steps \ WritingSteps, q \in Request : Goto(h, step, q)
      <3>1. PICK q, m, d : /\ q = [r EXCEPT !.t = now]
                           /\ m = [r EXCEPT !.sid = user_sessions[<<r.user, r.channel>>]]
                           /\ d = [r EXCEPT !.sid = r.existing]
        OBVIOUS
      <3>2. q \in Request /\ d \in Request
        BY <1>1, <3>1 DEF Request
      <3>3. CASE LookupUser(h)
        <4>1. user_sessions[<<r.user, r.channel>>] \in Ids \cup {NoSession}
          BY <1>1, <3>3 DEF LookupUser, Ready, KeyedSteps, Request, Keys, IInv,
                            TypeInv, TypeOK, r
        <4>2. m \in Request
          BY <1>1, <3>1, <4>1 DEF Request
        <4>. QED  BY <3>1, <3>2, <3>3, <4>2 DEF LookupUser, r, Steps, WritingSteps
      <3>4. CASE ReuseSession(h)
        BY <1>1, <3>1, <3>2, <3>4 DEF ReuseSession, r, Steps, WritingSteps
      <3>5. CASE DetachSession(h)
        BY <3>1, <3>2, <3>5 DEF DetachSession, r, Steps, WritingSteps
      <3>. QED  BY <1>5, <3>3, <3>4, <3>5
    <2>. QED  BY <1>2, <2>1
  <1>6. CASE EndSession(h) \/ TouchSession(h) \/ RecordMessage(h) \/ ServeFails(h)
    <2>1. \E step \in Steps \ WritingSteps : Goto(h, step, r)
      BY <1>6 DEF EndSession, TouchSession, RecordMessage, ServeFails, AfterPromote,
                  r, Steps, WritingSteps
    <2>. QED  BY <1>1, <1>2, <2>1
  <1>. QED  BY <1>3, <1>4, <1>5, <1>6 DEF Continue

\* None of these steps gives a session to another user.
LEMMA QuietUsers ==
    ASSUME IInv, NEW h \in Handlers, Continue(h) \/ DetachSession(h),
           ~InsertSession(h), ~BindSession(h)
    PROVE  SameUsers /\ pc[h] \notin {"idle", "remap"}
           /\ \A k \in Keys : user_sessions'[k] \in {user_sessions[k], NoSession}
  <1>1. /\ req[h] \in Request /\ Ready(pc[h], req[h])
        /\ sessions \in [Ids -> Session \cup {Missing}]
        /\ user_sessions \in [Keys -> Ids \cup {NoSession}]
    BY DEF IInv, TypeInv, TypeOK, LocalsReady
  <1>2. ASSUME NEW s \in Ids, NEW new, Update(s, new),
               Present(s) => new.user = sessions[s].user
        PROVE  SameUsers
    BY <1>1, <1>2 DEF Update, SameUsers, Present
  <1>3. CASE EndSession(h) \/ TouchSession(h) \/ RecordMessage(h)
    <2>1. req[h].sid \in Ids
      BY <1>1, <1>3 DEF EndSession, TouchSession, RecordMessage, Ready, HoldingSteps
    <2>2. Present(req[h].sid) => sessions[req[h].sid] \in Session
      BY <1>1, <2>1 DEF Present
    <2>3. PICK q : q = sessions[req[h].sid]
      OBVIOUS
    <2>4. \E new : Update(req[h].sid, new) /\ (Present(req[h].sid) => new.user = q.user)
      <3>1. \A x, y : /\ q \in Session => [q EXCEPT !.state = x].user = q.user
                      /\ q \in Session =>
                           [q EXCEPT !.state = x, !.last_active = y].user = q.user
                      /\ q \in Session =>
                           [q EXCEPT !.last_active = y, !.state = x].user = q.user
        BY DEF Session
      <3>2. CASE EndSession(h)
        BY <2>2, <2>3, <3>1, <3>2 DEF EndSession
      <3>3. CASE TouchSession(h)
        <4>1. Update(req[h].sid, [q EXCEPT !.last_active = now,
                                           !.state = IF q.state = "Idle" THEN "Active"
                                                     ELSE q.state])
          BY <2>3, <3>3 DEF TouchSession
        <4>. QED  BY <2>2, <2>3, <3>1, <4>1
      <3>4. CASE RecordMessage(h)
        <4>1. PICK new : new = [q EXCEPT !.state = "Active", !.last_active = now]
          OBVIOUS
        <4>2. q \in Session => new.user = q.user
          BY <3>1, <4>1
        <4>3. Update(req[h].sid, new)
          BY <2>3, <3>4, <4>1 DEF RecordMessage
        <4>. QED  BY <2>2, <2>3, <4>2, <4>3
      <3>. QED  BY <1>3, <3>2, <3>3, <3>4
    <2>5. SameUsers
      BY <1>2, <2>1, <2>3, <2>4
    <2>. QED  BY <1>3, <2>5 DEF EndSession, TouchSession, RecordMessage
  <1>4. CASE DetachSession(h)
    BY <1>1, <1>4 DEF DetachSession, Detached, SameUsers, Present
  <1>5. CASE \/ LookupUser(h) \/ ReuseSession(h) \/ Promote(h) \/ FindExisting(h)
             \/ CheckExisting(h) \/ ServeFails(h)
    BY <1>5 DEF LookupUser, ReuseSession, Promote, FindExisting, CheckExisting,
                ServeFails, StoreUnchanged, SameUsers, Present
  <1>. QED  BY <1>3, <1>4, <1>5 DEF Continue

LEMMA SoleQuiet ==
    ASSUME IInv, IInv', SInv, OneAtATime', NEW h \in Handlers,
           Continue(h) \/ DetachSession(h), ~InsertSession(h), ~BindSession(h)
    PROVE  SInv'
  <1>1. PICK step \in Steps, r \in Request :
           Goto(h, step, r) /\ UserKnown(step, r, sessions)
    BY QuietLocals
  <1>2. /\ SameUsers /\ pc[h] \notin {"idle", "remap"}
        /\ \A k \in Keys : user_sessions'[k] \in {user_sessions[k], NoSession}
    BY QuietUsers
  <1>. USE DEF IInv, TypeInv, SInv
  <1>3. UsersKnown'
    <2>1. step \in WritingSteps => r.sid \in Ids
      <3>1. pc'[h] = step /\ req'[h] = Live(step, r)
        BY <1>1, GotoEffect
      <3>2. step \in WritingSteps => req'[h].sid \in Ids /\ req'[h].sid = r.sid
        BY <3>1, LiveKeeps DEF LocalsReady, Ready, WritingSteps, HoldingSteps
      <3>. QED  BY <3>2
    <2>2. UserKnown(step, r, sessions')
      BY <1>1, <1>2, <2>1 DEF UserKnown, WritingSteps, SameUsers, Present
    <2>. QED  BY <1>1, <1>2, <2>2, SoleGoesOn
  <1>4. EntriesLeadHome'
    <2>1. \A g \in Handlers : pc[g] = "remap" => pc'[g] = "remap" /\ req'[g] = req[g]
      BY <1>1, <1>2, NobodyRemaps
    <2>. QED  BY <1>2, <2>1, StillHome
  <1>. QED  BY <1>3, <1>4

\* A new session is its creator's, and no entry leads to it yet.
LEMMA SoleInserts ==
    ASSUME IInv, IInv', SInv, OneAtATime', NEW h \in Handlers, InsertSession(h)
    PROVE  SInv'
  <1>. DEFINE r == req[h]
  <1>1. /\ r \in Request /\ TypeOK /\ TypeOK' /\ nextId \in Ids
        /\ sessions \in [Ids -> Session \cup {Missing}]
    BY SessionsAssumption DEF IInv, TypeInv, TypeOK, InsertSession, Ids
  <1>2. PICK step, q, new :
           /\ step = (IF r.user = NoUser THEN "serve" ELSE "map")
           /\ q = [r EXCEPT !.sid = nextId]
           /\ new = [user |-> r.user, channel |-> r.channel,
                     state |-> "Active", last_active |-> r.t]
    OBVIOUS
  <1>3. /\ q \in Request /\ q.sid = nextId /\ q.user = r.user /\ new.user = r.user
        /\ step \in {"serve", "map"}
    BY <1>1, <1>2 DEF Request
  <1>4. /\ Goto(h, step, q) /\ pc[h] = "insert"
        /\ sessions' = [sessions EXCEPT ![nextId] = new]
        /\ user_sessions' = user_sessions
    BY <1>2 DEF InsertSession
  <1>5. /\ sessions'[nextId].user = r.user
        /\ \A s \in Ids \ {nextId} : sessions'[s] = sessions[s]
    BY <1>1, <1>3, <1>4
  <1>. USE DEF SInv
  <1>6. UsersKnown'
    <2>1. UserKnown(step, q, sessions')
      BY <1>3, <1>5 DEF UserKnown
    <2>. QED  BY <1>1, <1>3, <1>4, <2>1, SoleGoesOn DEF Steps
  <1>7. EntriesLeadHome'
    <2>. SUFFICES ASSUME NEW k \in Keys PROVE LeadsHome(k)' \/ OldEntry(k)'
      BY DEF EntriesLeadHome
    <2>1. user_sessions[k] \in Ids => user_sessions[k] \in Ids \ {nextId}
      BY <1>1 DEF IInv, Fresh, Ids
    <2>2. user_sessions[k] \in Ids \cup {NoSession}
      BY <1>1 DEF TypeOK
    <2>3. \A g \in Handlers : pc[g] = "remap" => pc'[g] = "remap" /\ req'[g] = req[g]
      BY <1>1, <1>3, <1>4, NobodyRemaps DEF Steps
    <2>4. OldEntry(k) => OldEntry(k)'
      BY <1>4, <2>3 DEF OldEntry
    <2>5. LeadsHome(k) => LeadsHome(k)'
      BY <1>4, <1>5, <2>1, <2>2 DEF LeadsHome, Present
    <2>. QED  BY <2>4, <2>5 DEF EntriesLeadHome
  <1>. QED  BY <1>6, <1>7

\* bind_session_to_user gives the session to the user; what led to it is the
\* entry of the old key, since entries lead to sessions of their channel.
LEMMA SoleBinds ==
    ASSUME IInv, IInv', SInv, OneAtATime', NEW h \in Handlers, BindSession(h)
    PROVE  SInv'
  <1>. PICK r, s : r = req[h] /\ s = r.sid
    OBVIOUS
  <1>1. /\ r \in Request /\ TypeOK /\ TypeOK' /\ s \in Ids /\ pc[h] = "bind"
        /\ UserKnown("bind", r, sessions)
        /\ Present(s) => sessions[s].channel = r.channel
        /\ sessions \in [Ids -> Session \cup {Missing}]
        /\ user_sessions' = user_sessions
    BY DEF IInv, TypeInv, TypeOK, BindSession, LocalsReady, Ready, HoldingSteps,
           SInv, UsersKnown, HandlerChannel, WritingSteps
  <1>. USE DEF SInv
  <1>2. CASE ~Present(s)
    <2>1. PICK step \in {"lookup", "idle"} : Goto(h, step, r) /\ sessions' = sessions
      BY <1>1, <1>2 DEF BindSession, AfterNotFound
    <2>2. UsersKnown'
      <3>1. UserKnown(step, r, sessions')
        BY DEF UserKnown
      <3>. QED  BY <1>1, <2>1, <3>1, SoleGoesOn DEF Steps
    <2>3. EntriesLeadHome'
      <3>1. \A g \in Handlers : pc[g] = "remap" => pc'[g] = "remap" /\ req'[g] = req[g]
        BY <1>1, <2>1, NobodyRemaps DEF Steps
      <3>. QED  BY <1>1, <2>1, <3>1, StillHome DEF SameUsers, Present
    <2>. QED  BY <2>2, <2>3
  <1>3. CASE Present(s)
    <2>1. PICK q, new : q = sessions[s] /\ new = [q EXCEPT !.user = r.user,
                                                          !.last_active = now]
      OBVIOUS
    <2>2. q \in Session /\ new.user = r.user /\ q.user = r.old /\ q.channel = r.channel
      BY <1>1, <1>3, <2>1 DEF Present, Session, UserKnown
    <2>3. Update(s, new) /\ Goto(h, "remap", r)
      BY <1>3, <2>1 DEF BindSession
    <2>4. /\ sessions'[s].user = r.user
          /\ \A x \in Ids \ {s} : sessions'[x] = sessions[x]
      BY <1>1, <1>3, <2>2, <2>3 DEF Update
    <2>5. UsersKnown'
      <3>1. UserKnown("remap", r, sessions')
        BY <1>1, <2>4 DEF UserKnown
      <3>. QED  BY <1>1, <2>3, <3>1, SoleGoesOn DEF Steps
    <2>6. pc'[h] = "remap" /\ req'[h].sid = s /\ req'[h].old = r.old
          /\ req'[h].channel = r.channel
      <3>1. pc'[h] = "remap" /\ req'[h] = Live("remap", r)
        BY <1>1, <2>3, GotoEffect DEF Steps
      <3>. QED  BY <1>1, <3>1 DEF Live, Request
    <2>7. EntriesLeadHome'
      <3>. SUFFICES ASSUME NEW k \in Keys PROVE LeadsHome(k)' \/ OldEntry(k)'
        BY DEF EntriesLeadHome
      <3>1. user_sessions[k] \in Ids \cup {NoSession} /\ k = <<k[1], k[2]>>
        BY <1>1 DEF TypeOK, Keys
      <3>2. ~OldEntry(k)
        BY <1>1 DEF OldEntry, OneAtATime, Busy
      <3>3. LeadsHome(k)
        BY <3>2 DEF EntriesLeadHome
      <3>4. CASE user_sessions[k] = s
        <4>1. k[1] = r.old /\ k[2] = r.channel
          BY <1>1, <1>3, <2>1, <2>2, <3>3, <3>4
             DEF LeadsHome, IInv, ChannelIsolation, Ids, NoSession
        <4>. QED  BY <1>1, <2>6, <3>1, <3>4, <4>1 DEF OldEntry
      <3>5. CASE user_sessions[k] # s
        BY <1>1, <2>4, <3>1, <3>3, <3>5 DEF LeadsHome, Present
      <3>. QED  BY <3>4, <3>5
    <2>. QED  BY <2>5, <2>7
  <1>. QED  BY <1>2, <1>3

\* The last write: the entry of the user's key, and for a promoted session the
\* end of that of its old key.
LEMMA SoleMaps ==
    ASSUME IInv, IInv', SInv, OneAtATime', NEW h \in Handlers,
           MapSession(h) \/ RemapSession(h)
    PROVE  SInv'
  <1>. PICK r, s : r = req[h] /\ s = r.sid
    OBVIOUS
  <1>1. /\ r \in Request /\ TypeOK /\ TypeOK' /\ s \in Ids /\ pc[h] \in {"map", "remap"}
        /\ r.user \in Users /\ r.channel \in Channels
        /\ UserKnown(pc[h], r, sessions)
        /\ user_sessions \in [Keys -> Ids \cup {NoSession}]
        /\ sessions' = sessions
    BY DEF IInv, TypeInv, TypeOK, MapSession, RemapSession, LocalsReady, Ready,
           HoldingSteps, KeyedSteps, SInv, UsersKnown, Request
  <1>2. PICK step \in {"idle", "serve"} : Goto(h, step, r)
    BY DEF MapSession, RemapSession, AfterPromote
  <1>. USE DEF SInv
  <1>3. UsersKnown'
    <2>1. UserKnown(step, r, sessions')
      BY DEF UserKnown
    <2>. QED  BY <1>1, <1>2, <2>1, SoleGoesOn DEF Steps
  <1>4. EntriesLeadHome'
    <2>. SUFFICES ASSUME NEW k \in Keys PROVE LeadsHome(k)'
      BY DEF EntriesLeadHome
    <2>1. <<r.user, r.channel>> \in Keys /\ k = <<k[1], k[2]>>
      BY <1>1 DEF Keys
    <2>2. Present(s) => sessions[s].user = r.user
      BY <1>1 DEF UserKnown, Present
    <2>3. CASE k = <<r.user, r.channel>>
      <3>1. user_sessions'[k] = s
        BY <1>1, <2>1, <2>3 DEF MapSession, RemapSession, Detached
      <3>2. k[1] = r.user
        BY <2>3
      <3>. QED  BY <1>1, <2>2, <3>1, <3>2 DEF LeadsHome, Present
    <2>4. CASE k # <<r.user, r.channel>>
      <3>1. user_sessions'[k] \in {user_sessions[k], NoSession}
        BY <1>1, <2>4 DEF MapSession, RemapSession, Detached
      <3>2. CASE LeadsHome(k)
        BY <1>1, <3>1, <3>2 DEF LeadsHome, Present
      <3>3. CASE OldEntry(k)
        <4>1. /\ pc[h] = "remap" /\ user_sessions[k] = s
              /\ k = <<r.old, r.channel>>
          BY <1>1, <3>3 DEF OldEntry, OneAtATime, Busy
        <4>2. user_sessions'[k] = NoSession
          BY <1>1, <2>4, <4>1 DEF MapSession, RemapSession, Detached
        <4>. QED  BY <4>2 DEF LeadsHome
      <3>. QED  BY <3>2, <3>3 DEF EntriesLeadHome
    <2>. QED  BY <2>3, <2>4
  <1>. QED  BY <1>3, <1>4

LEMMA NextSequential ==
    ASSUME IInv, IInv', SInv, Next, OneAtATime'
    PROVE  SInv'
  BY SoleStarts, SolePrunes, SoleQuiet, SoleInserts, SoleBinds, SoleMaps
     DEF Next, HandlerNext, UserWrite, Continue

LEMMA InitSequential == Init => SInv
  BY DEF Init, SInv, OneAtATime, Busy, UsersKnown, UserKnown, EntriesLeadHome, LeadsHome

\* The invariants of any requests, and those of requests one at a time.
MInv == IInv /\ overlap \in BOOLEAN /\ (overlap = FALSE => SInv)

\* When requests do not overlap, an entry leads to a session of its own user
\* whenever none is in flight, although pruning cycles run in between.
THEOREM SequentialUsersIsolated == MCSpec => []SequentialUserIsolation
  <1>1. MCInit => MInv
    BY InitInv, InitSequential DEF MCInit, MInv
  <1>2. MInv /\ [MCNext]_mcvars => MInv'
    <2>. SUFFICES ASSUME MInv, [MCNext]_mcvars PROVE MInv'
      OBVIOUS
    <2>1. IInv' /\ overlap' = overlap
      BY NextInv DEF MCNext, mcvars, MInv
    <2>2. CASE MCNext
      BY <2>1, <2>2, NextSequential DEF MCNext, MInv
    <2>3. CASE UNCHANGED mcvars
      <3>1. SInv => SInv'
        BY <2>3 DEF mcvars, vars, SInv, OneAtATime, Busy, UsersKnown, EntriesLeadHome,
                    LeadsHome, OldEntry, Present
      <3>. QED  BY <2>1, <3>1 DEF MInv
    <2>. QED  BY <2>2, <2>3
  <1>3. MInv => SequentialUserIsolation
    <2>1. SInv => UserIsolation
      BY DEF SInv, EntriesLeadHome, LeadsHome, OldEntry, UserIsolation, Busy
    <2>. QED  BY <2>1 DEF MInv, SequentialUserIsolation
  <1>. QED  BY <1>1, <1>2, <1>3, PTL DEF MCSpec
=============================================================================
