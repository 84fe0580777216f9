--------------------------- MODULE IdentityProofs ---------------------------
(***************************************************************************)
(* Theorems about Identity for any number of concurrent calls, requests,   *)
(* users, devices and handles, any table of candidate spellings and any    *)
(* number of failures; and, at the end, about calls one at a time, for     *)
(* tables in which spellings are nested (NestedSpellings).                 *)
(***************************************************************************)
EXTENDS MCIdentity, TLAPS

(* What a call can rely on at a step, given its locals l and the tables:   *)
(* whom it pairs or has resolved is registered; the candidate it is at     *)
(* exists; its request is there, of its kind and with its handle; and what *)
(* it has bound so far is bound to someone.                                *)
LinkSteps   == {"find", "check", "bind"}
DeviceSteps == {"owner", "binding", "owner_again", "binding_again", "device"}

Bound(h, n, cs) == \A j \in 1..n : cs[Candidates[h][j]] # None
AllBound(h, cs) == \A c \in Range(Candidates[h]) : cs[c] # None

KnowsUser(step, l, us) ==
    /\ step \notin {"idle", "register", "owner"} => l.user \in us
    /\ step = "register" => l.user \in Users

KnowsPlace(step, l) ==
    /\ step \in LinkSteps => /\ l.handle \in Handles
                             /\ l.i \in 1..Len(Candidates[l.handle])
    /\ step \notin LinkSteps => l.i = 1
    /\ step \in DeviceSteps \/ (step = "mark" /\ l.op = "verify")
          => l.device \in Devices

KnowsRequest(step, l, rs) ==
    /\ step # "idle" /\ l.op # "resolve" =>
          /\ l.req \in Requests /\ rs[l.req] # None
          /\ l.op = "complete" => /\ rs[l.req].kind = "pairing"
                                  /\ rs[l.req].handle = l.handle
          /\ l.op = "verify" => rs[l.req].kind = "challenge"
    /\ step \in {"register", "device"} => l.op = "complete"
    /\ step = "mark" => l.op # "resolve"

HasBound(step, l, cs) ==
    /\ step = "bind" => Bound(l.handle, l.i - 1, cs)
    /\ l.op = "complete" /\ step \in {"device", "mark"} /\ l.handle # None
          => AllBound(l.handle, cs)

Ready(step, l, us, cs, rs) ==
    /\ KnowsUser(step, l, us) /\ KnowsPlace(step, l)
    /\ KnowsRequest(step, l, rs) /\ HasBound(step, l, cs)

CallsReady == \A p \in Procs : Ready(pc[p], loc[p], users, channels, requests)

\* A challenge is for a device.
HasDevice(q) == q # None /\ q.kind = "challenge" => q.device \in Devices
ChallengesHaveDevice == \A r \in Requests : HasDevice(requests[r])

IInv == /\ TypeOK /\ CallsReady /\ ChallengesHaveDevice
        /\ BindingsHaveUsers /\ CompletedIsLinked

\* The tables only grow: no user leaves, no handle is unlinked, no request is
\* forgotten or becomes another one.
Grows ==
    /\ users \subseteq users'
    /\ \A h \in Handles : channels[h] # None => channels'[h] # None
    /\ \A r \in Requests : requests[r] # None =>
          /\ requests'[r] # None
          /\ requests'[r].kind = requests[r].kind
          /\ requests'[r].handle = requests[r].handle

-----------------------------------------------------------------------------
(* Lemmas on the helpers.                                                  *)

\* The locals of an idle call are well typed and promise nothing.
LEMMA NoLocalsReady ==
    ASSUME NEW us, NEW cs, NEW rs
    PROVE  /\ NoLocals \in Locals
           /\ Ready("idle", NoLocals, us, cs, rs)
  BY DEF NoLocals, Locals, Opt, Ready, KnowsUser, KnowsPlace, KnowsRequest,
         HasBound, LinkSteps, DeviceSteps

\* Every handle has a candidate, and candidates are handles.
LEMMA CandidateType ==
    ASSUME NEW h \in Handles
    PROVE  /\ Candidates[h] \in Seq(Handles)
           /\ 1 \in 1..Len(Candidates[h])
           /\ \A j \in 1..Len(Candidates[h]) : Candidates[h][j] \in Handles
           /\ Range(Candidates[h]) =
                 {Candidates[h][j] : j \in 1..Len(Candidates[h])}
           /\ Range(Candidates[h]) \subseteq Handles
  <1>1. Candidates[h] \in Seq(Handles) /\ h \in Range(Candidates[h])
    BY IdentityAssumption
  <1>2. DOMAIN Candidates[h] = 1..Len(Candidates[h])
        /\ Len(Candidates[h]) \in Nat
    BY <1>1
  <1>3. Range(Candidates[h]) = {Candidates[h][j] : j \in 1..Len(Candidates[h])}
    BY <1>2 DEF Range
  <1>4. \A j \in 1..Len(Candidates[h]) : Candidates[h][j] \in Handles
    BY <1>1, <1>2
  <1>5. Len(Candidates[h]) >= 1
    BY <1>1, <1>2, <1>3
  <1>. QED  BY <1>1, <1>2, <1>3, <1>4, <1>5

\* A call at rest keeps what it relies on while the tables grow.
LEMMA ReadyGrows ==
    ASSUME Grows, NEW step \in Steps, NEW l \in Locals,
           Ready(step, l, users, channels, requests)
    PROVE  Ready(step, l, users', channels', requests')
  <1>1. KnowsUser(step, l, users')
    BY DEF Ready, KnowsUser, Grows
  <1>2. KnowsRequest(step, l, requests')
    BY DEF Ready, KnowsRequest, Grows
  <1>3. HasBound(step, l, channels')
    <2>1. ASSUME step = "bind" PROVE Bound(l.handle, l.i - 1, channels')
      <3>1. l.handle \in Handles /\ l.i \in 1..Len(Candidates[l.handle])
        BY <2>1 DEF Ready, KnowsPlace, LinkSteps
      <3>2. \A j \in 1..(l.i - 1) : Candidates[l.handle][j] \in Handles
        BY <3>1, CandidateType
      <3>. QED  BY <2>1, <3>2 DEF Ready, HasBound, Bound, Grows
    <2>2. ASSUME l.op = "complete", step \in {"device", "mark"}, l.handle # None
          PROVE  AllBound(l.handle, channels')
      <3>1. l.handle \in Handles
        BY <2>2 DEF Locals, Opt
      <3>2. Range(Candidates[l.handle]) \subseteq Handles
        BY <3>1, CandidateType
      <3>. QED  BY <2>2, <3>2 DEF Ready, HasBound, AllBound, Grows
    <2>. QED  BY <2>1, <2>2 DEF HasBound
  <1>. QED  BY <1>1, <1>2, <1>3 DEF Ready

\* A call that goes on with typed locals it can rely on, while the tables grow,
\* leaves every call ready.
LEMMA GotoReady ==
    ASSUME TypeOK, CallsReady, Grows, NEW p \in Procs, NEW step \in Steps,
           NEW l \in Locals, Goto(p, step, l),
           Ready(step, l, users', channels', requests')
    PROVE  /\ pc' \in [Procs -> Steps]
           /\ loc' \in [Procs -> Locals]
           /\ CallsReady'
  <1>1. NoLocals \in Locals
        /\ Ready("idle", NoLocals, users', channels', requests')
    BY NoLocalsReady
  <1>2. pc' \in [Procs -> Steps] /\ loc' \in [Procs -> Locals]
    BY <1>1 DEF TypeOK, Goto
  <1>3. ASSUME NEW q \in Procs
        PROVE  Ready(pc'[q], loc'[q], users', channels', requests')
    <2>1. CASE q = p
      <3>1. pc'[p] = step /\ loc'[p] = IF step = "idle" THEN NoLocals ELSE l
        BY DEF TypeOK, Goto
      <3>2. CASE step = "idle"
        BY <2>1, <3>1, <3>2, <1>1
      <3>3. CASE step # "idle"
        BY <2>1, <3>1, <3>3
      <3>. QED  BY <3>2, <3>3
    <2>2. CASE q # p
      <3>1. pc'[q] = pc[q] /\ loc'[q] = loc[q]
        BY <2>2 DEF TypeOK, Goto
      <3>2. pc[q] \in Steps /\ loc[q] \in Locals
            /\ Ready(pc[q], loc[q], users, channels, requests)
        BY DEF TypeOK, CallsReady
      <3>. QED  BY <3>1, <3>2, ReadyGrows
    <2>. QED  BY <2>1, <2>2
  <1>4. CallsReady'
    BY <1>3 DEF CallsReady
  <1>. QED  BY <1>2, <1>4

\* Returning needs nothing.
LEMMA ReturnReady ==
    ASSUME TypeOK, CallsReady, Grows, NEW p \in Procs, Return(p)
    PROVE  /\ pc' \in [Procs -> Steps]
           /\ loc' \in [Procs -> Locals]
           /\ CallsReady'
  <1>1. "idle" \in Steps /\ NoLocals \in Locals
        /\ Ready("idle", NoLocals, users', channels', requests')
    BY NoLocalsReady DEF Steps
  <1>. QED  BY <1>1, GotoReady DEF Return

\* A completed pairing stays linked while the tables grow and no request is
\* newly marked.
LEMMA LinkedGrows ==
    ASSUME TypeOK, Grows, CompletedIsLinked, requests' = requests
    PROVE  CompletedIsLinked'
  <1>. SUFFICES ASSUME NEW r \in Requests, requests[r] # None,
                       requests[r].kind = "pairing", requests[r].done,
                       requests[r].handle # None,
                       NEW c \in Range(Candidates[requests[r].handle])
                PROVE  channels'[c] # None
    BY DEF CompletedIsLinked
  <1>1. requests[r].handle \in Handles
    BY DEF TypeOK, Opt, Request
  <1>2. c \in Handles
    BY <1>1, CandidateType
  <1>. QED  BY <1>2 DEF CompletedIsLinked, Grows

\* A step that changes no table.
LEMMA ReadOnly ==
    ASSUME IInv, UNCHANGED Store, pc' \in [Procs -> Steps],
           loc' \in [Procs -> Locals], CallsReady', panicked' \in BOOLEAN,
           answers' \in [Requests -> Nat], fails' \in 0..MaxFails
    PROVE  IInv'
  <1>1. TypeOK'
    BY DEF IInv, TypeOK, Store
  <1>2. ChallengesHaveDevice' /\ BindingsHaveUsers' /\ CompletedIsLinked'
    BY DEF IInv, ChallengesHaveDevice, BindingsHaveUsers, CompletedIsLinked, Store
  <1>. QED  BY <1>1, <1>2 DEF IInv

\* Nothing shrinks when no table changes.
LEMMA UnchangedGrows == UNCHANGED Store => Grows
  BY DEF Store, Grows

-----------------------------------------------------------------------------
\* Nothing is stored and nobody calls.
LEMMA InitInv == Init => IInv
  <1>. SUFFICES ASSUME Init PROVE IInv
    OBVIOUS
  <1>1. NoLocals \in Locals
        /\ Ready("idle", NoLocals, users, channels, requests)
    BY NoLocalsReady
  <1>2. TypeOK
    <2>1. /\ users \subseteq Users /\ devices \in [Devices -> Opt(Users)]
          /\ channels \in [Handles -> Opt(Users)]
          /\ requests \in [Requests -> Opt(Request)]
      BY DEF Init, Opt
    <2>2. pc \in [Procs -> Steps] /\ loc \in [Procs -> Locals]
      BY <1>1 DEF Init, Steps
    <2>3. panicked \in BOOLEAN
      BY DEF Init
    <2>4. answers \in [Requests -> Nat] /\ fails \in 0..MaxFails
      BY IdentityAssumption DEF Init
    <2>. QED  BY <2>1, <2>2, <2>3, <2>4 DEF TypeOK
  <1>3. CallsReady
    BY <1>1 DEF Init, CallsReady
  <1>4. ChallengesHaveDevice /\ BindingsHaveUsers /\ CompletedIsLinked
    BY DEF Init, ChallengesHaveDevice, HasDevice, BindingsHaveUsers,
           CompletedIsLinked, Range, Opt
  <1>. QED  BY <1>2, <1>3, <1>4 DEF IInv

-----------------------------------------------------------------------------
(* Steps outside of the calls.                                             *)

\* A request that is issued, or that expires, marks nothing as done.
LEMMA RequestInv ==
    ASSUME IInv, NEW r \in Requests, NEW q \in Request,
           requests' = [requests EXCEPT ![r] = q],
           requests[r] # None => /\ q.kind = requests[r].kind
                                 /\ q.handle = requests[r].handle
                                 /\ q.done = requests[r].done,
           requests[r] = None => ~q.done,
           HasDevice(q),
           UNCHANGED <<users, devices, channels, pc, loc, Notes>>
    PROVE  IInv'
  <1>. USE DEF IInv, Notes
  <1>1. q # None
    BY IdentityAssumption
  <1>2. requests'[r] = q /\ \A s \in Requests \ {r} : requests'[s] = requests[s]
    BY DEF TypeOK
  <1>3. Grows
    BY <1>1, <1>2 DEF Grows
  <1>4. TypeOK'
    <2>1. requests' \in [Requests -> Opt(Request)]
      BY DEF TypeOK, Opt
    <2>. QED  BY <2>1 DEF TypeOK
  <1>5. CallsReady'
    <2>. SUFFICES ASSUME NEW p \in Procs
                  PROVE  Ready(pc[p], loc[p], users', channels', requests')
      BY DEF CallsReady
    <2>. QED  BY <1>3, ReadyGrows DEF CallsReady, TypeOK
  <1>6. BindingsHaveUsers'
    BY DEF BindingsHaveUsers
  <1>7. CompletedIsLinked'
    BY <1>1, <1>2 DEF CompletedIsLinked
  <1>8. ChallengesHaveDevice'
    BY <1>2 DEF ChallengesHaveDevice
  <1>. QED  BY <1>4, <1>5, <1>6, <1>7, <1>8

\* Issuing a request.
LEMMA IssueInv ==
    ASSUME IInv, NEW r \in Requests, NEW kind \in {"pairing", "challenge"},
           NEW h \in Opt(Handles), NEW d \in Opt(Devices),
           kind = "challenge" => d \in Devices, Issue(r, kind, h, d)
    PROVE  IInv'
  <1>. DEFINE q == [kind |-> kind, handle |-> h, device |-> d,
                    done |-> FALSE, expired |-> FALSE]
  <1>1. q \in Request /\ ~q.done /\ HasDevice(q)
    BY DEF Request, HasDevice
  <1>. QED  BY <1>1, RequestInv DEF Issue

\* Expiry.
LEMMA ExpireInv == ASSUME IInv, NEW r \in Requests, Expire(r) PROVE IInv'
  <1>. DEFINE q == [requests[r] EXCEPT !.expired = TRUE]
  <1>1. requests[r] \in Request
    BY DEF Expire, IInv, TypeOK, Opt
  <1>2. /\ q \in Request /\ q.kind = requests[r].kind
        /\ q.handle = requests[r].handle /\ q.done = requests[r].done
        /\ HasDevice(q)
    BY <1>1 DEF Request, Expire, HasDevice, IInv, ChallengesHaveDevice
  <1>3. requests' = [requests EXCEPT ![r] = q]
    BY DEF Expire
  <1>. QED  BY <1>2, <1>3, RequestInv DEF Expire

\* The CLI binds devices to registered users only.
LEMMA CliInv ==
    ASSUME IInv,
           \/ \E u \in Users, d \in Devices : CliPair(u, d)
           \/ \E d \in Devices : CliRevoke(d)
    PROVE  IInv'
  <1>. USE DEF IInv, Notes
  <1>1. /\ UNCHANGED <<channels, requests, pc, loc, Notes>>
        /\ users \subseteq users' /\ users' \subseteq Users
    BY DEF CliPair, CliRevoke, TypeOK
  <1>2. \/ devices' = devices
        \/ \E d \in Devices, u \in Opt(users) :
              devices' = [devices EXCEPT ![d] = u]
    BY DEF CliPair, CliRevoke, Opt
  <1>3. Grows
    BY <1>1 DEF Grows
  <1>4. TypeOK'
    <2>1. devices' \in [Devices -> Opt(Users)]
      BY <1>2 DEF TypeOK, Opt
    <2>. QED  BY <1>1, <2>1 DEF TypeOK
  <1>5. CallsReady'
    <2>. SUFFICES ASSUME NEW p \in Procs
                  PROVE  Ready(pc[p], loc[p], users', channels', requests')
      BY <1>1 DEF CallsReady
    <2>. QED  BY <1>3, ReadyGrows DEF CallsReady, TypeOK
  <1>6. BindingsHaveUsers'
    BY <1>1, <1>2 DEF BindingsHaveUsers, Range, Opt, TypeOK
  <1>7. CompletedIsLinked' /\ ChallengesHaveDevice'
    BY <1>1, <1>3, LinkedGrows DEF ChallengesHaveDevice
  <1>. QED  BY <1>4, <1>5, <1>6, <1>7

-----------------------------------------------------------------------------
(* Steps of a call that change no table.                                   *)

\* What a call relies on, from the invariant.
LEMMA CallKnows ==
    ASSUME IInv, NEW p \in Procs
    PROVE  /\ pc[p] \in Steps /\ loc[p] \in Locals
           /\ KnowsUser(pc[p], loc[p], users) /\ KnowsPlace(pc[p], loc[p])
           /\ KnowsRequest(pc[p], loc[p], requests)
           /\ HasBound(pc[p], loc[p], channels)
  BY DEF IInv, TypeOK, CallsReady, Ready

\* A call goes on with locals it can rely on, or returns, and no table changes.
LEMMA CallOn ==
    ASSUME IInv, NEW p \in Procs, NEW step \in Steps, NEW l \in Locals,
           Goto(p, step, l) \/ Return(p),
           Ready(step, l, users, channels, requests), UNCHANGED Store,
           panicked' \in BOOLEAN, answers' \in [Requests -> Nat],
           fails' \in 0..MaxFails
    PROVE  IInv'
  <1>1. Grows
    BY UnchangedGrows
  <1>2. Ready(step, l, users', channels', requests')
    BY DEF Store
  <1>3. /\ pc' \in [Procs -> Steps] /\ loc' \in [Procs -> Locals]
        /\ CallsReady'
    <2>1. CASE Goto(p, step, l)
      BY <1>1, <1>2, <2>1, GotoReady DEF IInv
    <2>2. CASE Return(p)
      BY <1>1, <2>2, ReturnReady DEF IInv
    <2>. QED  BY <2>1, <2>2
  <1>. QED  BY <1>3, ReadOnly

\* A call that only returns.
LEMMA CallEnds ==
    ASSUME IInv, NEW p \in Procs, Return(p), UNCHANGED Store,
           panicked' \in BOOLEAN, answers' \in [Requests -> Nat],
           fails' \in 0..MaxFails
    PROVE  IInv'
  <1>1. "idle" \in Steps /\ NoLocals \in Locals
        /\ Ready("idle", NoLocals, users, channels, requests)
    BY NoLocalsReady DEF Steps
  <1>. QED  BY <1>1, CallOn

\* The histories keep their types when they do not change.
LEMMA NotesType ==
    ASSUME IInv
    PROVE  /\ panicked \in BOOLEAN
           /\ answers \in [Requests -> Nat]
           /\ fails \in 0..MaxFails
  BY DEF IInv, TypeOK

\* A call starts.
LEMMA StartInv == ASSUME IInv, NEW p \in Procs, StartCall(p) PROVE IInv'
  <1>. USE NotesType DEF Notes
  <1>1. ASSUME NEW r \in Requests, NEW u \in Users, NEW key \in BOOLEAN,
               StartComplete(p, r, u, key)
        PROVE  IInv'
    <2>. DEFINE l == [NoLocals EXCEPT !.op = "complete", !.req = r, !.user = u,
                        !.handle = requests[r].handle,
                        !.device = requests[r].device, !.key = key]
    <2>1. requests[r] \in Request /\ requests[r].kind = "pairing"
          /\ requests[r] # None
      BY <1>1 DEF StartComplete, Usable, IInv, TypeOK, Opt
    <2>2. l \in Locals /\ l.op = "complete" /\ l.req = r /\ l.user = u
          /\ l.handle = requests[r].handle /\ l.i = 1
      BY <2>1 DEF NoLocals, Locals, Opt, Request
    <2>3. Ready("register", l, users, channels, requests)
      BY <2>1, <2>2 DEF Ready, KnowsUser, KnowsPlace, KnowsRequest, HasBound,
                       LinkSteps, DeviceSteps
    <2>. QED  BY <1>1, <2>2, <2>3, CallOn DEF StartComplete, Steps
  <1>2. ASSUME NEW r \in Requests, NEW h \in Opt(Handles), StartVerify(p, r, h)
        PROVE  IInv'
    <2>. DEFINE l == [NoLocals EXCEPT !.op = "verify", !.req = r,
                        !.device = requests[r].device, !.handle = h,
                        !.key = TRUE]
    <2>1. requests[r] \in Request /\ requests[r].kind = "challenge"
          /\ requests[r] # None /\ requests[r].device \in Devices
      BY <1>2 DEF StartVerify, Usable, IInv, TypeOK, Opt, ChallengesHaveDevice,
                  HasDevice
    <2>2. l \in Locals /\ l.op = "verify" /\ l.req = r /\ l.i = 1
          /\ l.device = requests[r].device
      BY <2>1 DEF NoLocals, Locals, Opt, Request
    <2>3. Ready("owner", l, users, channels, requests)
      BY <2>1, <2>2 DEF Ready, KnowsUser, KnowsPlace, KnowsRequest, HasBound,
                       LinkSteps, DeviceSteps
    <2>. QED  BY <1>2, <2>2, <2>3, CallOn DEF StartVerify, Steps
  <1>3. ASSUME NEW d \in Devices, NEW h \in Opt(Handles), NEW signed \in BOOLEAN,
               StartResolve(p, d, h, signed)
        PROVE  IInv'
    <2>. DEFINE l == [NoLocals EXCEPT !.device = d, !.handle = h,
                        !.key = signed]
    <2>1. l \in Locals /\ l.op = "resolve" /\ l.device = d /\ l.i = 1
      BY DEF NoLocals, Locals, Opt
    <2>2. Ready("owner", l, users, channels, requests)
      BY <2>1 DEF Ready, KnowsUser, KnowsPlace, KnowsRequest, HasBound,
                  LinkSteps, DeviceSteps
    <2>. QED  BY <1>3, <2>1, <2>2, CallOn DEF StartResolve, Steps
  <1>. QED  BY <1>1, <1>2, <1>3 DEF StartCall

\* An index into the candidates: the next one is there unless this is the last.
LEMMA PlaceNext ==
    ASSUME NEW l \in Locals, KnowsPlace("check", l)
    PROVE  /\ l.handle \in Handles /\ l.i \in Nat \ {0}
           /\ l.i # Len(Candidates[l.handle])
                 => l.i + 1 \in 1..Len(Candidates[l.handle])
           /\ Candidates[l.handle][l.i] \in Handles
           /\ 1 \in 1..Len(Candidates[l.handle])
           /\ Candidates[l.handle] \in Seq(Handles)
  <1>1. l.handle \in Handles /\ l.i \in 1..Len(Candidates[l.handle])
    BY DEF KnowsPlace, LinkSteps
  <1>2. Candidates[l.handle] \in Seq(Handles)
    BY <1>1, CandidateType
  <1>3. Len(Candidates[l.handle]) \in Nat
    BY <1>2
  <1>4. Candidates[l.handle][l.i] \in Handles
        /\ 1 \in 1..Len(Candidates[l.handle])
    BY <1>1, CandidateType
  <1>. QED  BY <1>1, <1>2, <1>3, <1>4

\* The loops of try_link_channel_handle and link_channel that only read: they
\* go on to the next candidate, or start the following loop at the first.
LEMMA LookInv ==
    ASSUME IInv, NEW p \in Procs, Find(p) \/ Check(p)
    PROVE  IInv'
  <1>. USE NotesType DEF Notes
  <1>. DEFINE l == loc[p]
              next == [l EXCEPT !.i = @ + 1]
              first == [l EXCEPT !.i = 1]
  <1>1. l \in Locals /\ pc[p] \in {"find", "check"}
        /\ KnowsUser(pc[p], l, users) /\ KnowsPlace(pc[p], l)
        /\ KnowsRequest(pc[p], l, requests)
    BY CallKnows DEF Find, Check
  <1>2. /\ l.handle \in Handles /\ l.i \in Nat \ {0}
        /\ l.i # Len(Candidates[l.handle])
              => l.i + 1 \in 1..Len(Candidates[l.handle])
        /\ 1 \in 1..Len(Candidates[l.handle])
    BY <1>1, PlaceNext DEF KnowsPlace, LinkSteps
  <1>3. next \in Locals /\ first \in Locals
    BY <1>1, <1>2 DEF Locals
  <1>4. ASSUME NEW step \in {"find", "check", "bind"}
        PROVE  Ready(step, first, users, channels, requests)
    <2>1. /\ first.i = 1 /\ first.handle = l.handle /\ first.op = l.op
          /\ first.req = l.req /\ first.user = l.user
      BY <1>1 DEF Locals
    <2>2. KnowsUser(step, first, users) /\ KnowsPlace(step, first)
      BY <1>1, <1>2, <1>4, <2>1
         DEF KnowsUser, KnowsPlace, LinkSteps, DeviceSteps
    <2>3. KnowsRequest(step, first, requests)
      BY <1>1, <1>4, <2>1 DEF KnowsRequest
    <2>4. Bound(first.handle, first.i - 1, channels)
      BY <2>1 DEF Bound
    <2>5. HasBound(step, first, channels)
      BY <1>4, <2>4 DEF HasBound
    <2>. QED  BY <2>2, <2>3, <2>5 DEF Ready
  <1>5. ~Last(p) => Ready(pc[p], next, users, channels, requests)
    BY <1>1, <1>2, <1>3
       DEF Ready, KnowsUser, KnowsPlace, KnowsRequest, HasBound, Last,
           LinkSteps, DeviceSteps, Locals
  <1>6. \/ Return(p)
        \/ ~Last(p) /\ Goto(p, pc[p], next)
        \/ Goto(p, "check", first)
        \/ Goto(p, "bind", first)
    BY DEF Find, Check, Advance
  <1>7. UNCHANGED Store /\ UNCHANGED Notes
    BY DEF Find, Check
  <1>. QED  BY <1>1, <1>3, <1>4, <1>5, <1>6, <1>7, CallOn, CallEnds DEF Steps

\* The reads of a device's owner and binding.
LEMMA DeviceReadInv ==
    ASSUME IInv, NEW p \in Procs,
           Owner(p) \/ Binding(p) \/ OwnerAgain(p) \/ BindingAgain(p)
    PROVE  IInv'
  <1>. USE NotesType DEF Notes
  <1>. DEFINE l == loc[p]
              u == devices[l.device]
  <1>1. /\ l \in Locals
        /\ KnowsUser(pc[p], l, users) /\ KnowsPlace(pc[p], l)
        /\ KnowsRequest(pc[p], l, requests)
    BY CallKnows
  <1>2. l.device \in Devices /\ l.i = 1 /\ u \in Opt(users) /\ u \in Opt(Users)
    BY <1>1 DEF Owner, Binding, OwnerAgain, BindingAgain, KnowsPlace,
                DeviceSteps, LinkSteps, IInv, TypeOK, BindingsHaveUsers, Range
  <1>3. CASE Owner(p)
    <2>. DEFINE new == [l EXCEPT !.user = u]
    <2>1. u # None => new \in Locals
                      /\ Ready("binding", new, users, channels, requests)
      BY <1>1, <1>2, <1>3
         DEF Owner, Ready, KnowsUser, KnowsPlace, KnowsRequest, HasBound, Locals,
             LinkSteps, DeviceSteps, Opt
    <2>. QED  BY <1>3, <2>1, CallOn, CallEnds DEF Owner, Steps
  <1>4. CASE Binding(p)
    <2>1. /\ l.op = "verify" => Ready("mark", l, users, channels, requests)
          /\ Ready("owner_again", l, users, channels, requests)
      BY <1>1, <1>2, <1>4
         DEF Binding, Ready, KnowsUser, KnowsPlace, KnowsRequest, HasBound,
             LinkSteps, DeviceSteps
    <2>. QED  BY <1>1, <1>4, <2>1, CallOn, CallEnds DEF Binding, Steps
  <1>5. CASE OwnerAgain(p)
    <2>. DEFINE new == [l EXCEPT !.owner = u,
                          !.user = IF l.op = "verify" THEN u ELSE @]
    <2>1. u # None => new \in Locals
                      /\ Ready("binding_again", new, users, channels, requests)
      BY <1>1, <1>2, <1>5
         DEF OwnerAgain, Ready, KnowsUser, KnowsPlace, KnowsRequest, HasBound,
             Locals, LinkSteps, DeviceSteps, Opt
    <2>2. panicked' \in BOOLEAN
      BY <1>5 DEF OwnerAgain
    <2>. QED  BY <1>5, <2>1, <2>2, CallOn, CallEnds DEF OwnerAgain, Steps
  <1>6. CASE BindingAgain(p)
    <2>1. l.handle # None => Ready("find", l, users, channels, requests)
      <3>1. l.handle # None => l.handle \in Handles
        BY <1>1 DEF Locals, Opt
      <3>2. l.handle # None => 1 \in 1..Len(Candidates[l.handle])
        BY <3>1, CandidateType
      <3>. QED
        BY <1>1, <1>2, <1>6, <3>1, <3>2
           DEF BindingAgain, Ready, KnowsUser, KnowsPlace, KnowsRequest,
               HasBound, LinkSteps, DeviceSteps
    <2>2. panicked' \in BOOLEAN
      BY <1>6 DEF BindingAgain
    <2>3. answers' \in [Requests -> Nat]
      <3>1. CASE l.op = "verify"
        <4>1. l.req \in Requests
          BY <1>1, <1>6, <3>1 DEF BindingAgain, KnowsRequest
        <4>2. answers' = [answers EXCEPT ![l.req] = @ + 1]
          BY <1>6, <3>1 DEF BindingAgain
        <4>3. answers[l.req] + 1 \in Nat
          BY <4>1, NotesType
        <4>. QED  BY <4>1, <4>2, <4>3, NotesType
      <3>2. CASE l.op # "verify"
        BY <1>6, <3>2, NotesType DEF BindingAgain
      <3>. QED  BY <3>1, <3>2
    <2>. QED  BY <1>1, <1>6, <2>1, <2>2, <2>3, CallOn, CallEnds
              DEF BindingAgain, Steps
  <1>. QED  BY <1>3, <1>4, <1>5, <1>6

\* A call fails where it is.
LEMMA FailInv == ASSUME IInv, NEW p \in Procs, Fail(p) PROVE IInv'
  <1>1. fails' \in 0..MaxFails
    BY IdentityAssumption DEF Fail, IInv, TypeOK
  <1>. QED  BY <1>1, NotesType, CallEnds DEF Fail

-----------------------------------------------------------------------------
(* Steps of a call that write.                                             *)

\* The user is registered before anything is bound to him.
LEMMA RegisterInv == ASSUME IInv, NEW p \in Procs, Register(p) PROVE IInv'
  <1>. DEFINE l == loc[p]
              step == IF l.handle # None THEN "check" ELSE AfterLink(l)
  <1>1. /\ l \in Locals /\ l.op = "complete" /\ l.user \in Users /\ l.i = 1
        /\ KnowsRequest("register", l, requests)
    BY CallKnows DEF Register, KnowsUser, KnowsPlace, KnowsRequest, LinkSteps
  <1>2. Grows
    BY DEF Register, Grows
  <1>3. step \in Steps /\ step \in {"check", "device", "mark"}
        /\ (step = "check" <=> l.handle # None)
        /\ (step = "device" => l.device # None)
    BY <1>1 DEF AfterLink, Steps
  <1>4. KnowsPlace(step, l)
    <2>1. l.handle # None => l.handle \in Handles
      BY <1>1 DEF Locals, Opt
    <2>2. l.handle # None => 1 \in 1..Len(Candidates[l.handle])
      BY <2>1, CandidateType
    <2>3. l.device # None => l.device \in Devices
      BY <1>1 DEF Locals, Opt
    <2>. QED  BY <1>1, <1>3, <2>1, <2>2, <2>3
              DEF KnowsPlace, LinkSteps, DeviceSteps
  <1>5. Ready(step, l, users', channels', requests')
    <2>1. KnowsUser(step, l, users')
      BY <1>1, <1>3 DEF Register, KnowsUser
    <2>2. KnowsRequest(step, l, requests')
      BY <1>1, <1>3 DEF Register, KnowsRequest
    <2>3. HasBound(step, l, channels')
      BY <1>3 DEF HasBound
    <2>. QED  BY <1>4, <2>1, <2>2, <2>3 DEF Ready
  <1>6. /\ pc' \in [Procs -> Steps] /\ loc' \in [Procs -> Locals]
        /\ CallsReady'
    BY <1>1, <1>2, <1>3, <1>5, GotoReady DEF Register, IInv
  <1>7. TypeOK'
    BY <1>1, <1>6, NotesType DEF Register, Notes, IInv, TypeOK
  <1>8. BindingsHaveUsers'
    BY DEF Register, IInv, BindingsHaveUsers, Opt
  <1>9. CompletedIsLinked' /\ ChallengesHaveDevice'
    BY <1>2, LinkedGrows DEF Register, IInv, ChallengesHaveDevice
  <1>. QED  BY <1>6, <1>7, <1>8, <1>9 DEF IInv

\* link_channel binds the candidates from the first to the last.
LEMMA BindInv == ASSUME IInv, NEW p \in Procs, Bind(p) PROVE IInv'
  <1>. DEFINE l == loc[p]
              c == Candidates[l.handle][l.i]
              next == [l EXCEPT !.i = @ + 1]
              first == [l EXCEPT !.i = 1]
  <1>1. /\ l \in Locals /\ l.user \in users
        /\ KnowsPlace("bind", l) /\ KnowsRequest("bind", l, requests)
        /\ Bound(l.handle, l.i - 1, channels)
    BY CallKnows DEF Bind, KnowsUser, HasBound
  <1>2. /\ l.handle \in Handles /\ l.i \in Nat \ {0} /\ c \in Handles
        /\ l.i # Len(Candidates[l.handle])
              => l.i + 1 \in 1..Len(Candidates[l.handle])
        /\ 1 \in 1..Len(Candidates[l.handle])
    <2>1. KnowsPlace("check", l)
      BY <1>1 DEF KnowsPlace, LinkSteps, DeviceSteps
    <2>. QED  BY <1>1, <2>1, PlaceNext
  <1>3. channels' = [channels EXCEPT ![c] = l.user] /\ l.user # None
        /\ UNCHANGED <<users, devices, requests, Notes>>
    BY <1>1, IdentityAssumption DEF Bind, Candidate, IInv, TypeOK
  <1>4. Grows
    BY <1>2, <1>3 DEF Grows, IInv, TypeOK
  <1>5. Bound(l.handle, l.i, channels')
    <2>. SUFFICES ASSUME NEW j \in 1..l.i
                  PROVE  channels'[Candidates[l.handle][j]] # None
      BY DEF Bound
    <2>1. CASE j = l.i
      BY <1>2, <1>3, <2>1 DEF IInv, TypeOK
    <2>2. CASE j # l.i
      <3>1. j \in 1..(l.i - 1) /\ j \in 1..Len(Candidates[l.handle])
        BY <1>1, <1>2, <2>2 DEF KnowsPlace, LinkSteps
      <3>2. Candidates[l.handle][j] \in Handles
        BY <1>2, <3>1, CandidateType
      <3>. QED  BY <1>1, <1>4, <3>1, <3>2 DEF Bound, Grows
    <2>. QED  BY <2>1, <2>2
  <1>6. /\ pc' \in [Procs -> Steps] /\ loc' \in [Procs -> Locals]
        /\ CallsReady'
    <2>1. CASE ~Last(p)
      <3>1. next \in Locals /\ next.i = l.i + 1 /\ next.handle = l.handle
            /\ next.op = l.op /\ next.req = l.req /\ next.user = l.user
        BY <1>1, <1>2 DEF Locals
      <3>2. KnowsUser("bind", next, users') /\ KnowsPlace("bind", next)
        BY <1>1, <1>2, <1>3, <2>1, <3>1
           DEF KnowsUser, KnowsPlace, LinkSteps, DeviceSteps, Last
      <3>3. KnowsRequest("bind", next, requests')
        BY <1>1, <1>3, <3>1 DEF KnowsRequest
      <3>4. next.i - 1 = l.i
        BY <1>2, <3>1
      <3>5. HasBound("bind", next, channels')
        BY <1>5, <3>1, <3>4 DEF HasBound
      <3>6. Ready("bind", next, users', channels', requests')
        BY <3>2, <3>3, <3>5 DEF Ready
      <3>7. Goto(p, "bind", next)
        BY <2>1 DEF Bind, Advance
      <3>. QED  BY <1>4, <3>1, <3>6, <3>7, GotoReady DEF IInv, Steps
    <2>2. CASE Last(p)
      <3>. DEFINE step == AfterLink(l)
      <3>1. first \in Locals /\ first.i = 1 /\ first.handle = l.handle
            /\ first.op = l.op /\ first.req = l.req /\ first.user = l.user
            /\ first.device = l.device
        BY <1>1 DEF Locals
      <3>2. /\ step \in Steps /\ step \in {"idle", "device", "mark"}
            /\ step # "idle" => l.op = "complete"
            /\ step = "device" => l.device \in Devices
        BY <1>1 DEF AfterLink, Steps, Locals, Opt
      <3>3. KnowsUser(step, first, users') /\ KnowsPlace(step, first)
        <4>1. KnowsUser(step, first, users')
          BY <1>1, <1>3, <3>1, <3>2 DEF KnowsUser
        <4>2. step \notin LinkSteps /\ (step \in DeviceSteps => step = "device")
          BY <3>2 DEF LinkSteps, DeviceSteps
        <4>. QED  BY <3>1, <3>2, <4>1, <4>2 DEF KnowsPlace
      <3>4. KnowsRequest(step, first, requests')
        BY <1>1, <1>3, <3>1, <3>2 DEF KnowsRequest
      <3>5. AllBound(l.handle, channels')
        <4>. SUFFICES ASSUME NEW x \in Range(Candidates[l.handle])
                      PROVE  channels'[x] # None
          BY DEF AllBound
        <4>1. PICK j \in 1..Len(Candidates[l.handle]) :
                     x = Candidates[l.handle][j]
          BY <1>2, CandidateType
        <4>. QED  BY <1>5, <2>2, <4>1 DEF Bound, Last
      <3>6. HasBound(step, first, channels')
        BY <3>1, <3>2, <3>5 DEF HasBound
      <3>7. Ready(step, first, users', channels', requests')
        BY <3>3, <3>4, <3>6 DEF Ready
      <3>8. Goto(p, step, first)
        BY <2>2 DEF Bind, Advance
      <3>. QED  BY <1>4, <3>1, <3>2, <3>7, <3>8, GotoReady DEF IInv
    <2>. QED  BY <2>1, <2>2
  <1>7. TypeOK'
    <2>1. channels' \in [Handles -> Opt(Users)]
      BY <1>1, <1>2, <1>3 DEF IInv, TypeOK, Opt
    <2>. QED  BY <1>3, <1>6, <2>1 DEF IInv, TypeOK, Notes
  <1>8. BindingsHaveUsers'
    BY <1>1, <1>2, <1>3 DEF IInv, TypeOK, BindingsHaveUsers, Range, Opt
  <1>9. CompletedIsLinked' /\ ChallengesHaveDevice'
    BY <1>3, <1>4, LinkedGrows DEF IInv, ChallengesHaveDevice
  <1>. QED  BY <1>6, <1>7, <1>8, <1>9 DEF IInv

\* Binding a device to the user of the pairing, who is registered.
LEMMA PairDeviceInv == ASSUME IInv, NEW p \in Procs, PairDevice(p) PROVE IInv'
  <1>. DEFINE l == loc[p]
  <1>1. /\ l \in Locals /\ l.user \in users /\ l.device \in Devices /\ l.i = 1
        /\ l.op = "complete" /\ KnowsRequest("device", l, requests)
        /\ HasBound("device", l, channels)
    BY CallKnows DEF PairDevice, KnowsUser, KnowsPlace, KnowsRequest,
                     LinkSteps, DeviceSteps
  <1>2. UNCHANGED <<users, channels, requests, Notes>>
        /\ \/ devices' = devices /\ Return(p)
           \/ /\ devices' = [devices EXCEPT ![l.device] = l.user]
              /\ Goto(p, "mark", l)
    BY DEF PairDevice
  <1>3. Grows
    BY <1>2 DEF Grows
  <1>4. Ready("mark", l, users', channels', requests')
    BY <1>1, <1>2 DEF Ready, KnowsUser, KnowsPlace, KnowsRequest, HasBound,
                      LinkSteps, DeviceSteps
  <1>5. /\ pc' \in [Procs -> Steps] /\ loc' \in [Procs -> Locals]
        /\ CallsReady'
    BY <1>1, <1>2, <1>3, <1>4, GotoReady, ReturnReady DEF IInv, Steps
  <1>6. TypeOK'
    <2>1. devices' \in [Devices -> Opt(Users)]
      BY <1>1, <1>2 DEF IInv, TypeOK, Opt
    <2>. QED  BY <1>2, <1>5, <2>1 DEF IInv, TypeOK, Notes
  <1>7. BindingsHaveUsers'
    BY <1>1, <1>2 DEF IInv, TypeOK, BindingsHaveUsers, Range, Opt
  <1>8. CompletedIsLinked' /\ ChallengesHaveDevice'
    BY <1>2, <1>3, LinkedGrows DEF IInv, ChallengesHaveDevice
  <1>. QED  BY <1>5, <1>6, <1>7, <1>8 DEF IInv

\* A pairing is marked when all spellings of its handle are bound.
LEMMA MarkInv == ASSUME IInv, NEW p \in Procs, Mark(p) PROVE IInv'
  <1>. DEFINE l == loc[p]
              r == l.req
              q == [requests[r] EXCEPT !.done = TRUE]
  <1>1. /\ l \in Locals /\ l.user \in users /\ l.i = 1 /\ l.op # "resolve"
        /\ r \in Requests /\ requests[r] # None
        /\ KnowsRequest("mark", l, requests) /\ HasBound("mark", l, channels)
    BY CallKnows DEF Mark, KnowsUser, KnowsPlace, KnowsRequest, LinkSteps
  <1>2. requests[r] \in Request
    BY <1>1 DEF IInv, TypeOK, Opt
  <1>3. /\ q \in Request /\ q # None /\ q.kind = requests[r].kind
        /\ q.handle = requests[r].handle /\ q.device = requests[r].device
    BY <1>2, IdentityAssumption DEF Request
  <1>4. /\ requests'[r] = q
        /\ \A s \in Requests \ {r} : requests'[s] = requests[s]
        /\ requests' \in [Requests -> Opt(Request)]
        /\ UNCHANGED <<users, devices, channels, panicked, fails>>
    BY <1>1, <1>3 DEF Mark, IInv, TypeOK, Opt
  <1>5. Grows
    BY <1>3, <1>4 DEF Grows
  <1>6. /\ pc' \in [Procs -> Steps] /\ loc' \in [Procs -> Locals]
        /\ CallsReady'
    <2>1. CASE l.op = "complete"
      BY <1>5, <2>1, ReturnReady DEF Mark, IInv
    <2>2. CASE l.op # "complete"
      <3>1. l.op = "verify" /\ l.device \in Devices
        BY <1>1, <2>2, CallKnows DEF Mark, KnowsPlace, Locals
      <3>2. Goto(p, "owner_again", l)
        BY <2>2 DEF Mark
      <3>3. KnowsRequest("owner_again", l, requests')
        BY <1>1, <1>3, <1>4, <3>1 DEF KnowsRequest
      <3>4. Ready("owner_again", l, users', channels', requests')
        BY <1>1, <1>4, <3>1, <3>3
           DEF Ready, KnowsUser, KnowsPlace, HasBound, LinkSteps, DeviceSteps
      <3>. QED  BY <1>1, <1>5, <3>2, <3>4, GotoReady DEF IInv, Steps
    <2>. QED  BY <2>1, <2>2
  <1>7. TypeOK'
    <2>1. answers' \in [Requests -> Nat]
      <3>1. answers' = answers \/ answers' = [answers EXCEPT ![r] = @ + 1]
        BY DEF Mark
      <3>2. answers[r] + 1 \in Nat
        BY <1>1, NotesType
      <3>. QED  BY <1>1, <3>1, <3>2, NotesType
    <2>. QED  BY <1>4, <1>6, <2>1 DEF IInv, TypeOK
  <1>8. BindingsHaveUsers'
    BY <1>4 DEF IInv, BindingsHaveUsers
  <1>9. ChallengesHaveDevice'
    BY <1>1, <1>3, <1>4 DEF IInv, ChallengesHaveDevice, HasDevice
  <1>10. CompletedIsLinked'
    <2>. SUFFICES ASSUME NEW s \in Requests, requests'[s] # None,
                         requests'[s].kind = "pairing", requests'[s].done,
                         requests'[s].handle # None,
                         NEW c \in Range(Candidates[requests'[s].handle])
                  PROVE  channels[c] # None
      BY <1>4 DEF CompletedIsLinked
    <2>1. CASE s # r
      BY <1>4, <2>1 DEF IInv, CompletedIsLinked
    <2>2. CASE s = r
      <3>1. requests[r].kind = "pairing" /\ requests'[s].handle = requests[r].handle
        BY <1>3, <1>4, <2>2
      <3>2. l.op = "complete" /\ requests[r].handle = l.handle
        BY <1>1, <3>1 DEF KnowsRequest, Locals
      <3>. QED  BY <1>1, <3>1, <3>2 DEF HasBound, AllBound
    <2>. QED  BY <2>1, <2>2
  <1>. QED  BY <1>6, <1>7, <1>8, <1>9, <1>10 DEF IInv

-----------------------------------------------------------------------------
\* Every step keeps the invariant.
LEMMA NextInv == IInv /\ [Next]_vars => IInv'
  <1>. SUFFICES ASSUME IInv, [Next]_vars PROVE IInv'
    OBVIOUS
  <1>1. CASE UNCHANGED vars
    <2>1. UNCHANGED <<Store, pc, loc, Notes>>
      BY <1>1 DEF vars, Store, Notes
    <2>2. CallsReady'
      BY <2>1 DEF IInv, CallsReady, Store
    <2>3. pc' \in [Procs -> Steps] /\ loc' \in [Procs -> Locals]
      BY <2>1 DEF IInv, TypeOK
    <2>. QED  BY <2>1, <2>2, <2>3, NotesType, ReadOnly DEF Notes
  <1>2. ASSUME NEW p \in Procs, StartCall(p) \/ Call(p) PROVE IInv'
    BY <1>2, StartInv, RegisterInv, LookInv, BindInv, PairDeviceInv, MarkInv,
       DeviceReadInv, FailInv DEF Call
  <1>3. ASSUME NEW r \in Requests, NEW h \in Opt(Handles),
               NEW d \in Opt(Devices), IssuePairing(r, h, d)
        PROVE  IInv'
    BY <1>3, IssueInv DEF IssuePairing
  <1>4. ASSUME NEW r \in Requests, NEW d \in Devices, IssueChallenge(r, d)
        PROVE  IInv'
    BY <1>4, IssueInv DEF IssueChallenge, Opt
  <1>. QED
    BY <1>1, <1>2, <1>3, <1>4, ExpireInv, CliInv DEF Next

\* Every variable keeps its type.
THEOREM IdentityTypes == Spec => []TypeOK
  <1>1. IInv => TypeOK
    BY DEF IInv
  <1>. QED  BY <1>1, InitInv, NextInv, PTL DEF Spec

\* Every device and channel binding leads to a registered user, however calls
\* interleave and wherever they fail.
THEOREM NoDanglingBindings == Spec => []BindingsHaveUsers
  <1>1. IInv => BindingsHaveUsers
    BY DEF IInv
  <1>. QED  BY <1>1, InitInv, NextInv, PTL DEF Spec

\* A pairing that is marked completed has linked every spelling of its handle,
\* however calls interleave and wherever they fail.
THEOREM PairingsAreLinked == Spec => []CompletedIsLinked
  <1>1. IInv => CompletedIsLinked
    BY DEF IInv
  <1>. QED  BY <1>1, InitInv, NextInv, PTL DEF Spec

-----------------------------------------------------------------------------
(***************************************************************************)
(* Calls one at a time, any of which may fail half-way.                    *)
(***************************************************************************)

(* What a call can count on when no other runs: the request it is to answer *)
(* has no answer yet, and is marked when only the answer is left to give;   *)
(* the candidates it has checked are free or its user's, and all are when it *)
(* binds.                                                                   *)
Answering(step, l) ==
    /\ step # "idle"
    /\ l.op = "complete" \/ (l.op = "verify" /\ step \notin LinkSteps)

FreeFor(u, h, n, cs) == \A j \in 1..n : cs[Candidates[h][j]] \in {None, u}

Undisturbed(step, l, cs, as, rs) ==
    /\ Answering(step, l) => as[l.req] = 0
    /\ Answering(step, l) /\ step \in {"owner_again", "binding_again"} => rs[l.req].done
    /\ step = "check" => FreeFor(l.user, l.handle, l.i - 1, cs)
    /\ step = "bind" => FreeFor(l.user, l.handle, Len(Candidates[l.handle]), cs)

CallsUndisturbed ==
    \A p \in Procs : Undisturbed(pc[p], loc[p], channels, answers, requests)

\* A request that was answered is marked, and was answered once.
AnswersMarked == \A r \in Requests :
    answers[r] # 0 => answers[r] = 1 /\ requests[r] # None /\ requests[r].done

\* As long as no call has failed, a handle has its candidates with it, unless
\* they are just being bound.
BeingBound(h) == \E p \in Procs : pc[p] = "bind" /\ h \in Range(Candidates[loc[p].handle])
BoundTogether == fails = 0 =>
    \A h \in Handles : channels[h] # None =>
        \/ \A c \in Range(Candidates[h]) : channels[c] = channels[h]
        \/ BeingBound(h)

SInv == OneAtATime /\ CallsUndisturbed /\ AnswersMarked /\ BoundTogether

-----------------------------------------------------------------------------
(* How one call at a time moves.                                            *)

\* The call that goes on is the only one, and what it can count on is enough.
LEMMA AloneGoesOn ==
    ASSUME TypeOK, OneAtATime, OneAtATime', NEW p \in Procs, NEW step, NEW l,
           Goto(p, step, l), pc[p] # "idle" \/ step # "idle",
           step # "idle" => Undisturbed(step, l, channels', answers', requests')
    PROVE  CallsUndisturbed'
  <1>. SUFFICES ASSUME NEW q \in Procs, pc'[q] # "idle"
                PROVE  Undisturbed(pc'[q], loc'[q], channels', answers', requests')
    BY DEF CallsUndisturbed, Undisturbed, Answering
  <1>1. /\ pc'[p] = step /\ (step # "idle" => loc'[p] = l)
        /\ q # p => pc'[q] = pc[q]
    BY DEF Goto, TypeOK
  <1>2. q = p
    BY <1>1 DEF OneAtATime
  <1>. QED  BY <1>1, <1>2

\* A call that ends leaves none behind.
LEMMA AloneEnds ==
    ASSUME TypeOK, OneAtATime, OneAtATime', NEW p \in Procs, pc[p] # "idle", Return(p)
    PROVE  CallsUndisturbed'
  BY AloneGoesOn DEF Return

\* A step that writes no binding, and by which no call stops binding, leaves
\* handles with their candidates.
LEMMA StillTogether ==
    ASSUME BoundTogether, channels' = channels, fails' = 0 => fails = 0,
           \A p \in Procs : pc[p] = "bind" => pc'[p] = "bind" /\ loc'[p] = loc[p]
    PROVE  BoundTogether'
  BY DEF BoundTogether, BeingBound

\* Answers stay marked when requests only come and expire, or are marked.
LEMMA StillMarked ==
    ASSUME AnswersMarked, answers' = answers,
           \A r \in Requests : requests[r] # None =>
              /\ requests'[r] # None
              /\ requests[r].done => requests'[r].done
    PROVE  AnswersMarked'
  BY DEF AnswersMarked

\* The parts of SInv that a step between calls does not concern.
LEMMA BesideCalls ==
    ASSUME IInv, SInv, UNCHANGED <<pc, loc, channels, answers, fails>>,
           \A r \in Requests : requests[r] # None =>
              /\ requests'[r] # None
              /\ requests[r].done => requests'[r].done
    PROVE  CallsUndisturbed' /\ AnswersMarked' /\ BoundTogether'
  <1>1. CallsUndisturbed'
    <2>. SUFFICES ASSUME NEW p \in Procs
                  PROVE  Undisturbed(pc[p], loc[p], channels, answers, requests')
      BY DEF CallsUndisturbed
    <2>1. Undisturbed(pc[p], loc[p], channels, answers, requests)
      BY DEF SInv, CallsUndisturbed
    <2>2. Answering(pc[p], loc[p]) => /\ loc[p].req \in Requests
                                      /\ requests[loc[p].req] # None
      BY CallKnows DEF Answering, KnowsRequest
    <2>. QED  BY <2>1, <2>2 DEF Undisturbed
  <1>2. AnswersMarked'
    BY StillMarked DEF SInv
  <1>3. BoundTogether'
    BY StillTogether DEF SInv
  <1>. QED  BY <1>1, <1>2, <1>3

\* Requests are issued and expire, and the CLI is used, beside calls.
LEMMA AroundCalls ==
    ASSUME IInv, SInv,
           \/ \E r \in Requests, h \in Opt(Handles), d \in Opt(Devices) :
                 IssuePairing(r, h, d)
           \/ \E r \in Requests, d \in Devices : IssueChallenge(r, d)
           \/ \E r \in Requests : Expire(r)
           \/ \E u \in Users, d \in Devices : CliPair(u, d)
           \/ \E d \in Devices : CliRevoke(d)
    PROVE  CallsUndisturbed' /\ AnswersMarked' /\ BoundTogether'
  <1>1. UNCHANGED <<pc, loc, channels, answers, fails>>
    BY DEF IssuePairing, IssueChallenge, Issue, Expire, CliPair, CliRevoke, Notes
  <1>2. ASSUME NEW r \in Requests, requests[r] # None
        PROVE  requests'[r] # None /\ (requests[r].done => requests'[r].done)
    <2>1. requests \in [Requests -> Opt(Request)] /\ requests[r] \in Request
      BY <1>2 DEF IInv, TypeOK, Opt
    <2>2. CASE \E x \in Requests, k \in {"pairing", "challenge"},
                  h \in Opt(Handles), d \in Opt(Devices) : Issue(x, k, h, d)
      BY <1>2, <2>1, <2>2 DEF Issue
    <2>3. CASE \E x \in Requests : Expire(x)
      <3>1. PICK x \in Requests : Expire(x)
        BY <2>3
      <3>2. CASE x # r
        BY <1>2, <2>1, <3>1, <3>2 DEF Expire
      <3>3. CASE x = r
        <4>1. requests'[r] = [requests[r] EXCEPT !.expired = TRUE]
          BY <2>1, <3>1, <3>3 DEF Expire
        <4>2. requests'[r] \in Request /\ requests'[r].done = requests[r].done
          BY <2>1, <4>1 DEF Request
        <4>. QED  BY <4>2, IdentityAssumption
      <3>. QED  BY <3>2, <3>3
    <2>4. CASE requests' = requests
      BY <1>2, <2>4
    <2>. QED
      BY <2>2, <2>3, <2>4 DEF IssuePairing, IssueChallenge, CliPair, CliRevoke, Opt
  <1>. QED  BY <1>1, <1>2, BesideCalls

\* A call starts with a request that is still to be answered.
LEMMA AloneStarts ==
    ASSUME IInv, SInv, OneAtATime', NEW p \in Procs, StartCall(p)
    PROVE  CallsUndisturbed' /\ AnswersMarked' /\ BoundTogether'
  <1>1. UNCHANGED <<users, devices, channels, requests, panicked, answers, fails>>
        /\ pc[p] = "idle"
    BY DEF StartCall, StartComplete, StartVerify, StartResolve, Store, Notes
  <1>2. \A q \in Procs : pc[q] = "bind" => pc'[q] = "bind" /\ loc'[q] = loc[q]
    BY <1>1 DEF StartCall, StartComplete, StartVerify, StartResolve, Goto, IInv, TypeOK
  <1>3. BoundTogether' /\ AnswersMarked'
    BY <1>1, <1>2, StillTogether, StillMarked DEF SInv
  <1>4. ASSUME NEW r \in Requests, Usable(r, "pairing") \/ Usable(r, "challenge")
        PROVE  answers[r] = 0
    BY <1>4 DEF Usable, SInv, AnswersMarked
  <1>. USE DEF IInv, SInv
  <1>5. ASSUME NEW r \in Requests, NEW u \in Users, NEW key \in BOOLEAN,
               StartComplete(p, r, u, key)
        PROVE  CallsUndisturbed'
    <2>. DEFINE l == [NoLocals EXCEPT !.op = "complete", !.req = r, !.user = u,
                        !.handle = requests[r].handle,
                        !.device = requests[r].device, !.key = key]
    <2>1. answers[r] = 0 /\ Goto(p, "register", l)
      BY <1>4, <1>5 DEF StartComplete
    <2>2. l.req = r
      BY DEF NoLocals
    <2>. HIDE DEF l
    <2>3. Undisturbed("register", l, channels', answers', requests')
      BY <1>1, <2>1, <2>2 DEF Undisturbed
    <2>. QED  BY <2>1, <2>3, AloneGoesOn
  <1>6. ASSUME NEW r \in Requests, NEW h \in Opt(Handles), StartVerify(p, r, h)
        PROVE  CallsUndisturbed'
    <2>. DEFINE l == [NoLocals EXCEPT !.op = "verify", !.req = r,
                        !.device = requests[r].device, !.handle = h, !.key = TRUE]
    <2>1. answers[r] = 0 /\ Goto(p, "owner", l)
      BY <1>4, <1>6 DEF StartVerify
    <2>2. l.req = r
      BY DEF NoLocals
    <2>. HIDE DEF l
    <2>3. Undisturbed("owner", l, channels', answers', requests')
      BY <1>1, <2>1, <2>2 DEF Undisturbed
    <2>. QED  BY <2>1, <2>3, AloneGoesOn
  <1>7. ASSUME NEW d \in Devices, NEW h \in Opt(Handles), NEW signed \in BOOLEAN,
               StartResolve(p, d, h, signed)
        PROVE  CallsUndisturbed'
    <2>. DEFINE l == [NoLocals EXCEPT !.device = d, !.handle = h, !.key = signed]
    <2>1. Goto(p, "owner", l) /\ l.op = "resolve"
      BY <1>7 DEF StartResolve, NoLocals
    <2>. HIDE DEF l
    <2>2. Undisturbed("owner", l, channels', answers', requests')
      BY <2>1 DEF Undisturbed, Answering
    <2>. QED  BY <2>1, <2>2, AloneGoesOn
  <1>. QED  BY <1>3, <1>5, <1>6, <1>7 DEF StartCall

\* A call that was not binding, and does not bind, leaves handles together.
LEMMA NotBinding ==
    ASSUME IInv, SInv, NEW p \in Procs, pc[p] # "bind", NEW step, NEW l,
           Goto(p, step, l), channels' = channels, fails' = fails
    PROVE  BoundTogether'
  <1>1. \A q \in Procs : pc[q] = "bind" => pc'[q] = "bind" /\ loc'[q] = loc[q]
    BY DEF Goto, IInv, TypeOK
  <1>. QED  BY <1>1, StillTogether DEF SInv

\* A call that fails counts as a failure; what it bound stays.
LEMMA AloneFails ==
    ASSUME IInv, SInv, OneAtATime', NEW p \in Procs, Fail(p)
    PROVE  CallsUndisturbed' /\ AnswersMarked' /\ BoundTogether'
  <1>1. CallsUndisturbed'
    BY AloneEnds DEF IInv, SInv, Fail
  <1>2. AnswersMarked'
    BY StillMarked DEF SInv, Fail, Store
  <1>3. fails' # 0
    BY DEF Fail, IInv, TypeOK
  <1>. QED  BY <1>1, <1>2, <1>3 DEF BoundTogether

\* The steps that only read, before a link.
LEMMA AloneReads ==
    ASSUME IInv, SInv, OneAtATime', NEW p \in Procs,
           Owner(p) \/ Binding(p) \/ OwnerAgain(p) \/ Register(p) \/ PairDevice(p)
    PROVE  CallsUndisturbed' /\ AnswersMarked' /\ BoundTogether'
  <1>. DEFINE l == loc[p]
  <1>1. UNCHANGED <<channels, requests, answers, fails>>
        /\ pc[p] \in {"owner", "binding", "owner_again", "register", "device"}
    BY DEF Owner, Binding, OwnerAgain, Register, PairDevice, Store, Notes
  <1>2. /\ l \in Locals /\ KnowsPlace(pc[p], l) /\ KnowsRequest(pc[p], l, requests)
        /\ Undisturbed(pc[p], l, channels, answers, requests)
    BY CallKnows DEF SInv, CallsUndisturbed
  <1>3. AnswersMarked'
    BY <1>1, StillMarked DEF SInv
  <1>. USE DEF IInv, SInv
  <1>4. CASE Return(p)
    <2>1. CallsUndisturbed'
      BY <1>1, <1>4, AloneEnds
    <2>. QED  BY <1>1, <1>3, <1>4, <2>1, NotBinding DEF Return
  <1>5. CASE \E m : /\ m.op = l.op /\ m.req = l.req
                    /\ \/ pc[p] = "owner" /\ Goto(p, "binding", m)
                       \/ pc[p] = "binding" /\ l.op = "verify" /\ Goto(p, "mark", m)
                       \/ pc[p] = "binding" /\ l.op = "resolve"
                            /\ Goto(p, "owner_again", m)
                       \/ pc[p] = "owner_again" /\ Goto(p, "binding_again", m)
                       \/ pc[p] = "device" /\ Goto(p, "mark", m)
                       \/ pc[p] = "register" /\ m = l
                            /\ \E step \in {"check", "device", "mark"} : Goto(p, step, m)
    <2>1. PICK m : /\ m.op = l.op /\ m.req = l.req
                   /\ \/ pc[p] = "owner" /\ Goto(p, "binding", m)
                      \/ pc[p] = "binding" /\ l.op = "verify" /\ Goto(p, "mark", m)
                      \/ pc[p] = "binding" /\ l.op = "resolve"
                           /\ Goto(p, "owner_again", m)
                      \/ pc[p] = "owner_again" /\ Goto(p, "binding_again", m)
                      \/ pc[p] = "device" /\ Goto(p, "mark", m)
                      \/ pc[p] = "register" /\ m = l
                           /\ \E step \in {"check", "device", "mark"} : Goto(p, step, m)
      BY <1>5
    <2>2. PICK step \in {"binding", "mark", "owner_again", "binding_again", "check", "device"} :
             /\ Goto(p, step, m)
             /\ step \in {"check", "device"} => pc[p] = "register" /\ m = l
             /\ step = "owner_again" => l.op = "resolve"
             /\ step = "binding_again" => pc[p] = "owner_again"
      BY <2>1
    <2>3. Answering(step, m) => Answering(pc[p], l)
      BY <1>1, <2>1, <2>2 DEF Answering, LinkSteps
    <2>4. step = "check" => FreeFor(m.user, m.handle, m.i - 1, channels)
      <3>1. step = "check" => m.i = 1
        BY <1>2, <2>2 DEF KnowsPlace, LinkSteps
      <3>. QED  BY <3>1 DEF FreeFor
    <2>5. Undisturbed(step, m, channels, answers, requests)
      BY <1>2, <2>1, <2>2, <2>3, <2>4 DEF Undisturbed, Answering
    <2>6. CallsUndisturbed'
      BY <1>1, <2>2, <2>5, AloneGoesOn
    <2>. QED  BY <1>1, <1>3, <2>2, <2>6, NotBinding
  <1>6. CASE Owner(p)
    <2>1. \A u : [l EXCEPT !.user = u].op = l.op /\ [l EXCEPT !.user = u].req = l.req
      BY <1>2 DEF Locals
    <2>. QED  BY <1>4, <1>5, <1>6, <2>1 DEF Owner
  <1>7. CASE Binding(p)
    BY <1>4, <1>5, <1>7 DEF Binding
  <1>8. CASE OwnerAgain(p)
    <2>1. \A u, v : /\ [l EXCEPT !.owner = u, !.user = v].op = l.op
                    /\ [l EXCEPT !.owner = u, !.user = v].req = l.req
      BY <1>2 DEF Locals
    <2>2. PICK u, v : u = devices[l.device] /\ v = (IF l.op = "verify" THEN u ELSE l.user)
      OBVIOUS
    <2>3. Return(p) \/ Goto(p, "binding_again", [l EXCEPT !.owner = u, !.user = v])
      BY <1>8, <2>2 DEF OwnerAgain
    <2>. QED  BY <1>4, <1>5, <1>8, <2>1, <2>3 DEF OwnerAgain
  <1>9. CASE Register(p)
    <2>1. \E step \in {"check", "device", "mark"} : Goto(p, step, l)
      <3>1. l.op = "complete"
        BY <1>2, <1>9 DEF KnowsRequest, Register
      <3>. QED  BY <1>9, <3>1 DEF Register, AfterLink
    <2>. QED  BY <1>5, <1>9, <2>1 DEF Register
  <1>10. CASE PairDevice(p)
    BY <1>4, <1>5, <1>10 DEF PairDevice
  <1>. QED  BY <1>6, <1>7, <1>8, <1>9, <1>10

\* The first loop of a link passes candidates that are free or the user's own.
LEMMA AloneLooks ==
    ASSUME IInv, SInv, OneAtATime', NEW p \in Procs, Find(p) \/ Check(p)
    PROVE  CallsUndisturbed' /\ AnswersMarked' /\ BoundTogether'
  <1>. DEFINE l == loc[p]
              n == Len(Candidates[l.handle])
              next == [l EXCEPT !.i = l.i + 1]
              first == [l EXCEPT !.i = 1]
  <1>1. UNCHANGED <<channels, requests, answers, fails>> /\ pc[p] \in {"find", "check"}
    BY DEF Find, Check, Store, Notes
  <1>2. /\ l \in Locals /\ l.handle \in Handles /\ l.i \in 1..n
        /\ Undisturbed(pc[p], l, channels, answers, requests)
    BY <1>1, CallKnows DEF SInv, CallsUndisturbed, KnowsPlace, LinkSteps
  <1>3. AnswersMarked'
    BY <1>1, StillMarked DEF SInv
  <1>. USE DEF IInv, SInv
  <1>4. /\ next.op = l.op /\ next.req = l.req /\ next.user = l.user
        /\ next.handle = l.handle /\ next.i = l.i + 1
        /\ first.op = l.op /\ first.req = l.req /\ first.user = l.user
        /\ first.handle = l.handle /\ first.i = 1
    BY <1>2 DEF Locals
  <1>. HIDE DEF next, first
  <1>5. \/ Return(p)
        \/ pc[p] = "find" /\ l.i = n /\ Goto(p, "check", first)
        \/ pc[p] = "find" /\ l.i # n /\ Goto(p, "find", next)
        \/ pc[p] = "check" /\ channels[Candidates[l.handle][l.i]] \in {None, l.user}
             /\ \/ l.i = n /\ Goto(p, "bind", first)
                \/ l.i # n /\ Goto(p, "check", next)
    BY DEF Find, Check, Advance, Last, Candidate, next, first
  <1>6. ASSUME NEW step \in {"find", "check", "bind"}, NEW m \in {first, next},
               Goto(p, step, m), step = "find" => pc[p] = "find",
               step # "find" => Undisturbed(step, m, channels, answers, requests)
        PROVE  CallsUndisturbed' /\ BoundTogether'
    <2>1. Answering(step, m) => Answering(pc[p], l)
      BY <1>1, <1>4, <1>6 DEF Answering, LinkSteps
    <2>2. Undisturbed(step, m, channels, answers, requests)
      BY <1>1, <1>2, <1>4, <1>6, <2>1 DEF Undisturbed
    <2>3. CallsUndisturbed'
      BY <1>1, <1>6, <2>2, AloneGoesOn
    <2>. QED  BY <1>1, <1>6, <2>3, NotBinding
  <1>7. CASE Return(p)
    <2>1. CallsUndisturbed'
      BY <1>1, <1>7, AloneEnds
    <2>. QED  BY <1>1, <1>3, <1>7, <2>1, NotBinding DEF Return
  <1>8. CASE pc[p] = "find" /\ l.i = n /\ Goto(p, "check", first)
    <2>1. Answering("check", first) => first.op = "complete" /\ Answering("find", l)
      BY <1>4 DEF Answering, LinkSteps
    <2>2. Undisturbed("check", first, channels, answers, requests)
      BY <1>2, <1>4, <1>8, <2>1 DEF Undisturbed, FreeFor
    <2>. QED  BY <1>3, <1>6, <1>8, <2>2
  <1>9. CASE pc[p] = "find" /\ l.i # n /\ Goto(p, "find", next)
    BY <1>3, <1>6, <1>9
  <1>10. CASE /\ pc[p] = "check" /\ channels[Candidates[l.handle][l.i]] \in {None, l.user}
              /\ \/ l.i = n /\ Goto(p, "bind", first)
                 \/ l.i # n /\ Goto(p, "check", next)
    <2>1. FreeFor(l.user, l.handle, l.i, channels)
      <3>. SUFFICES ASSUME NEW j \in 1..l.i
                    PROVE  channels[Candidates[l.handle][j]] \in {None, l.user}
        BY DEF FreeFor
      <3>1. j = l.i \/ j \in 1..(l.i - 1)
        BY <1>2
      <3>. QED  BY <1>2, <1>10, <3>1 DEF Undisturbed, FreeFor
    <2>2. CASE l.i = n /\ Goto(p, "bind", first)
      <3>1. Answering("bind", first) => Answering("check", l)
        BY <1>4 DEF Answering, LinkSteps
      <3>2. Undisturbed("bind", first, channels, answers, requests)
        BY <1>2, <1>4, <1>10, <2>1, <2>2, <3>1 DEF Undisturbed
      <3>. QED  BY <1>3, <1>6, <2>2, <3>2
    <2>3. CASE l.i # n /\ Goto(p, "check", next)
      <3>1. Answering("check", next) => Answering("check", l)
        BY <1>4 DEF Answering, LinkSteps
      <3>2. next.i - 1 = l.i
        BY <1>2, <1>4
      <3>3. Undisturbed("check", next, channels, answers, requests)
        BY <1>2, <1>4, <1>10, <2>1, <3>1, <3>2 DEF Undisturbed
      <3>. QED  BY <1>3, <1>6, <2>3, <3>3
    <2>. QED  BY <1>10, <2>2, <2>3
  <1>. QED  BY <1>5, <1>7, <1>8, <1>9, <1>10

\* A request is answered by the call that has it, once it is marked.
LEMMA AnswerOnce ==
    ASSUME IInv, SInv, NEW r \in Requests, answers[r] = 0,
           answers' = [answers EXCEPT ![r] = @ + 1],
           requests'[r] # None, requests'[r].done,
           \A s \in Requests \ {r} : requests'[s] = requests[s]
    PROVE  AnswersMarked'
  <1>1. answers'[r] = 1 /\ \A s \in Requests \ {r} : answers'[s] = answers[s]
    BY DEF IInv, TypeOK
  <1>. QED  BY <1>1 DEF SInv, AnswersMarked

LEMMA AloneMarks ==
    ASSUME IInv, SInv, OneAtATime', NEW p \in Procs, Mark(p)
    PROVE  CallsUndisturbed' /\ AnswersMarked' /\ BoundTogether'
  <1>. DEFINE l == loc[p]
              r == l.req
  <1>1. /\ pc[p] = "mark" /\ l \in Locals /\ l.op \in {"complete", "verify"}
        /\ r \in Requests /\ requests[r] # None
        /\ Undisturbed("mark", l, channels, answers, requests)
        /\ UNCHANGED <<channels, fails>>
    BY CallKnows DEF SInv, CallsUndisturbed, KnowsRequest, Mark, Locals
  <1>2. answers[r] = 0
    BY <1>1 DEF Undisturbed, Answering, LinkSteps
  <1>3. /\ requests'[r] # None /\ requests'[r].done
        /\ \A s \in Requests \ {r} : requests'[s] = requests[s]
    <2>1. requests[r] \in Request /\ requests \in [Requests -> Opt(Request)]
      BY <1>1 DEF IInv, TypeOK, Opt
    <2>2. /\ requests'[r] = [requests[r] EXCEPT !.done = TRUE]
          /\ \A s \in Requests \ {r} : requests'[s] = requests[s]
      BY <1>1, <2>1 DEF Mark
    <2>3. requests'[r] \in Request /\ requests'[r].done
      BY <2>1, <2>2 DEF Request
    <2>. QED  BY <2>2, <2>3, IdentityAssumption
  <1>. USE DEF IInv, SInv
  <1>4. CASE l.op = "complete"
    <2>1. Return(p) /\ answers' = [answers EXCEPT ![r] = @ + 1]
      BY <1>4 DEF Mark
    <2>2. CallsUndisturbed' /\ BoundTogether'
      BY <1>1, <2>1, AloneEnds, NotBinding DEF Return
    <2>. QED  BY <1>1, <1>2, <1>3, <2>1, <2>2, AnswerOnce
  <1>5. CASE l.op = "verify"
    <2>1. Goto(p, "owner_again", l) /\ answers' = answers
      BY <1>5 DEF Mark
    <2>2. Undisturbed("owner_again", l, channels', answers', requests')
      BY <1>2, <1>3, <2>1 DEF Undisturbed
    <2>3. CallsUndisturbed' /\ BoundTogether'
      BY <1>1, <2>1, <2>2, AloneGoesOn, NotBinding
    <2>4. \A s \in Requests : requests[s] # None =>
             requests'[s] # None /\ (requests[s].done => requests'[s].done)
      BY <1>3
    <2>. QED  BY <2>1, <2>3, <2>4, StillMarked
  <1>. QED  BY <1>1, <1>4, <1>5

LEMMA AloneAnswers ==
    ASSUME IInv, SInv, OneAtATime', NEW p \in Procs, BindingAgain(p)
    PROVE  CallsUndisturbed' /\ AnswersMarked' /\ BoundTogether'
  <1>. DEFINE l == loc[p]
  <1>1. /\ pc[p] = "binding_again" /\ l \in Locals
        /\ KnowsRequest("binding_again", l, requests)
        /\ Undisturbed("binding_again", l, channels, answers, requests)
        /\ UNCHANGED <<channels, requests, fails>>
    BY CallKnows DEF SInv, CallsUndisturbed, BindingAgain, Store
  <1>. USE DEF IInv, SInv
  <1>2. AnswersMarked'
    <2>1. CASE l.op = "verify"
      <3>1. /\ l.req \in Requests /\ requests[l.req] # None /\ requests[l.req].done
            /\ answers[l.req] = 0
        BY <1>1, <2>1 DEF KnowsRequest, Undisturbed, Answering, LinkSteps
      <3>2. answers' = [answers EXCEPT ![l.req] = @ + 1]
        BY <2>1 DEF BindingAgain
      <3>. QED  BY <1>1, <3>1, <3>2, AnswerOnce
    <2>2. CASE l.op # "verify"
      BY <1>1, <2>2, StillMarked DEF BindingAgain
    <2>. QED  BY <2>1, <2>2
  <1>3. Answering("find", l) => answers' = answers /\ Answering("binding_again", l)
    BY <1>1 DEF Answering, LinkSteps, BindingAgain
  <1>4. CASE Return(p)
    BY <1>1, <1>2, <1>4, AloneEnds, NotBinding DEF Return
  <1>5. CASE Goto(p, "find", l)
    <2>1. Undisturbed("find", l, channels', answers', requests')
      BY <1>1, <1>3 DEF Undisturbed
    <2>. QED  BY <1>1, <1>2, <1>5, <2>1, AloneGoesOn, NotBinding
  <1>. QED  BY <1>4, <1>5 DEF BindingAgain

\* The second loop writes a candidate that is free or the user's own.
LEMMA AloneBinds ==
    ASSUME IInv, SInv, NEW p \in Procs, Bind(p)
    PROVE  /\ HandlesKeepUsers
           /\ LET l == loc[p] IN
                 /\ Range(Candidates[l.handle]) =
                       {Candidates[l.handle][j] : j \in 1..Len(Candidates[l.handle])}
                 /\ Candidates[l.handle][l.i] \in Handles
                 /\ channels' = [channels EXCEPT ![Candidates[l.handle][l.i]] = l.user]
                 /\ l.user # None /\ l.handle \in Handles
                 /\ l.i \in 1..Len(Candidates[l.handle])
                 /\ Len(Candidates[l.handle]) \in Nat
                 /\ FreeFor(l.user, l.handle, Len(Candidates[l.handle]), channels)
                 /\ FreeFor(l.user, l.handle, Len(Candidates[l.handle]), channels')
                 /\ Bound(l.handle, l.i, channels')
  <1>. DEFINE l == loc[p]
              n == Len(Candidates[l.handle])
              c == Candidates[l.handle][l.i]
  <1>1. /\ pc[p] = "bind" /\ l \in Locals /\ l.user \in users
        /\ l.handle \in Handles /\ l.i \in 1..n
        /\ FreeFor(l.user, l.handle, n, channels)
        /\ Bound(l.handle, l.i - 1, channels)
        /\ channels' = [channels EXCEPT ![c] = l.user]
    BY CallKnows DEF SInv, CallsUndisturbed, Undisturbed, KnowsUser, KnowsPlace,
                     LinkSteps, HasBound, Bind, Candidate
  <1>2. /\ \A j \in 1..n : Candidates[l.handle][j] \in Handles
        /\ n \in Nat
        /\ Range(Candidates[l.handle]) = {Candidates[l.handle][j] : j \in 1..n}
    <2>1. Candidates[l.handle] \in Seq(Handles)
      BY <1>1, CandidateType
    <2>2. n \in Nat
      BY <2>1
    <2>. QED  BY <1>1, <2>2, CandidateType
  <1>3. /\ c \in Handles /\ l.user # None
        /\ channels \in [Handles -> Opt(Users)]
    <2>1. c \in Handles
      BY <1>1, <1>2
    <2>2. users \subseteq Users /\ channels \in [Handles -> Opt(Users)]
      BY DEF IInv, TypeOK
    <2>. QED  BY <1>1, <2>1, <2>2, IdentityAssumption
  <1>4. channels'[c] = l.user /\ \A h \in Handles \ {c} : channels'[h] = channels[h]
    BY <1>1, <1>3
  <1>5. HandlesKeepUsers
    BY <1>1, <1>4 DEF HandlesKeepUsers, FreeFor
  <1>6. FreeFor(l.user, l.handle, n, channels')
    BY <1>1, <1>2, <1>4 DEF FreeFor
  <1>7. Bound(l.handle, l.i, channels')
    <2>. SUFFICES ASSUME NEW j \in 1..l.i
                  PROVE  channels'[Candidates[l.handle][j]] # None
      BY DEF Bound
    <2>1. j = l.i \/ j \in 1..(l.i - 1)
      BY <1>1
    <2>2. j \in 1..n
      BY <1>1
    <2>. QED  BY <1>2, <1>3, <1>4, <1>1, <2>1, <2>2 DEF Bound
  <1>. QED  BY <1>1, <1>2, <1>3, <1>5, <1>6, <1>7

\* A binding is written with all candidates of a handle, or with the rest of
\* them to come.
LEMMA AloneBindsTogether ==
    ASSUME IInv, SInv, OneAtATime', NEW p \in Procs, Bind(p)
    PROVE  CallsUndisturbed' /\ AnswersMarked' /\ BoundTogether'
  <1>. PICK l, n, c : /\ l = loc[p] /\ n = Len(Candidates[l.handle])
                      /\ c = Candidates[l.handle][l.i]
    OBVIOUS
  <1>1. /\ Range(Candidates[l.handle]) = {Candidates[l.handle][j] : j \in 1..n}
        /\ c \in Handles /\ channels' = [channels EXCEPT ![c] = l.user]
        /\ l.user # None /\ l.handle \in Handles /\ l.i \in 1..n /\ n \in Nat
        /\ FreeFor(l.user, l.handle, n, channels)
        /\ FreeFor(l.user, l.handle, n, channels')
        /\ Bound(l.handle, l.i, channels')
    BY AloneBinds
  <1>2. /\ l \in Locals /\ Undisturbed("bind", l, channels, answers, requests)
        /\ UNCHANGED <<requests, answers, fails>> /\ pc[p] = "bind"
        /\ KnowsRequest("bind", l, requests)
    BY CallKnows DEF SInv, CallsUndisturbed, Bind, Notes
  <1>3. AnswersMarked'
    BY <1>2, StillMarked DEF SInv
  <1>4. PICK next, first : /\ next = [l EXCEPT !.i = @ + 1]
                           /\ first = [l EXCEPT !.i = 1]
    OBVIOUS
  <1>5. /\ next.op = l.op /\ next.req = l.req /\ next.user = l.user
        /\ next.handle = l.handle
        /\ first.op = l.op /\ first.req = l.req /\ first.i = 1
    BY <1>2, <1>4 DEF Locals
  <1>6. \/ l.i = n /\ \E step \in {"idle", "device", "mark"} :
                        /\ step = AfterLink(l) /\ Goto(p, step, first)
        \/ l.i # n /\ Goto(p, "bind", next)
    BY <1>2, <1>4 DEF Bind, Advance, Last, AfterLink
  <1>. USE DEF IInv, SInv
  <1>7. CallsUndisturbed'
    <2>1. CASE l.i # n /\ Goto(p, "bind", next)
      <3>1. Undisturbed("bind", next, channels', answers', requests')
        BY <1>1, <1>2, <1>5 DEF Undisturbed, Answering
      <3>. QED  BY <1>2, <2>1, <3>1, AloneGoesOn
    <2>2. ASSUME NEW step \in {"idle", "device", "mark"}, step = AfterLink(l),
                 Goto(p, step, first)
          PROVE  CallsUndisturbed'
      <3>1. step # "idle" => l.op = "complete"
        BY <2>2 DEF AfterLink
      <3>2. step # "idle" => Undisturbed(step, first, channels', answers', requests')
        BY <1>2, <1>5, <3>1 DEF Undisturbed, Answering
      <3>. QED  BY <1>2, <2>2, <3>2, AloneGoesOn
    <2>. QED  BY <1>6, <2>1, <2>2
  <1>8. BoundTogether'
    <2>. SUFFICES ASSUME fails = 0, NEW h \in Handles, channels'[h] # None
                  PROVE  \/ \A d \in Range(Candidates[h]) : channels'[d] = channels'[h]
                         \/ BeingBound(h)'
      BY <1>2 DEF BoundTogether
    <2>1. channels \in [Handles -> Opt(Users)]
      BY DEF TypeOK
    <2>2. channels'[c] = l.user /\ \A g \in Handles \ {c} : channels'[g] = channels[g]
      BY <1>1, <2>1
    <2>3. \A g \in Range(Candidates[l.handle]) :
             channels[g] \in {None, l.user} /\ channels'[g] \in {None, l.user}
      BY <1>1 DEF FreeFor
    <2>4. /\ Range(Candidates[h]) \subseteq Handles
          /\ \A g \in Range(Candidates[l.handle]) :
                Range(Candidates[g]) \subseteq Range(Candidates[l.handle])
      BY <1>1, CandidateType, NestedSpellings
    <2>5. CASE h \in Range(Candidates[l.handle])
      <3>1. CASE l.i # n
        <4>1. Goto(p, "bind", next)
          BY <1>6, <3>1
        <4>2. pc'[p] = "bind" /\ loc'[p] = next
          BY <4>1 DEF Goto, TypeOK
        <4>. QED  BY <1>5, <2>5, <4>2 DEF BeingBound
      <3>2. CASE l.i = n
        <4>1. \A g \in Range(Candidates[l.handle]) : channels'[g] # None
          BY <1>1, <3>2 DEF Bound
        <4>. QED  BY <2>3, <2>4, <2>5, <4>1
      <3>. QED  BY <3>1, <3>2
    <2>6. CASE h \notin Range(Candidates[l.handle])
      <3>1. channels'[h] = channels[h]
        BY <1>1, <2>2, <2>6
      <3>2. ~BeingBound(h)
        BY <1>2, <2>6 DEF BeingBound, OneAtATime
      <3>3. \A d \in Range(Candidates[h]) : channels[d] = channels[h]
        BY <3>1, <3>2 DEF BoundTogether
      <3>4. HandlesKeepUsers
        BY AloneBinds
      <3>. QED  BY <2>4, <3>1, <3>3, <3>4 DEF HandlesKeepUsers
    <2>. QED  BY <2>5, <2>6
  <1>. QED  BY <1>3, <1>7, <1>8

-----------------------------------------------------------------------------
(* The theorems on calls one at a time.                                     *)

LEMMA InitSequential == Init => SInv
  <1>. SUFFICES ASSUME Init PROVE SInv
    OBVIOUS
  <1>1. OneAtATime /\ CallsUndisturbed
    BY DEF Init, OneAtATime, CallsUndisturbed, Undisturbed, Answering
  <1>2. AnswersMarked /\ BoundTogether
    BY DEF Init, AnswersMarked, BoundTogether
  <1>. QED  BY <1>1, <1>2 DEF SInv

\* A step beside which no call runs keeps the invariant, and no handle changes
\* its user.
LEMMA NextSequential ==
    ASSUME IInv, SInv, Next, OneAtATime'
    PROVE  SInv' /\ HandlesKeepUsers
  <1>1. CASE \E p \in Procs : Bind(p)
    BY <1>1, AloneBinds, AloneBindsTogether DEF SInv
  <1>2. ASSUME NEW p \in Procs, StartCall(p) \/ (Call(p) /\ ~Bind(p))
        PROVE  SInv' /\ channels' = channels
    <2>1. SInv'
      BY <1>2, AloneStarts, AloneFails, AloneReads, AloneLooks, AloneMarks,
         AloneAnswers DEF Call, SInv
    <2>2. channels' = channels
      BY <1>2 DEF StartCall, StartComplete, StartVerify, StartResolve, Call, Register,
                  Check, PairDevice, Mark, Owner, Binding, OwnerAgain, BindingAgain,
                  Find, Fail, Store
    <2>. QED  BY <2>1, <2>2
  <1>3. CASE \/ \E r \in Requests, h \in Opt(Handles), d \in Opt(Devices) :
                   IssuePairing(r, h, d)
             \/ \E r \in Requests, d \in Devices : IssueChallenge(r, d)
             \/ \E r \in Requests : Expire(r)
             \/ \E u \in Users, d \in Devices : CliPair(u, d)
             \/ \E d \in Devices : CliRevoke(d)
    <2>1. SInv'
      BY <1>3, AroundCalls DEF SInv
    <2>2. channels' = channels
      BY <1>3 DEF IssuePairing, IssueChallenge, Issue, Expire, CliPair, CliRevoke
    <2>. QED  BY <2>1, <2>2 DEF HandlesKeepUsers
  <1>. QED  BY <1>1, <1>2, <1>3 DEF Next, HandlesKeepUsers

\* When no handle is being bound, or just one, its spellings agree: two
\* candidates have one in common.
LEMMA TogetherAgree ==
    ASSUME IInv, SInv, fails = 0
    PROVE  SpellingsAgree
  <1>. SUFFICES ASSUME NEW h \in Handles, NEW c \in Range(Candidates[h]),
                       NEW d \in Range(Candidates[h]),
                       channels[c] # None, channels[d] # None
                PROVE  channels[c] = channels[d]
    BY DEF SpellingsAgree
  <1>1. c \in Handles /\ d \in Handles
    BY CandidateType
  <1>2. PICK e \in Range(Candidates[c]) : e \in Range(Candidates[d])
    BY NestedSpellings
  <1>3. ASSUME NEW g \in {c, d} PROVE channels[e] = channels[g] \/ BeingBound(g)
    BY <1>1, <1>2 DEF SInv, BoundTogether
  <1>4. ASSUME NEW p \in Procs, pc[p] = "bind", NEW g \in Range(Candidates[loc[p].handle])
        PROVE  /\ loc[p].handle \in Handles
               /\ channels[g] \in {None, loc[p].user}
               /\ Range(Candidates[g]) \subseteq Range(Candidates[loc[p].handle])
    <2>1. loc[p].handle \in Handles
      BY <1>4, CallKnows DEF KnowsPlace, LinkSteps
    <2>2. FreeFor(loc[p].user, loc[p].handle, Len(Candidates[loc[p].handle]), channels)
      BY <1>4 DEF SInv, CallsUndisturbed, Undisturbed
    <2>3. Range(Candidates[loc[p].handle]) =
             {Candidates[loc[p].handle][j] : j \in 1..Len(Candidates[loc[p].handle])}
      BY <2>1, CandidateType
    <2>. QED  BY <1>4, <2>1, <2>2, <2>3, NestedSpellings DEF FreeFor
  <1>5. ASSUME NEW a \in {c, d}, NEW b \in {c, d}, BeingBound(a)
        PROVE  channels[a] = channels[b]
    <2>1. PICK p \in Procs : pc[p] = "bind" /\ a \in Range(Candidates[loc[p].handle])
      BY <1>5 DEF BeingBound
    <2>2. e \in Range(Candidates[loc[p].handle])
      BY <1>2, <1>4, <2>1
    <2>3. channels[e] \in {None, loc[p].user} /\ channels[a] = loc[p].user
      BY <1>4, <2>1, <2>2
    <2>4. CASE BeingBound(b)
      <3>1. b \in Range(Candidates[loc[p].handle])
        BY <2>1, <2>4 DEF BeingBound, SInv, OneAtATime
      <3>. QED  BY <1>4, <2>1, <2>3, <3>1
    <2>5. CASE ~BeingBound(b)
      BY <1>3, <2>3, <2>5
    <2>. QED  BY <2>4, <2>5
  <1>. QED  BY <1>3, <1>5

\* The invariants of any calls, and those of calls one at a time.
MInv == IInv /\ overlap \in BOOLEAN /\ (overlap = FALSE => SInv)

LEMMA InvariantOfInstances == MCSpec => []MInv
  <1>1. MCInit => MInv
    BY InitInv, InitSequential DEF MCInit, MInv
  <1>2. MInv /\ [MCNext]_mcvars => MInv'
    <2>. SUFFICES ASSUME MInv, [MCNext]_mcvars PROVE MInv'
      OBVIOUS
    <2>1. IInv' /\ overlap' = overlap
      BY NextInv DEF MCNext, mcvars, MInv
    <2>2. CASE MCNext
      BY <2>1, <2>2, NextSequential DEF MCNext, MInv
    <2>3. CASE UNCHANGED mcvars
      <3>1. SInv => SInv'
        BY <2>3 DEF mcvars, vars, SInv, OneAtATime, CallsUndisturbed, AnswersMarked,
                    BoundTogether, BeingBound
      <3>. QED  BY <2>1, <3>1 DEF MInv
    <2>. QED  BY <2>2, <2>3
  <1>. QED  BY <1>1, <1>2, PTL DEF MCSpec

\* Calls one at a time answer a request once, however often they fail half-way,
\* and keep the spellings of a handle together as long as none has failed.
THEOREM SequentialAnswersHold == MCSpec => []SequentialAnswers
  <1>1. MInv => SequentialAnswers
    <2>. SUFFICES ASSUME MInv, overlap = FALSE
                  PROVE  AnsweredOnce /\ (fails = 0 => SpellingsAgree)
      BY DEF SequentialAnswers, MInv
    <2>1. AnsweredOnce
      BY DEF MInv, SInv, AnswersMarked, AnsweredOnce, IInv, TypeOK
    <2>. QED  BY <2>1, TogetherAgree DEF MInv
  <1>. QED  BY <1>1, InvariantOfInstances, PTL

\* Calls one at a time never take a handle from its user, however often they
\* fail half-way.
THEOREM SequentialHandlesStay == MCSpec => SequentialHandlesKeepUsers
  <1>1. MInv /\ [MCNext]_mcvars => [~overlap => HandlesKeepUsers]_mcvars
    <2>. SUFFICES ASSUME MInv, MCNext, overlap = FALSE PROVE HandlesKeepUsers
      BY DEF mcvars, MInv
    <2>. QED  BY NextSequential DEF MCNext, MInv
  <1>. QED  BY <1>1, InvariantOfInstances, PTL DEF MCSpec, SequentialHandlesKeepUsers
=============================================================================
