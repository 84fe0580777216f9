------------------------------ MODULE Identity ------------------------------
(***************************************************************************)
(* The identity store (crates/ngenorca-identity) and the calls that change *)
(* it: the pairing and challenge routes, the resolution of a signed        *)
(* message (gateway/src/runtime_identity.rs), and the operator's CLI,      *)
(* which is another process on the same database.                          *)
(*                                                                         *)
(* Every method of IdentityStore takes the connection's mutex, runs one    *)
(* SQL statement and releases it, so one statement is one step, and what   *)
(* IdentityManager builds from several of them is not atomic.              *)
(* find_by_device is two statements: the owner of the device, then that    *)
(* user's bindings.                                                        *)
(*                                                                         *)
(* Abstractions: a binding is the user it leads to; names, roles, nonces   *)
(* and keys are left out, a signature check may go either way; a request   *)
(* that fails before it writes anything is not an action; a call links at  *)
(* most one handle of its caller.                                          *)
(***************************************************************************)
EXTENDS Integers, Sequences, FiniteSets, Functions

CONSTANTS Procs,       \* concurrent requests to the gateway
          Users, Devices,
          Handles,     \* handles of one channel kind, as they are written
          Candidates,  \* channel_handle_candidates, per handle
          Requests,    \* ids of pairing and challenge requests
          None,        \* Option::None
          MaxFails     \* bound: statements that fail, or calls cut by a crash

Opt(S) == S \cup {None}

Request == [kind: {"pairing", "challenge"}, handle: Opt(Handles),
            device: Opt(Devices), done: BOOLEAN, expired: BOOLEAN]

ASSUME IdentityAssumption ==
    /\ None \notin Users \cup Devices \cup Handles \cup Request
    /\ Candidates \in [Handles -> Seq(Handles)]
    /\ \A h \in Handles : h \in Range(Candidates[h])
    /\ MaxFails \in Nat

VARIABLES users,     \* the users table
          devices,   \* device_bindings: the user of each device
          channels,  \* channel_bindings: the user of each handle
          requests,  \* pairing_requests and challenge_requests
          pc, loc,   \* per process: next statement and local variables
          panicked,  \* whether an expect() has failed
          answers,   \* history: times each request was answered with Ok
          fails

vars == <<users, devices, channels, requests, pc, loc, panicked, answers, fails>>

(* The locals of a call: `user` is whom it pairs or has resolved, `owner`   *)
(* the owner found by the second of two reads, `handle` what it links and   *)
(* `i` the candidate it is at, `key` whether a public key or a signature    *)
(* was supplied.                                                           *)
Locals == [op: {"complete", "verify", "resolve"}, req: Opt(Requests),
           user: Opt(Users), owner: Opt(Users), device: Opt(Devices),
           handle: Opt(Handles), i: Nat, key: BOOLEAN]

NoLocals == [op |-> "resolve", req |-> None, user |-> None, owner |-> None,
             device |-> None, handle |-> None, i |-> 1, key |-> FALSE]

Steps == {"idle", "register", "find", "check", "bind", "device", "mark",
          "owner", "binding", "owner_again", "binding_again"}

Init == /\ users = {}
        /\ devices = [d \in Devices |-> None]
        /\ channels = [h \in Handles |-> None]
        /\ requests = [r \in Requests |-> None]
        /\ pc = [p \in Procs |-> "idle"]
        /\ loc = [p \in Procs |-> NoLocals]
        /\ panicked = FALSE
        /\ answers = [r \in Requests |-> 0]
        /\ fails = 0

Goto(p, step, l) ==
    /\ pc' = [pc EXCEPT ![p] = step]
    /\ loc' = [loc EXCEPT ![p] = IF step = "idle" THEN NoLocals ELSE l]

Return(p) == Goto(p, "idle", NoLocals)

Store == <<users, devices, channels, requests>>
Notes == <<panicked, answers, fails>>

-----------------------------------------------------------------------------
(* Requests.                                                               *)

Issue(r, kind, h, d) ==
    /\ requests[r] = None
    /\ requests' = [requests EXCEPT ![r] =
                      [kind |-> kind, handle |-> h, device |-> d,
                       done |-> FALSE, expired |-> FALSE]]
    /\ UNCHANGED <<users, devices, channels, pc, loc, Notes>>

IssuePairing(r, h, d) == (h # None \/ d # None) /\ Issue(r, "pairing", h, d)

\* The challenge route refuses an unknown device.
IssueChallenge(r, d) == devices[d] # None /\ Issue(r, "challenge", None, d)

Expire(r) ==
    /\ requests[r] # None /\ ~requests[r].expired
    /\ requests' = [requests EXCEPT ![r].expired = TRUE]
    /\ UNCHANGED <<users, devices, channels, pc, loc, Notes>>

\* What both routes check before they act on a request.
Usable(r, kind) ==
    /\ requests[r] # None /\ requests[r].kind = kind
    /\ ~requests[r].done /\ ~requests[r].expired

-----------------------------------------------------------------------------
(* complete_pairing_request.                                               *)

StartComplete(p, r, u, key) ==
    /\ pc[p] = "idle"
    /\ Usable(r, "pairing")
    /\ Goto(p, "register",
            [NoLocals EXCEPT !.op = "complete", !.req = r, !.user = u,
               !.handle = requests[r].handle, !.device = requests[r].device,
               !.key = key])
    /\ UNCHANGED <<Store, Notes>>

\* Mutant: the user is registered last, with the completion.
RegisterNothing(p) ==
    /\ pc[p] = "register"
    /\ Goto(p, IF loc[p].handle # None THEN "check" ELSE "device", loc[p])
    /\ UNCHANGED <<Store, Notes>>

\* Where a completion goes on once the handle is linked.
AfterLink(l) == IF l.op # "complete" THEN "idle"
                ELSE IF l.device # None THEN "device" ELSE "mark"

Register(p) ==
    /\ pc[p] = "register"
    /\ users' = users \cup {loc[p].user}
    /\ Goto(p, IF loc[p].handle # None THEN "check" ELSE AfterLink(loc[p]),
            loc[p])
    /\ UNCHANGED <<devices, channels, requests, Notes>>

Candidate(p) == Candidates[loc[p].handle][loc[p].i]
Last(p)      == loc[p].i = Len(Candidates[loc[p].handle])

\* The next candidate at the same step, or the first of the step that follows.
Advance(p, then) ==
    IF Last(p) THEN Goto(p, then, [loc[p] EXCEPT !.i = 1])
               ELSE Goto(p, pc[p], [loc[p] EXCEPT !.i = @ + 1])

\* Mutant: only the handle as it is written is looked up.
CheckFirst(p) ==
    /\ pc[p] = "check"
    /\ IF channels[Candidate(p)] \in {None, loc[p].user}
       THEN Goto(p, "bind", loc[p])
       ELSE Return(p)
    /\ UNCHANGED <<Store, Notes>>

\* link_channel, first loop: no candidate may be another user's.
Check(p) ==
    /\ pc[p] = "check"
    /\ IF channels[Candidate(p)] \in {None, loc[p].user}
       THEN Advance(p, "bind")
       ELSE Return(p)
    /\ UNCHANGED <<Store, Notes>>

\* Mutant: only the handle as it is written is linked.
BindFirst(p) ==
    /\ pc[p] = "bind"
    /\ channels' = [channels EXCEPT ![Candidate(p)] = loc[p].user]
    /\ Goto(p, AfterLink(loc[p]), loc[p])
    /\ UNCHANGED <<users, devices, requests, Notes>>

\* link_channel, second loop: INSERT OR REPLACE of each candidate.
Bind(p) ==
    /\ pc[p] = "bind"
    /\ channels' = [channels EXCEPT ![Candidate(p)] = loc[p].user]
    /\ Advance(p, AfterLink(loc[p]))
    /\ UNCHANGED <<users, devices, requests, Notes>>

\* pair_device, when a public key came with the completion.
PairDevice(p) ==
    /\ pc[p] = "device"
    /\ IF loc[p].key
       THEN /\ devices' = [devices EXCEPT ![loc[p].device] = loc[p].user]
            /\ Goto(p, "mark", loc[p])
       ELSE Return(p) /\ UNCHANGED devices
    /\ UNCHANGED <<users, channels, requests, Notes>>

\* Mutant: the answer is given and the request stays open.
MarkNothing(p) ==
    /\ pc[p] = "mark"
    /\ answers' = [answers EXCEPT ![loc[p].req] = @ + 1]
    /\ Return(p)
    /\ UNCHANGED <<Store, panicked, fails>>

\* mark_pairing_request_completed, mark_challenge_request_verified.
Mark(p) ==
    LET r == loc[p].req IN
    /\ pc[p] = "mark"
    /\ requests' = [requests EXCEPT ![r].done = TRUE]
    /\ IF loc[p].op = "complete"
       THEN Return(p) /\ answers' = [answers EXCEPT ![r] = @ + 1]
       ELSE Goto(p, "owner_again", loc[p]) /\ UNCHANGED answers
    /\ UNCHANGED <<users, devices, channels, panicked, fails>>

-----------------------------------------------------------------------------
(* verify_challenge_response and resolve_from_device.                      *)

StartVerify(p, r, h) ==
    /\ pc[p] = "idle"
    /\ Usable(r, "challenge")
    /\ Goto(p, "owner", [NoLocals EXCEPT !.op = "verify", !.req = r,
                           !.device = requests[r].device, !.handle = h,
                           !.key = TRUE])
    /\ UNCHANGED <<Store, Notes>>

\* A chat or an inbound message that claims a device, signed or not.
StartResolve(p, d, h, signed) ==
    /\ pc[p] = "idle"
    /\ Goto(p, "owner", [NoLocals EXCEPT !.device = d, !.handle = h,
                           !.key = signed])
    /\ UNCHANGED <<Store, Notes>>

Owner(p) ==
    LET u == devices[loc[p].device] IN
    /\ pc[p] = "owner"
    /\ IF u = None THEN Return(p)
       ELSE Goto(p, "binding", [loc[p] EXCEPT !.user = u])
    /\ UNCHANGED <<Store, Notes>>

\* A challenge is verified with the binding just read; a signed message reads
\* it again first; one without a signature is resolved, at reduced trust.
Binding(p) ==
    LET l == loc[p] IN
    /\ pc[p] = "binding"
    /\ \/ l.op = "verify" /\ devices[l.device] = l.user /\ Goto(p, "mark", l)
       \/ l.op = "verify" /\ Return(p)
       \/ l.op = "resolve" /\ l.key /\ Goto(p, "owner_again", l)
       \/ l.op = "resolve" /\ ~l.key /\ Return(p)
    /\ UNCHANGED <<Store, Notes>>

\* expect("device was just resolved") for a message; for a challenge, the
\* user of the answer.
OwnerAgain(p) ==
    LET u == devices[loc[p].device] IN
    /\ pc[p] = "owner_again"
    /\ IF u = None THEN Return(p)
       ELSE Goto(p, "binding_again",
                 [loc[p] EXCEPT !.owner = u,
                    !.user = IF loc[p].op = "verify" THEN u ELSE @])
    /\ panicked' = (panicked \/ (u = None /\ loc[p].op = "resolve"))
    /\ UNCHANGED <<Store, answers, fails>>

\* expect("device binding exists") for a message.  A valid signature, or a
\* verified challenge, links the caller's handle to the user.
BindingAgain(p) ==
    LET l == loc[p]
        panics == l.op = "resolve" /\ devices[l.device] # l.owner IN
    /\ pc[p] = "binding_again"
    /\ \/ ~panics /\ l.handle # None /\ Goto(p, "find", l)
       \/ (panics \/ l.handle = None \/ l.op = "resolve") /\ Return(p)
    /\ panicked' = (panicked \/ panics)
    /\ answers' = IF l.op = "verify" THEN [answers EXCEPT ![l.req] = @ + 1]
                  ELSE answers
    /\ UNCHANGED <<Store, fails>>

\* Mutant: a handle is linked again whoever has it.
FindNothing(p) ==
    /\ pc[p] = "find"
    /\ Goto(p, "bind", loc[p])
    /\ UNCHANGED <<Store, Notes>>

\* try_link_channel_handle: a handle that resolves to anyone is left alone.
Find(p) ==
    /\ pc[p] = "find"
    /\ IF channels[Candidate(p)] # None THEN Return(p)
       ELSE Advance(p, "check")
    /\ UNCHANGED <<Store, Notes>>

-----------------------------------------------------------------------------
(* Failures and the CLI.                                                   *)

\* A statement fails, or the gateway crashes: the call ends where it is.
Fail(p) ==
    /\ pc[p] # "idle" /\ fails < MaxFails
    /\ fails' = fails + 1
    /\ Return(p)
    /\ UNCHANGED <<Store, panicked, answers>>

\* ngenorca identity pair: the device goes to the first of the registered
\* users; their order is left out.
CliPair(u, d) ==
    /\ u \in users
    /\ devices' = [devices EXCEPT ![d] = u]
    /\ UNCHANGED <<users, channels, requests, pc, loc, Notes>>

\* Mutant: the row is deleted, and with it the device.
CliForget(d) ==
    /\ devices' = [x \in Devices \ {d} |-> devices[x]]
    /\ UNCHANGED <<users, channels, requests, pc, loc, Notes>>

\* ngenorca identity revoke.
CliRevoke(d) ==
    /\ devices[d] # None
    /\ devices' = [devices EXCEPT ![d] = None]
    /\ UNCHANGED <<users, channels, requests, pc, loc, Notes>>

Call(p) == \/ Register(p) \/ Check(p) \/ Bind(p) \/ PairDevice(p) \/ Mark(p)
           \/ Owner(p) \/ Binding(p) \/ OwnerAgain(p) \/ BindingAgain(p)
           \/ Find(p) \/ Fail(p)

StartCall(p) ==
    \/ \E r \in Requests : \/ \E u \in Users, key \in BOOLEAN :
                                StartComplete(p, r, u, key)
                           \/ \E h \in Opt(Handles) : StartVerify(p, r, h)
    \/ \E d \in Devices, h \in Opt(Handles), signed \in BOOLEAN :
         StartResolve(p, d, h, signed)

Next == \/ \E p \in Procs : StartCall(p) \/ Call(p)
        \/ \E r \in Requests :
             \/ \E h \in Opt(Handles), d \in Opt(Devices) : IssuePairing(r, h, d)
             \/ \E d \in Devices : IssueChallenge(r, d)
             \/ Expire(r)
        \/ \E u \in Users, d \in Devices : CliPair(u, d)
        \/ \E d \in Devices : CliRevoke(d)

Spec == Init /\ [][Next]_vars
-----------------------------------------------------------------------------
(* Properties.                                                             *)

\* Every variable keeps its type.
TypeOK ==
    /\ users \subseteq Users
    /\ devices \in [Devices -> Opt(Users)]
    /\ channels \in [Handles -> Opt(Users)]
    /\ requests \in [Requests -> Opt(Request)]
    /\ pc \in [Procs -> Steps]
    /\ loc \in [Procs -> Locals]
    /\ panicked \in BOOLEAN
    /\ answers \in [Requests -> Nat]
    /\ fails \in 0..MaxFails

\* Every binding leads to a registered user, although bindings are written by
\* other statements than users, with failures in between.
BindingsHaveUsers ==
    Range(devices) \cup Range(channels) \subseteq Opt(users)

\* A pairing that is marked completed has linked its handle in every spelling:
\* the mark comes last, so a call that fails half-way can be repeated.
CompletedIsLinked ==
    \A r \in Requests : LET q == requests[r] IN
        q # None /\ q.kind = "pairing" /\ q.done /\ q.handle # None =>
            \A c \in Range(Candidates[q.handle]) : channels[c] # None

\* A handle that is linked to a user stays his: link_channel writes with
\* INSERT OR REPLACE and relies on its first loop.
HandlesKeepUsers ==
    \A h \in Handles : channels[h] # None => channels'[h] = channels[h]

\* All spellings of a handle lead to one user.  The store's own test
\* (identity/src/lib.rs:530) has link_channel refuse a spelling of another
\* user's handle.
SpellingsAgree ==
    \A h \in Handles : \A c, d \in Range(Candidates[h]) :
        channels[c] # None /\ channels[d] # None => channels[c] = channels[d]

\* A request is good for one answer: later ones get "is already completed"
\* (identity/src/lib.rs:260) or "is already verified" (identity/src/lib.rs:363).
AnsweredOnce == \A r \in Requests : answers[r] <= 1

\* expect("device was just resolved") and expect("device binding exists")
\* (identity/src/resolver.rs:112, 118).
ResolveNeverPanics == ~panicked
=============================================================================
