----------------------------- MODULE AgentProofs -----------------------------
(***************************************************************************)
(* What the parts of the agent keep, whatever runs beside them.            *)
(***************************************************************************)
EXTENDS Agent, TLAPS

-----------------------------------------------------------------------------
(* Sequences.                                                              *)

LEMMA AppendFacts ==
    ASSUME NEW S, NEW s \in Seq(S), NEW x \in S, NEW t, t = Append(s, x)
    PROVE  /\ t \in Seq(S) /\ Len(s) \in Nat /\ Len(t) = Len(s) + 1
           /\ \A i \in 1..Len(s) : t[i] = s[i]
           /\ t[Len(t)] = x
  OBVIOUS

-----------------------------------------------------------------------------
(* Commands in their sandbox.                                              *)

Backends == {"direct", "container", "windows_job", "linux_unshare", "linux_prlimit",
             "macos_sandbox_exec"}
Runs     == [under : SUBSET SB!Controls, loose : BOOLEAN,
             outcome : {"success", "failure", "given_up"}]
Execs    == [pc : {"idle", "ready", "profiled", "running", "over", "error"},
             backend : Backends \cup {"none"}, under : SUBSET SB!Controls, loose : BOOLEAN,
             audit : [backend : Backends \cup {"none"}, gaps : SUBSET SB!Controls]]

CommandTypes ==
    /\ host \in [env : SB!Environments, enabled : BOOLEAN]
    /\ policy \in SB!Policies
    /\ exec \in [Executions -> Execs]
    /\ profile \in Executions \cup {NoOne}
    /\ ran \in [Executions -> Seq(Runs)]
    /\ overlapped \in BOOLEAN

\* How often a command may have run before a backend is given it.
Before(b) == CASE b = "linux_prlimit" -> 1 [] b = "direct" -> 2 [] OTHER -> 0

\* Of one execution: under way, every run so far has failed, and there are
\* few; alone, it finds its own profile and runs as its backend says; over, its
\* audit is that of its backend.
Alone(e) == ~overlapped =>
    /\ exec[e].pc = "profiled" => profile = e
    /\ exec[e].pc = "running" /\ ~exec[e].loose => exec[e].under = SB!Imposed(exec[e].backend)
FailedSoFar(e) ==
    /\ exec[e].pc = "idle" => ran[e] = << >>
    /\ SB!Underway(e) => /\ exec[e].backend \in Backends
                         /\ Len(ran[e]) <= Before(exec[e].backend)
                         /\ \A i \in 1..Len(ran[e]) : ran[e][i].outcome = "failure"
LastRun(e) == ran[e][Len(ran[e])]
Accounted(e) ==
    /\ \A i \in 1..(Len(ran[e]) - 1) : ran[e][i].outcome = "failure"
    /\ Len(ran[e]) <= 3
    /\ exec[e].pc = "over" => ran[e] # << >>
    /\ exec[e].pc = "over" /\ ~overlapped /\ ~LastRun(e).loose =>
           policy \subseteq LastRun(e).under \cup exec[e].audit.gaps

\* Until two overlap, one at most is under way.
OneAtATime == ~overlapped =>
    \A d, e \in Executions : SB!Underway(d) /\ SB!Underway(e) => d = e

CommandInv == /\ CommandTypes /\ OneAtATime
              /\ \A e \in Executions : Alone(e) /\ FailedSoFar(e) /\ Accounted(e)

\* Whatever a backend lists, it imposes.
LEMMA ListedImposed == \A b \in Backends \cup {"none"} : SB!Listed(b) \subseteq SB!Imposed(b)
  BY DEF Backends, SB!Listed, SB!Imposed, SB!Controls, SB!UnshareImposes, SB!PrlimitImposes,
         SB!JobImposes, SB!ProfileImposes

\* Another backend has one more run before it.
LEMMA NextRank ==
    \A b \in Backends : SB!NextBackend(b) # "none" =>
        /\ SB!NextBackend(b) \in Backends
        /\ Before(b) + 1 <= Before(SB!NextBackend(b))
  BY DEF Backends, SB!NextBackend, Before

LEMMA BlamedGoOn == \A b \in Backends : SB!Blamed(b) # {} => SB!NextBackend(b) # "none"
  BY DEF Backends, SB!NextBackend, SB!Blamed

LEMMA RankBounds == \A b \in Backends : Before(b) \in 0..2
  BY DEF Backends, Before

LEMMA ImposedControls == \A b : SB!Imposed(b) \subseteq SB!Controls
  BY DEF SB!Imposed, SB!Controls, SB!UnshareImposes, SB!PrlimitImposes,
         SB!JobImposes, SB!ProfileImposes

LEMMA PoliciesControls == \A p \in SB!Policies : p \subseteq SB!Controls
  BY DEF SB!Policies, SB!Controls

\* Initially no command has run.
LEMMA CommandInit == SB!Init => CommandInv
  <1>. SUFFICES ASSUME SB!Init PROVE CommandInv
    OBVIOUS
  <1>1. SB!NotStarted \in Execs
    BY DEF SB!NotStarted, SB!NoAudit, Execs
  <1>2. CommandTypes
    <2>1. << >> \in Seq(Runs)
      OBVIOUS
    <2>. QED  BY <1>1, <2>1 DEF SB!Init, CommandTypes
  <1>3. ASSUME NEW e \in Executions PROVE exec[e].pc = "idle" /\ ran[e] = << >>
    BY DEF SB!Init, SB!NotStarted
  <1>4. ASSUME NEW e \in Executions PROVE Alone(e) /\ FailedSoFar(e) /\ Accounted(e)
    <2>1. Len(ran[e]) = 0
      BY <1>3
    <2>. QED  BY <1>3, <2>1 DEF Alone, FailedSoFar, Accounted, LastRun, SB!Underway
  <1>. QED  BY <1>2, <1>3, <1>4 DEF CommandInv, OneAtATime, SB!Underway

\* What one execution does leaves the others as they were.
LEMMA OthersKept ==
    ASSUME CommandInv, NEW e \in Executions, UNCHANGED <<host, policy>>,
           overlapped' \in BOOLEAN, overlapped => overlapped',
           \A d \in Executions \ {e} : exec'[d] = exec[d] /\ ran'[d] = ran[d],
           UNCHANGED profile \/ SB!Underway(e)
    PROVE  \A d \in Executions \ {e} : Alone(d)' /\ FailedSoFar(d)' /\ Accounted(d)'
  <1>. SUFFICES ASSUME NEW d \in Executions \ {e}
                PROVE  Alone(d)' /\ FailedSoFar(d)' /\ Accounted(d)'
    OBVIOUS
  <1>1. exec'[d] = exec[d] /\ ran'[d] = ran[d] /\ Alone(d) /\ FailedSoFar(d) /\ Accounted(d)
    BY DEF CommandInv
  <1>2. Alone(d)'
    BY <1>1 DEF Alone, CommandInv, OneAtATime, SB!Underway
  <1>3. FailedSoFar(d)'
    BY <1>1 DEF FailedSoFar, SB!Underway
  <1>4. Accounted(d)'
    BY <1>1 DEF Accounted, LastRun
  <1>. QED  BY <1>2, <1>3, <1>4

\* A step of an execution that is already under way, or alone, overlaps nothing.
LEMMA StillOne ==
    ASSUME CommandInv, NEW e \in Executions,
           \A d \in Executions \ {e} : exec'[d] = exec[d],
           \/ UNCHANGED overlapped /\ SB!Underway(e)
           \/ overlapped' = (overlapped \/ \E d \in Executions : SB!Underway(d))
    PROVE  OneAtATime'
  BY DEF CommandInv, OneAtATime, SB!Underway

\* An execution begins.
LEMMA CommandStart == ASSUME CommandInv, NEW e \in Executions, SB!Start(e) PROVE CommandInv'
  <1>1. /\ exec' = [exec EXCEPT ![e].pc = "ready", ![e].backend = SB!FirstBackend]
        /\ UNCHANGED <<host, policy, profile, ran>>
        /\ overlapped' = (overlapped \/ \E d \in Executions : SB!Underway(d))
        /\ exec[e].pc = "idle"
    BY DEF SB!Start
  <1>2. SB!FirstBackend \in Backends
    BY DEF SB!FirstBackend, Backends
  <1>3. exec'[e] = [exec[e] EXCEPT !.pc = "ready", !.backend = SB!FirstBackend]
        /\ \A d \in Executions \ {e} : exec'[d] = exec[d]
    BY <1>1 DEF CommandInv, CommandTypes
  <1>4. exec'[e] \in Execs /\ exec'[e].pc = "ready" /\ exec'[e].backend \in Backends
    <2>1. exec[e] \in Execs
      BY DEF CommandInv, CommandTypes
    <2>. QED  BY <1>2, <1>3, <2>1 DEF Execs
  <1>5. CommandTypes'
    BY <1>1, <1>4 DEF CommandInv, CommandTypes
  <1>6. ran[e] = << >> /\ Len(ran[e]) = 0
    BY <1>1 DEF CommandInv, FailedSoFar
  <1>7. Alone(e)' /\ FailedSoFar(e)' /\ Accounted(e)'
    BY <1>1, <1>4, <1>6, RankBounds DEF Alone, FailedSoFar, Accounted, LastRun, SB!Underway
  <1>8. OneAtATime'
    BY <1>1, <1>3, StillOne
  <1>9. \A d \in Executions \ {e} : Alone(d)' /\ FailedSoFar(d)' /\ Accounted(d)'
    BY <1>1, <1>3, OthersKept DEF CommandInv, CommandTypes
  <1>. QED  BY <1>5, <1>7, <1>8, <1>9 DEF CommandInv

\* Before the command runs: the profile, a wrapper that fails, a command that
\* cannot be spawned.
LEMMA CommandQuiet ==
    ASSUME CommandInv, NEW e \in Executions,
           SB!WriteProfile(e) \/ SB!Reject(e) \/ SB!CannotSpawn(e)
    PROVE  CommandInv'
  <1>1. UNCHANGED <<host, policy, ran, overlapped>>
    BY DEF SB!WriteProfile, SB!Reject, SB!CannotSpawn
  <1>2. exec[e].pc \in {"ready", "profiled"} /\ exec[e] \in Execs /\ exec[e].backend \in Backends
    BY DEF SB!WriteProfile, SB!Reject, SB!CannotSpawn, SB!CanLaunch, CommandInv, CommandTypes,
           FailedSoFar, SB!Underway
  <1>3. SB!Underway(e)
    BY <1>2 DEF SB!Underway
  <1>4. /\ profile' \in Executions \cup {NoOne}
        /\ \A d \in Executions \ {e} : exec'[d] = exec[d] /\ ran'[d] = ran[d]
        /\ exec' = [exec EXCEPT ![e] = exec'[e]]
        /\ \/ /\ exec'[e] = [exec[e] EXCEPT !.pc = "profiled"]
              /\ profile' = e
           \/ exec'[e] = [exec[e] EXCEPT !.pc = "error"]
           \/ /\ SB!NextBackend(exec[e].backend) # "none"
              /\ exec'[e] = [exec[e] EXCEPT !.pc = "ready",
                                            !.backend = SB!NextBackend(exec[e].backend)]
    <2>1. CASE SB!WriteProfile(e)
      BY <2>1, <1>1 DEF SB!WriteProfile, CommandInv, CommandTypes
    <2>2. CASE SB!Reject(e)
      BY <2>2, <1>1 DEF SB!Reject, SB!GoOn, SB!DropProfile, CommandInv, CommandTypes
    <2>3. CASE SB!CannotSpawn(e)
      BY <2>3, <1>1 DEF SB!CannotSpawn, CommandInv, CommandTypes
    <2>. QED  BY <2>1, <2>2, <2>3
  <1>5. exec'[e] \in Execs
    BY <1>2, <1>4, NextRank DEF Execs
  <1>6. CommandTypes'
    BY <1>1, <1>4, <1>5 DEF CommandInv, CommandTypes
  <1>7. Alone(e)'
    BY <1>2, <1>4 DEF Alone, Execs
  <1>8. ran[e] \in Seq(Runs) /\ Len(ran[e]) \in Nat
    BY DEF CommandInv, CommandTypes
  <1>9. FailedSoFar(e)' /\ Accounted(e)'
    <2>1. \/ /\ exec'[e].backend \in Backends
             /\ Before(exec[e].backend) <= Before(exec'[e].backend)
          \/ exec'[e].pc = "error"
      <3>. DEFINE b == exec[e].backend
      <3>1. /\ b \in Backends /\ Before(b) \in 0..2
            /\ SB!NextBackend(b) # "none" => /\ SB!NextBackend(b) \in Backends
                                             /\ Before(b) + 1 <= Before(SB!NextBackend(b))
                                             /\ Before(SB!NextBackend(b)) \in 0..2
        BY <1>2, NextRank, RankBounds
      <3>2. CASE /\ SB!NextBackend(b) # "none"
                 /\ exec'[e] = [exec[e] EXCEPT !.pc = "ready",
                                               !.backend = SB!NextBackend(b)]
        BY <1>2, <3>1, <3>2 DEF Execs
      <3>3. CASE exec'[e].backend = b
        BY <3>1, <3>3
      <3>. QED  BY <1>2, <1>4, <3>2, <3>3 DEF Execs
    <2>2. /\ Before(exec[e].backend) \in 0..2
          /\ exec'[e].backend \in Backends => Before(exec'[e].backend) \in 0..2
      BY <1>2, RankBounds
    <2>3. exec'[e].pc \notin {"idle", "over"}
      BY <1>2, <1>4 DEF Execs
    <2>. QED  BY <1>1, <1>3, <1>8, <2>1, <2>2, <2>3 DEF CommandInv, FailedSoFar, Accounted, LastRun, SB!Underway
  <1>10. OneAtATime'
    BY <1>1, <1>3, <1>4, StillOne
  <1>11. \A d \in Executions \ {e} : Alone(d)' /\ FailedSoFar(d)' /\ Accounted(d)'
    BY <1>1, <1>3, <1>4, OthersKept DEF CommandInv, CommandTypes
  <1>. QED  BY <1>6, <1>7, <1>9, <1>10, <1>11 DEF CommandInv

\* The wrapper starts the command.
LEMMA CommandLaunch ==
    ASSUME CommandInv, NEW e \in Executions, NEW assigned \in BOOLEAN, SB!Launch(e, assigned)
    PROVE  CommandInv'
  <1>. DEFINE under == IF assigned /\ (exec[e].backend = "macos_sandbox_exec" => profile = e)
                       THEN SB!Imposed(exec[e].backend) ELSE {}
  <1>1. /\ UNCHANGED <<host, policy, profile, ran, overlapped>>
        /\ exec' = [exec EXCEPT ![e].pc = "running", ![e].under = under, ![e].loose = ~assigned]
        /\ exec[e].pc \in {"ready", "profiled"}
        /\ exec[e].backend = "macos_sandbox_exec" => exec[e].pc = "profiled"
    BY DEF SB!Launch, SB!CanLaunch
  <1>2. exec[e] \in Execs /\ SB!Underway(e) /\ under \subseteq SB!Controls
    BY <1>1, ImposedControls DEF CommandInv, CommandTypes, SB!Underway
  <1>3. /\ \A d \in Executions \ {e} : exec'[d] = exec[d] /\ ran'[d] = ran[d]
        /\ exec'[e] = [exec[e] EXCEPT !.pc = "running", !.under = under, !.loose = ~assigned]
    BY <1>1 DEF CommandInv, CommandTypes
  <1>4. /\ exec'[e] \in Execs /\ exec'[e].pc = "running" /\ exec'[e].backend = exec[e].backend
        /\ exec'[e].under = under /\ exec'[e].loose = ~assigned
    <2>. HIDE DEF under
    <2>. QED  BY <1>2, <1>3 DEF Execs
  <1>5. CommandTypes'
    <2>1. exec' = [exec EXCEPT ![e] = exec'[e]]
      BY <1>1 DEF CommandInv, CommandTypes
    <2>. QED  BY <1>1, <1>4, <2>1 DEF CommandInv, CommandTypes
  <1>6. Alone(e)'
    <2>1. ~overlapped /\ exec[e].pc = "profiled" => profile = e
      BY DEF CommandInv, Alone
    <2>. QED  BY <1>1, <1>4, <2>1 DEF Alone
  <1>7. FailedSoFar(e)' /\ Accounted(e)'
    BY <1>1, <1>2, <1>4 DEF CommandInv, FailedSoFar, Accounted, LastRun, SB!Underway
  <1>8. OneAtATime'
    BY <1>1, <1>2, <1>3, StillOne
  <1>9. \A d \in Executions \ {e} : Alone(d)' /\ FailedSoFar(d)' /\ Accounted(d)'
    BY <1>1, <1>2, <1>3, OthersKept DEF CommandInv, CommandTypes
  <1>. QED  BY <1>5, <1>6, <1>7, <1>8, <1>9 DEF CommandInv

LEMMA RanSequences ==
    ASSUME CommandInv, NEW e \in Executions
    PROVE  ran[e] \in Seq(Runs) /\ Len(ran[e]) \in Nat
  BY DEF CommandInv, CommandTypes

\* The command has run: it is given to the next backend only if it failed.
LEMMA CommandEnd ==
    ASSUME CommandInv, NEW e \in Executions, NEW outcome \in {"success", "failure", "given_up"},
           exec[e].pc = "running", UNCHANGED <<host, policy, overlapped>>,
           SB!DropProfile(e), SB!Ran(e, outcome),
           \/ SB!End(e)
           \/ outcome = "failure" /\ SB!Blamed(exec[e].backend) # {} /\ SB!GoOn(e)
    PROVE  CommandInv'
  <1>. DEFINE b == exec[e].backend
  <1>1. \/ SB!End(e)
        \/ outcome = "failure" /\ SB!Blamed(b) # {} /\ SB!GoOn(e)
    OBVIOUS
  <1>2. UNCHANGED <<host, policy, overlapped>> /\ exec[e].pc = "running" /\ SB!DropProfile(e)
    OBVIOUS
  <1>3. SB!Underway(e)
    BY <1>2 DEF SB!Underway
  <1>4. exec[e] \in Execs /\ b \in Backends /\ Before(b) \in 0..2
    BY <1>3, RankBounds DEF CommandInv, CommandTypes, FailedSoFar
  <1>. DEFINE last == [under |-> exec[e].under, loose |-> exec[e].loose, outcome |-> outcome]
  <1>5. /\ last \in Runs /\ last.under = exec[e].under /\ last.loose = exec[e].loose
        /\ last.outcome = outcome
    BY <1>1, <1>4 DEF Execs, Runs
  <1>6. ran[e] \in Seq(Runs) /\ Len(ran[e]) \in Nat
    BY RanSequences
  <1>7. /\ ran' = [ran EXCEPT ![e] = Append(@, last)]
        /\ ran'[e] = Append(ran[e], last)
        /\ ran'[e] \in Seq(Runs) /\ Len(ran'[e]) = Len(ran[e]) + 1 /\ ran'[e][Len(ran'[e])] = last
        /\ ran'[e] # << >>
        /\ \A i \in 1..Len(ran[e]) : ran'[e][i].outcome = "failure"
    <2>1. ran' = [ran EXCEPT ![e] = Append(@, last)]
      BY <1>1 DEF SB!Ran
    <2>2. ran'[e] = Append(ran[e], last)
      BY <2>1 DEF CommandInv, CommandTypes
    <2>3. \A i \in 1..Len(ran[e]) : ran[e][i].outcome = "failure"
      BY <1>3 DEF CommandInv, FailedSoFar
    <2>4. last \in Runs
      BY <1>5
    <2>. HIDE DEF last
    <2>5. /\ ran'[e] \in Seq(Runs) /\ Len(ran'[e]) = Len(ran[e]) + 1 /\ ran'[e][Len(ran'[e])] = last
          /\ \A i \in 1..Len(ran[e]) : ran'[e][i] = ran[e][i]
          /\ ran'[e] # << >>
      BY <1>6, <2>2, <2>4, AppendFacts
    <2>. QED  BY <2>1, <2>2, <2>3, <2>5
  <1>8. Len(ran'[e]) <= Before(b) + 1
    <2>1. Len(ran[e]) <= Before(b)
      BY <1>3 DEF CommandInv, FailedSoFar
    <2>. QED  BY <1>4, <1>6, <1>7, <2>1
  <1>9. /\ exec' = [exec EXCEPT ![e] = exec'[e]]
        /\ \/ exec'[e] = [exec[e] EXCEPT !.pc = "over", !.audit = SB!Audit(b)]
           \/ /\ outcome = "failure" /\ SB!Blamed(b) # {}
              /\ exec'[e] = [exec[e] EXCEPT !.pc = "ready", !.backend = SB!NextBackend(b)]
    <2>1. CASE SB!End(e)
      BY <2>1 DEF SB!End, CommandInv, CommandTypes
    <2>2. CASE outcome = "failure" /\ SB!Blamed(b) # {} /\ SB!GoOn(e)
      BY <2>2 DEF SB!GoOn, CommandInv, CommandTypes
    <2>. QED  BY <1>1, <2>1, <2>2
  <1>10. \A d \in Executions \ {e} : exec'[d] = exec[d] /\ ran'[d] = ran[d]
    BY <1>7, <1>9 DEF CommandInv, CommandTypes
  <1>11. OneAtATime'
    BY <1>2, <1>3, <1>10, StillOne
  <1>12. \A d \in Executions \ {e} : Alone(d)' /\ FailedSoFar(d)' /\ Accounted(d)'
    <2>1. overlapped \in BOOLEAN
      BY DEF CommandInv, CommandTypes
    <2>. QED  BY <1>2, <1>3, <1>10, <2>1, OthersKept
  <1>13. /\ exec'[e] \in Execs /\ Alone(e)' /\ FailedSoFar(e)' /\ Accounted(e)'
    <2>1. CASE exec'[e] = [exec[e] EXCEPT !.pc = "over", !.audit = SB!Audit(b)]
      <3>1. SB!Audit(b) = [backend |-> b, gaps |-> policy \ SB!Listed(b)]
            /\ policy \subseteq SB!Controls
        BY PoliciesControls DEF SB!Audit, CommandInv, CommandTypes
      <3>2. /\ exec'[e] \in Execs /\ exec'[e].pc = "over"
            /\ exec'[e].audit.gaps = policy \ SB!Listed(b)
        <4>1. policy \ SB!Listed(b) \in SUBSET SB!Controls
          BY <3>1
        <4>2. SB!Audit(b) \in [backend : Backends \cup {"none"}, gaps : SUBSET SB!Controls]
          BY <1>4, <3>1, <4>1
        <4>3. exec'[e] \in Execs /\ exec'[e].pc = "over" /\ exec'[e].audit = SB!Audit(b)
          BY <1>4, <2>1, <4>2 DEF Execs
        <4>. QED  BY <3>1, <4>3
      <3>3. ~overlapped /\ ~exec[e].loose => exec[e].under = SB!Imposed(b)
        BY <1>2 DEF CommandInv, Alone
      <3>4. SB!Listed(b) \subseteq SB!Imposed(b)
        BY <1>4, ListedImposed
      <3>5. ~overlapped' /\ ~ran'[e][Len(ran'[e])].loose =>
                policy' \subseteq ran'[e][Len(ran'[e])].under \cup exec'[e].audit.gaps
        <4>1. ran'[e][Len(ran'[e])].under = exec[e].under /\ ran'[e][Len(ran'[e])].loose = exec[e].loose
          BY <1>5, <1>7
        <4>. QED  BY <1>2, <3>2, <3>3, <3>4, <4>1
      <3>6. Len(ran'[e]) - 1 = Len(ran[e]) /\ Len(ran'[e]) <= 3 /\ ran'[e] # << >>
        BY <1>4, <1>6, <1>7, <1>8
      <3>7. Accounted(e)'
        BY <1>7, <3>5, <3>6 DEF Accounted, LastRun
      <3>. QED  BY <3>2, <3>7 DEF Alone, FailedSoFar, SB!Underway
    <2>2. CASE /\ outcome = "failure" /\ SB!Blamed(b) # {}
               /\ exec'[e] = [exec[e] EXCEPT !.pc = "ready", !.backend = SB!NextBackend(b)]
      <3>1. /\ SB!NextBackend(b) \in Backends
            /\ Before(b) + 1 <= Before(SB!NextBackend(b))
            /\ Before(SB!NextBackend(b)) \in 0..2
        BY <1>4, <2>2, NextRank, BlamedGoOn, RankBounds
      <3>2. /\ exec'[e] \in Execs /\ exec'[e].pc = "ready"
            /\ exec'[e].backend = SB!NextBackend(b)
        BY <1>4, <2>2, <3>1 DEF Execs
      <3>3. \A i \in 1..Len(ran'[e]) : ran'[e][i].outcome = "failure"
        <4>. HIDE DEF last
        <4>. QED  BY <1>5, <1>6, <1>7, <2>2
      <3>4. Len(ran'[e]) <= Before(exec'[e].backend) /\ Len(ran'[e]) <= 3 /\ Len(ran'[e]) \in Nat
        BY <1>4, <1>6, <1>7, <1>8, <3>1, <3>2
      <3>5. FailedSoFar(e)'
        BY <3>1, <3>2, <3>3, <3>4 DEF FailedSoFar
      <3>6. Accounted(e)'
        BY <3>2, <3>3, <3>4 DEF Accounted, LastRun
      <3>. QED  BY <3>2, <3>5, <3>6 DEF Alone
    <2>. QED  BY <1>9, <2>1, <2>2
  <1>14. CommandTypes'
    <2>1. profile' \in Executions \cup {NoOne}
      BY <1>2 DEF SB!DropProfile, CommandInv, CommandTypes
    <2>. QED  BY <1>2, <1>7, <1>9, <1>13, <2>1 DEF CommandInv, CommandTypes
  <1>. QED  BY <1>11, <1>12, <1>13, <1>14 DEF CommandInv

\* Every step of a command keeps the invariant.
LEMMA CommandStep == CommandInv /\ [SB!Next]_commands => CommandInv'
  <1>. SUFFICES ASSUME CommandInv, [SB!Next]_commands PROVE CommandInv'
    OBVIOUS
  <1>1. CASE UNCHANGED commands
    BY <1>1 DEF commands, CommandInv, CommandTypes, OneAtATime, Alone, FailedSoFar, Accounted, LastRun,
                SB!Underway
  <1>2. ASSUME NEW e \in Executions, SB!Start(e) PROVE CommandInv'
    BY <1>2, CommandStart
  <1>3. ASSUME NEW e \in Executions, SB!WriteProfile(e) \/ SB!Reject(e) \/ SB!CannotSpawn(e)
        PROVE  CommandInv'
    BY <1>3, CommandQuiet
  <1>4. ASSUME NEW e \in Executions, NEW assigned \in BOOLEAN, SB!Launch(e, assigned)
        PROVE  CommandInv'
    BY <1>4, CommandLaunch
  <1>5. ASSUME NEW e \in Executions, SB!TimeOut(e) PROVE CommandInv'
    BY <1>5, CommandEnd DEF SB!TimeOut
  <1>6. ASSUME NEW e \in Executions, NEW success \in BOOLEAN,
               NEW said \in {"denied", "missing", "nothing", "else"}, SB!Exit(e, success, said)
        PROVE  CommandInv'
    <2>1. /\ exec[e].pc = "running" /\ UNCHANGED <<host, policy, overlapped>> /\ SB!DropProfile(e)
          /\ SB!Ran(e, IF success THEN "success" ELSE "failure")
          /\ \/ SB!End(e)
             \/ ~success /\ SB!Blamed(exec[e].backend) # {} /\ SB!GoOn(e)
      BY <1>6 DEF SB!Exit, SB!Retries
    <2>2. CASE success
      BY <2>1, <2>2, CommandEnd
    <2>3. CASE ~success
      BY <2>1, <2>3, CommandEnd
    <2>. QED  BY <2>2, <2>3
  <1>. QED  BY <1>1, <1>2, <1>3, <1>4, <1>5, <1>6 DEF SB!Next

-----------------------------------------------------------------------------
(* A call of a model.                                                      *)

Wire == MD!Wire(MD!Provider, asked.conv)
Attempts == [wire : {Wire}, answer : Answers]

CallTypes ==
    /\ asked.conv \in Conversations
    /\ at \in {"resolve", "send", "wait", "answered", "failed"}
    /\ attempt \in 0..MD!MaxRetries
    /\ sent \in Seq(Attempts)
    /\ waits \in Seq(Nat)

\* Each attempt but the last failed in a way that may pass; before another one
\* is made, so did the last.
AttemptsFailed ==
    /\ \A i \in 1..Len(sent) :
           i < Len(sent) \/ at \in {"resolve", "send", "wait"} =>
               MD!Transient(MD!ErrorOf(sent[i].answer))
    /\ Len(sent) <= attempt + (IF at \in {"answered", "failed"} THEN 1 ELSE 0)

\* The back-off doubles, up to half of the most; each wait was for the failure
\* of the attempt before it.
Doubled(n) == CASE n = 0 -> 500 [] n = 1 -> 1000 [] n = 2 -> 2000 [] OTHER -> 4000

WaitsDouble ==
    /\ Len(waits) + (IF at = "wait" THEN 1 ELSE 0) <= attempt
    /\ Len(waits) <= Len(sent) /\ (at = "wait" => Len(sent) = Len(waits) + 1)
    /\ at = "send" => Len(sent) = Len(waits)
    /\ backoff = Doubled(Len(waits))
    /\ \A i \in 1..Len(waits) : waits[i] = MD!WaitFor(sent[i].answer, Doubled(i - 1))

\* The caller is told what came of the last attempt; one that comes to nothing
\* before the first is not followed by another.
ToldLast ==
    /\ at = "resolve" \/ MD!Speechless => sent = << >>
    /\ at = "answered" => sent # << >> /\ MD!Understood(MD!Provider, sent[Len(sent)].answer)
    /\ at = "failed" /\ sent # << >> => result = MD!ErrorOf(sent[Len(sent)].answer)

CallInv == CallTypes /\ AttemptsFailed /\ WaitsDouble /\ ToldLast

\* What a provider is sent leaves out only system messages that a later one
\* follows.
LEMMA WireComplete ==
    ASSUME NEW provider, NEW conv \in Conversations, NEW m \in DOMAIN conv,
           m \notin MD!Wire(provider, conv).system \cup MD!Wire(provider, conv).messages
    PROVE  \E n \in DOMAIN conv : n > m /\ conv[m] = "system" /\ conv[n] = "system"
  <1>1. DOMAIN conv \subseteq Int
    BY AgentAssumption DEF MD!ModelCallsAssumption
  <1>2. /\ m \in MD!Prompts(conv)
        /\ m \notin {k \in MD!Prompts(conv) : \A n \in MD!Prompts(conv) : n <= k}
    BY DEF MD!Wire, MD!AsTheyAre, MD!ToAnthropic
  <1>3. PICK n \in MD!Prompts(conv) : ~(n <= m)
    BY <1>2
  <1>. QED  BY <1>1, <1>2, <1>3 DEF MD!Prompts

LEMMA CallInvSuffices == CallInv => MD!SendsAccounted
  <1>. SUFFICES ASSUME CallInv PROVE MD!SendsAccounted
    OBVIOUS
  <1>1. \A i \in 1..Len(sent) : sent[i] \in Attempts
    BY DEF CallInv, CallTypes
  <1>2. DOMAIN sent = 1..Len(sent) /\ Len(sent) \in Nat
    BY DEF CallInv, CallTypes
  <1>3. ASSUME NEW i \in DOMAIN sent
        PROVE  /\ i < Len(sent) => MD!Transient(MD!ErrorOf(sent[i].answer))
               /\ sent[i].wire = sent[1].wire
               /\ \A m \in DOMAIN asked.conv :
                      \/ m \in sent[i].wire.system \cup sent[i].wire.messages
                      \/ \E n \in DOMAIN asked.conv :
                             n > m /\ asked.conv[m] = "system" /\ asked.conv[n] = "system"
    <2>1. sent[i].wire = Wire /\ sent[1].wire = Wire
      BY <1>1, <1>2 DEF Attempts
    <2>2. i < Len(sent) => MD!Transient(MD!ErrorOf(sent[i].answer))
      BY <1>2 DEF CallInv, AttemptsFailed
    <2>3. asked.conv \in Conversations
      BY DEF CallInv, CallTypes
    <2>. QED  BY <2>1, <2>2, <2>3, WireComplete DEF Wire
  <1>4. Len(sent) <= MD!MaxRetries + 1
    BY <1>2 DEF CallInv, CallTypes, AttemptsFailed, MD!MaxRetries
  <1>5. Len(waits) <= Len(sent) /\ \A i \in DOMAIN waits :
              waits[i] = MD!WaitFor(sent[i].answer, CASE i = 1 -> MD!InitialBackoff
                                                      [] i = 2 -> 2 * MD!InitialBackoff
                                                      [] OTHER -> 4 * MD!InitialBackoff)
    <2>1. DOMAIN waits = 1..Len(waits) /\ Len(waits) \in Nat /\ Len(waits) <= 3
      BY DEF CallInv, CallTypes, WaitsDouble, MD!MaxRetries
    <2>. SUFFICES ASSUME NEW i \in DOMAIN waits
                  PROVE  Doubled(i - 1) = CASE i = 1 -> MD!InitialBackoff
                                            [] i = 2 -> 2 * MD!InitialBackoff
                                            [] OTHER -> 4 * MD!InitialBackoff
      BY <2>1 DEF CallInv, WaitsDouble
    <2>. QED  BY <2>1 DEF Doubled, MD!InitialBackoff
  <1>6. /\ at = "answered" => MD!Understood(MD!Provider, MD!Last(sent).answer)
        /\ at = "failed" /\ sent # << >> => result = MD!ErrorOf(MD!Last(sent).answer)
    BY DEF CallInv, ToldLast, MD!Last
  <1>. QED  BY <1>3, <1>4, <1>5, <1>6 DEF MD!SendsAccounted

\* Initially nothing was sent.
LEMMA CallInit == MD!Init => CallInv
  <1>. SUFFICES ASSUME MD!Init PROVE CallInv
    OBVIOUS
  <1>1. Len(<< >>) = 0 /\ << >> \in Seq(Attempts) /\ << >> \in Seq(Nat)
    OBVIOUS
  <1>2. /\ asked.conv \in Conversations /\ at = "resolve" /\ attempt = 0 /\ backoff = 500
        /\ sent = << >> /\ waits = << >> /\ Len(sent) = 0 /\ Len(waits) = 0
    BY <1>1 DEF MD!Init, MD!InitialBackoff
  <1>3. CallTypes
    BY <1>1, <1>2 DEF CallTypes, MD!MaxRetries
  <1>4. AttemptsFailed /\ ToldLast
    BY <1>2 DEF AttemptsFailed, ToldLast
  <1>5. WaitsDouble
    BY <1>2 DEF WaitsDouble, Doubled
  <1>. QED  BY <1>3, <1>4, <1>5 DEF CallInv

\* The provider is looked up; Anthropic may have nothing to be sent.
LEMMA CallQuiet == ASSUME CallInv, MD!Resolve \/ MD!NothingToSend PROVE CallInv'
  <1>1. /\ UNCHANGED <<setup, asked, attempt, backoff, sent, waits>>
        /\ at \in {"resolve", "send"} /\ at' \in {"send", "failed"}
        /\ at' = "failed" => at = "resolve" \/ MD!Speechless
    BY DEF MD!Resolve, MD!NothingToSend, MD!Pending
  <1>2. MD!Provider' = MD!Provider /\ (MD!Speechless' <=> MD!Speechless) /\ Wire' = Wire
    BY <1>1 DEF MD!Provider, MD!Speechless, Wire
  <1>3. at = "resolve" \/ MD!Speechless => sent = << >>
    BY DEF CallInv, ToldLast
  <1>4. CallTypes'
    BY <1>1, <1>2 DEF CallInv, CallTypes, Attempts
  <1>5. AttemptsFailed'
    <2>1. Len(sent) \in Nat /\ Len(sent) <= attempt /\ attempt \in Nat
      BY <1>1 DEF CallInv, CallTypes, AttemptsFailed, MD!MaxRetries
    <2>. QED  BY <1>1, <2>1 DEF CallInv, AttemptsFailed
  <1>6. WaitsDouble'
    <2>1. Len(sent) \in Nat /\ Len(waits) \in Nat /\ Len(waits) <= Len(sent)
      BY DEF CallInv, CallTypes, WaitsDouble
    <2>2. at' = "send" => Len(sent) = Len(waits)
      <3>1. at = "resolve" => Len(sent) = 0
        BY <1>3
      <3>2. at = "send" => Len(sent) = Len(waits)
        BY DEF CallInv, WaitsDouble
      <3>. QED  BY <1>1, <2>1, <3>1, <3>2
    <2>. QED  BY <1>1, <2>1, <2>2 DEF CallInv, WaitsDouble, Doubled, MD!WaitFor, MD!ErrorOf,
                                      MD!HttpError, MD!Hint, MD!NoHint, MD!Capped
  <1>7. ToldLast'
    BY <1>1, <1>2, <1>3 DEF ToldLast
  <1>. QED  BY <1>4, <1>5, <1>6, <1>7 DEF CallInv

\* One more attempt: what it was answered decides.
LEMMA CallAttempt ==
    ASSUME CallInv, NEW a \in Answers, MD!Succeed(a) \/ MD!Retry(a) \/ MD!GiveUp(a)
    PROVE  CallInv'
  <1>. DEFINE new == [wire |-> Wire, answer |-> a]
  <1>1. /\ UNCHANGED <<setup, asked, backoff, waits>>
        /\ at = "send" /\ ~MD!Speechless /\ sent' = Append(sent, new)
    BY DEF MD!Succeed, MD!Retry, MD!GiveUp, MD!Pending, MD!Sends, Wire
  <1>2. \/ at' = "answered" /\ attempt' = attempt /\ MD!Understood(MD!Provider, a)
        \/ /\ at' = "wait" /\ attempt' = attempt + 1 /\ attempt < MD!MaxRetries
           /\ MD!Transient(MD!ErrorOf(a))
        \/ at' = "failed" /\ attempt' = attempt /\ result' = MD!ErrorOf(a)
    BY DEF MD!Succeed, MD!Retry, MD!GiveUp, MD!MayRetry
  <1>3. MD!Provider' = MD!Provider /\ (MD!Speechless' <=> MD!Speechless) /\ Wire' = Wire
    BY <1>1 DEF MD!Provider, MD!Speechless, Wire
  <1>4. new \in Attempts /\ new.answer = a
    BY DEF Attempts
  <1>. HIDE DEF new
  <1>5. sent \in Seq(Attempts) /\ attempt \in 0..MD!MaxRetries /\ Len(sent) <= attempt
    BY <1>1 DEF CallInv, CallTypes, AttemptsFailed
  <1>6. /\ sent' \in Seq(Attempts) /\ Len(sent) \in Nat /\ Len(sent') = Len(sent) + 1
        /\ \A i \in 1..Len(sent) : sent'[i] = sent[i]
        /\ sent'[Len(sent')] = new
    BY <1>1, <1>4, <1>5, AppendFacts
  <1>7. CallTypes'
    BY <1>1, <1>2, <1>3, <1>5, <1>6 DEF CallInv, CallTypes, Attempts, MD!MaxRetries
  <1>8. AttemptsFailed'
    <2>1. \A i \in 1..Len(sent) : MD!Transient(MD!ErrorOf(sent[i].answer))
      BY <1>1 DEF CallInv, AttemptsFailed
    <2>2. ASSUME NEW i \in 1..Len(sent'), i < Len(sent') \/ at' \in {"resolve", "send", "wait"}
          PROVE  MD!Transient(MD!ErrorOf(sent'[i].answer))
      <3>1. CASE i \in 1..Len(sent)
        BY <1>6, <2>1, <3>1
      <3>2. CASE i = Len(sent')
        BY <1>2, <1>4, <1>6, <2>2, <3>2
      <3>. QED  BY <1>6, <3>1, <3>2
    <2>3. Len(sent') <= attempt' + (IF at' \in {"answered", "failed"} THEN 1 ELSE 0)
      BY <1>2, <1>5, <1>6 DEF MD!MaxRetries
    <2>4. (\A i \in 1..Len(sent) : i < Len(sent) \/ at \in {"resolve", "send", "wait"} =>
               MD!Transient(MD!ErrorOf(sent[i].answer)))'
      BY <2>2 DEF MD!Transient, MD!ErrorOf, MD!HttpError
    <2>. QED  BY <2>3, <2>4 DEF AttemptsFailed
  <1>9. WaitsDouble'
    <2>1. attempt' \in Nat /\ attempt \in Nat /\ Len(waits) \in Nat /\ Len(waits) <= attempt
      BY <1>1, <1>2, <1>5 DEF CallInv, CallTypes, WaitsDouble, MD!MaxRetries
    <2>2. Len(waits) + (IF at' = "wait" THEN 1 ELSE 0) <= attempt'
      BY <1>2, <2>1
    <2>3. Len(sent) = Len(waits) /\ Len(waits) <= Len(sent') /\ at' # "send"
      BY <1>1, <1>2, <1>6 DEF CallInv, WaitsDouble
    <2>4. ASSUME NEW i \in 1..Len(waits)
          PROVE  waits[i] = MD!WaitFor(sent'[i].answer, Doubled(i - 1))
      <3>1. sent'[i] = sent[i]
        BY <1>6, <2>3
      <3>. QED  BY <3>1 DEF CallInv, WaitsDouble
    <2>5. (\A i \in 1..Len(waits) : waits[i] = MD!WaitFor(sent[i].answer, Doubled(i - 1)))'
      BY <1>1, <2>4 DEF Doubled, MD!WaitFor, MD!ErrorOf, MD!HttpError, MD!Hint, MD!NoHint,
                        MD!Capped
    <2>6. (backoff = Doubled(Len(waits)))'
      BY <1>1 DEF CallInv, WaitsDouble, Doubled
    <2>. QED  BY <1>1, <1>6, <2>2, <2>3, <2>5, <2>6 DEF WaitsDouble
  <1>10. ToldLast'
    <2>1. at' = "answered" => MD!Understood(MD!Provider, sent'[Len(sent')].answer)
      BY <1>2, <1>4, <1>6
    <2>2. at' = "failed" => result' = MD!ErrorOf(sent'[Len(sent')].answer)
      BY <1>2, <1>4, <1>6
    <2>3. at' # "resolve" /\ ~MD!Speechless' /\ sent' # << >>
      BY <1>1, <1>2, <1>3
    <2>. QED  BY <1>3, <2>1, <2>2, <2>3 DEF ToldLast, MD!Understood, MD!ErrorOf, MD!HttpError
  <1>. QED  BY <1>7, <1>8, <1>9, <1>10 DEF CallInv

\* A wait is over: no more than three are made, and none is hinted at.
LEMMA CallResume == ASSUME CallInv, MD!Resume PROVE CallInv'
  <1>. DEFINE wait == MD!WaitFor(MD!Last(sent).answer, backoff)
  <1>1. /\ UNCHANGED <<setup, asked, attempt, result, sent>>
        /\ at = "wait" /\ at' = "send" /\ waits' = Append(waits, wait)
        /\ backoff' = MD!Capped(2 * backoff)
    BY DEF MD!Resume, MD!Pending
  <1>2. MD!Provider' = MD!Provider /\ (MD!Speechless' <=> MD!Speechless) /\ Wire' = Wire
    BY <1>1 DEF MD!Provider, MD!Speechless, Wire
  <1>3. /\ waits \in Seq(Nat) /\ Len(waits) \in Nat /\ attempt \in 0..3
        /\ Len(waits) + 1 <= attempt /\ Len(sent) = Len(waits) + 1
    BY <1>1 DEF CallInv, CallTypes, WaitsDouble, MD!MaxRetries
  <1>4. backoff = Doubled(Len(waits))
    BY DEF CallInv, WaitsDouble
  <1>5. Len(waits) = 0 \/ Len(waits) = 1 \/ Len(waits) = 2
    <2>1. \A n, m \in Nat : n + 1 <= m /\ m <= 3 => n = 0 \/ n = 1 \/ n = 2
      OBVIOUS
    <2>2. attempt \in Nat /\ attempt <= 3
      BY <1>3
    <2>. QED  BY <1>3, <2>1, <2>2
  <1>6. backoff \in Nat /\ backoff' = Doubled(Len(waits) + 1)
    <2>1. Doubled(0) = 500 /\ Doubled(1) = 1000 /\ Doubled(2) = 2000 /\ Doubled(3) = 4000
      BY DEF Doubled
    <2>2. backoff' = IF 2 * backoff < 10000 THEN 2 * backoff ELSE 10000
      BY <1>1 DEF MD!Capped, MD!MaxBackoff
    <2>3. ASSUME NEW n \in {0, 1, 2}, Len(waits) = n
          PROVE  backoff = Doubled(n) /\ backoff' = Doubled(n + 1) /\ Len(waits) + 1 = n + 1
      <3>1. backoff = Doubled(n)
        BY <1>4, <2>3
      <3>2. n = 0 \/ n = 1 \/ n = 2
        OBVIOUS
      <3>3. Doubled(n + 1) = 2 * Doubled(n) /\ Doubled(n) \in {500, 1000, 2000}
        BY <2>1, <3>2
      <3>. QED  BY <2>2, <2>3, <3>1, <3>3
    <2>. QED  BY <1>5, <2>1, <2>3
  <1>7. wait = backoff /\ wait = MD!WaitFor(sent[Len(sent)].answer, backoff)
    BY DEF MD!WaitFor, MD!Hint, MD!NoHint, MD!Last
  <1>. HIDE DEF wait
  <1>8. /\ waits' \in Seq(Nat) /\ Len(waits') = Len(waits) + 1
        /\ \A i \in 1..Len(waits) : waits'[i] = waits[i]
        /\ waits'[Len(waits')] = wait
    BY <1>1, <1>3, <1>6, <1>7, AppendFacts
  <1>9. CallTypes'
    BY <1>1, <1>2, <1>8 DEF CallInv, CallTypes, Attempts
  <1>10. AttemptsFailed' /\ ToldLast'
    BY <1>1, <1>2 DEF CallInv, AttemptsFailed, ToldLast
  <1>11. WaitsDouble'
    <2>1. /\ Len(waits') + (IF at' = "wait" THEN 1 ELSE 0) <= attempt'
          /\ Len(waits') = Len(sent') /\ Len(sent') \in Nat
      BY <1>1, <1>3, <1>8
    <2>2. (backoff = Doubled(Len(waits)))'
      BY <1>6, <1>8 DEF Doubled
    <2>3. ASSUME NEW i \in 1..Len(waits')
          PROVE  waits'[i] = MD!WaitFor(sent[i].answer, Doubled(i - 1))
      <3>1. CASE i \in 1..Len(waits)
        BY <1>8, <3>1 DEF CallInv, WaitsDouble
      <3>2. CASE i = Len(waits')
        BY <1>3, <1>4, <1>7, <1>8, <3>2
      <3>. QED  BY <1>3, <1>8, <3>1, <3>2
    <2>4. (\A i \in 1..Len(waits) : waits[i] = MD!WaitFor(sent[i].answer, Doubled(i - 1)))'
      BY <1>1, <2>3 DEF Doubled, MD!WaitFor, MD!ErrorOf, MD!HttpError, MD!Hint, MD!NoHint,
                        MD!Capped
    <2>. QED  BY <1>1, <2>1, <2>2, <2>4 DEF WaitsDouble
  <1>. QED  BY <1>9, <1>10, <1>11 DEF CallInv

\* Every step of a call keeps the invariant.
LEMMA CallStep == CallInv /\ [MD!Next]_modelCall => CallInv'
  <1>. SUFFICES ASSUME CallInv, [MD!Next]_modelCall PROVE CallInv'
    OBVIOUS
  <1>1. CASE UNCHANGED modelCall
    BY <1>1 DEF modelCall, CallInv, CallTypes, AttemptsFailed, WaitsDouble, Doubled, ToldLast,
                Attempts, Wire, MD!Provider, MD!Speechless
  <1>2. CASE MD!Resolve \/ MD!NothingToSend
    BY <1>2, CallQuiet
  <1>3. CASE MD!Resume
    BY <1>3, CallResume
  <1>4. ASSUME NEW a \in Answers, MD!Succeed(a) \/ MD!Retry(a) \/ MD!GiveUp(a) PROVE CallInv'
    BY <1>4, CallAttempt
  <1>. QED  BY <1>1, <1>2, <1>3, <1>4 DEF MD!Next

-----------------------------------------------------------------------------
(* Learned routes.                                                         *)

\* A quotient by a positive number is monotonic.
LEMMA DivBounds ==
    ASSUME NEW n \in Int, NEW d \in Nat, d > 0
    PROVE  /\ n \div d \in Int
           /\ n >= 0 => n \div d >= 0
           /\ \A m \in Nat : n <= m * d => n \div d <= m
  OBVIOUS

LEMMA ClampBounds ==
    ASSUME NEW x \in Int
    PROVE  LR!Clamp(x, 0, LR!Unit) \in 0..LR!Unit
  BY DEF LR!Clamp, LR!AtLeast, LR!AtMost, LR!Unit

LEMMA TimesBounds ==
    ASSUME NEW x \in Int, NEW y \in Int
    PROVE  LR!Times(x, y) \in Int /\ (x >= 0 /\ y >= 0 => LR!Times(x, y) >= 0)
  <1>1. x * y \in Int /\ (x >= 0 /\ y >= 0 => x * y >= 0)
    OBVIOUS
  <1>. QED  BY <1>1, DivBounds DEF LR!Times, LR!Unit

LEMMA PercentBounds ==
    ASSUME NEW n \in Nat, NEW x \in Int
    PROVE  LR!Percent(n, x) \in Int
  <1>1. n * x \in Int
    OBVIOUS
  <1>. QED  BY <1>1, DivBounds DEF LR!Percent

LEMMA RateBounds ==
    ASSUME NEW samples \in Nat, NEW count \in Nat, count <= samples
    PROVE  (IF samples = 0 THEN 0 ELSE (count * LR!Unit) \div samples) \in 0..LR!Unit
  <1>1. count * LR!Unit \in Nat /\ count * LR!Unit <= LR!Unit * samples /\ LR!Unit \in Nat
    BY DEF LR!Unit
  <1>. QED  BY <1>1, DivBounds

LEMMA RecencyBounds ==
    ASSUME NEW age \in Nat, NEW maxAge \in Nat, NEW decayAfter \in Nat
    PROVE  LR!Clamp(LR!Unit - (age * LR!Unit) \div LR!AtLeast(LR!AtLeast(maxAge, decayAfter + 7), 1), 0, LR!Unit)
               \in 0..LR!Unit
  <1>. DEFINE horizon == LR!AtLeast(LR!AtLeast(maxAge, decayAfter + 7), 1)
  <1>1. horizon \in Nat /\ horizon > 0
    BY DEF LR!AtLeast
  <1>. HIDE DEF horizon
  <1>2. age * LR!Unit \in Int
    BY DEF LR!Unit
  <1>3. (age * LR!Unit) \div horizon \in Int
    BY <1>1, <1>2, DivBounds
  <1>4. LR!Unit - (age * LR!Unit) \div horizon \in Int
    BY <1>3 DEF LR!Unit
  <1>. QED  BY <1>4, ClampBounds DEF horizon

LEMMA StabilityBounds ==
    ASSUME NEW good \in 0..LR!Unit, NEW escalated \in 0..LR!Unit, NEW failed \in 0..LR!Unit
    PROVE  LR!Clamp(good - LR!Percent(35, escalated) - LR!Percent(75, failed), 0, LR!Unit)
               \in 0..LR!Unit
  <1>1. good \in Int /\ escalated \in Int /\ failed \in Int
    BY DEF LR!Unit
  <1>2. LR!Percent(35, escalated) \in Int /\ LR!Percent(75, failed) \in Int
    BY <1>1, PercentBounds
  <1>3. good - LR!Percent(35, escalated) - LR!Percent(75, failed) \in Int
    BY <1>1, <1>2
  <1>. QED  BY <1>3, ClampBounds

\* The terms of the effective confidence, each within its bounds.
LEMMA RatesBounds ==
    ASSUME NEW r \in LR!Rules
    PROVE  /\ LR!Good(r) \in 0..LR!Unit /\ LR!Escalated(r) \in 0..LR!Unit
           /\ LR!Failed(r) \in 0..LR!Unit /\ LR!Samples(r) \in Nat
  <1>. DEFINE n == LR!Samples(r)
  <1>1. r.accepts \in Nat /\ r.escalations \in Nat /\ r.failures \in Nat
    BY DEF LR!Rules
  <1>2. n \in Nat /\ r.accepts <= n /\ r.escalations <= n /\ r.failures <= n
    BY <1>1 DEF LR!Samples
  <1>. HIDE DEF n
  <1>3. ASSUME NEW c \in Nat, c <= n
        PROVE  (IF n = 0 THEN 0 ELSE (c * LR!Unit) \div n) \in 0..LR!Unit
    BY <1>2, <1>3, RateBounds
  <1>4. \A c : LR!Rate(c, r) = IF n = 0 THEN 0 ELSE (c * LR!Unit) \div n
    BY Zenon DEF n, LR!Rate
  <1>5. \A c \in Nat : c <= n => LR!Rate(c, r) \in 0..LR!Unit
    BY <1>3, <1>4
  <1>6. n \in Nat /\ n = LR!Samples(r)
    BY <1>2 DEF n
  <1>. QED  BY <1>1, <1>2, <1>5, <1>6, Zenon DEF LR!Good, LR!Escalated, LR!Failed

LEMMA FactorBounds ==
    ASSUME NEW r \in LR!Rules, day \in Nat
    PROVE  /\ LR!Age(r) \in Nat /\ LR!Recency(r) \in 0..LR!Unit
           /\ LR!Maturity(r) \in 0..LR!Unit /\ LR!Stability(r) \in 0..LR!Unit
           /\ LR!Bias[r.last] \in Int
  <1>0. /\ Policy.maxAge \in Nat /\ Policy.decayAfter \in Nat /\ Policy.minSamples \in Nat
    BY AgentAssumption DEF LR!LearnedAssumption
  <1>1. LR!Age(r) \in Nat
    <2>1. r.updated \in 0..MaxDay
      BY DEF LR!Rules
    <2>2. r.updated \in Int
      BY <2>1
    <2>. QED  BY <2>2 DEF LR!Age, LR!AtLeast
  <1>2. LR!Recency(r) \in 0..LR!Unit
    BY <1>0, <1>1, RecencyBounds, Zenon DEF LR!Recency
  <1>3. LR!Maturity(r) \in 0..LR!Unit
    <2>. DEFINE least == LR!AtLeast(Policy.minSamples, 3)
                q     == (LR!Samples(r) * LR!Unit) \div least
    <2>1. least \in Nat /\ least > 0
      BY <1>0 DEF LR!AtLeast
    <2>2. LR!Samples(r) * LR!Unit \in Int
      BY RatesBounds DEF LR!Unit
    <2>3. LR!Maturity(r) = LR!Clamp(q, 3500, LR!Unit)
      BY DEF LR!Maturity
    <2>. HIDE DEF least
    <2>4. q \in Int
      BY <2>1, <2>2, DivBounds
    <2>. HIDE DEF q
    <2>5. LR!Clamp(q, 3500, LR!Unit) \in 0..LR!Unit
      BY <2>4 DEF LR!Clamp, LR!AtLeast, LR!AtMost, LR!Unit
    <2>. QED  BY <2>3, <2>5
  <1>4. LR!Stability(r) \in 0..LR!Unit
    BY RatesBounds, StabilityBounds, Zenon DEF LR!Stability
  <1>5. LR!Bias[r.last] \in Int
    <2>1. r.last \in LR!Outcomes
      BY DEF LR!Rules
    <2>. QED  BY <2>1 DEF LR!Bias, LR!Outcomes, LR!Accepted
  <1>. QED  BY <1>1, <1>2, <1>3, <1>4, <1>5

\* The other terms lift the effective confidence over the confidence by so
\* much at most.
LEMMA EffectiveBounds ==
    ASSUME NEW r \in LR!Rules, day \in Nat
    PROVE  LR!Effective(r) \in Int /\ LR!Effective(r) <= r.confidence + LR!Lift
  <1>. DEFINE confidence == r.confidence
              good       == LR!Good(r)
              escalated  == LR!Escalated(r)
              failed     == LR!Failed(r)
              age        == LR!Age(r)
              recency    == LR!Recency(r)
              maturity   == LR!Maturity(r)
              stability  == LR!Stability(r)
              bias       == LR!Bias[r.last]
              staleness  == LR!Staleness(r)
              trend      == LR!Trend(r)
              net        == good - failed - LR!Percent(65, escalated)
  <1>1. /\ good \in 0..LR!Unit /\ escalated \in 0..LR!Unit /\ failed \in 0..LR!Unit
        /\ age \in Nat /\ recency \in 0..LR!Unit /\ maturity \in 0..LR!Unit
        /\ stability \in 0..LR!Unit /\ bias \in Int
    BY RatesBounds, FactorBounds, Zenon
  <1>2. /\ Policy.penalty \in Nat /\ Policy.decayAfter \in Nat
    BY AgentAssumption DEF LR!LearnedAssumption
  <1>3. confidence \in 0..LR!Unit
    BY DEF LR!Rules
  <1>4. staleness = LR!Times(LR!AtLeast(age - Policy.decayAfter, 0) * Policy.penalty,
            LR!AtLeast(LR!Unit
                + LR!Times(LR!Percent(38, escalated) + LR!Percent(72, failed), recency)
                + LR!Percent(14, LR!Unit - maturity)
                - LR!Times(LR!Percent(18, bias), recency), 7200))
    BY Zenon DEF LR!Staleness, LR!Decay
  <1>5. trend = LR!Clamp(
              LR!Times(LR!Times(LR!Percent(11, net - 4500), maturity), recency)
                + LR!Times((bias * 45) \div 1000, recency)
                + LR!Times(LR!Percent(5, stability - 5000), maturity), -1800, 1400)
    BY Zenon DEF LR!Trend
  <1>6. LR!Effective(r) =
            LR!Clamp(confidence + LR!Percent(8, LR!AtLeast(good - 5000, 0))
                - LR!Percent(16, escalated) - LR!Percent(26, failed)
                + LR!Percent(5, LR!AtLeast(stability - 5000, 0))
                - staleness + trend, 0, LR!Unit)
    BY Zenon DEF LR!Effective
  <1>. HIDE DEF confidence, good, escalated, failed, age, recency, maturity, stability, bias,
                staleness, trend
  <1>7. staleness \in Nat
    <2>. DEFINE t1 == LR!Times(LR!Percent(38, escalated) + LR!Percent(72, failed), recency)
                t2 == LR!Times(LR!Percent(18, bias), recency)
                p3 == LR!Percent(14, LR!Unit - maturity)
                d  == LR!AtLeast(LR!Unit + t1 + p3 - t2, 7200)
                m  == LR!AtLeast(age - Policy.decayAfter, 0) * Policy.penalty
    <2>0. escalated \in Int /\ failed \in Int /\ recency \in Int /\ LR!Unit - maturity \in Int
      BY <1>1 DEF LR!Unit
    <2>1. LR!Percent(38, escalated) + LR!Percent(72, failed) \in Int /\ recency \in Int
      BY <2>0, PercentBounds
    <2>2. LR!Percent(18, bias) \in Int /\ p3 \in Int
      BY <1>1, <2>0, PercentBounds
    <2>3. t1 \in Int
      BY <2>1, TimesBounds
    <2>4. t2 \in Int
      BY <2>1, <2>2, TimesBounds
    <2>5. staleness = LR!Times(m, d)
      BY <1>4
    <2>. HIDE DEF t1, t2, p3
    <2>6. d \in Int /\ d >= 0
      BY <2>2, <2>3, <2>4 DEF LR!AtLeast, LR!Unit
    <2>7. m \in Int /\ m >= 0
      <3>1. LR!AtLeast(age - Policy.decayAfter, 0) \in Nat
        BY <1>1, <1>2 DEF LR!AtLeast
      <3>2. \A x, y \in Nat : x * y \in Int /\ x * y >= 0
        OBVIOUS
      <3>. QED  BY <1>2, <3>1, <3>2
    <2>. HIDE DEF d, m
    <2>8. LR!Times(m, d) \in Int /\ LR!Times(m, d) >= 0
      BY <2>6, <2>7, TimesBounds
    <2>. QED  BY <2>5, <2>8
  <1>8. net \in Int
    BY <1>1 DEF LR!Percent, LR!Unit
  <1>. HIDE DEF net
  <1>9. trend \in -1800..1400
    <2>. DEFINE a == LR!Times(LR!Times(LR!Percent(11, net - 4500), maturity), recency)
                b == LR!Times((bias * 45) \div 1000, recency)
                c == LR!Times(LR!Percent(5, stability - 5000), maturity)
    <2>1. maturity \in Int /\ recency \in Int
      BY <1>1 DEF LR!Unit
    <2>2. LR!Percent(11, net - 4500) \in Int /\ (bias * 45) \div 1000 \in Int
          /\ LR!Percent(5, stability - 5000) \in Int
      BY <1>1, <1>8 DEF LR!Percent, LR!Unit
    <2>3. c \in Int
      BY <2>1, <2>2, TimesBounds
    <2>4. a \in Int
      <3>1. LR!Times(LR!Percent(11, net - 4500), maturity) \in Int
        BY <2>1, <2>2, TimesBounds
      <3>. QED  BY <2>1, <3>1, TimesBounds
    <2>6. b \in Int
      <3>1. \A x, y \in Int : LR!Times(x, y) \in Int
        BY TimesBounds
      <3>. HIDE DEF bias
      <3>. QED  BY <2>1, <2>2, <3>1
    <2>5. trend = LR!Clamp(a + b + c, -1800, 1400)
      BY <1>5
    <2>. HIDE DEF a, b, c
    <2>. QED  BY <2>3, <2>4, <2>5, <2>6 DEF LR!Clamp, LR!AtLeast, LR!AtMost
  <1>10. LR!Effective(r) \in Int /\ LR!Effective(r) <= confidence + LR!Lift
    <2>1. LR!Percent(8, LR!AtLeast(good - 5000, 0)) \in 0..400
      BY <1>1 DEF LR!Percent, LR!AtLeast, LR!Unit
    <2>2. LR!Percent(5, LR!AtLeast(stability - 5000, 0)) \in 0..250
      BY <1>1 DEF LR!Percent, LR!AtLeast, LR!Unit
    <2>3. LR!Percent(16, escalated) \in Nat /\ LR!Percent(26, failed) \in Nat
      BY <1>1 DEF LR!Percent, LR!Unit
    <2>. DEFINE a == LR!Percent(8, LR!AtLeast(good - 5000, 0))
                b == LR!Percent(5, LR!AtLeast(stability - 5000, 0))
                c == LR!Percent(16, escalated)
                d == LR!Percent(26, failed)
    <2>4. LR!Effective(r) = LR!Clamp(confidence + a - c - d + b - staleness + trend, 0, LR!Unit)
      BY <1>6
    <2>. HIDE DEF a, b, c, d
    <2>5. a \in 0..400 /\ b \in 0..250 /\ c \in Nat /\ d \in Nat
      BY <2>1, <2>2, <2>3 DEF a, b, c, d
    <2>. QED  BY <1>3, <1>7, <1>9, <2>4, <2>5
              DEF LR!Clamp, LR!AtLeast, LR!AtMost, LR!Unit, LR!Lift
  <1>. QED  BY <1>10, Zenon DEF confidence

\* What the table keeps: types, and what each rule has earned and lost.
Running == [pc : {"running"}, task : RouteTasks, rule : LR!Keys \cup {LR!NoRule},
            agent : Agents]
Fading(k) == \A i \in 1..12 : failing[k] >= i => rules[k].confidence <= LR!Faded[i]
Earned(k) == rules[k].accepts >= 1 /\ rules[k].samples = LR!Samples(rules[k])

RoutesInv ==
    /\ DOMAIN rules \subseteq LR!Keys
    /\ turn \in [Turns -> {LR!Idle} \cup Running]
    /\ day \in 0..MaxDay /\ records \in 0..MaxRecords /\ failing \in [LR!Keys -> Nat]
    /\ \A k \in DOMAIN rules : rules[k] \in LR!Rules /\ Earned(k) /\ Fading(k)

LEMMA RecordKeys ==
    ASSUME NEW taken \in Running
    PROVE  LR!RecordKey(taken) \in LR!Keys
  <1>1. taken.task \in RouteTasks /\ taken.agent \in Agents
    BY DEF Running
  <1>2. taken.task.intent \in LR!KnownIntents
    BY <1>1 DEF LR!KnownIntents
  <1>3. LR!DomainOf(taken.task) \in {LR!NoDomain} \cup UNION {LR!Tags(work) : work \in RouteTasks}
    <2>1. CASE taken.task.tags = << >>
      BY <2>1 DEF LR!DomainOf
    <2>2. CASE taken.task.tags # << >>
      <3>1. 1 \in DOMAIN taken.task.tags
        <4>1. taken.task.tags \in Seq(STRING)
          BY <1>1, AgentAssumption DEF LR!LearnedAssumption
        <4>. QED  BY <2>2, <4>1
      <3>2. taken.task.tags[1] \in LR!Tags(taken.task)
        BY <3>1 DEF LR!Tags
      <3>. QED  BY <1>1, <2>2, <3>2 DEF LR!DomainOf
    <2>. QED  BY <2>1, <2>2
  <1>. QED  BY <1>1, <1>2, <1>3 DEF LR!RecordKey, LR!Key, LR!Keys

LEMMA Signals ==
    ASSUME NEW outcome \in LR!Outcomes, NEW signal \in LR!Signals(outcome)
    PROVE  signal \in 0..LR!Unit /\ (outcome = "failed" => signal = 0)
  <1>1. \/ outcome = "accepted_recovered" \/ outcome = "accepted_verified"
        \/ outcome = "accepted" \/ outcome = "accepted_unverified"
        \/ outcome = "escalated" \/ outcome = "failed"
    BY DEF LR!Outcomes, LR!Accepted
  <1>2. /\ LR!Signal["accepted_recovered"] = 9800 /\ LR!Signal["accepted_verified"] = 9400
        /\ LR!Signal["accepted"] = 10000 /\ LR!Signal["accepted_unverified"] = 7400
        /\ LR!Signal["escalated"] = 1000 /\ LR!Signal["failed"] = 0
    BY DEF LR!Signal
  <1>4. CASE outcome \in LR!Accepted
    <2>1. PICK p \in Penalties : signal = LR!Signal[outcome] - p
      BY <1>4 DEF LR!Signals
    <2>2. p \in 0..800
      BY AgentAssumption DEF LR!LearnedAssumption
    <2>3. LR!Signal[outcome] \in {7400, 9400, 9800, 10000} /\ outcome # "failed"
      BY <1>1, <1>2, <1>4 DEF LR!Accepted
    <2>4. PICK x : x = LR!Signal[outcome]
      OBVIOUS
    <2>5. x \in {7400, 9400, 9800, 10000} /\ signal = x - p
      BY <2>1, <2>3, <2>4
    <2>6. signal \in 0..10000
      BY <2>2, <2>5
    <2>. QED  BY <2>3, <2>6 DEF LR!Unit
  <1>5. CASE outcome \notin LR!Accepted
    <2>1. signal = LR!Signal[outcome]
      BY <1>5 DEF LR!Signals
    <2>2. outcome = "escalated" \/ outcome = "failed"
      BY <1>1, <1>5 DEF LR!Accepted
    <2>. QED  BY <1>2, <2>1, <2>2 DEF LR!Unit
  <1>. QED  BY <1>4, <1>5

\* One more failure, one more step down the ladder.
LEMMA FadedStep ==
    ASSUME NEW c \in 0..LR!Unit, NEW i \in 1..12, i > 1 => c <= LR!Faded[i - 1]
    PROVE  LR!Percent(88, c) + LR!Percent(12, 0) <= LR!Faded[i]
  <1>1. i = 1 \/ i = 2 \/ i = 3 \/ i = 4 \/ i = 5 \/ i = 6 \/ i = 7 \/ i = 8
        \/ i = 9 \/ i = 10 \/ i = 11 \/ i = 12
    OBVIOUS
  <1>2. CASE i \in {1, 2, 3, 4}
    BY <1>2 DEF LR!Percent, LR!Faded, LR!Unit
  <1>3. CASE i \in {5, 6, 7, 8}
    BY <1>3 DEF LR!Percent, LR!Faded, LR!Unit
  <1>4. CASE i \in {9, 10, 11, 12}
    BY <1>4 DEF LR!Percent, LR!Faded, LR!Unit
  <1>. QED  BY <1>1, <1>2, <1>3, <1>4

\* A record moves a rule within its type, and keeps what it has earned.
LEMMA UpdatedRule ==
    ASSUME NEW r \in LR!Rules, NEW outcome \in LR!Outcomes, day \in 0..MaxDay,
           r.accepts >= 1, r.samples = LR!Samples(r), NEW signal \in LR!Signals(outcome),
           NEW u, u = LR!Updated(r, outcome, signal)
    PROVE  /\ u \in LR!Rules /\ u.accepts >= 1 /\ u.samples = LR!Samples(u)
           /\ outcome = "failed" =>
                 u.confidence = LR!Percent(88, r.confidence) + LR!Percent(12, 0)
  <1>. DEFINE c == LR!Percent(88, r.confidence) + LR!Percent(12, signal)
              a == IF outcome \in LR!Accepted THEN r.accepts + 1 ELSE r.accepts
              e == IF outcome = "escalated" THEN r.escalations + 1 ELSE r.escalations
              f == IF outcome = "failed" THEN r.failures + 1 ELSE r.failures
  <1>1. /\ r.confidence \in 0..LR!Unit /\ r.samples \in Nat /\ r.accepts \in Nat
        /\ r.escalations \in Nat /\ r.failures \in Nat
        /\ r.cap \in {work.complexity : work \in RouteTasks}
    BY DEF LR!Rules
  <1>2. c \in 0..LR!Unit
    <2>. DEFINE x == r.confidence
                y == signal
    <2>1. x \in 0..LR!Unit
      BY <1>1
    <2>3. y \in 0..LR!Unit
      BY Signals, Zenon
    <2>2. c = LR!Percent(88, x) + LR!Percent(12, y)
      BY DEF LR!Percent
    <2>. HIDE DEF x, y, c
    <2>4. PICK m : m = LR!Unit
      OBVIOUS
    <2>5. m \in Nat /\ x \in 0..m /\ y \in 0..m
      BY <2>1, <2>3, <2>4 DEF LR!Unit
    <2>6. PICK p, q : p = (88 * x) \div 100 /\ q = (12 * y) \div 100
      OBVIOUS
    <2>7. p \in Nat /\ 100 * p <= 88 * x
      BY <2>5, <2>6
    <2>8. q \in Nat /\ 100 * q <= 12 * y
      BY <2>5, <2>6
    <2>9. p + q \in 0..m
      BY <2>5, <2>7, <2>8
    <2>. QED  BY <2>2, <2>4, <2>6, <2>9 DEF LR!Percent
  <1>3. u = [confidence |-> c, samples |-> r.samples + 1, accepts |-> a, escalations |-> e,
             failures |-> f, last |-> outcome, updated |-> day, cap |-> r.cap]
    BY DEF LR!Updated, LR!Rules
  <1>4. a \in Nat /\ e \in Nat /\ f \in Nat /\ a >= 1 /\ r.samples + 1 = a + e + f
    <2>1. r.samples = r.accepts + r.escalations + r.failures
      BY DEF LR!Samples
    <2>2. \/ outcome \in LR!Accepted /\ outcome # "escalated" /\ outcome # "failed"
          \/ outcome \notin LR!Accepted /\ outcome = "escalated" /\ outcome # "failed"
          \/ outcome \notin LR!Accepted /\ outcome # "escalated" /\ outcome = "failed"
      BY DEF LR!Outcomes, LR!Accepted
    <2>. QED  BY <1>1, <2>1, <2>2
  <1>5. outcome = "failed" => signal = 0
    BY Signals, Zenon
  <1>6. outcome = "failed" => c = LR!Percent(88, r.confidence) + LR!Percent(12, 0)
    BY <1>5
  <1>. HIDE DEF c, a, e, f
  <1>. QED  BY <1>1, <1>2, <1>3, <1>4, <1>6 DEF LR!Rules, LR!Samples

LEMMA NewRules ==
    ASSUME NEW work \in RouteTasks, NEW outcome \in LR!Accepted, day \in 0..MaxDay,
           NEW signal \in LR!Signals(outcome), NEW u, u = LR!NewRule(work, outcome, signal)
    PROVE  u \in LR!Rules /\ u.accepts >= 1 /\ u.samples = LR!Samples(u)
  <1>. DEFINE c == LR!AtLeast(signal, 6000)
  <1>1. outcome \in LR!Outcomes
    BY DEF LR!Outcomes
  <1>2. c \in 0..LR!Unit
    <2>. DEFINE x == signal
    <2>1. x \in 0..LR!Unit
      BY <1>1, Signals, Zenon
    <2>2. c = LR!AtLeast(x, 6000)
      BY DEF LR!AtLeast
    <2>. HIDE DEF x, c
    <2>. QED  BY <2>1, <2>2 DEF LR!AtLeast, LR!Unit
  <1>3. u = [confidence |-> c, samples |-> 1, accepts |-> 1, escalations |-> 0, failures |-> 0,
             last |-> outcome, updated |-> day, cap |-> work.complexity]
    BY DEF LR!NewRule
  <1>. HIDE DEF c
  <1>. QED  BY <1>1, <1>2, <1>3 DEF LR!Rules, LR!Samples

LEMMA RoutesInit == LR!Init => RoutesInv
  <1>1. MaxDay \in Nat /\ MaxRecords \in Nat
    BY AgentAssumption DEF LR!LearnedAssumption
  <1>. QED  BY <1>1 DEF LR!Init, RoutesInv

LEMMA RoutesBegin ==
    ASSUME RoutesInv, NEW t \in Turns, NEW work \in RouteTasks, LR!Begin(t, work)
    PROVE  RoutesInv'
  <1>1. PICK k \in (IF LR!Lookup(work) # {} THEN LR!Lookup(work) ELSE {LR!NoRule}) :
             \E a \in (IF k # LR!NoRule THEN {k.agent} ELSE Agents) :
                turn' = [turn EXCEPT ![t] = [pc |-> "running", task |-> work, rule |-> k,
                                             agent |-> a]]
    BY DEF LR!Begin
  <1>2. PICK a \in (IF k # LR!NoRule THEN {k.agent} ELSE Agents) :
             turn' = [turn EXCEPT ![t] = [pc |-> "running", task |-> work, rule |-> k,
                                          agent |-> a]]
    BY <1>1
  <1>3. LR!Lookup(work) \subseteq DOMAIN rules
    BY DEF LR!Lookup, LR!Candidates, LR!Best
  <1>4. k \in LR!Keys \cup {LR!NoRule}
    BY <1>1, <1>3 DEF RoutesInv
  <1>5. a \in Agents
    BY <1>2, <1>4 DEF LR!Keys
  <1>6. [pc |-> "running", task |-> work, rule |-> k, agent |-> a] \in Running
    BY <1>4, <1>5 DEF Running
  <1>. HIDE DEF Running
  <1>7. turn' \in [Turns -> {LR!Idle} \cup Running]
    BY <1>2, <1>6 DEF RoutesInv
  <1>8. UNCHANGED <<rules, day, records, failing>>
    BY DEF LR!Begin
  <1>. QED  BY <1>7, <1>8 DEF RoutesInv, Earned, Fading, LR!Samples

LEMMA RoutesFinish ==
    ASSUME RoutesInv, NEW t \in Turns, NEW verdict \in Verdicts, LR!Finish(t, verdict)
    PROVE  RoutesInv'
  <1>0. PICK key, work : key = LR!RecordKey(turn[t]) /\ work = turn[t].task
    OBVIOUS
  <1>1. PICK outcome \in LR!Recorded(t, verdict) :
             /\ LR!Ingest(key, work, outcome)
             /\ failing' = [failing EXCEPT ![key] =
                   IF outcome = "failed" /\ key \in DOMAIN rules THEN @ + 1 ELSE 0]
    BY <1>0 DEF LR!Finish
  <1>2. /\ turn[t].pc = "running" /\ records < MaxRecords /\ records' = records + 1
        /\ turn' = [turn EXCEPT ![t] = LR!Idle] /\ day' = day
    BY DEF LR!Finish
  <1>3. turn[t] \in Running
    BY <1>2 DEF RoutesInv, LR!Idle
  <1>4. key \in LR!Keys /\ work \in RouteTasks
    BY <1>0, <1>3, RecordKeys DEF Running
  <1>5. outcome \in LR!Outcomes
    BY <1>1, AgentAssumption DEF LR!Recorded, LR!LearnedAssumption, LR!Outcomes
  <1>6. turn' \in [Turns -> {LR!Idle} \cup Running]
    BY <1>2 DEF RoutesInv
  <1>7. records' \in 0..MaxRecords
    BY <1>2, AgentAssumption DEF RoutesInv, LR!LearnedAssumption
  <1>8. failing' \in [LR!Keys -> Nat]
    BY <1>1, <1>4 DEF RoutesInv
  <1>9. \A l \in LR!Keys : l # key => failing'[l] = failing[l]
    BY <1>1 DEF RoutesInv
  <1>13. PICK signal \in LR!Signals(outcome) :
             rules' = IF key \in DOMAIN rules
                      THEN [rules EXCEPT ![key] = LR!Updated(@, outcome, signal)]
                      ELSE IF outcome \in LR!Accepted
                           THEN [l \in DOMAIN rules \cup {key} |->
                                   IF l = key THEN LR!NewRule(work, outcome, signal) ELSE rules[l]]
                           ELSE rules
    BY <1>1 DEF LR!Ingest
  <1>10. CASE key \in DOMAIN rules
    <2>1. rules' = [rules EXCEPT ![key] = LR!Updated(rules[key], outcome, signal)]
      BY <1>10, <1>13
    <2>2. DOMAIN rules' = DOMAIN rules /\ \A l \in DOMAIN rules : l # key => rules'[l] = rules[l]
      BY <2>1
    <2>3. rules'[key] = LR!Updated(rules[key], outcome, signal)
      BY <1>10, <2>1
    <2>4. /\ rules'[key] \in LR!Rules /\ rules'[key].accepts >= 1
          /\ rules'[key].samples = LR!Samples(rules'[key])
          /\ outcome = "failed" =>
                rules'[key].confidence =
                    LR!Percent(88, rules[key].confidence) + LR!Percent(12, 0)
      BY <1>5, <1>10, <2>3, UpdatedRule DEF RoutesInv, Earned
    <2>5. Earned(key)'
      BY <1>10, <2>2, <2>4 DEF Earned, LR!Samples
    <2>6. Fading(key)'
      <3>1. CASE outcome = "failed"
        <4>. SUFFICES ASSUME NEW i \in 1..12, failing'[key] >= i
                      PROVE  rules'[key].confidence <= LR!Faded[i]
          BY DEF Fading
        <4>1. failing'[key] = failing[key] + 1 /\ failing[key] \in Nat
          BY <1>1, <1>4, <1>10, <3>1 DEF RoutesInv
        <4>2. rules[key].confidence \in 0..LR!Unit
          BY <1>10 DEF RoutesInv, LR!Rules
        <4>3. i > 1 => rules[key].confidence <= LR!Faded[i - 1]
          <5>1. \A j \in 1..12 : failing[key] >= j => rules[key].confidence <= LR!Faded[j]
            BY <1>10 DEF RoutesInv, Fading
          <5>2. i > 1 => i - 1 \in 1..12 /\ failing[key] >= i - 1
            BY <4>1
          <5>. QED  BY <5>1, <5>2
        <4>. QED  BY <2>4, <3>1, <4>2, <4>3, FadedStep
      <3>2. CASE outcome # "failed"
        <4>1. failing'[key] = 0
          BY <1>1, <1>4, <3>2 DEF RoutesInv
        <4>. QED  BY <4>1 DEF Fading
      <3>. QED  BY <3>1, <3>2
    <2>7. \A l \in DOMAIN rules' : l # key => rules'[l] \in LR!Rules /\ Earned(l)' /\ Fading(l)'
      <3>1. \A l \in DOMAIN rules : l \in LR!Keys
        BY DEF RoutesInv
      <3>. QED  BY <1>9, <2>2, <3>1 DEF RoutesInv, Earned, Fading, LR!Samples
    <2>. QED  BY <1>2, <1>6, <1>7, <1>8, <2>2, <2>4, <2>5, <2>6, <2>7 DEF RoutesInv
  <1>11. CASE key \notin DOMAIN rules /\ outcome \in LR!Accepted
    <2>1. rules' = [l \in DOMAIN rules \cup {key} |->
                       IF l = key THEN LR!NewRule(work, outcome, signal) ELSE rules[l]]
      BY <1>11, <1>13
    <2>2. /\ DOMAIN rules' = DOMAIN rules \cup {key}
          /\ \A l \in DOMAIN rules : l # key => rules'[l] = rules[l]
      BY <2>1
    <2>3. rules'[key] = LR!NewRule(work, outcome, signal)
      BY <2>1
    <2>4. /\ rules'[key] \in LR!Rules /\ rules'[key].accepts >= 1
          /\ rules'[key].samples = LR!Samples(rules'[key])
      BY <1>4, <1>11, <2>3, NewRules DEF RoutesInv
    <2>5. Earned(key)'
      BY <2>4 DEF Earned, LR!Samples
    <2>6. Fading(key)'
      <3>1. failing'[key] = 0
        BY <1>1, <1>4, <1>11 DEF RoutesInv
      <3>. QED  BY <3>1 DEF Fading
    <2>7. \A l \in DOMAIN rules' : l # key => rules'[l] \in LR!Rules /\ Earned(l)' /\ Fading(l)'
      <3>1. \A l \in DOMAIN rules : l \in LR!Keys
        BY DEF RoutesInv
      <3>. QED  BY <1>9, <2>2, <3>1 DEF RoutesInv, Earned, Fading, LR!Samples
    <2>. QED  BY <1>2, <1>4, <1>6, <1>7, <1>8, <2>2, <2>4, <2>5, <2>6, <2>7 DEF RoutesInv
  <1>12. CASE key \notin DOMAIN rules /\ outcome \notin LR!Accepted
    <2>1. rules' = rules
      BY <1>12, <1>13
    <2>2. \A l \in DOMAIN rules : l \in LR!Keys /\ l # key
      BY <1>12 DEF RoutesInv
    <2>. QED  BY <1>2, <1>6, <1>7, <1>8, <1>9, <2>1, <2>2
              DEF RoutesInv, Earned, Fading, LR!Samples
  <1>. QED  BY <1>10, <1>11, <1>12

LEMMA RoutesStep == RoutesInv /\ [LR!Next]_learning => RoutesInv'
  <1>. SUFFICES ASSUME RoutesInv, [LR!Next]_learning PROVE RoutesInv'
    OBVIOUS
  <1>1. CASE UNCHANGED learning
    BY <1>1 DEF learning, RoutesInv, Earned, Fading, LR!Samples
  <1>2. ASSUME NEW t \in Turns, NEW work \in RouteTasks, LR!Begin(t, work) PROVE RoutesInv'
    BY <1>2, RoutesBegin
  <1>3. ASSUME NEW t \in Turns, NEW verdict \in Verdicts, LR!Finish(t, verdict)
        PROVE  RoutesInv'
    BY <1>3, RoutesFinish
  <1>4. ASSUME NEW t \in Turns, LR!Lose(t) PROVE RoutesInv'
    BY <1>4 DEF LR!Lose, RoutesInv, Earned, Fading, LR!Samples
  <1>5. ASSUME NEW intents, NEW agents, LR!Delete(intents, agents) PROVE RoutesInv'
    <2>1. /\ DOMAIN rules' \subseteq DOMAIN rules /\ \A l \in DOMAIN rules' : rules'[l] = rules[l]
          /\ failing' = [k \in LR!Keys |-> IF k \in DOMAIN rules' THEN failing[k] ELSE 0]
          /\ UNCHANGED <<turn, day, records>>
      BY <1>5 DEF LR!Delete
    <2>2. \A l \in DOMAIN rules' : l \in DOMAIN rules /\ failing'[l] = failing[l]
      BY <2>1 DEF RoutesInv
    <2>3. failing' \in [LR!Keys -> Nat]
      BY <2>1 DEF RoutesInv
    <2>4. DOMAIN rules' \subseteq LR!Keys
      BY <2>1 DEF RoutesInv
    <2>5. \A l \in DOMAIN rules' : rules'[l] \in LR!Rules /\ Earned(l)' /\ Fading(l)'
      BY <2>1, <2>2 DEF RoutesInv, Earned, Fading, LR!Samples
    <2>. QED  BY <2>1, <2>3, <2>4, <2>5 DEF RoutesInv
  <1>6. ASSUME LR!Tick PROVE RoutesInv'
    <2>1. day' \in 0..MaxDay
      BY <1>6, AgentAssumption DEF LR!Tick, RoutesInv, LR!LearnedAssumption
    <2>. QED  BY <1>6, <2>1 DEF LR!Tick, RoutesInv, Earned, Fading, LR!Samples
  <1>. QED  BY <1>1, <1>2, <1>3, <1>4, <1>5, <1>6 DEF LR!Next

LEMMA RoutesInvSuffices ==
    RoutesInv => LR!RulesAreEarned /\ LR!UsedRulesHoldUp /\ LR!TypeOK
  <1>. SUFFICES ASSUME RoutesInv PROVE LR!RulesAreEarned /\ LR!UsedRulesHoldUp /\ LR!TypeOK
    OBVIOUS
  <1>1. LR!RulesAreEarned
    BY DEF RoutesInv, Earned, LR!RulesAreEarned
  <1>2. LR!UsedRulesHoldUp
    <2>. SUFFICES ASSUME NEW k \in DOMAIN rules, NEW i \in DOMAIN LR!Faded,
                         failing[k] >= i, LR!Faded[i] + LR!Lift < Policy.minConfidence
                  PROVE  ~LR!Eligible(rules[k])
      BY DEF LR!UsedRulesHoldUp
    <2>1. i \in 1..12
      BY DEF LR!Faded
    <2>2. rules[k] \in LR!Rules /\ rules[k].confidence <= LR!Faded[i] /\ day \in Nat
      BY <2>1 DEF RoutesInv, Fading
    <2>3. LR!Effective(rules[k]) <= rules[k].confidence + LR!Lift
      BY <2>2, EffectiveBounds
    <2>. DEFINE e == LR!Effective(rules[k])
                c == rules[k].confidence
                f == LR!Faded[i]
    <2>4. c \in Int /\ f \in Int /\ Policy.minConfidence \in Int
      <3>1. c \in Int
        BY <2>2 DEF LR!Rules
      <3>2. \A j \in 1..12 : LR!Faded[j] \in Int
        BY DEF LR!Faded
      <3>3. Policy.minConfidence \in Int
        BY AgentAssumption DEF LR!LearnedAssumption
      <3>. QED  BY <2>1, <3>1, <3>2, <3>3
    <2>5. e \in Int
      BY <2>2, EffectiveBounds
    <2>6. e <= c + LR!Lift /\ c <= f /\ f + LR!Lift < Policy.minConfidence
      BY <2>2, <2>3
    <2>7. LR!Eligible(rules[k]) => e >= Policy.minConfidence
      BY DEF LR!Eligible
    <2>. HIDE DEF e, c, f
    <2>. QED  BY <2>4, <2>5, <2>6, <2>7 DEF LR!Lift
  <1>3. LR!TypeOK
    BY DEF RoutesInv, LR!TypeOK, Running
  <1>. QED  BY <1>1, <1>2, <1>3

-----------------------------------------------------------------------------
(* Skills.                                                                 *)

Undos    == [step : Nat \ {0}, target : SK!Paths, existed : BOOLEAN]
Results  == {"none", "manual", "completed", "failed", "rolled_back"}
Records  == [step : Nat, result : Results, backup : BOOLEAN]
Pending  == [at : {"truncate", "write"}, name : Names, entry : SK!Entries]
Tallies  == [saved : Nat, used : Nat, ran : Nat, art : Artifacts \cup {Absent}]
OnItsWay == {"step", "write", "record"}

StagedRuns ==
    [pc : {"idle", "loaded", "undo", "count", "over"} \cup OnItsWay,
     art : Artifacts \cup {Absent}, name : Names \cup {Absent}, through : Nat,
     auto : BOOLEAN, stop : BOOLEAN, i : Nat,
     status : {"running", "failed", "completed", "rolled_back"},
     result : Results,
     done : Seq(Undos), leftover : BOOLEAN]
Journals ==
    [status : {"none", "running", "completed", "failed", "rolled_back", Torn},
     steps : Seq(Records)]

StoreTypes ==
    /\ store \in [Names -> SK!Entries \cup {Absent, Torn}]
    /\ pend \in [SK!Clients -> {SK!Idle} \cup Pending]
    /\ tally \in [Names -> Tallies]
    /\ overlap \in BOOLEAN /\ crashed \in BOOLEAN

RunTypes ==
    /\ run \in StagedRuns
    /\ journal \in Journals
    /\ DOMAIN files = SK!Paths

\* The file of n is in the client's hands.
Holds(c, n) == pend[c] # SK!Idle /\ pend[c].name = n
Counted(n) == [art |-> tally[n].art, version |-> tally[n].saved, uses |-> tally[n].used,
               runs |-> tally[n].ran]

\* One client at a time has a file, and what it is about to write is what was
\* asked; a file in no client's hands is what was asked.
StoreInv ==
    ~overlap /\ ~crashed =>
        \A n \in Names :
            /\ \A c, d \in SK!Clients : Holds(c, n) /\ Holds(d, n) => c = d
            /\ \A c \in SK!Clients : Holds(c, n) => pend[c].entry = Counted(n)
            /\ (\A c \in SK!Clients : ~Holds(c, n)) =>
                  IF store[n] = Absent THEN tally[n] = SK!NoTally
                  ELSE store[n] = Counted(n)

LEMMA SkillConstants ==
    /\ "run" \notin Tasks /\ Absent # Torn /\ Absent \notin SK!Entries /\ Torn \notin SK!Entries
    /\ Absent \notin Names /\ Torn \notin {"completed", "rolled_back"}
    /\ \A a \in Artifacts : /\ a.name \in Names
                            /\ Len(a.steps) \in Nat /\ DOMAIN a.steps = 1..Len(a.steps)
  BY AgentAssumption DEF SK!SkillsAssumption

LEMMA StoreSuffices == StoreInv => SK!SequentialStore
  <1>. SUFFICES ASSUME StoreInv, ~overlap, ~crashed, NEW n \in Names,
                       \A c \in SK!Clients : pend[c] # SK!Idle => pend[c].name # n
                PROVE  IF store[n] = Absent THEN tally[n].saved = 0
                       ELSE store[n] = Counted(n)
    BY DEF SK!SequentialStore, Counted
  <1>1. \A c \in SK!Clients : ~Holds(c, n)
    BY DEF Holds
  <1>2. IF store[n] = Absent THEN tally[n] = SK!NoTally ELSE store[n] = Counted(n)
    BY <1>1 DEF StoreInv
  <1>. QED  BY <1>2 DEF SK!NoTally

LEMMA SkillInit == SK!Init => StoreTypes /\ RunTypes /\ StoreInv
  <1>. SUFFICES ASSUME SK!Init PROVE StoreTypes /\ RunTypes /\ StoreInv
    OBVIOUS
  <1>1. run \in StagedRuns
    BY DEF SK!Init, SK!NoRun, StagedRuns, Results
  <1>2. journal \in Journals
    BY DEF SK!Init, SK!NoJournal, Journals
  <1>3. tally \in [Names -> Tallies]
    BY DEF SK!Init, SK!NoTally, Tallies
  <1>4. StoreTypes /\ RunTypes
    BY <1>1, <1>2, <1>3 DEF SK!Init, StoreTypes, RunTypes, StagedRuns, Journals, Results
  <1>5. StoreInv
    BY DEF SK!Init, StoreInv, Holds
  <1>. QED  BY <1>4, <1>5


\* A client takes a file, and what it is going to write is what was asked.
LEMMA StoreBegin ==
    ASSUME StoreTypes, StoreInv, NEW c \in SK!Clients, NEW n \in Names, pend[c] = SK!Idle,
           NEW entry \in SK!Entries, SK!Begin(c, n, entry),
           NEW x \in Tallies, tally' = [tally EXCEPT ![n] = x],
           (IF store[n] = Absent THEN tally[n] = SK!NoTally ELSE store[n] = Counted(n))
              => entry = [art |-> x.art, version |-> x.saved, uses |-> x.used, runs |-> x.ran],
           UNCHANGED <<store, crashed>>
    PROVE  StoreTypes' /\ StoreInv'
  <1>. DEFINE p == [at |-> "truncate", name |-> n, entry |-> entry]
  <1>1. p \in Pending
    BY DEF Pending
  <1>2. /\ pend' = [pend EXCEPT ![c] = p]
        /\ overlap' = (overlap \/ \E d \in SK!Clients : Holds(d, n))
    BY DEF SK!Begin, Holds
  <1>3. StoreTypes'
    BY <1>1, <1>2 DEF StoreTypes
  <1>4. ASSUME ~overlap', ~crashed', NEW m \in Names
        PROVE  /\ \A d, e \in SK!Clients : Holds(d, m)' /\ Holds(e, m)' => d = e
               /\ \A d \in SK!Clients : Holds(d, m)' => pend'[d].entry = Counted(m)'
               /\ (\A d \in SK!Clients : ~Holds(d, m)') =>
                     IF store'[m] = Absent THEN tally'[m] = SK!NoTally
                     ELSE store'[m] = Counted(m)'
    <2>1. ~overlap /\ ~crashed /\ \A d \in SK!Clients : ~Holds(d, n)
      BY <1>2, <1>4
    <2>2. \A d \in SK!Clients : d # c => (Holds(d, m)' <=> Holds(d, m)) /\ pend'[d] = pend[d]
      BY <1>2 DEF StoreTypes, Holds
    <2>3. Holds(c, m)' <=> m = n
      BY <1>2 DEF StoreTypes, Holds, SK!Idle
    <2>4. ~Holds(c, m)
      BY DEF Holds
    <2>5. pend'[c].entry = entry
      BY <1>2 DEF StoreTypes
    <2>6. CASE m = n
      <3>1. entry = [art |-> x.art, version |-> x.saved, uses |-> x.used, runs |-> x.ran]
        BY <2>1 DEF StoreInv
      <3>2. Counted(m)' = entry
        BY <2>6, <3>1 DEF StoreTypes, Counted
      <3>. QED  BY <2>1, <2>2, <2>3, <2>5, <2>6, <3>2
    <2>7. CASE m # n
      <3>1. Counted(m)' = Counted(m) /\ tally'[m] = tally[m] /\ store'[m] = store[m]
        BY <2>7 DEF StoreTypes, Counted
      <3>. QED  BY <2>1, <2>2, <2>3, <2>4, <2>7, <3>1 DEF StoreInv
    <2>. QED  BY <2>6, <2>7
  <1>5. StoreInv'
    BY <1>4 DEF StoreInv
  <1>. QED  BY <1>3, <1>5

LEMMA StoreCount ==
    ASSUME StoreTypes, StoreInv, NEW n \in Names, SK!Readable(n), pend["run"] = SK!Idle,
           SK!Begin("run", n, [store[n] EXCEPT !.runs = @ + 1]), SK!Count(n, "ran"),
           UNCHANGED <<store, crashed>>
    PROVE  StoreTypes' /\ StoreInv'
  <1>. DEFINE entry == [store[n] EXCEPT !.runs = @ + 1]
              x     == [tally[n] EXCEPT !.ran = @ + 1]
  <1>0. PICK c \in SK!Clients : c = "run"
    BY DEF SK!Clients
  <1>1. pend[c] = SK!Idle /\ SK!Begin(c, n, entry) /\ tally' = [tally EXCEPT ![n] = x]
    BY <1>0 DEF SK!Count
  <1>2. store[n] \in SK!Entries /\ store[n] # Absent
    BY DEF SK!Readable, StoreTypes
  <1>3. entry \in SK!Entries
    BY <1>2 DEF SK!Entries
  <1>4. x \in Tallies /\ tally[n] \in Tallies
    BY DEF StoreTypes, Tallies
  <1>5. store[n] = Counted(n) =>
            entry = [art |-> x.art, version |-> x.saved, uses |-> x.used, runs |-> x.ran]
    BY <1>4 DEF Counted, Tallies
  <1>. HIDE DEF entry, x
  <1>. QED  BY <1>1, <1>2, <1>3, <1>4, <1>5, StoreBegin

LEMMA StoreRead ==
    ASSUME StoreTypes, StoreInv, NEW c \in SK!Clients, NEW n \in Names, SK!Get(c, n),
           UNCHANGED <<store, crashed>>
    PROVE  StoreTypes' /\ StoreInv'
  <1>. DEFINE entry == [store[n] EXCEPT !.uses = @ + 1]
              x     == [tally[n] EXCEPT !.used = @ + 1]
  <1>1. pend[c] = SK!Idle /\ SK!Begin(c, n, entry) /\ tally' = [tally EXCEPT ![n] = x]
    BY DEF SK!Get, SK!Count
  <1>2. store[n] \in SK!Entries /\ store[n] # Absent
    BY DEF SK!Get, SK!Readable, StoreTypes
  <1>3. entry \in SK!Entries
    BY <1>2 DEF SK!Entries
  <1>4. x \in Tallies /\ tally[n] \in Tallies
    BY DEF StoreTypes, Tallies
  <1>5. store[n] = Counted(n) =>
            entry = [art |-> x.art, version |-> x.saved, uses |-> x.used, runs |-> x.ran]
    BY <1>4 DEF Counted, Tallies
  <1>. HIDE DEF entry, x
  <1>. QED  BY <1>1, <1>2, <1>3, <1>4, <1>5, StoreBegin

LEMMA StoreSave ==
    ASSUME StoreTypes, StoreInv, NEW t \in Tasks, NEW a \in Artifacts, SK!Save(t, a)
    PROVE  StoreTypes' /\ StoreInv'
  <1>0. PICK n \in Names : n = a.name
    BY SkillConstants
  <1>. DEFINE entry == SK!Saved(n, a)
              x     == [saved |-> tally[n].saved + 1, used |-> tally[n].used,
                        ran |-> tally[n].ran, art |-> a]
  <1>1. pend[t] = SK!Idle /\ store[n] # Torn /\ UNCHANGED <<store, crashed>>
    BY <1>0 DEF SK!Save
  <1>2. SK!Begin(t, n, entry)
    BY <1>0, Zenon DEF SK!Save
  <1>3. tally' = [tally EXCEPT ![n] = x]
    <2>1. tally' = [tally EXCEPT ![n].saved = @ + 1, ![n].art = a]
      BY <1>0 DEF SK!Save
    <2>2. tally[n] \in Tallies
      BY DEF StoreTypes
    <2>3. [tally[n] EXCEPT !.saved = tally[n].saved + 1, !.art = a] = x
      <3>1. PICK r, v : r = tally[n] /\ v = r.saved + 1
        OBVIOUS
      <3>2. r \in Tallies /\ v \in Nat
        BY <2>2, <3>1 DEF Tallies
      <3>3. PICK y : y = [r EXCEPT !.saved = v, !.art = a]
        OBVIOUS
      <3>4. y \in Tallies
        BY <3>2, <3>3 DEF Tallies
      <3>5. y.saved = v /\ y.used = r.used /\ y.ran = r.ran /\ y.art = a
        BY <3>2, <3>3 DEF Tallies
      <3>6. y = [saved |-> v, used |-> r.used, ran |-> r.ran, art |-> a]
        BY <3>4, <3>5 DEF Tallies
      <3>. QED  BY <3>1, <3>3, <3>6
    <2>4. tally' = [tally EXCEPT ![n] = [tally[n] EXCEPT !.saved = tally[n].saved + 1, !.art = a]]
      BY <2>1 DEF StoreTypes
    <2>. QED  BY <2>3, <2>4
  <1>4. t \in SK!Clients
    BY DEF SK!Clients
  <1>5. store[n] = Absent \/ store[n] \in SK!Entries
    BY <1>1 DEF StoreTypes
  <1>6. CASE store[n] = Absent
    <2>1. entry = [art |-> a, version |-> 1, uses |-> 0, runs |-> 0]
      BY <1>6 DEF SK!Saved
    <2>2. entry \in SK!Entries
      BY <2>1 DEF SK!Entries
    <2>3. tally[n] \in Tallies
      BY DEF StoreTypes
    <2>4. x \in Tallies
      BY <2>3 DEF Tallies
    <2>5. tally[n] = SK!NoTally =>
              entry = [art |-> x.art, version |-> x.saved, uses |-> x.used, runs |-> x.ran]
      BY <2>1 DEF SK!NoTally
    <2>. HIDE DEF entry, x
    <2>. QED  BY <1>1, <1>2, <1>3, <1>4, <1>6, <2>2, <2>4, <2>5, StoreBegin
  <1>7. CASE store[n] # Absent
    <2>1. entry = [store[n] EXCEPT !.art = a, !.version = @ + 1] /\ store[n] \in SK!Entries
      BY <1>5, <1>7 DEF SK!Saved
    <2>0. entry = [art |-> a, version |-> store[n].version + 1, uses |-> store[n].uses,
                   runs |-> store[n].runs]
      BY <2>1 DEF SK!Entries
    <2>2. entry \in SK!Entries
      BY <2>0, <2>1 DEF SK!Entries
    <2>3. tally[n] \in Tallies
      BY DEF StoreTypes
    <2>4. x \in Tallies
      BY <2>3 DEF Tallies
    <2>5. store[n] = Counted(n) =>
              entry = [art |-> x.art, version |-> x.saved, uses |-> x.used, runs |-> x.ran]
      BY <2>0, <2>3 DEF Counted, Tallies
    <2>. HIDE DEF entry, x
    <2>. QED  BY <1>1, <1>2, <1>3, <1>4, <1>7, <2>2, <2>4, <2>5, StoreBegin
  <1>. QED  BY <1>6, <1>7

LEMMA StoreWrite ==
    ASSUME StoreTypes, StoreInv, NEW c \in SK!Clients, SK!Truncate(c) \/ SK!Write(c)
    PROVE  StoreTypes' /\ StoreInv'
  <1>1. /\ pend[c] # SK!Idle /\ pend[c] \in Pending
        /\ UNCHANGED <<tally, overlap, crashed>>
    BY DEF SK!Truncate, SK!Write, StoreTypes
  <1>2. PICK n \in Names : pend[c].name = n
    BY <1>1 DEF Pending
  <1>3. \/ /\ store' = [store EXCEPT ![n] = Torn]
           /\ pend' = [pend EXCEPT ![c] = [pend[c] EXCEPT !.at = "write"]]
        \/ /\ store' = [store EXCEPT ![n] = pend[c].entry]
           /\ pend' = [pend EXCEPT ![c] = SK!Idle]
    BY <1>2 DEF SK!Truncate, SK!Write
  <1>4. [pend[c] EXCEPT !.at = "write"] \in Pending /\ pend[c].entry \in SK!Entries
    BY <1>1 DEF Pending
  <1>5. StoreTypes'
    BY <1>1, <1>3, <1>4 DEF StoreTypes
  <1>6. ASSUME ~overlap', ~crashed', NEW m \in Names
        PROVE  /\ \A d, e \in SK!Clients : Holds(d, m)' /\ Holds(e, m)' => d = e
               /\ \A d \in SK!Clients : Holds(d, m)' => pend'[d].entry = Counted(m)'
               /\ (\A d \in SK!Clients : ~Holds(d, m)') =>
                     IF store'[m] = Absent THEN tally'[m] = SK!NoTally
                     ELSE store'[m] = Counted(m)'
    <2>1. ~overlap /\ ~crashed /\ Counted(m)' = Counted(m) /\ tally'[m] = tally[m]
      BY <1>1, <1>6 DEF Counted
    <2>2. \A d \in SK!Clients : d # c => (Holds(d, m)' <=> Holds(d, m)) /\ pend'[d] = pend[d]
      BY <1>3 DEF StoreTypes, Holds
    <2>3. (Holds(c, m)' => Holds(c, m)) /\ (Holds(c, m) <=> m = n)
      BY <1>1, <1>2, <1>3 DEF StoreTypes, Holds, SK!Idle, Pending
    <2>4. Holds(c, m)' => pend'[c].entry = pend[c].entry
      BY <1>1, <1>3 DEF StoreTypes, Holds, Pending
    <2>5. Holds(c, n) /\ m # n => store'[m] = store[m]
      BY <1>3 DEF StoreTypes
    <2>6. CASE m # n
      BY <2>1, <2>2, <2>3, <2>5, <2>6, <1>3 DEF StoreInv, StoreTypes
    <2>7. CASE m = n
      <3>1. /\ \A d \in SK!Clients : Holds(d, m) => d = c
            /\ pend[c].entry = Counted(m)
        BY <2>1, <2>3, <2>7 DEF StoreInv
      <3>2. ~Holds(c, m)' => store'[m] = Counted(m) /\ store'[m] # Absent
        <4>1. ~Holds(c, m)' => store' = [store EXCEPT ![n] = pend[c].entry]
          BY <1>1, <1>2, <1>3, <2>7 DEF StoreTypes, Holds, SK!Idle, Pending
        <4>2. pend[c].entry # Absent
          BY <1>4, SkillConstants
        <4>. QED  BY <2>7, <3>1, <4>1, <4>2 DEF StoreTypes
      <3>. QED  BY <2>1, <2>2, <2>3, <2>4, <3>1, <3>2
    <2>. QED  BY <2>6, <2>7
  <1>7. StoreInv'
    BY <1>6 DEF StoreInv
  <1>. QED  BY <1>5, <1>7

\* The run wrote f; a write of it can be undone; the steps up to which the run
\* has got.
Touched(f) == before[f].step # 0
InDone(f)  == \E j \in 1..Len(run.done) : run.done[j].target = f
Underway   == run.pc \in OnItsWay
Reached    == IF run.pc = "record" THEN run.i ELSE run.i - 1
Over       == run.pc \in {"count", "over"}

Shape ==
    /\ DOMAIN backups = SK!Steps /\ DOMAIN before = SK!Paths
    /\ Underway => run.i >= 1 /\ run.through \in SK!Steps /\ Len(journal.steps) = run.i - 1
    /\ run.pc \in {"write", "record"} => run.i <= run.through
    /\ run.pc = "write" => SK!Target \in SK!Paths
    /\ run.pc = "count" => run.name # Absent
    /\ run.pc \in {"idle", "loaded"} =>
          /\ run.i = 1 /\ run.done = << >> /\ run.result = "none" /\ journal = SK!NoJournal
          /\ \A j \in SK!Steps : backups[j] = Absent
          /\ \A f \in SK!Paths : ~Touched(f)

\* A step that was made has its snapshot, and the journal says so; the steps to
\* come have none.
Snapshots ==
    /\ Underway => \A j \in SK!Steps :
           j > Reached /\ (run.pc = "write" => j # run.i) => backups[j] = Absent
    /\ \A f \in SK!Paths : /\ before[f].step \in Nat
                           /\ Underway => before[f].step <= Reached
                           /\ Touched(f) /\ ~run.leftover =>
                                 backups[before[f].step] = before[f].held
    /\ run.pc = "write" /\ ~run.leftover => backups[run.i] = files[SK!Target]
    /\ \A j \in 1..Len(journal.steps) : journal.steps[j].backup = (backups[j] # Absent)

\* Every write can be undone, and of the writes of a file the first one holds
\* what was there before.
Undo ==
    /\ \A j \in 1..Len(run.done) :
          /\ run.done[j].existed = (backups[run.done[j].step] # Absent)
          /\ Touched(run.done[j].target)
          /\ Underway => run.done[j].step <= Reached
          /\ (\A l \in 1..(j - 1) : run.done[l].target # run.done[j].target) =>
                run.done[j].step = before[run.done[j].target].step
    /\ Underway => \A f \in SK!Paths : Touched(f) => InDone(f)
    /\ run.pc = "undo" /\ ~run.leftover =>
          \A f \in SK!Paths : Touched(f) /\ ~InDone(f) => files[f] = before[f].held

NoFailure == \A j \in 1..Len(journal.steps) : journal.steps[j].result # "failed"
Restored  == \A f \in SK!Paths : Touched(f) => files[f] = before[f].held

Outcome ==
    /\ run.result = "rolled_back" => Over \/ run.pc = "undo"
    /\ run.result = "rolled_back" /\ run.pc = "undo" => run.status = "failed" /\ run.auto
    /\ ~Over => /\ run.status \in {"running", "failed"}
                /\ journal.status \notin {"completed", "rolled_back"}
                /\ run.status = "running" => NoFailure
    /\ journal.status = "completed" => NoFailure
    /\ journal.status = "rolled_back" /\ ~run.leftover => Restored

RunInv == RunTypes /\ Shape /\ Snapshots /\ Undo /\ Outcome

LEMMA RunSuffices == RunInv => SK!Recoverable /\ SK!OutcomeIsTrue
  <1>. SUFFICES ASSUME RunInv PROVE SK!Recoverable /\ SK!OutcomeIsTrue
    OBVIOUS
  <1>1. SK!Recoverable
    <2>. SUFFICES ASSUME ~run.leftover, NEW f \in DOMAIN files, before[f].step # 0
                  PROVE  /\ backups[before[f].step] = before[f].held
                         /\ before[f].step <= Len(journal.steps) =>
                               journal.steps[before[f].step].backup = (before[f].held # Absent)
      BY DEF SK!Recoverable
    <2>1. f \in SK!Paths /\ before[f].step \in Nat
      BY DEF RunInv, RunTypes, StagedRuns, Journals, Results, Snapshots
    <2>2. backups[before[f].step] = before[f].held
      BY <2>1 DEF RunInv, Snapshots, Touched
    <2>3. before[f].step <= Len(journal.steps) => before[f].step \in 1..Len(journal.steps)
      BY <2>1 DEF RunInv, RunTypes, StagedRuns, Journals, Results
    <2>. QED  BY <2>2, <2>3 DEF RunInv, Snapshots
  <1>2. SK!OutcomeIsTrue
    BY DEF RunInv, RunTypes, StagedRuns, Journals, Results, Outcome, NoFailure, Restored, Touched, SK!OutcomeIsTrue
  <1>. QED  BY <1>1, <1>2

LEMMA RunInit == SK!Init => RunInv
  <1>. SUFFICES ASSUME SK!Init PROVE RunInv
    OBVIOUS
  <1>1. RunTypes
    BY SkillInit
  <1>2. run = SK!NoRun /\ journal = SK!NoJournal
    BY DEF SK!Init
  <1>3. Shape /\ Snapshots
    BY <1>2 DEF SK!Init, Shape, Snapshots, Touched, Underway, OnItsWay, SK!NoRun, SK!NoJournal
  <1>4. Undo /\ Outcome
    BY <1>2 DEF SK!Init, Undo, Outcome, NoFailure, Restored, Touched, Underway, OnItsWay, Over,
                SK!NoRun, SK!NoJournal
  <1>. QED  BY <1>1, <1>3, <1>4 DEF RunInv

\* The steps of a run are among those that artifacts have.
LEMMA StepsBelow ==
    ASSUME NEW n \in SK!Steps, NEW i \in Nat, 1 <= i, i <= n
    PROVE  i \in SK!Steps
  <1>1. PICK a \in Artifacts : n \in DOMAIN a.steps
    BY DEF SK!Steps
  <1>2. i \in DOMAIN a.steps
    BY <1>1, SkillConstants
  <1>. QED  BY <1>2 DEF SK!Steps

\* The run ends as it stands.
LEMMA RunStops ==
    ASSUME RunInv, UNCHANGED <<backups, files, before>>,
           NEW leftover \in BOOLEAN, run.leftover => leftover,
           run' = [run EXCEPT !.pc = "over", !.leftover = leftover],
           NEW status \in {journal.status, Torn}, journal' = [journal EXCEPT !.status = status]
    PROVE  RunInv'
  <1>1. /\ run'.pc = "over" /\ run'.leftover = leftover /\ run'.done = run.done
        /\ run'.result = run.result /\ RunTypes'
    BY DEF RunInv, RunTypes, StagedRuns, Journals, Results
  <1>2. journal'.status = status /\ journal'.steps = journal.steps
    BY DEF RunInv, RunTypes, StagedRuns, Journals, Results
  <1>3. ~Underway' /\ Over'
    BY <1>1 DEF Underway, Over, OnItsWay
  <1>4. Shape'
    BY <1>1, <1>3 DEF RunInv, Shape
  <1>5. Snapshots'
    BY <1>1, <1>2, <1>3 DEF RunInv, Snapshots, Touched
  <1>6. Undo'
    BY <1>1, <1>2, <1>3 DEF RunInv, Undo, Touched
  <1>7. Outcome'
    <2>1. NoFailure' <=> NoFailure
      BY <1>2 DEF NoFailure
    <2>2. Restored' <=> Restored
      BY DEF Restored, Touched
    <2>3. journal'.status \in {"completed", "rolled_back"} => journal'.status = journal.status
      BY <1>2, SkillConstants
    <2>. QED  BY <1>1, <1>3, <2>1, <2>2, <2>3 DEF RunInv, Outcome
  <1>. QED  BY <1>1, <1>4, <1>5, <1>6, <1>7 DEF RunInv

\* The skill is loaded, and the run begins.
LEMMA RunLoads ==
    ASSUME RunInv, run.pc = "idle", UNCHANGED <<journal, backups, files, before>>,
           NEW art \in Artifacts \cup {Absent}, NEW name \in Names \cup {Absent},
           run' = [run EXCEPT !.pc = "loaded", !.art = art, !.name = name]
    PROVE  RunInv'
  <1>1. /\ run'.pc = "loaded" /\ run'.i = run.i /\ run'.leftover = run.leftover
        /\ run'.done = run.done /\ run'.result = run.result /\ run'.status = run.status
        /\ RunTypes'
    BY DEF RunInv, RunTypes, StagedRuns, Journals, Results
  <1>2. ~Underway /\ ~Underway' /\ ~Over /\ ~Over'
    BY <1>1 DEF Underway, Over, OnItsWay
  <1>3. Shape'
    BY <1>1, <1>2 DEF RunInv, Shape, Touched
  <1>4. Snapshots'
    BY <1>1, <1>2 DEF RunInv, Snapshots, Touched
  <1>5. Undo'
    BY <1>1, <1>2 DEF RunInv, Undo, Touched
  <1>6. Outcome'
    BY <1>1, <1>2 DEF RunInv, Outcome, NoFailure, Restored, Touched
  <1>. QED  BY <1>1, <1>3, <1>4, <1>5, <1>6 DEF RunInv

LEMMA RunStarts ==
    ASSUME RunInv, NEW through \in DOMAIN backups, NEW auto \in BOOLEAN, NEW stop \in BOOLEAN,
           SK!StartRun(through, auto, stop)
    PROVE  RunInv'
  <1>1. /\ run.pc = "loaded"
        /\ run' = [run EXCEPT !.pc = "step", !.through = through, !.auto = auto, !.stop = stop]
        /\ journal' = [status |-> "running", steps |-> << >>]
        /\ UNCHANGED <<backups, files, before>>
    BY DEF SK!StartRun, SK!AtRun
  <1>2. through \in SK!Steps /\ through \in Nat
    <2>1. through \in SK!Steps
      BY DEF RunInv, Shape
    <2>2. PICK a \in Artifacts : through \in DOMAIN a.steps
      BY <2>1 DEF SK!Steps
    <2>. QED  BY <2>1, <2>2, SkillConstants
  <1>3. /\ run'.pc = "step" /\ run'.i = run.i /\ run'.leftover = run.leftover
        /\ run'.done = run.done /\ run'.result = run.result /\ run'.status = run.status
        /\ run'.through = through /\ RunTypes'
    <2>1. journal' \in Journals
      BY <1>1 DEF Journals
    <2>2. run \in StagedRuns /\ DOMAIN files = SK!Paths
      BY DEF RunInv, RunTypes, StagedRuns, Journals, Results
    <2>3. run' \in StagedRuns
      BY <1>1, <1>2, <2>2 DEF StagedRuns, OnItsWay
    <2>4. RunTypes'
      BY <1>1, <2>1, <2>2, <2>3 DEF RunTypes, StagedRuns, Journals, Results
    <2>. QED  BY <1>1, <2>2, <2>4 DEF StagedRuns
  <1>4. Underway' /\ ~Over /\ ~Over'
    BY <1>1, <1>3 DEF Underway, Over, OnItsWay
  <1>5. /\ run.i = 1 /\ run.done = << >> /\ run.result = "none" /\ journal = SK!NoJournal
        /\ \A j \in SK!Steps : backups[j] = Absent
        /\ \A f \in SK!Paths : ~Touched(f)
    BY <1>1 DEF RunInv, Shape
  <1>6. \A f \in SK!Paths : before'[f].step = 0
    BY <1>1, <1>5 DEF Touched
  <1>7. Shape'
    BY <1>1, <1>2, <1>3, <1>5 DEF RunInv, Shape
  <1>8. Snapshots'
    BY <1>1, <1>3, <1>5, <1>6 DEF RunInv, Snapshots, Touched, Reached
  <1>9. Undo'
    BY <1>1, <1>3, <1>4, <1>5, <1>6 DEF Undo, Touched
  <1>10. Outcome'
    BY <1>1, <1>3, <1>4, <1>5 DEF RunInv, Outcome, NoFailure
  <1>. QED  BY <1>3, <1>7, <1>8, <1>9, <1>10 DEF RunInv

\* A step that is no write is made.
LEMMA RunActs ==
    ASSUME RunInv, run.pc = "step", run.i <= run.through, DOMAIN files' = DOMAIN files,
           UNCHANGED <<journal, backups, before>>,
           NEW res \in {"manual", "completed", "failed"}, NEW leftover \in BOOLEAN,
           run.leftover => leftover,
           run' = [run EXCEPT !.pc = "record", !.result = res, !.leftover = leftover]
    PROVE  RunInv'
  <1>1. /\ run'.pc = "record" /\ run'.i = run.i /\ run'.leftover = leftover
        /\ run'.done = run.done /\ run'.result = res /\ run'.status = run.status
        /\ run'.through = run.through /\ RunTypes'
    BY DEF RunInv, RunTypes, StagedRuns, Journals, Results, OnItsWay
  <1>2. Underway /\ Underway' /\ ~Over /\ ~Over'
    BY <1>1 DEF Underway, Over, OnItsWay
  <1>3. Reached = run.i - 1 /\ Reached' = run.i /\ run.i \in Nat
    BY <1>1 DEF Reached, RunInv, RunTypes, StagedRuns, Journals, Results
  <1>4. Shape'
    BY <1>1, <1>2 DEF RunInv, Shape
  <1>5. Snapshots'
    <2>1. \A j \in SK!Steps : j > Reached => backups[j] = Absent
      BY <1>2 DEF RunInv, Snapshots
    <2>2. \A j \in SK!Steps : j \in Int
      BY SkillConstants DEF SK!Steps
    <2>3. \A f \in SK!Paths : /\ before[f].step \in Nat /\ before[f].step <= Reached
                              /\ Touched(f) /\ ~run.leftover =>
                                    backups[before[f].step] = before[f].held
      BY <1>2 DEF RunInv, Snapshots
    <2>4. \A j \in 1..Len(journal.steps) : journal.steps[j].backup = (backups[j] # Absent)
      BY DEF RunInv, Snapshots
    <2>. QED  BY <1>1, <1>2, <1>3, <2>1, <2>2, <2>3, <2>4 DEF Snapshots, Touched
  <1>6. Undo'
    <2>1. \A j \in 1..Len(run.done) : run.done[j].step <= run.i
      <3>1. \A j \in 1..Len(run.done) : run.done[j].step <= Reached
        BY <1>2 DEF RunInv, Undo
      <3>2. \A j \in 1..Len(run.done) : run.done[j] \in Undos
        BY DEF RunInv, RunTypes, StagedRuns, Journals, Results
      <3>3. \A j \in 1..Len(run.done) : run.done[j].step \in Nat
        BY <3>2 DEF Undos
      <3>. QED  BY <1>3, <3>1, <3>3
    <2>2. \A f \in SK!Paths : Touched(f) => InDone(f)
      BY <1>2 DEF RunInv, Undo
    <2>. QED  BY <1>1, <1>2, <1>3, <2>1, <2>2 DEF RunInv, Undo, Touched, InDone
  <1>7. Outcome'
    BY <1>1, <1>2 DEF RunInv, Outcome, NoFailure
  <1>. QED  BY <1>1, <1>4, <1>5, <1>6, <1>7 DEF RunInv

\* What holds of a step underway, spelled out.
LEMMA StepFacts ==
    ASSUME RunInv, Underway, 1 <= run.i, run.i <= run.through
    PROVE  /\ run.i \in SK!Steps /\ run.i \in Nat /\ Len(journal.steps) = run.i - 1
           /\ \A j \in SK!Steps : j \in Nat
  <1>1. run.i \in Nat /\ run.through \in SK!Steps /\ Len(journal.steps) = run.i - 1
    BY DEF RunInv, RunTypes, StagedRuns, Shape
  <1>2. \A j \in SK!Steps : j \in Nat
    BY SkillConstants DEF SK!Steps
  <1>. QED  BY <1>1, <1>2, StepsBelow

LEMMA RunSnapshot == ASSUME RunInv, SK!Snapshot PROVE RunInv'
  <1>. DEFINE held == files[SK!Target]
  <1>1. /\ run.pc = "step" /\ run.i <= run.through /\ SK!Target \in DOMAIN files
        /\ run' = [run EXCEPT !.pc = "write"] /\ UNCHANGED <<journal, files, before>>
        /\ backups' = IF held = Absent THEN backups ELSE [backups EXCEPT ![run.i] = held]
    BY DEF SK!Snapshot, SK!StepIs, SK!AtRun, SK!Run
  <1>2. /\ run'.pc = "write" /\ run'.i = run.i /\ run'.leftover = run.leftover
        /\ run'.done = run.done /\ run'.result = run.result /\ run'.status = run.status
        /\ run'.through = run.through /\ run'.art = run.art /\ RunTypes'
    BY <1>1 DEF RunInv, RunTypes, StagedRuns, Journals, Results, OnItsWay
  <1>3. Underway /\ Underway' /\ ~Over /\ ~Over'
    BY <1>1, <1>2 DEF Underway, Over, OnItsWay
  <1>4. run.i \in SK!Steps /\ run.i \in Nat /\ Len(journal.steps) = run.i - 1
        /\ \A j \in SK!Steps : j \in Nat
    BY <1>1, <1>3, StepFacts DEF RunInv, Shape
  <1>5. Reached = run.i - 1 /\ Reached' = run.i - 1
    BY <1>1, <1>2 DEF Reached
  <1>6. SK!Target' = SK!Target
    BY <1>2 DEF SK!Target, SK!CurrentStep
  <1>7. DOMAIN backups = SK!Steps /\ backups[run.i] = Absent
    BY <1>1, <1>3, <1>4, <1>5 DEF RunInv, Shape, Snapshots
  <1>. HIDE DEF held
  <1>8. /\ DOMAIN backups' = SK!Steps /\ backups'[run.i] = held
        /\ \A j \in SK!Steps : j # run.i => backups'[j] = backups[j]
    BY <1>1, <1>4, <1>7
  <1>9. Shape'
    <2>1. SK!Target' \in SK!Paths
      BY <1>1, <1>6 DEF RunInv, RunTypes
    <2>. QED  BY <1>1, <1>2, <1>3, <1>8, <2>1 DEF RunInv, Shape
  <1>10. Snapshots'
    <2>1. \A j \in SK!Steps : j > Reached' /\ j # run.i => backups'[j] = Absent
      BY <1>1, <1>3, <1>4, <1>5, <1>8 DEF RunInv, Snapshots
    <2>2. \A f \in SK!Paths : /\ before[f].step \in Nat /\ before[f].step <= Reached
                              /\ Touched(f) /\ ~run.leftover =>
                                    backups[before[f].step] = before[f].held
      BY <1>3 DEF RunInv, Snapshots
    <2>3. \A f \in SK!Paths : Touched(f) => before[f].step \in SK!Steps /\ before[f].step # run.i
      <3>. SUFFICES ASSUME NEW f \in SK!Paths, Touched(f)
                    PROVE  before[f].step \in SK!Steps /\ before[f].step # run.i
        OBVIOUS
      <3>1. before[f].step \in Nat /\ before[f].step <= run.i - 1 /\ before[f].step >= 1
        BY <1>5, <2>2 DEF Touched
      <3>. QED  BY <1>4, <3>1, StepsBelow
    <2>4. \A j \in 1..Len(journal.steps) :
              journal.steps[j].backup = (backups[j] # Absent) /\ j \in SK!Steps /\ j # run.i
      BY <1>4, StepsBelow DEF RunInv, Snapshots
    <2>5. backups'[run.i] = files[SK!Target]
      BY <1>8 DEF held
    <2>6. \A f \in SK!Paths : Touched(f) /\ ~run.leftover =>
              backups'[before[f].step] = before[f].held
      BY <1>8, <2>2, <2>3
    <2>7. \A j \in 1..Len(journal.steps) : journal.steps[j].backup = (backups'[j] # Absent)
      BY <1>8, <2>4
    <2>. QED  BY <1>1, <1>2, <1>3, <1>5, <1>6, <2>1, <2>2, <2>5, <2>6, <2>7
              DEF Snapshots, Touched
  <1>11. Undo'
    <2>1. \A j \in 1..Len(run.done) : run.done[j].existed = (backups'[run.done[j].step] # Absent)
      <3>. SUFFICES ASSUME NEW j \in 1..Len(run.done)
                    PROVE  backups'[run.done[j].step] = backups[run.done[j].step]
        BY DEF RunInv, Undo
      <3>1. run.done[j] \in Undos
        BY DEF RunInv, RunTypes, StagedRuns
      <3>2. run.done[j].step <= Reached
        BY <1>3 DEF RunInv, Undo
      <3>3. run.done[j].step \in Nat /\ run.done[j].step >= 1 /\ run.done[j].step <= run.i - 1
        BY <1>5, <3>1, <3>2 DEF Undos
      <3>4. run.done[j].step \in SK!Steps /\ run.done[j].step # run.i
        BY <1>4, <3>3, StepsBelow
      <3>. QED  BY <1>8, <3>4
    <2>. QED  BY <1>1, <1>2, <1>3, <1>5, <2>1 DEF RunInv, Undo, Touched, InDone
  <1>12. Outcome'
    BY <1>1, <1>2, <1>3 DEF RunInv, Outcome, NoFailure
  <1>. QED  BY <1>2, <1>9, <1>10, <1>11, <1>12 DEF RunInv

\* What the first write of a file overwrites has its snapshot.
LEMMA RunRemembers ==
    ASSUME RunInv, run.pc = "write", SK!Remember(SK!Target), UNCHANGED backups
    PROVE  /\ DOMAIN before' = SK!Paths
           /\ \A f \in SK!Paths :
                 /\ before'[f].step \in Nat /\ before'[f].step <= run.i
                 /\ Touched(f)' <=> Touched(f) \/ f = SK!Target
                 /\ Touched(f) => before'[f] = before[f]
                 /\ Touched(f)' /\ ~Touched(f) => before'[f].step = run.i
                 /\ Touched(f)' /\ ~run.leftover => backups[before'[f].step] = before'[f].held
  <1>1. Underway /\ SK!Target \in SK!Paths /\ run.i \in Nat /\ run.i >= 1
    BY DEF RunInv, RunTypes, StagedRuns, Shape, Underway, OnItsWay
  <1>2. /\ DOMAIN before = SK!Paths
        /\ ~run.leftover => backups[run.i] = files[SK!Target]
        /\ \A f \in SK!Paths : /\ before[f].step \in Nat /\ before[f].step <= run.i - 1
                               /\ Touched(f) /\ ~run.leftover =>
                                     backups[before[f].step] = before[f].held
    BY <1>1 DEF RunInv, Shape, Snapshots, Reached
  <1>3. PICK t : t = SK!Target
    OBVIOUS
  <1>4. before' = IF before[t].step = 0
                  THEN [before EXCEPT ![t] = [step |-> run.i, held |-> files[t]]]
                  ELSE before
    BY <1>3 DEF SK!Remember
  <1>5. CASE before[t].step = 0
    <2>1. /\ DOMAIN before' = SK!Paths /\ before'[t] = [step |-> run.i, held |-> files[t]]
          /\ \A f \in SK!Paths : f # t => before'[f] = before[f]
      BY <1>1, <1>2, <1>3, <1>4, <1>5
    <2>2. before'[t].step = run.i /\ before'[t].held = files[t]
      BY <2>1
    <2>. QED  BY <1>1, <1>2, <1>3, <1>5, <2>1, <2>2 DEF Touched
  <1>6. CASE before[t].step # 0
    BY <1>1, <1>2, <1>3, <1>4, <1>6 DEF Touched
  <1>. QED  BY <1>5, <1>6

LEMMA RunWrites == ASSUME RunInv, SK!WriteFile PROVE RunInv'
  <1>0. PICK t, u : /\ t = SK!Target
                    /\ u = [step |-> run.i, target |-> t, existed |-> backups[run.i] # Absent]
    OBVIOUS
  <1>1. /\ run.pc = "write" /\ SK!Remember(SK!Target) /\ UNCHANGED <<journal, backups>>
        /\ run' = [run EXCEPT !.pc = "record", !.result = "completed",
                              !.done = Append(run.done, u)]
        /\ DOMAIN files' = DOMAIN files
    BY <1>0 DEF SK!WriteFile, SK!AtRun, SK!Change
  <1>2. /\ run.i \in Nat /\ run.i >= 1 /\ t \in SK!Paths /\ run.done \in Seq(Undos)
    BY <1>0, <1>1 DEF RunInv, RunTypes, StagedRuns, Shape, Underway, OnItsWay
  <1>3. u \in Undos
    BY <1>0, <1>2 DEF Undos
  <1>a. PICK done, n : done = Append(run.done, u) /\ n = Len(run.done)
    OBVIOUS
  <1>4. /\ done \in Seq(Undos) /\ n \in Nat /\ Len(done) = n + 1 /\ done[n + 1] = u
        /\ \A j \in 1..n : done[j] = run.done[j]
    BY <1>a, <1>2, <1>3, AppendFacts
  <1>5. run' = [run EXCEPT !.pc = "record", !.result = "completed", !.done = done]
    BY <1>a, <1>1
  <1>6. /\ run'.pc = "record" /\ run'.i = run.i /\ run'.leftover = run.leftover
        /\ run'.done = done /\ run'.result = "completed" /\ run'.status = run.status
        /\ run'.through = run.through /\ RunTypes'
    BY <1>1, <1>4, <1>5 DEF RunInv, RunTypes, StagedRuns, Journals, Results, OnItsWay
  <1>7. Underway /\ Underway' /\ ~Over /\ ~Over'
    BY <1>1, <1>6 DEF Underway, Over, OnItsWay
  <1>8. Reached = run.i - 1 /\ Reached' = run.i
    BY <1>1, <1>6 DEF Reached
  <1>9. /\ DOMAIN before' = SK!Paths
        /\ \A f \in SK!Paths :
              /\ before'[f].step \in Nat /\ before'[f].step <= run.i
              /\ Touched(f)' <=> Touched(f) \/ f = t
              /\ Touched(f) => before'[f] = before[f]
              /\ Touched(f)' /\ ~Touched(f) => before'[f].step = run.i
              /\ Touched(f)' /\ ~run.leftover => backups[before'[f].step] = before'[f].held
    BY <1>0, <1>1, RunRemembers
  <1>10. Shape'
    BY <1>1, <1>6, <1>7, <1>9 DEF RunInv, Shape
  <1>11. Snapshots'
    <2>1. \A j \in SK!Steps : j > run.i => backups[j] = Absent
      <3>1. \A j \in SK!Steps : j \in Nat
        BY SkillConstants DEF SK!Steps
      <3>. QED  BY <1>1, <1>2, <1>7, <1>8, <3>1 DEF RunInv, Snapshots
    <2>2. \A j \in 1..Len(journal.steps) : journal.steps[j].backup = (backups[j] # Absent)
      BY DEF RunInv, Snapshots
    <2>. QED  BY <1>1, <1>6, <1>8, <1>9, <2>1, <2>2 DEF Snapshots
  <1>12. Undo'
    <2>1. ASSUME NEW j \in 1..(n + 1)
          PROVE  /\ done[j].existed = (backups[done[j].step] # Absent)
                 /\ Touched(done[j].target)' /\ done[j].step <= run.i
                 /\ (\A l \in 1..(j - 1) : done[l].target # done[j].target) =>
                        done[j].step = before'[done[j].target].step
      <3>1. CASE j \in 1..n
        <4>1. done[j] = run.done[j] /\ run.done[j] \in Undos
          BY <1>a, <1>2, <1>4, <3>1
        <4>2. /\ done[j].existed = (backups[done[j].step] # Absent)
              /\ Touched(done[j].target) /\ done[j].step <= run.i - 1
              /\ (\A l \in 1..(j - 1) : run.done[l].target # done[j].target) =>
                        done[j].step = before[done[j].target].step
          BY <1>a, <1>7, <1>8, <3>1, <4>1 DEF RunInv, Undo
        <4>3. done[j].step \in Nat /\ done[j].target \in SK!Paths
          BY <4>1 DEF Undos
        <4>4. \A l \in 1..(j - 1) : l \in 1..n /\ done[l] = run.done[l]
          BY <1>4, <3>1
        <4>5. done[j].step <= run.i
          BY <1>2, <4>2, <4>3
        <4>6. Touched(done[j].target)' /\ before'[done[j].target] = before[done[j].target]
          BY <1>9, <4>2, <4>3
        <4>7. (\A l \in 1..(j - 1) : done[l].target # done[j].target) =>
                  done[j].step = before'[done[j].target].step
          BY <4>2, <4>4, <4>6
        <4>. QED  BY <4>2, <4>5, <4>6, <4>7
      <3>2. CASE j = n + 1
        <4>1. done[j].step = run.i /\ done[j].target = t
              /\ done[j].existed = (backups[run.i] # Absent)
          BY <1>0, <1>4, <3>2
        <4>2. Touched(t)' /\ done[j].step <= run.i
          BY <1>2, <1>9, <4>1
        <4>3. (\A l \in 1..n : done[l].target # t) => before'[t].step = run.i
          <5>1. Touched(t) => InDone(t)
            BY <1>2, <1>7 DEF RunInv, Undo
          <5>2. InDone(t) => \E l \in 1..n : done[l].target = t
            BY <1>a, <1>4 DEF InDone
          <5>. QED  BY <1>2, <1>9, <5>1, <5>2
        <4>4. (\A l \in 1..(j - 1) : done[l].target # done[j].target) =>
                  done[j].step = before'[done[j].target].step
          <5>1. j - 1 = n
            BY <1>4, <3>2
          <5>. QED  BY <4>1, <4>3, <5>1
        <4>5. Touched(done[j].target)'
          BY <4>1, <4>2
        <4>. QED  BY <4>1, <4>2, <4>4, <4>5
      <3>. QED  BY <1>4, <3>1, <3>2
    <2>2. ASSUME NEW f \in SK!Paths, Touched(f)'
          PROVE  \E j \in 1..(n + 1) : done[j].target = f
      <3>1. CASE f = t
        BY <1>0, <1>4, <3>1
      <3>2. CASE f # t
        <4>1. \E j \in 1..n : run.done[j].target = f
          BY <1>a, <1>7, <1>9, <2>2, <3>2 DEF RunInv, Undo, InDone
        <4>. QED  BY <1>4, <4>1
      <3>. QED  BY <3>1, <3>2
    <2>3. \A f \in SK!Paths : Touched(f)' => InDone(f)'
      BY <1>4, <1>6, <2>2 DEF InDone
    <2>4. \A j \in 1..Len(run'.done) :
              /\ run'.done[j].existed = (backups'[run'.done[j].step] # Absent)
              /\ before'[run'.done[j].target].step # 0 /\ run'.done[j].step <= Reached'
              /\ (\A l \in 1..(j - 1) : run'.done[l].target # run'.done[j].target) =>
                     run'.done[j].step = before'[run'.done[j].target].step
      <3>1. \A j \in 1..(n + 1) :
              /\ done[j].existed = (backups'[done[j].step] # Absent)
              /\ before'[done[j].target].step # 0 /\ done[j].step <= Reached'
              /\ (\A l \in 1..(j - 1) : done[l].target # done[j].target) =>
                     done[j].step = before'[done[j].target].step
        <4>. TAKE j \in 1..(n + 1)
        <4>1. Touched(done[j].target)' <=> before'[done[j].target].step # 0
          BY DEF Touched
        <4>2. backups' = backups
          BY <1>1
        <4>. QED  BY <1>8, <2>1, <4>1, <4>2
      <3>2. Len(run'.done) = n + 1 /\ run'.done = done
        BY <1>4, <1>6
      <3>. QED  BY <3>1, <3>2
    <2>. QED  BY <1>6, <2>3, <2>4 DEF Undo, Touched
  <1>13. Outcome'
    BY <1>1, <1>6, <1>7 DEF RunInv, Outcome, NoFailure
  <1>. QED  BY <1>6, <1>10, <1>11, <1>12, <1>13 DEF RunInv

LEMMA RunBreaks == ASSUME RunInv, SK!WriteBreaks PROVE RunInv'
  <1>1. /\ run.pc = "write" /\ SK!Remember(SK!Target) /\ UNCHANGED <<journal, backups>>
        /\ run' = [run EXCEPT !.pc = "over"] /\ DOMAIN files' = DOMAIN files
    BY DEF SK!WriteBreaks, SK!AtRun, SK!Run, SK!Change
  <1>2. /\ run'.pc = "over" /\ run'.i = run.i /\ run'.leftover = run.leftover
        /\ run'.done = run.done /\ run'.result = run.result /\ run'.status = run.status
        /\ RunTypes'
    BY <1>1 DEF RunInv, RunTypes, StagedRuns, Journals, Results
  <1>3. Underway /\ ~Underway' /\ ~Over /\ Over'
    BY <1>1, <1>2 DEF Underway, Over, OnItsWay
  <1>4. Shape'
    BY <1>1, <1>2, <1>3, RunRemembers DEF RunInv, Shape
  <1>5. Snapshots'
    <2>1. \A j \in 1..Len(journal.steps) : journal.steps[j].backup = (backups[j] # Absent)
      BY DEF RunInv, Snapshots
    <2>. QED  BY <1>1, <1>2, <1>3, <2>1, RunRemembers DEF Snapshots
  <1>6. Undo'
    <2>1. \A j \in 1..Len(run.done) :
              /\ run.done[j].existed = (backups[run.done[j].step] # Absent)
              /\ Touched(run.done[j].target) /\ run.done[j].target \in SK!Paths
              /\ (\A l \in 1..(j - 1) : run.done[l].target # run.done[j].target) =>
                    run.done[j].step = before[run.done[j].target].step
      <3>1. \A j \in 1..Len(run.done) : run.done[j] \in Undos
        BY DEF RunInv, RunTypes, StagedRuns
      <3>2. \A j \in 1..Len(run.done) : run.done[j].target \in SK!Paths
        BY <3>1 DEF Undos
      <3>. QED  BY <3>2 DEF RunInv, Undo
    <2>2. \A f \in SK!Paths : Touched(f) => Touched(f)' /\ before'[f] = before[f]
      BY <1>1, RunRemembers
    <2>. QED  BY <1>1, <1>2, <1>3, <2>1, <2>2 DEF Undo
  <1>7. Outcome'
    BY <1>1, <1>2, <1>3 DEF RunInv, Outcome, NoFailure
  <1>. QED  BY <1>2, <1>4, <1>5, <1>6, <1>7 DEF RunInv

LEMMA RunRecords == ASSUME RunInv, SK!RecordStep PROVE RunInv'
  <1>0. PICK status, entry, steps, n :
           /\ status = IF SK!Failed THEN "failed" ELSE run.status
           /\ entry = [step |-> run.i, result |-> run.result, backup |-> backups[run.i] # Absent]
           /\ steps = Append(journal.steps, entry) /\ n = Len(journal.steps)
    OBVIOUS
  <1>1. PICK to, i : /\ \/ to = "undo" /\ i = run.i
                        \/ to = "step" /\ i = run.i + 1
                     /\ run' = [run EXCEPT !.status = status, !.pc = to, !.i = i]
    <2>1. run' = [run EXCEPT !.status = status,
                             !.pc = IF SK!Failed /\ run.stop THEN "undo" ELSE "step",
                             !.i = IF SK!Failed /\ run.stop THEN run.i ELSE run.i + 1]
      BY <1>0 DEF SK!RecordStep
    <2>. QED  BY <2>1
  <1>2. /\ run.pc = "record" /\ UNCHANGED <<backups, files, before>>
        /\ journal' = [status |-> status, steps |-> steps]
    BY <1>0 DEF SK!RecordStep, SK!AtRun
  <1>3. Underway /\ ~Over
    BY <1>2 DEF Underway, Over, OnItsWay
  <1>4. /\ run.i \in Nat /\ run.i >= 1 /\ run.i <= run.through /\ run.i \in SK!Steps
        /\ n = run.i - 1 /\ journal.steps \in Seq(Records) /\ n \in Nat
        /\ \A j \in SK!Steps : j \in Nat
    <2>1. run.i \in Nat /\ run.i >= 1 /\ run.i <= run.through /\ journal.steps \in Seq(Records)
      BY <1>2, <1>3 DEF RunInv, RunTypes, StagedRuns, Journals, Results, Shape
    <2>. QED  BY <1>0, <1>3, <2>1, StepFacts
  <1>5. /\ run.status \in {"running", "failed"} /\ status \in {"running", "failed"}
        /\ status = "running" => run.status = "running" /\ run.result # "failed"
    BY <1>0, <1>3 DEF RunInv, Outcome, SK!Failed
  <1>6. entry \in Records /\ entry.result = run.result
        /\ entry.backup = (backups[run.i] # Absent)
    BY <1>0, <1>4 DEF RunInv, RunTypes, StagedRuns, Records
  <1>7. /\ steps \in Seq(Records) /\ Len(steps) = n + 1 /\ steps[n + 1] = entry
        /\ \A j \in 1..n : steps[j] = journal.steps[j]
    <2>1. PICK old : old = journal.steps
      OBVIOUS
    <2>2. /\ steps \in Seq(Records) /\ Len(steps) = Len(old) + 1 /\ steps[Len(steps)] = entry
          /\ \A j \in 1..Len(old) : steps[j] = old[j]
      BY <1>0, <1>4, <1>6, <2>1, AppendFacts
    <2>. QED  BY <1>0, <2>1, <2>2
  <1>8. /\ run'.pc = to /\ run'.i = i /\ run'.leftover = run.leftover
        /\ run'.done = run.done /\ run'.result = run.result /\ run'.status = status
        /\ run'.through = run.through /\ run' \in StagedRuns
    <2>1. i \in Nat /\ run \in StagedRuns
      BY <1>1, <1>4 DEF RunInv, RunTypes
    <2>. QED  BY <1>1, <1>5, <2>1 DEF StagedRuns, OnItsWay
  <1>9. journal'.status = status /\ journal'.steps = steps /\ RunTypes'
    <2>1. journal' \in Journals
      BY <1>2, <1>5, <1>7 DEF Journals
    <2>. QED  BY <1>2, <1>8, <2>1 DEF RunInv, RunTypes
  <1>10. /\ ~Over' /\ Reached = run.i
         /\ Underway' => to = "step" /\ Reached' = run.i
    BY <1>1, <1>2, <1>4, <1>8 DEF Over, Reached, Underway, OnItsWay
  <1>11. Shape'
    <2>1. Underway' => i >= 1 /\ run.through \in SK!Steps /\ Len(steps) = i - 1
      BY <1>1, <1>3, <1>4, <1>7, <1>10 DEF RunInv, Shape
    <2>2. to \notin {"write", "record", "idle", "loaded", "count"}
      BY <1>1
    <2>. QED  BY <1>2, <1>8, <1>9, <2>1, <2>2 DEF RunInv, Shape
  <1>12. Snapshots'
    <2>1. \A j \in 1..(n + 1) : steps[j].backup = (backups[j] # Absent)
      <3>1. \A j \in 1..n : steps[j].backup = (backups[j] # Absent)
        BY <1>0, <1>7 DEF RunInv, Snapshots
      <3>2. steps[n + 1].backup = (backups[n + 1] # Absent)
        BY <1>4, <1>6, <1>7
      <3>. QED  BY <1>4, <3>1, <3>2
    <2>2. \A j \in 1..Len(journal'.steps) : journal'.steps[j].backup = (backups[j] # Absent)
      BY <1>7, <1>9, <2>1
    <2>3. \A j \in SK!Steps : j > run.i => backups[j] = Absent
      BY <1>2, <1>3, <1>10 DEF RunInv, Snapshots
    <2>4. \A f \in SK!Paths : /\ before[f].step \in Nat /\ before[f].step <= run.i
                              /\ Touched(f) /\ ~run.leftover =>
                                    backups[before[f].step] = before[f].held
      BY <1>3, <1>10 DEF RunInv, Snapshots
    <2>5. to # "write"
      BY <1>1
    <2>. QED  BY <1>2, <1>8, <1>10, <2>2, <2>3, <2>4, <2>5 DEF Snapshots, Touched
  <1>13. Undo'
    <2>1. \A f \in SK!Paths : Touched(f) => InDone(f)
      BY <1>3 DEF RunInv, Undo
    <2>2. \A j \in 1..Len(run.done) : run.done[j].step <= run.i
      BY <1>3, <1>10 DEF RunInv, Undo
    <2>. QED  BY <1>2, <1>8, <1>10, <2>1, <2>2 DEF RunInv, Undo, Touched, InDone
  <1>14. Outcome'
    <2>1. status = "running" => NoFailure'
      <3>1. status = "running" => \A j \in 1..n : journal.steps[j].result # "failed"
        BY <1>0, <1>3, <1>5 DEF RunInv, Outcome, NoFailure
      <3>2. status = "running" => steps[n + 1].result # "failed"
        BY <1>5, <1>6, <1>7
      <3>3. status = "running" => \A j \in 1..(n + 1) : steps[j].result # "failed"
        <4>. SUFFICES ASSUME status = "running", NEW j \in 1..(n + 1)
                      PROVE  steps[j].result # "failed"
          OBVIOUS
        <4>1. CASE j \in 1..n
          BY <1>7, <3>1, <4>1
        <4>2. CASE j = n + 1
          BY <3>2, <4>2
        <4>. QED  BY <1>4, <4>1, <4>2
      <3>. QED  BY <1>7, <1>9, <3>3 DEF NoFailure
    <2>2. run.result # "rolled_back"
      BY <1>2, <1>3 DEF RunInv, Outcome
    <2>. QED  BY <1>5, <1>8, <1>9, <1>10, <2>1, <2>2 DEF Outcome
  <1>. QED  BY <1>9, <1>11, <1>12, <1>13, <1>14 DEF RunInv

LEMMA RunTurns == ASSUME RunInv, SK!StepsOver PROVE RunInv'
  <1>1. /\ run.pc = "step" /\ run' = [run EXCEPT !.pc = "undo"]
        /\ UNCHANGED <<journal, backups, files, before>>
    BY DEF SK!StepsOver, SK!AtRun, SK!Run
  <1>2. /\ run'.pc = "undo" /\ run'.leftover = run.leftover
        /\ run'.done = run.done /\ run'.result = run.result /\ run'.status = run.status
        /\ RunTypes'
    BY <1>1 DEF RunInv, RunTypes, StagedRuns, Journals, Results
  <1>3. Underway /\ ~Underway' /\ ~Over /\ ~Over'
    BY <1>1, <1>2 DEF Underway, Over, OnItsWay
  <1>4. Shape'
    BY <1>1, <1>2, <1>3 DEF RunInv, Shape
  <1>5. Snapshots'
    BY <1>1, <1>2, <1>3 DEF RunInv, Snapshots, Touched
  <1>6. Undo'
    BY <1>1, <1>2, <1>3 DEF RunInv, Undo, Touched, InDone
  <1>7. Outcome'
    BY <1>1, <1>2, <1>3 DEF RunInv, Outcome, NoFailure
  <1>. QED  BY <1>2, <1>4, <1>5, <1>6, <1>7 DEF RunInv

LEMMA RunFinishes == ASSUME RunInv, SK!Finish PROVE RunInv'
  <1>1. PICK status, to : /\ journal' = [journal EXCEPT !.status = status]
                          /\ run' = [run EXCEPT !.pc = to, !.status = status]
                          /\ to = IF run.name = Absent THEN "over" ELSE "count"
                          /\ status = CASE run.result = "rolled_back" -> "rolled_back"
                                        [] run.status = "running"     -> "completed"
                                        [] OTHER                      -> run.status
    BY DEF SK!Finish
  <1>2. /\ run.pc = "undo" /\ ~SK!Undoing /\ UNCHANGED <<backups, files, before>>
        /\ pend["run"] = SK!Idle
    BY DEF SK!Finish, SK!AtRun
  <1>3. ~Underway /\ ~Over
    BY <1>2 DEF Underway, Over, OnItsWay
  <1>4. /\ run.status \in {"running", "failed"}
        /\ status \in {"failed", "completed", "rolled_back"}
        /\ status = "rolled_back" => run.result = "rolled_back"
        /\ status = "completed" => run.status = "running"
    BY <1>1, <1>3 DEF RunInv, Outcome
  <1>5. /\ run'.pc = to /\ run'.leftover = run.leftover /\ run'.done = run.done
        /\ run'.result = run.result /\ run'.status = status /\ run' \in StagedRuns
        /\ run'.name = run.name
    <2>1. run \in StagedRuns
      BY DEF RunInv, RunTypes
    <2>. QED  BY <1>1, <1>4, <2>1 DEF StagedRuns
  <1>6. journal'.status = status /\ journal'.steps = journal.steps /\ RunTypes'
    BY <1>1, <1>2, <1>4, <1>5 DEF RunInv, RunTypes, Journals
  <1>7. ~Underway' /\ Over'
    BY <1>1, <1>5 DEF Underway, Over, OnItsWay
  <1>8. Shape'
    BY <1>1, <1>2, <1>5, <1>7 DEF RunInv, Shape
  <1>9. Snapshots'
    BY <1>1, <1>2, <1>5, <1>6, <1>7 DEF RunInv, Snapshots, Touched
  <1>10. Undo'
    BY <1>1, <1>2, <1>5, <1>7 DEF RunInv, Undo, Touched
  <1>11. Outcome'
    <2>1. status = "completed" => NoFailure
      BY <1>3, <1>4 DEF RunInv, Outcome
    <2>2. status = "rolled_back" /\ ~run.leftover => Restored
      <3>. SUFFICES ASSUME status = "rolled_back", ~run.leftover PROVE Restored
        OBVIOUS
      <3>1. run.status = "failed" /\ run.auto
        BY <1>2, <1>4 DEF RunInv, Outcome
      <3>2. run.done = << >>
        BY <1>2, <3>1 DEF SK!Undoing, SK!AtRun
      <3>3. \A f \in SK!Paths : ~InDone(f)
        BY <3>2 DEF InDone
      <3>. QED  BY <1>2, <3>3 DEF RunInv, Undo, Restored
    <2>3. (NoFailure' <=> NoFailure) /\ (Restored' <=> Restored)
      BY <1>2, <1>6 DEF NoFailure, Restored, Touched
    <2>4. run'.pc # "undo"
      BY <1>7 DEF Over
    <2>. QED  BY <1>5, <1>6, <1>7, <2>1, <2>2, <2>3, <2>4 DEF Outcome
  <1>. QED  BY <1>6, <1>8, <1>9, <1>10, <1>11 DEF RunInv

\* The last write is undone; if it was the first of its file, the file is again
\* what it was.
LEMMA RunUndoes == ASSUME RunInv, SK!Rollback PROVE RunInv'
  <1>1. /\ run.pc = "undo" /\ run.status = "failed" /\ run.auto /\ run.done # << >>
        /\ UNCHANGED <<journal, backups, before>>
        /\ files' = [files EXCEPT ![SK!Last(run.done).target] =
                        SK!UndoneBefore(SK!Last(run.done))]
        /\ run' = [run EXCEPT !.done = SK!Front(run.done), !.result = "rolled_back"]
    BY DEF SK!Rollback, SK!Undoing, SK!AtRun, SK!Change
  <1>2. PICK done, n, last, t : /\ done = SK!Front(run.done) /\ n = Len(run.done)
                                /\ last = run.done[n] /\ t = last.target
    OBVIOUS
  <1>3. /\ n \in Nat /\ n >= 1 /\ last \in Undos /\ last = SK!Last(run.done)
        /\ run.done \in Seq(Undos)
    BY <1>1, <1>2 DEF RunInv, RunTypes, StagedRuns, SK!Last
  <1>4. /\ done \in Seq(Undos) /\ Len(done) = n - 1
        /\ \A j \in 1..(n - 1) : done[j] = run.done[j]
    BY <1>2, <1>3 DEF SK!Front
  <1>5. t \in SK!Paths /\ last.step \in Nat
    BY <1>2, <1>3 DEF Undos
  <1>6. files' = [files EXCEPT ![t] = backups[last.step]]
    <2>1. last.existed = (backups[last.step] # Absent)
      <3>1. n \in 1..Len(run.done)
        BY <1>2, <1>3
      <3>. QED  BY <1>2, <3>1 DEF RunInv, Undo
    <2>2. SK!UndoneBefore(last) = backups[last.step]
      BY <2>1 DEF SK!UndoneBefore
    <2>. QED  BY <1>1, <1>2, <1>3, <2>2
  <1>7. /\ run'.pc = "undo" /\ run'.leftover = run.leftover /\ run'.done = done
        /\ run'.result = "rolled_back" /\ run'.status = run.status /\ run'.auto = run.auto
        /\ run' \in StagedRuns
    <2>1. run \in StagedRuns
      BY DEF RunInv, RunTypes
    <2>2. run' = [run EXCEPT !.done = done, !.result = "rolled_back"]
      BY <1>1, <1>2
    <2>. QED  BY <1>1, <1>4, <2>1, <2>2 DEF StagedRuns, Results
  <1>8. RunTypes'
    BY <1>1, <1>6, <1>7 DEF RunInv, RunTypes
  <1>9. ~Underway /\ ~Underway' /\ ~Over /\ ~Over'
    BY <1>1, <1>7 DEF Underway, Over, OnItsWay
  <1>10. Shape'
    BY <1>1, <1>7, <1>9 DEF RunInv, Shape
  <1>11. Snapshots'
    BY <1>1, <1>7, <1>9 DEF RunInv, Snapshots, Touched
  <1>12. Undo'
    <2>1. ASSUME NEW j \in 1..(n - 1)
          PROVE  /\ done[j].existed = (backups[done[j].step] # Absent)
                 /\ before[done[j].target].step # 0
                 /\ (\A l \in 1..(j - 1) : done[l].target # done[j].target) =>
                        done[j].step = before[done[j].target].step
      <3>1. done[j] = run.done[j] /\ j \in 1..n
            /\ \A l \in 1..(j - 1) : done[l] = run.done[l]
        BY <1>3, <1>4
      <3>. QED  BY <1>2, <3>1 DEF RunInv, Undo, Touched
    <2>2. ASSUME ~run.leftover, NEW f \in SK!Paths, Touched(f), ~InDone(f)'
          PROVE  files'[f] = before[f].held
      <3>1. \A j \in 1..(n - 1) : run.done[j].target # f
        BY <1>4, <1>7, <2>2 DEF InDone
      <3>2. CASE f # t
        <4>1. ~InDone(f)
          <5>1. run.done[n].target # f
            BY <1>2, <3>2
          <5>2. \A j \in 1..n : j = n \/ j \in 1..(n - 1)
            BY <1>3
          <5>3. \A j \in 1..n : run.done[j].target # f
            BY <3>1, <5>1, <5>2
          <5>. QED  BY <1>2, <5>3 DEF InDone
        <4>2. files'[f] = files[f]
          BY <1>6, <3>2 DEF RunInv, RunTypes
        <4>. QED  BY <1>1, <2>2, <4>1, <4>2 DEF RunInv, Undo
      <3>3. CASE f = t
        <4>1. n \in 1..Len(run.done) /\ \A l \in 1..(n - 1) : run.done[l].target # run.done[n].target
          <5>1. run.done[n].target = f
            BY <1>2, <3>3
          <5>2. n \in 1..Len(run.done)
            BY <1>2, <1>3
          <5>. QED  BY <3>1, <5>1, <5>2
        <4>2. last.step = before[f].step
          BY <1>2, <3>3, <4>1 DEF RunInv, Undo
        <4>3. backups[before[f].step] = before[f].held
          BY <2>2 DEF RunInv, Snapshots
        <4>4. files'[f] = backups[last.step]
          BY <1>5, <1>6, <3>3 DEF RunInv, RunTypes
        <4>. QED  BY <4>2, <4>3, <4>4
      <3>. QED  BY <3>2, <3>3
    <2>3. \A j \in 1..Len(run'.done) :
              /\ run'.done[j].existed = (backups[run'.done[j].step] # Absent)
              /\ before[run'.done[j].target].step # 0
              /\ (\A l \in 1..(j - 1) : run'.done[l].target # run'.done[j].target) =>
                     run'.done[j].step = before[run'.done[j].target].step
      <3>1. Len(run'.done) = n - 1 /\ run'.done = done
        BY <1>4, <1>7
      <3>. QED  BY <2>1, <3>1
    <2>. QED  BY <1>1, <1>7, <1>9, <2>2, <2>3 DEF Undo, Touched
  <1>13. Outcome'
    <2>1. run'.status = "failed" /\ run'.auto
      BY <1>1, <1>7
    <2>. QED  BY <1>1, <1>7, <1>9, <2>1 DEF RunInv, Outcome
  <1>. QED  BY <1>8, <1>10, <1>11, <1>12, <1>13 DEF RunInv

\* A command that was given up writes a file.
LEMMA RunLeftover == ASSUME RunInv, NEW f \in DOMAIN files, SK!LeftoverWrites(f) PROVE RunInv'
  <1>1. run.leftover /\ DOMAIN files' = DOMAIN files /\ UNCHANGED <<run, journal, backups, before>>
    BY DEF SK!LeftoverWrites, SK!Change
  <1>2. Shape'
    BY <1>1 DEF RunInv, Shape, Touched, Underway, SK!Target, SK!CurrentStep
  <1>3. Snapshots'
    BY <1>1 DEF RunInv, Snapshots, Touched, Underway, Reached
  <1>4. Undo'
    BY <1>1 DEF RunInv, Undo, Touched, Underway, Reached, InDone
  <1>5. Outcome'
    BY <1>1 DEF RunInv, Outcome, NoFailure, Over
  <1>. QED  BY <1>1, <1>2, <1>3, <1>4, <1>5 DEF RunInv, RunTypes

LEMMA RunQuiet ==
    ASSUME RunInv, UNCHANGED <<run, journal, backups, files, before>>
    PROVE  RunInv'
  <1>1. Shape'
    BY DEF RunInv, Shape, Touched, Underway, SK!Target, SK!CurrentStep
  <1>2. Snapshots'
    BY DEF RunInv, Snapshots, Touched, Underway, Reached, SK!Target, SK!CurrentStep
  <1>3. Undo'
    BY DEF RunInv, Undo, Touched, Underway, Reached, InDone
  <1>4. Outcome'
    BY DEF RunInv, Outcome, NoFailure, Restored, Touched, Over
  <1>. QED  BY <1>1, <1>2, <1>3, <1>4 DEF RunInv, RunTypes

SkillsInv == StoreTypes /\ StoreInv /\ RunInv

LEMMA StoreQuiet ==
    ASSUME StoreTypes, StoreInv, UNCHANGED <<store, pend, tally, overlap, crashed>>
    PROVE  StoreTypes' /\ StoreInv'
  BY DEF StoreTypes, StoreInv, Holds, Counted

LEMMA SkillsStep == SkillsInv /\ [SK!Next]_skills => SkillsInv'
  <1>. SUFFICES ASSUME SkillsInv, [SK!Next]_skills PROVE SkillsInv'
    OBVIOUS
  <1>. USE DEF SkillsInv
  <1>0. run \in StagedRuns /\ journal \in Journals
    BY DEF RunInv, RunTypes
  <1>1. CASE UNCHANGED skills
    BY <1>1, RunQuiet, StoreQuiet DEF skills
  <1>2. ASSUME NEW t \in Tasks, NEW n \in Names, SK!Read(t, n) PROVE SkillsInv'
    BY <1>2, StoreRead, RunQuiet DEF SK!Read, SK!Clients
  <1>3. ASSUME NEW t \in Tasks, NEW a \in Artifacts, SK!Save(t, a) PROVE SkillsInv'
    BY <1>3, StoreSave, RunQuiet DEF SK!Save
  <1>4. ASSUME NEW c \in SK!Clients, SK!Truncate(c) \/ SK!Write(c) PROVE SkillsInv'
    BY <1>4, StoreWrite, RunQuiet DEF SK!Truncate, SK!Write
  <1>5. ASSUME NEW n \in Names, SK!LoadStored(n) PROVE SkillsInv'
    <2>1. "run" \in SK!Clients
      BY DEF SK!Clients
    <2>2. StoreTypes' /\ StoreInv'
      BY <1>5, <2>1, StoreRead DEF SK!LoadStored
    <2>3. store[n].art \in Artifacts \cup {Absent}
      <3>1. store[n] \in SK!Entries
        BY <1>5 DEF SK!LoadStored, SK!Get, SK!Readable, StoreTypes
      <3>. QED  BY <3>1 DEF SK!Entries
    <2>4. RunInv'
      BY <1>5, <2>3, RunLoads DEF SK!LoadStored, SK!AtRun
    <2>. QED  BY <2>2, <2>4
  <1>6. ASSUME NEW a \in Artifacts, SK!LoadInline(a) PROVE SkillsInv'
    <2>1. run' = [run EXCEPT !.pc = "loaded", !.art = a, !.name = run.name]
          /\ run.name \in Names \cup {Absent}
      <3>1. run' = [run EXCEPT !.pc = "loaded", !.art = a]
        BY <1>6 DEF SK!LoadInline
      <3>. QED  BY <1>0, <3>1 DEF StagedRuns
    <2>2. RunInv'
      BY <1>6, <2>1, RunLoads DEF SK!LoadInline, SK!AtRun
    <2>. QED  BY <1>6, <2>2, StoreQuiet DEF SK!LoadInline
  <1>7. ASSUME NEW through \in DOMAIN backups, NEW auto \in BOOLEAN, NEW stop \in BOOLEAN,
               SK!StartRun(through, auto, stop)
        PROVE  SkillsInv'
    BY <1>7, RunStarts, StoreQuiet DEF SK!StartRun
  <1>8. ASSUME \/ \E confirm, through : SK!Refuse(confirm, through)
               \/ SK!StepBreaks \/ SK!RollbackBreaks
        PROVE  SkillsInv'
    <2>1. /\ run' = [run EXCEPT !.pc = "over"]
          /\ UNCHANGED <<store, pend, journal, backups, files, tally, overlap, crashed, before>>
      BY <1>8 DEF SK!Refuse, SK!StepBreaks, SK!RollbackBreaks, SK!Run
    <2>2. run.leftover \in BOOLEAN /\ run' = [run EXCEPT !.pc = "over", !.leftover = run.leftover]
      BY <1>0, <2>1 DEF StagedRuns
    <2>3. journal' = [journal EXCEPT !.status = journal.status]
      BY <1>0, <2>1 DEF Journals
    <2>4. RunInv'
      BY <2>1, <2>2, <2>3, RunStops
    <2>. QED  BY <2>1, <2>4, StoreQuiet
  <1>9. ASSUME SK!ManualStep PROVE SkillsInv'
    <2>1. /\ run' = [run EXCEPT !.pc = "record", !.result = "manual"]
          /\ run.pc = "step" /\ run.i <= run.through
          /\ UNCHANGED <<store, pend, journal, backups, files, tally, overlap, crashed, before>>
      BY <1>9 DEF SK!ManualStep, SK!AtRun
    <2>2. run.leftover \in BOOLEAN
          /\ run' = [run EXCEPT !.pc = "record", !.result = "manual", !.leftover = run.leftover]
      BY <1>0, <2>1 DEF StagedRuns
    <2>3. RunInv'
      BY <2>1, <2>2, RunActs
    <2>. QED  BY <2>1, <2>3, StoreQuiet
  <1>10. ASSUME NEW outcome \in {"success", "failed", "timed_out"},
                NEW touched \in SUBSET DOMAIN files, SK!CommandStep(outcome, touched)
         PROVE  SkillsInv'
    <2>1. PICK res \in {"manual", "completed", "failed"}, leftover \in BOOLEAN :
             /\ run' = [run EXCEPT !.pc = "record", !.result = res, !.leftover = leftover]
             /\ run.leftover => leftover
      <3>1. run.leftover \in BOOLEAN
        BY <1>0 DEF StagedRuns
      <3>2. run' = [run EXCEPT !.pc = "record",
                       !.result = IF outcome = "success" THEN "completed" ELSE "failed",
                       !.leftover = run.leftover \/ outcome = "timed_out"]
        BY <1>10 DEF SK!CommandStep
      <3>. QED  BY <3>1, <3>2
    <2>2. /\ run.pc = "step" /\ run.i <= run.through /\ DOMAIN files' = DOMAIN files
          /\ UNCHANGED <<store, pend, journal, backups, tally, overlap, crashed, before>>
      BY <1>10 DEF SK!CommandStep, SK!StepIs, SK!AtRun
    <2>3. RunInv'
      BY <2>1, <2>2, RunActs
    <2>. QED  BY <2>2, <2>3, StoreQuiet
  <1>11. ASSUME SK!Snapshot PROVE SkillsInv'
    BY <1>11, RunSnapshot, StoreQuiet DEF SK!Snapshot
  <1>12. ASSUME SK!WriteFile PROVE SkillsInv'
    BY <1>12, RunWrites, StoreQuiet DEF SK!WriteFile
  <1>13. ASSUME SK!WriteBreaks PROVE SkillsInv'
    BY <1>13, RunBreaks, StoreQuiet DEF SK!WriteBreaks
  <1>14. ASSUME SK!RecordStep PROVE SkillsInv'
    BY <1>14, RunRecords, StoreQuiet DEF SK!RecordStep
  <1>15. ASSUME SK!StepsOver PROVE SkillsInv'
    BY <1>15, RunTurns, StoreQuiet DEF SK!StepsOver
  <1>16. ASSUME SK!Rollback PROVE SkillsInv'
    BY <1>16, RunUndoes, StoreQuiet DEF SK!Rollback
  <1>17. ASSUME SK!Finish PROVE SkillsInv'
    BY <1>17, RunFinishes, StoreQuiet DEF SK!Finish
  <1>18. ASSUME SK!CountRun PROVE SkillsInv'
    <2>1. /\ run' = [run EXCEPT !.pc = "over"] /\ run.pc = "count" /\ pend["run"] = SK!Idle
          /\ UNCHANGED <<store, journal, backups, files, crashed, before>>
      BY <1>18 DEF SK!CountRun, SK!Run, SK!AtRun
    <2>2. run.leftover \in BOOLEAN /\ run' = [run EXCEPT !.pc = "over", !.leftover = run.leftover]
      BY <1>0, <2>1 DEF StagedRuns
    <2>3. journal' = [journal EXCEPT !.status = journal.status]
      BY <1>0, <2>1 DEF Journals
    <2>4. RunInv'
      BY <2>1, <2>2, <2>3, RunStops
    <2>5. StoreTypes' /\ StoreInv'
      <3>1. CASE ~SK!Readable(run.name)
        BY <1>18, <2>1, <3>1, StoreQuiet DEF SK!CountRun
      <3>2. CASE SK!Readable(run.name)
        <4>1. PICK n \in Names : n = run.name
          BY <1>0, <2>1 DEF RunInv, Shape, StagedRuns
        <4>2. /\ SK!Begin("run", run.name, [store[run.name] EXCEPT !.runs = @ + 1])
              /\ SK!Count(run.name, "ran")
          BY <1>18, <3>2 DEF SK!CountRun
        <4>3. /\ SK!Begin("run", n, [store[n] EXCEPT !.runs = @ + 1]) /\ SK!Count(n, "ran")
              /\ SK!Readable(n)
          BY <3>2, <4>1, <4>2, Zenon
        <4>. QED  BY <2>1, <4>3, StoreCount
      <3>. QED  BY <3>1, <3>2
    <2>. QED  BY <2>4, <2>5
  <1>19. ASSUME NEW f \in DOMAIN files, SK!LeftoverWrites(f) PROVE SkillsInv'
    BY <1>19, RunLeftover, StoreQuiet DEF SK!LeftoverWrites
  <1>20. ASSUME SK!Crash PROVE SkillsInv'
    <2>1. PICK leftover \in BOOLEAN : /\ run.leftover => leftover
                                      /\ run' = [run EXCEPT !.pc = "over", !.leftover = leftover]
      <3>1. run.leftover \in BOOLEAN
        BY <1>0 DEF StagedRuns
      <3>2. run' = [run EXCEPT !.pc = "over",
                               !.leftover = run.leftover \/ SK!StepIs("run_command")]
        BY <1>20 DEF SK!Crash
      <3>. QED  BY <3>1, <3>2
    <2>2. PICK status \in {journal.status, Torn} : journal' = [journal EXCEPT !.status = status]
      <3>1. journal' = journal \/ journal' = [journal EXCEPT !.status = Torn]
        BY <1>20 DEF SK!Crash
      <3>2. journal = [journal EXCEPT !.status = journal.status]
        BY <1>0 DEF Journals
      <3>. QED  BY <3>1, <3>2
    <2>3. UNCHANGED <<backups, files, before, store, tally, overlap>> /\ crashed'
          /\ pend' = [c \in SK!Clients |-> SK!Idle]
      BY <1>20 DEF SK!Crash
    <2>4. RunInv'
      BY <2>1, <2>2, <2>3, RunStops
    <2>5. StoreTypes' /\ StoreInv'
      BY <1>20, <2>3 DEF StoreTypes, StoreInv, SK!Crash
    <2>. QED  BY <2>4, <2>5
  <1>. QED  BY <1>1, <1>2, <1>3, <1>4, <1>5, <1>6, <1>7, <1>8, <1>9, <1>10, <1>11, <1>12,
               <1>13, <1>14, <1>15, <1>16, <1>17, <1>18, <1>19, <1>20
            DEF SK!Next, SK!StoreStep, SK!RunStep

\* A file of a skill is saved and read as often as calls were made, and the run
\* reads it and counts itself once.
FitsIn(e, c, p) == /\ e \in SK!Entries /\ e.art \in Artifacts /\ e.version \in 1..c
                   /\ e.uses <= c + (IF p = "idle" THEN 0 ELSE 1)
                   /\ e.runs <= (IF p = "over" THEN 1 ELSE 0)
CallsInv ==
    /\ calls \in 0..MaxCalls
    /\ \A n \in Names : SK!Readable(n) => FitsIn(store[n], calls, run.pc)
    /\ \A c \in SK!Clients : pend[c] # SK!Idle => FitsIn(pend[c].entry, calls, run.pc)

LEMMA FitsLater ==
    ASSUME NEW c \in Nat, NEW d \in {c, c + 1}, NEW p, NEW q, NEW e, FitsIn(e, c, p),
           q = "idle" => p = "idle", p = "over" => q = "over"
    PROVE  FitsIn(e, d, q)
  BY DEF FitsIn, SK!Entries

\* A client takes a file in hand.
LEMMA CallsBegin ==
    ASSUME StoreTypes, RunTypes, CallsInv, NEW c \in SK!Clients, NEW n \in Names, NEW entry,
           SK!Begin(c, n, entry), calls' \in {calls, calls + 1}, calls' <= MaxCalls,
           FitsIn(entry, calls', run'.pc), UNCHANGED store,
           run'.pc = "idle" => run.pc = "idle", run.pc = "over" => run'.pc = "over"
    PROVE  CallsInv'
  <1>1. calls \in Nat /\ MaxCalls \in Nat
    BY AgentAssumption DEF CallsInv, SK!SkillsAssumption
  <1>2. ASSUME NEW e, FitsIn(e, calls, run.pc) PROVE FitsIn(e, calls', run'.pc)
    BY <1>1, <1>2, FitsLater
  <1>3. /\ pend'[c].entry = entry
        /\ \A d \in SK!Clients : d # c => pend'[d] = pend[d]
    BY DEF SK!Begin, StoreTypes
  <1>4. ASSUME NEW m \in Names, SK!Readable(m)' PROVE FitsIn(store'[m], calls', run'.pc)
    BY <1>2, <1>4 DEF CallsInv, SK!Readable
  <1>5. ASSUME NEW d \in SK!Clients, pend'[d] # SK!Idle
        PROVE  FitsIn(pend'[d].entry, calls', run'.pc)
    BY <1>2, <1>3, <1>5 DEF CallsInv
  <1>6. calls' \in 0..MaxCalls
    BY <1>1
  <1>. QED  BY <1>4, <1>5, <1>6 DEF CallsInv

LEMMA CallsQuiet ==
    ASSUME CallsInv, UNCHANGED <<store, calls>>,
           \A c \in SK!Clients : pend'[c] \in {pend[c], SK!Idle},
           run'.pc = "idle" => run.pc = "idle", run.pc = "over" => run'.pc = "over"
    PROVE  CallsInv'
  <1>1. calls \in Nat
    BY AgentAssumption DEF CallsInv, SK!SkillsAssumption
  <1>2. ASSUME NEW e, FitsIn(e, calls, run.pc) PROVE FitsIn(e, calls', run'.pc)
    BY <1>1, <1>2, FitsLater
  <1>3. ASSUME NEW n \in Names, SK!Readable(n)' PROVE FitsIn(store'[n], calls', run'.pc)
    BY <1>2, <1>3 DEF CallsInv, SK!Readable
  <1>4. ASSUME NEW c \in SK!Clients, pend'[c] # SK!Idle
        PROVE  FitsIn(pend'[c].entry, calls', run'.pc)
    BY <1>2, <1>4 DEF CallsInv
  <1>. QED  BY <1>3, <1>4 DEF CallsInv

LEMMA CallsWrite ==
    ASSUME StoreTypes, CallsInv, NEW c \in SK!Clients, SK!Truncate(c) \/ SK!Write(c)
    PROVE  CallsInv'
  <1>1. pend[c] # SK!Idle /\ pend[c] \in Pending /\ UNCHANGED <<calls, run>>
    BY DEF SK!Truncate, SK!Write, StoreTypes
  <1>2. PICK n \in Names : pend[c].name = n
    BY <1>1 DEF Pending
  <1>3. \A m \in Names : m # n => store'[m] = store[m]
    BY <1>2 DEF SK!Truncate, SK!Write, StoreTypes
  <1>4. store'[n] \in {Torn, pend[c].entry}
    BY <1>2 DEF SK!Truncate, SK!Write, StoreTypes
  <1>5. \A d \in SK!Clients : d # c => pend'[d] = pend[d]
    BY DEF SK!Truncate, SK!Write, StoreTypes
  <1>6. pend'[c] = SK!Idle \/ pend'[c].entry = pend[c].entry
    <2>1. CASE SK!Truncate(c)
      <3>1. pend'[c] = [pend[c] EXCEPT !.at = "write"]
        BY <2>1 DEF SK!Truncate, StoreTypes
      <3>. QED  BY <1>1, <3>1 DEF Pending
    <2>2. CASE SK!Write(c)
      BY <2>2 DEF SK!Write, StoreTypes
    <2>. QED  BY <2>1, <2>2
  <1>7. FitsIn(pend[c].entry, calls, run.pc)
    BY <1>1 DEF CallsInv
  <1>8. ASSUME NEW m \in Names, SK!Readable(m)' PROVE FitsIn(store'[m], calls', run'.pc)
    BY <1>1, <1>3, <1>4, <1>7, <1>8 DEF CallsInv, SK!Readable
  <1>9. ASSUME NEW d \in SK!Clients, pend'[d] # SK!Idle
        PROVE  FitsIn(pend'[d].entry, calls', run'.pc)
    BY <1>1, <1>5, <1>6, <1>7, <1>9 DEF CallsInv
  <1>. QED  BY <1>1, <1>8, <1>9 DEF CallsInv

\* The run moves on.
Onward == run'.pc # "idle" /\ run.pc # "over"

LEMMA RunMoves ==
    ASSUME run \in StagedRuns,
           \/ \E a \in Artifacts : SK!LoadInline(a)
           \/ \E through, auto, stop : SK!StartRun(through, auto, stop)
           \/ \E confirm, through : SK!Refuse(confirm, through)
           \/ \E outcome, touched : SK!CommandStep(outcome, touched)
           \/ SK!ManualStep \/ SK!Snapshot \/ SK!WriteFile \/ SK!StepBreaks
           \/ SK!WriteBreaks \/ SK!RecordStep \/ SK!StepsOver \/ SK!Rollback
           \/ SK!RollbackBreaks \/ SK!Finish
    PROVE  Onward /\ UNCHANGED <<store, pend, calls>>
  <1>. USE DEF Onward, SK!AtRun, SK!StepIs, SK!Run, SK!Undoing
  <1>1. ASSUME NEW a \in Artifacts, SK!LoadInline(a) PROVE Onward /\ UNCHANGED <<store, pend, calls>>
    BY <1>1 DEF SK!LoadInline, StagedRuns
  <1>2. ASSUME NEW through, NEW auto, NEW stop, SK!StartRun(through, auto, stop)
        PROVE  Onward /\ UNCHANGED <<store, pend, calls>>
    BY <1>2 DEF SK!StartRun, StagedRuns
  <1>3. ASSUME NEW confirm, NEW through, SK!Refuse(confirm, through)
        PROVE  Onward /\ UNCHANGED <<store, pend, calls>>
    BY <1>3 DEF SK!Refuse, StagedRuns
  <1>4. ASSUME NEW outcome, NEW touched, SK!CommandStep(outcome, touched)
        PROVE  Onward /\ UNCHANGED <<store, pend, calls>>
    BY <1>4 DEF SK!CommandStep, StagedRuns
  <1>5. CASE SK!ManualStep \/ SK!Snapshot \/ SK!StepBreaks \/ SK!WriteBreaks
    BY <1>5 DEF SK!ManualStep, SK!Snapshot, SK!StepBreaks, SK!WriteBreaks, StagedRuns
  <1>6. CASE SK!WriteFile \/ SK!StepsOver \/ SK!Rollback \/ SK!RollbackBreaks
    BY <1>6 DEF SK!WriteFile, SK!StepsOver, SK!Rollback, SK!RollbackBreaks, StagedRuns
  <1>7. CASE SK!RecordStep
    <2>1. run.pc = "record" /\ run'.pc \in {"undo", "step"} /\ UNCHANGED <<store, pend, calls>>
      BY <1>7 DEF SK!RecordStep, StagedRuns
    <2>. QED  BY <2>1
  <1>8. CASE SK!Finish
    <2>1. run.pc = "undo" /\ run'.pc \in {"over", "count"} /\ UNCHANGED <<store, pend, calls>>
      BY <1>8 DEF SK!Finish, StagedRuns
    <2>. QED  BY <2>1
  <1>. QED  BY <1>1, <1>2, <1>3, <1>4, <1>5, <1>6, <1>7, <1>8

LEMMA CallsStep == ASSUME SkillsInv, CallsInv, [SK!Next]_skills PROVE CallsInv'
  <1>0. /\ run \in StagedRuns /\ StoreTypes /\ RunTypes /\ calls \in Nat /\ MaxCalls \in Nat
        /\ calls <= MaxCalls
    BY AgentAssumption DEF SkillsInv, RunInv, RunTypes, CallsInv, SK!SkillsAssumption
  <1>1. CASE UNCHANGED skills
    BY <1>1, CallsQuiet DEF skills
  <1>2. ASSUME NEW c \in SK!Clients, NEW n \in Names, SK!Get(c, n), UNCHANGED store,
               \/ calls' = calls + 1 /\ calls < MaxCalls /\ run' = run
               \/ calls' = calls /\ run.pc = "idle" /\ run'.pc = "loaded"
        PROVE  CallsInv'
    <2>. DEFINE entry == [store[n] EXCEPT !.uses = @ + 1]
    <2>1. SK!Begin(c, n, entry) /\ FitsIn(store[n], calls, run.pc)
      BY <1>2 DEF SK!Get, CallsInv
    <2>2. FitsIn(entry, calls', run'.pc)
      <3>1. PICK e : e = store[n]
        OBVIOUS
      <3>2. FitsIn(e, calls, run.pc) /\ entry = [e EXCEPT !.uses = @ + 1]
        BY <2>1, <3>1
      <3>3. /\ entry \in SK!Entries /\ entry.art = e.art /\ entry.version = e.version
            /\ entry.uses = e.uses + 1 /\ entry.runs = e.runs /\ e.uses \in Nat /\ e.runs \in Nat
            /\ e.version \in Nat
        BY <3>2 DEF FitsIn, SK!Entries
      <3>. HIDE DEF entry
      <3>. QED  BY <1>0, <1>2, <3>2, <3>3 DEF FitsIn
    <2>. HIDE DEF entry
    <2>. QED  BY <1>0, <1>2, <2>1, <2>2, CallsBegin
  <1>3. ASSUME NEW t \in Tasks, NEW n \in Names, SK!Read(t, n) PROVE CallsInv'
    BY <1>2, <1>3 DEF SK!Read, SK!Clients
  <1>4. ASSUME NEW n \in Names, SK!LoadStored(n) PROVE CallsInv'
    <2>1. run.pc = "idle" /\ run'.pc = "loaded"
      BY <1>0, <1>4 DEF SK!LoadStored, SK!AtRun, StagedRuns
    <2>. QED  BY <1>2, <1>4, <2>1 DEF SK!LoadStored, SK!Clients
  <1>5. ASSUME NEW t \in Tasks, NEW a \in Artifacts, SK!Save(t, a) PROVE CallsInv'
    <2>. DEFINE entry == SK!Saved(a.name, a)
    <2>1. /\ SK!Begin(t, a.name, entry) /\ a.name \in Names /\ t \in SK!Clients
          /\ calls < MaxCalls /\ calls' = calls + 1 /\ UNCHANGED <<store, run>>
          /\ store[a.name] # Torn
      BY <1>5, SkillConstants DEF SK!Save, SK!Clients
    <2>2. FitsIn(entry, calls', run'.pc)
      <3>1. CASE store[a.name] = Absent
        <4>1. entry = [art |-> a, version |-> 1, uses |-> 0, runs |-> 0]
          BY <3>1 DEF SK!Saved
        <4>2. entry \in SK!Entries
          BY <4>1 DEF SK!Entries
        <4>. QED  BY <1>0, <2>1, <4>1, <4>2 DEF FitsIn
      <3>2. CASE store[a.name] # Absent
        <4>1. PICK e : e = store[a.name]
          OBVIOUS
        <4>2. FitsIn(e, calls, run.pc)
          BY <2>1, <3>2, <4>1 DEF CallsInv, SK!Readable
        <4>3. entry = [e EXCEPT !.art = a, !.version = @ + 1]
          BY <3>2, <4>1 DEF SK!Saved
        <4>4. /\ entry \in SK!Entries /\ entry.art = a /\ entry.version = e.version + 1
              /\ entry.uses = e.uses /\ entry.runs = e.runs /\ e.uses \in Nat /\ e.runs \in Nat
              /\ e.version \in Nat
          <5>1. e \in SK!Entries
            BY <4>2 DEF FitsIn
          <5>2. PICK x : x = [e EXCEPT !.art = a, !.version = e.version + 1]
            OBVIOUS
          <5>3. x \in SK!Entries
            <6>1. PICK v : v = e.version + 1
              OBVIOUS
            <6>2. e.version \in Nat /\ e.uses \in Nat /\ e.runs \in Nat
              BY <5>1 DEF SK!Entries
            <6>3. x = [art |-> a, version |-> v, uses |-> e.uses, runs |-> e.runs]
              BY <5>1, <5>2, <6>1 DEF SK!Entries
            <6>4. v \in Nat
              BY <6>1, <6>2
            <6>. QED  BY <6>2, <6>3, <6>4 DEF SK!Entries
          <5>4. entry = x
            BY <4>3, <5>2
          <5>5. x.art = a /\ x.version = e.version + 1 /\ x.uses = e.uses /\ x.runs = e.runs
            BY <5>1, <5>2 DEF SK!Entries
          <5>. HIDE DEF entry
          <5>. QED  BY <5>1, <5>3, <5>4, <5>5 DEF SK!Entries
        <4>. HIDE DEF entry
        <4>. QED  BY <1>0, <2>1, <4>2, <4>4 DEF FitsIn
      <3>. QED  BY <3>1, <3>2
    <2>. HIDE DEF entry
    <2>. QED  BY <1>0, <2>1, <2>2, CallsBegin
  <1>6. ASSUME NEW c \in SK!Clients, SK!Truncate(c) \/ SK!Write(c) PROVE CallsInv'
    BY <1>0, <1>6, CallsWrite
  <1>7. CASE SK!CountRun
    <2>1. /\ run.pc = "count" /\ run'.pc = "over" /\ UNCHANGED <<store, calls>>
      BY <1>0, <1>7 DEF SK!CountRun, SK!AtRun, SK!Run, StagedRuns
    <2>2. CASE ~SK!Readable(run.name)
      BY <1>7, <2>1, <2>2, CallsQuiet DEF SK!CountRun
    <2>3. CASE SK!Readable(run.name)
      <3>. DEFINE entry == [store[run.name] EXCEPT !.runs = @ + 1]
      <3>1. run.name \in Names
        BY <1>0, <2>1 DEF SkillsInv, RunInv, Shape, StagedRuns
      <3>2. PICK e : e = store[run.name]
        OBVIOUS
      <3>3. FitsIn(e, calls, run.pc) /\ entry = [e EXCEPT !.runs = @ + 1]
        BY <2>3, <3>1, <3>2 DEF CallsInv
      <3>4. /\ entry \in SK!Entries /\ entry.art = e.art /\ entry.version = e.version
            /\ entry.uses = e.uses /\ entry.runs = e.runs + 1 /\ e.uses \in Nat /\ e.runs \in Nat
        BY <3>3 DEF FitsIn, SK!Entries
      <3>5. SK!Begin("run", run.name, entry) /\ "run" \in SK!Clients
        BY <1>7, <2>3 DEF SK!CountRun, SK!Clients
      <3>. HIDE DEF entry
      <3>6. FitsIn(entry, calls', run'.pc)
        BY <1>0, <2>1, <3>3, <3>4 DEF FitsIn
      <3>. QED  BY <1>0, <2>1, <3>1, <3>5, <3>6, CallsBegin
    <2>. QED  BY <2>2, <2>3
  <1>8. CASE SK!Crash
    <2>1. run'.pc = "over" /\ UNCHANGED <<store, calls>> /\ pend' = [c \in SK!Clients |-> SK!Idle]
      BY <1>0, <1>8 DEF SK!Crash, StagedRuns
    <2>. QED  BY <2>1, CallsQuiet
  <1>9. ASSUME NEW f, SK!LeftoverWrites(f) PROVE CallsInv'
    BY <1>9, CallsQuiet DEF SK!LeftoverWrites
  <1>10. ASSUME Onward /\ UNCHANGED <<store, pend, calls>> PROVE CallsInv'
    BY <1>10, CallsQuiet DEF Onward
  <1>. QED  BY <1>0, <1>1, <1>3, <1>4, <1>5, <1>6, <1>7, <1>8, <1>9, <1>10, RunMoves
            DEF SK!Next, SK!StoreStep, SK!RunStep

-----------------------------------------------------------------------------
\* The files and the snapshots hold what the run and its commands wrote.
ContentInv ==
    /\ backups \in [SK!Steps -> SK!Content] /\ files \in [SK!Paths -> SK!Content]
    /\ \A j \in 1..Len(run.done) : run.done[j].step \in SK!Steps
    /\ run.i \in 1..(run.through + 1)

LEMMA ContentQuiet ==
    ASSUME ContentInv, UNCHANGED <<backups, files>>,
           run'.done = run.done, run'.i = run.i, run'.through = run.through
    PROVE  ContentInv'
  BY DEF ContentInv

LEMMA ContentStep == ASSUME SkillsInv, ContentInv, [SK!Next]_skills PROVE ContentInv'
  <1>0. /\ run \in StagedRuns /\ RunInv /\ Absent \in SK!Content
        /\ run.done \in Seq(Undos) /\ run.i \in Nat /\ run.through \in Nat
    BY DEF SkillsInv, RunInv, RunTypes, StagedRuns, SK!Content
  <1>. USE DEF SK!AtRun, SK!StepIs, SK!Run
  <1>1. CASE UNCHANGED skills
    BY <1>1 DEF skills, ContentInv
  <1>2. CASE SK!StoreStep
    <2>1. UNCHANGED <<run, backups, files>>
      BY <1>2 DEF SK!StoreStep, SK!Read, SK!Save, SK!Truncate, SK!Write
    <2>. QED  BY <2>1, ContentQuiet
  <1>3. ASSUME NEW n, SK!LoadStored(n) PROVE ContentInv'
    BY <1>0, <1>3, ContentQuiet DEF SK!LoadStored, StagedRuns
  <1>4. ASSUME NEW a, SK!LoadInline(a) PROVE ContentInv'
    BY <1>0, <1>4, ContentQuiet DEF SK!LoadInline, StagedRuns
  <1>5. ASSUME NEW through \in DOMAIN backups, NEW auto, NEW stop, SK!StartRun(through, auto, stop)
        PROVE  ContentInv'
    <2>1. /\ run.i = 1 /\ run'.done = run.done /\ run'.i = run.i /\ run'.through = through
          /\ UNCHANGED <<backups, files>>
      BY <1>0, <1>5 DEF SK!StartRun, StagedRuns, RunInv, Shape
    <2>2. through \in Nat
      <3>1. through \in SK!Steps
        BY DEF ContentInv
      <3>. QED  BY <3>1, SkillConstants DEF SK!Steps
    <2>. QED  BY <2>1, <2>2 DEF ContentInv
  <1>6. ASSUME NEW confirm, NEW through, SK!Refuse(confirm, through) PROVE ContentInv'
    BY <1>0, <1>6, ContentQuiet DEF SK!Refuse, StagedRuns
  <1>7. CASE SK!ManualStep \/ SK!StepBreaks \/ SK!StepsOver \/ SK!RollbackBreaks
    BY <1>0, <1>7, ContentQuiet
       DEF SK!ManualStep, SK!StepBreaks, SK!StepsOver, SK!RollbackBreaks, StagedRuns
  <1>8. CASE SK!Finish \/ SK!CountRun
    BY <1>0, <1>8, ContentQuiet DEF SK!Finish, SK!CountRun, StagedRuns
  <1>9. CASE SK!Crash
    BY <1>0, <1>9, ContentQuiet DEF SK!Crash, StagedRuns
  <1>10. CASE SK!Snapshot
    <2>1. run'.done = run.done /\ run'.i = run.i /\ run'.through = run.through /\ files' = files
      BY <1>0, <1>10 DEF SK!Snapshot, StagedRuns
    <2>2. SK!Target \in DOMAIN files
      BY <1>10 DEF SK!Snapshot
    <2>3. backups' \in [SK!Steps -> SK!Content]
      BY <1>10, <2>2 DEF SK!Snapshot, ContentInv
    <2>. QED  BY <2>1, <2>3 DEF ContentInv
  <1>11. ASSUME NEW text \in SK!Steps, NEW append, NEW old \in SK!Content
         PROVE  SK!Written(old, append, text) \in SK!Content
    BY <1>11 DEF SK!Written, SK!Content
  <1>12. CASE SK!WriteFile \/ SK!WriteBreaks
    <2>1. /\ Underway /\ 1 <= run.i /\ run.i <= run.through /\ SK!Target \in SK!Paths
      BY <1>0, <1>12 DEF SK!WriteFile, SK!WriteBreaks, RunInv, Shape, Underway, OnItsWay
    <2>2. run.i \in SK!Steps
      BY <1>0, <2>1, StepFacts
    <2>3. files[SK!Target] \in SK!Content /\ << >> \in SK!Content
      BY <2>1 DEF ContentInv, SK!Content
    <2>4. /\ files' \in [SK!Paths -> SK!Content] /\ backups' = backups
          /\ run'.i = run.i /\ run'.through = run.through
      <3>1. CASE SK!WriteFile
        BY <1>0, <1>11, <2>2, <2>3, <3>1 DEF SK!WriteFile, SK!Change, ContentInv, StagedRuns
      <3>2. CASE SK!WriteBreaks
        BY <1>0, <2>3, <3>2 DEF SK!WriteBreaks, SK!Change, ContentInv, StagedRuns
      <3>. QED  BY <1>12, <3>1, <3>2
    <2>5. \A j \in 1..Len(run'.done) : run'.done[j].step \in SK!Steps
      <3>1. CASE SK!WriteBreaks
        BY <1>0, <3>1 DEF SK!WriteBreaks, StagedRuns, ContentInv
      <3>2. CASE SK!WriteFile
        <4>1. PICK u : /\ u = [step |-> run.i, target |-> SK!Target,
                               existed |-> backups[run.i] # Absent]
                       /\ run'.done = Append(run.done, u)
          BY <1>0, <3>2 DEF SK!WriteFile, StagedRuns
        <4>2. PICK s, t : s = run.done /\ t = run'.done
          OBVIOUS
        <4>3. /\ \A j \in 1..Len(s) : s[j].step \in SK!Steps
              /\ t = Append(s, u) /\ s \in Seq(Undos) /\ u.step \in SK!Steps
          BY <1>0, <2>2, <4>1, <4>2 DEF ContentInv
        <4>4. \A j \in 1..Len(t) : t[j].step \in SK!Steps
          BY ONLY <4>3
        <4>. QED  BY <4>2, <4>4
      <3>. QED  BY <1>12, <3>1, <3>2
    <2>. QED  BY <2>4, <2>5 DEF ContentInv
  <1>13. ASSUME NEW outcome, NEW touched, SK!CommandStep(outcome, touched) PROVE ContentInv'
    <2>1. /\ run'.done = run.done /\ run'.i = run.i /\ run'.through = run.through
          /\ backups' = backups
          /\ files' = [f \in DOMAIN files |-> IF f \in touched THEN <<SK!ByCommand>> ELSE files[f]]
      BY <1>0, <1>13 DEF SK!CommandStep, StagedRuns
    <2>2. <<SK!ByCommand>> \in SK!Content
      BY DEF SK!Content
    <2>. QED  BY <2>1, <2>2 DEF ContentInv
  <1>14. ASSUME NEW f \in DOMAIN files, SK!LeftoverWrites(f) PROVE ContentInv'
    <2>1. <<SK!ByLeftover>> \in SK!Content
      BY DEF SK!Content
    <2>. QED  BY <1>14, <2>1 DEF SK!LeftoverWrites, SK!Change, ContentInv
  <1>15. CASE SK!RecordStep
    <2>1. /\ run'.done = run.done /\ run'.through = run.through /\ run'.i \in {run.i, run.i + 1}
          /\ UNCHANGED <<backups, files>> /\ run.pc = "record"
      BY <1>0, <1>15 DEF SK!RecordStep, StagedRuns
    <2>2. run.i <= run.through
      BY <1>0, <2>1 DEF RunInv, Shape
    <2>. QED  BY <1>0, <2>1, <2>2 DEF ContentInv
  <1>16. CASE SK!Rollback
    <2>1. /\ run'.done = SK!Front(run.done) /\ run'.i = run.i /\ run'.through = run.through
          /\ backups' = backups /\ run.done # << >>
          /\ files' = [files EXCEPT ![SK!Last(run.done).target] = SK!UndoneBefore(SK!Last(run.done))]
      BY <1>0, <1>16 DEF SK!Rollback, SK!Undoing, SK!Change, StagedRuns
    <2>2. PICK s, t, u : s = run.done /\ t = run'.done /\ u = SK!Last(run.done)
      OBVIOUS
    <2>3. /\ s \in Seq(Undos) /\ s # << >> /\ t = SK!Front(s) /\ u = SK!Last(s)
          /\ \A j \in 1..Len(s) : s[j].step \in SK!Steps
      BY <1>0, <2>1, <2>2 DEF ContentInv
    <2>4. u.step \in SK!Steps /\ \A j \in 1..Len(t) : t[j].step \in SK!Steps
      <3>1. t = SubSeq(s, 1, Len(s) - 1) /\ u = s[Len(s)]
        BY <2>3 DEF SK!Front, SK!Last
      <3>. QED  BY ONLY <2>3, <3>1
    <2>5. SK!UndoneBefore(u) \in SK!Content
      BY <1>0, <2>4 DEF SK!UndoneBefore, ContentInv
    <2>6. files' \in [SK!Paths -> SK!Content]
      BY <2>1, <2>2, <2>5 DEF ContentInv
    <2>. QED  BY <2>1, <2>2, <2>4, <2>6 DEF ContentInv
  <1>. QED  BY <1>1, <1>2, <1>3, <1>4, <1>5, <1>6, <1>7, <1>8, <1>9, <1>10, <1>12, <1>13,
               <1>14, <1>15, <1>16
            DEF SK!Next, SK!RunStep

\* Nothing that a run writes to is outside the workspace.
LEMMA Inside == \A f \in SK!Paths : SK!IsPrefix(Root, f)
  <1>1. SUFFICES ASSUME NEW f \in SK!Paths PROVE SK!IsPrefix(Root, f)
    OBVIOUS
  <1>2. PICK a \in Artifacts : \E i \in SK!Writes(a) : f = SK!Resolve(a.steps[i].path)
    BY DEF SK!Paths
  <1>3. PICK i \in SK!Writes(a) : f = SK!Resolve(a.steps[i].path)
    BY <1>2
  <1>4. f # SK!Escapes
    BY DEF SK!Paths
  <1>. QED  BY <1>3, <1>4 DEF SK!Resolve

LEMMA SkillTypes == ASSUME SkillsInv, CallsInv, ContentInv PROVE SK!TypeOK
  <1>0. RunInv /\ StoreTypes /\ run \in StagedRuns /\ journal \in Journals /\ MaxCalls \in Nat
    BY AgentAssumption DEF SkillsInv, RunInv, RunTypes, SK!SkillsAssumption
  <1>1. ASSUME NEW n \in Names, SK!Readable(n)
        PROVE  /\ store[n].art \in Artifacts /\ store[n].version \in 1..MaxCalls
               /\ {store[n].uses, store[n].runs} \subseteq 0..(MaxCalls + 1)
    <2>1. PICK e : e = store[n]
      OBVIOUS
    <2>2. FitsIn(e, calls, run.pc)
      BY <1>1, <2>1 DEF CallsInv
    <2>3. /\ e.art \in Artifacts /\ e.version \in 1..MaxCalls /\ e.uses \in 0..(MaxCalls + 1)
          /\ e.runs \in 0..(MaxCalls + 1)
      BY <1>0, <2>2 DEF FitsIn, SK!Entries, CallsInv
    <2>. QED  BY <2>1, <2>3
  <1>2. ASSUME NEW c \in SK!Clients PROVE pend[c] = SK!Idle \/ pend[c].at \in {"truncate", "write"}
    BY <1>0 DEF StoreTypes, Pending
  <1>3. ASSUME NEW i \in DOMAIN run.done PROVE SK!IsPrefix(Root, run.done[i].target)
    <2>1. run.done \in Seq(Undos)
      BY <1>0 DEF StagedRuns
    <2>2. run.done[i] \in Undos
      BY <2>1
    <2>. QED  BY <2>2, Inside DEF Undos
  <1>4. journal.status \in {"none", "running", "completed", "failed", "rolled_back", Torn}
    BY <1>0 DEF Journals
  <1>5. run.i \in 1..(run.through + 1) /\ calls \in 0..MaxCalls
        /\ \A f \in DOMAIN files : files[f] \in SK!Content
    BY DEF CallsInv, ContentInv
  <1>. QED  BY <1>1, <1>2, <1>3, <1>4, <1>5 DEF SK!TypeOK

-----------------------------------------------------------------------------
(* The agent: its parts interleave, and none has another's variables.      *)

LEMMA PartsStep ==
    [AgentNext]_agentVars => /\ [Next]_vars /\ [LR!Next]_learning /\ [SK!Next]_skills
                             /\ [SB!Next]_commands /\ [MD!Next]_modelCall
  BY DEF AgentNext, agentVars

\* A command that the sandbox's backends ran again had failed, and the audit
\* conceals no control that its run went without (run_command_capture and
\* exec_sandboxed); a model that was asked again had failed in a way that may
\* pass, with the same messages and doubled waits (chat_completion_with_retry).
THEOREM RetriesTheorem == AgentSpec => []RetriesAccounted
  <1>1. AgentInit => CommandInv /\ CallInv
    BY CommandInit, CallInit DEF AgentInit
  <1>2. CommandInv /\ CallInv /\ [AgentNext]_agentVars => (CommandInv /\ CallInv)'
    BY PartsStep, CommandStep, CallStep
  <1>3. CommandInv => SB!CommandsAccounted
    BY DEF CommandInv, Accounted, LastRun, SB!CommandsAccounted, SB!Last
  <1>4. CommandInv /\ CallInv => RetriesAccounted
    BY <1>3, CallInvSuffices DEF RetriesAccounted
  <1>. QED  BY <1>1, <1>2, <1>4, PTL DEF AgentSpec

LEMMA SkillsKept == AgentSpec => []SkillsInv
  <1>1. AgentInit => SkillsInv
    BY SkillInit, RunInit DEF AgentInit, SkillsInv
  <1>2. SkillsInv /\ [AgentNext]_agentVars => SkillsInv'
    BY PartsStep, SkillsStep
  <1>. QED  BY <1>1, <1>2, PTL DEF AgentSpec

\* Calls on a skill's file that do not overlap lose no version, no use and no
\* run (save, get and record_execution_result of SkillStore).
THEOREM StoreTheorem == AgentSpec => []SequentialStore
  <1>1. SkillsInv => SequentialStore
    BY StoreSuffices DEF SkillsInv, SequentialStore
  <1>. QED  BY <1>1, SkillsKept, PTL

\* What a staged run overwrote is in its snapshots wherever it was stopped
\* (write_file_step of ExecuteSkillStagesTool).
THEOREM SnapshotsTheorem == AgentSpec => []Recoverable
  <1>1. SkillsInv => Recoverable
    BY RunSuffices DEF SkillsInv, Recoverable
  <1>. QED  BY <1>1, SkillsKept, PTL

\* A run that says it was rolled back has left each file that it wrote as it
\* was, and no step of one that says it is completed failed
\* (execute_write_rollback of ExecuteSkillStagesTool).
THEOREM OutcomeTheorem == AgentSpec => []OutcomeIsTrue
  <1>1. SkillsInv => OutcomeIsTrue
    BY RunSuffices DEF SkillsInv, OutcomeIsTrue
  <1>. QED  BY <1>1, SkillsKept, PTL

\* A rule of the table is earned, and a run of failures takes it out of use (ingest
\* and effective_confidence of learned.rs).
THEOREM RoutesTheorem == AgentSpec => [](LR!RulesAreEarned /\ LR!UsedRulesHoldUp)
  <1>1. AgentInit => RoutesInv
    BY RoutesInit DEF AgentInit
  <1>2. RoutesInv /\ [AgentNext]_agentVars => RoutesInv'
    BY PartsStep, RoutesStep
  <1>. QED  BY <1>1, <1>2, RoutesInvSuffices, PTL DEF AgentSpec
=============================================================================
