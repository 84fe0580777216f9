------------------------------- MODULE Sandbox --------------------------------
(***************************************************************************)
(* Commands that the agent runs: run_command_capture of tools.rs and the   *)
(* backends of ngenorca-sandbox.  A backend wraps the command in a tool of *)
(* the platform.  When the wrapper fails, the command is given to the next *)
(* backend, and the code tells a wrapper that failed from a command that   *)
(* did by the words of stderr alone: a command may so run up to three      *)
(* times.  Each execution ends with an audit for the operator.             *)
(*                                                                         *)
(* On macOS the profile of the wrapper is one file per process, which      *)
(* executions that overlap share.                                          *)
(*                                                                         *)
(* Abstractions: a policy is the set of controls that it asks for; of      *)
(* stderr only the words that a backend looks for are kept.                *)
(***************************************************************************)
EXTENDS Integers, Sequences, SequencesExt

CONSTANTS Executions,    \* calls of run_command
          NoOne          \* no execution

VARIABLES host,          \* the environment, and whether the sandbox is enabled
          policy,        \* the controls that the policy asks for
          exec,          \* per execution: how it stands
          profile,       \* macOS: the execution whose profile is in the file
          ran,           \* history: per execution, the runs of its command
          overlapped     \* history: two executions were under way at once

vars == <<host, policy, exec, profile, ran, overlapped>>

Environments == {"Container", "Windows", "Linux", "MacOs", "Unknown"}
Controls     == {"filesystem", "network", "spawn", "limits"}

\* What a policy of the configuration can ask for: the workspace is always
\* among its paths.
Policies == {{"filesystem"} \cup p : p \in SUBSET {"network", "spawn", "limits"}}

-----------------------------------------------------------------------------
(* The backends.                                                           *)

\* Where an execution begins.
FirstBackend == IF ~host.enabled THEN "direct"
                ELSE CASE host.env = "Container" -> "container"
                       [] host.env = "Windows"   -> "windows_job"
                       [] host.env = "Linux"     -> "linux_unshare"
                       [] host.env = "MacOs"     -> "macos_sandbox_exec"
                       [] OTHER                  -> "direct"

\* Where it goes on.
NextBackend(b) == CASE b = "linux_unshare" -> "linux_prlimit"
                    [] b = "linux_prlimit" -> "direct"
                    [] b = "windows_job"   -> "direct"
                    [] b = "macos_sandbox_exec" -> "direct"
                    [] OTHER               -> "none"

\* What a failed command may say that has the backend blame its wrapper:
\* that something was not permitted, or was not found, or nothing at all.
Blamed(b) == CASE b = "linux_unshare"      -> {"denied"}
               [] b = "linux_prlimit"      -> {"denied", "missing"}
               [] b = "macos_sandbox_exec" -> {"denied", "missing", "nothing"}
               [] OTHER                    -> {}

\* The controls that a backend puts on the command, by its arguments to
\* unshare and prlimit, the limits of the job, and the rules of the profile.
\* The profile lets the command start others.
UnshareImposes == {"network", "spawn", "limits"}
PrlimitImposes == {"spawn", "limits"}
JobImposes     == {"spawn", "limits"}
ProfileImposes == {"filesystem", "network"}

Imposed(b) == CASE b = "linux_unshare"      -> UnshareImposes
                [] b = "linux_prlimit"      -> PrlimitImposes
                [] b = "windows_job"        -> JobImposes
                [] b = "macos_sandbox_exec" -> ProfileImposes
                [] OTHER                    -> {}

\* The controls that the audit of a backend lists.
Listed(b) ==
    {c \in Controls :
        CASE c = "network"    -> b \in {"linux_unshare", "macos_sandbox_exec"}
          [] c = "filesystem" -> b = "macos_sandbox_exec"
          [] OTHER -> b \in {"linux_unshare", "linux_prlimit", "windows_job"}}

\* build_sandbox_audit: what was asked for and is not listed is a gap.
Audit(b) == [backend |-> b, gaps |-> policy \ Listed(b)]

-----------------------------------------------------------------------------
NoAudit    == [backend |-> "none", gaps |-> {}]
NotStarted == [pc |-> "idle", backend |-> "none", under |-> {}, loose |-> FALSE,
               audit |-> NoAudit]

Underway(e) == exec[e].pc \notin {"idle", "over", "error"}

Start(e) ==
    /\ exec[e].pc = "idle"
    /\ exec' = [exec EXCEPT ![e].pc = "ready", ![e].backend = FirstBackend]
    /\ overlapped' = (overlapped \/ \E d \in Executions : Underway(d))
    /\ UNCHANGED <<host, policy, profile, ran>>

\* exec_macos_sandboxed: the profile is written; it may also fail to be.
WriteProfile(e) ==
    /\ exec[e].pc = "ready" /\ exec[e].backend = "macos_sandbox_exec"
    /\ profile' = e
    /\ exec' = [exec EXCEPT ![e].pc = "profiled"]
    /\ UNCHANGED <<host, policy, ran, overlapped>>

CanLaunch(e) == IF exec[e].backend = "macos_sandbox_exec" THEN exec[e].pc = "profiled"
                ELSE exec[e].pc = "ready"

\* The wrapper starts the command under the controls it imposes; on macOS
\* they are those of the profile that it finds in the file.  A process that
\* cannot be assigned to its job runs without it.
Launch(e, assigned) ==
    /\ CanLaunch(e)
    /\ exec[e].backend = "macos_sandbox_exec" => profile # NoOne
    /\ ~assigned => exec[e].backend = "windows_job"
    /\ LET own == exec[e].backend = "macos_sandbox_exec" => profile = e
       IN  exec' = [exec EXCEPT ![e].pc = "running",
                       ![e].under = IF assigned /\ own THEN Imposed(exec[e].backend)
                                    ELSE {},
                       ![e].loose = ~assigned]
    /\ UNCHANGED <<host, policy, profile, ran, overlapped>>

\* The file of the profile goes with the wrapper.
DropProfile(e) ==
    IF exec[e].backend = "macos_sandbox_exec" THEN profile' = NoOne ELSE UNCHANGED profile

GoOn(e) == exec' = [exec EXCEPT ![e].pc = "ready", ![e].backend = NextBackend(@)]
End(e)  == exec' = [exec EXCEPT ![e].pc = "over", ![e].audit = Audit(exec[e].backend)]

\* The wrapper is missing or is rejected before the command runs.
Reject(e) ==
    /\ exec[e].pc \in {"ready", "profiled"}
    /\ NextBackend(exec[e].backend) # "none"
    /\ GoOn(e)
    /\ IF exec[e].pc = "profiled" THEN DropProfile(e) ELSE UNCHANGED profile
    /\ UNCHANGED <<host, policy, ran, overlapped>>

\* A command that cannot be spawned is an error.
CannotSpawn(e) ==
    /\ CanLaunch(e)
    /\ exec[e].backend \in {"direct", "container", "windows_job", "linux_prlimit"}
    /\ exec' = [exec EXCEPT ![e].pc = "error"]
    /\ UNCHANGED <<host, policy, profile, ran, overlapped>>

Ran(e, outcome) ==
    ran' = [ran EXCEPT ![e] = Append(@, [under |-> exec[e].under, loose |-> exec[e].loose,
                                       outcome |-> outcome])]

\* Mutant: the words decide, whatever the exit status is.
RetriesOnWords(e, success, said) == said \in Blamed(exec[e].backend)

\* The command has run, and its failure is taken for the wrapper's.
Retries(e, success, said) == ~success /\ said \in Blamed(exec[e].backend)

Exit(e, success, said) ==
    /\ exec[e].pc = "running"
    /\ Ran(e, IF success THEN "success" ELSE "failure")
    /\ DropProfile(e)
    /\ IF Retries(e, success, said) THEN GoOn(e) ELSE End(e)
    /\ UNCHANGED <<host, policy, overlapped>>

\* The wall timeout: the wait for the command is given up.  Only a job that
\* it was assigned to ends the command.
TimeOut(e) ==
    /\ exec[e].pc = "running"
    /\ Ran(e, "given_up")
    /\ DropProfile(e) /\ End(e)
    /\ UNCHANGED <<host, policy, overlapped>>

-----------------------------------------------------------------------------
Init ==
    /\ host \in [env : Environments, enabled : BOOLEAN]
    /\ policy \in Policies
    /\ exec = [e \in Executions |-> NotStarted]
    /\ profile = NoOne
    /\ ran = [e \in Executions |-> << >>]
    /\ overlapped = FALSE

Next == \E e \in Executions :
    \/ Start(e) \/ WriteProfile(e) \/ Reject(e) \/ CannotSpawn(e) \/ TimeOut(e)
    \/ \E assigned \in BOOLEAN : Launch(e, assigned)
    \/ \E success \in BOOLEAN, said \in {"denied", "missing", "nothing", "else"} :
           Exit(e, success, said)

Spec == Init /\ [][Next]_vars

-----------------------------------------------------------------------------
TypeOK ==
    /\ policy \in Policies
    /\ \A e \in Executions :
           /\ exec[e].under \subseteq Controls
           /\ exec[e].pc \in {"idle", "ready", "profiled", "running", "over", "error"}
           /\ Len(ran[e]) <= 3
    /\ profile \in Executions \cup {NoOne}

\* A command is run again only after a run that failed, never after one that
\* succeeded or was given up; and where executions do not overlap, the audit
\* conceals nothing: each control that the policy asks for was put on the run
\* that the result is of, or is among the gaps.  The one exception is a
\* process that Windows would not assign to its job.
CommandsAccounted ==
    \A e \in Executions :
        /\ \A i \in 1..(Len(ran[e]) - 1) : ran[e][i].outcome = "failure"
        /\ exec[e].pc = "over" /\ ~overlapped /\ ~Last(ran[e]).loose =>
               policy \subseteq Last(ran[e]).under \cup exec[e].audit.gaps
=============================================================================
