-------------------------------- MODULE Skills --------------------------------
(***************************************************************************)
(* Skills: the files that SkillStore of skills.rs keeps them in, and the   *)
(* staged run of one by ExecuteSkillStagesTool of tools.rs, with its       *)
(* journal, the snapshots of the files that it writes, and its rollback.   *)
(* Any number of tool calls read and save skills at the same time; nothing *)
(* locks a skill's file between its being read and its being written, and  *)
(* a write truncates the file first.  The process may be killed anywhere.  *)
(*                                                                         *)
(* A step is one file operation, or what the code does between two.        *)
(*                                                                         *)
(* Abstractions: an artifact is what validate_skill_artifact and the run   *)
(* look at; times and wording are left out; what a saved artifact says of  *)
(* its own counters is 0.                                                  *)
(***************************************************************************)
EXTENDS Workspace, FiniteSets

CONSTANTS Names,         \* skill files: two names with one slug are one
          Artifacts,     \* artifacts that are saved or given inline
          Torn,          \* a file that a write was begun on: it does not parse
          Tasks,         \* tool calls that read and save
          MaxCalls       \* bound: calls that are made

\* What the file of a skill holds.
Entries == [art : Artifacts \cup {Absent}, version : Nat, uses : Nat, runs : Nat]

SkillsAssumption ==
    /\ MaxCalls \in Nat /\ "run" \notin Tasks
    /\ Absent # Torn /\ Absent \notin Entries /\ Torn \notin Entries
    /\ Absent \notin Names /\ Torn \notin {"completed", "rolled_back"}
    /\ \A a \in Artifacts : /\ a.name \in Names
                           /\ Len(a.steps) \in Nat /\ DOMAIN a.steps = 1..Len(a.steps)

VARIABLES store,         \* per name: its file
          pend,          \* per client: the write that it is about to make
          run,           \* the staged run
          journal,       \* the run's journal on disk
          backups,       \* the run's snapshots on disk, per step
          files,         \* the files of the workspace
          calls,         \* bound: calls made
          tally,         \* history: per name, what was asked of its file
          overlap,       \* history: two clients had one file in hand at once
          crashed,       \* history: the process has been killed
          before         \* history: per file the run wrote, its first write
                         \* and what the file held

vars == <<store, pend, run, journal, backups, files, calls, tally, overlap,
          crashed, before>>

Clients == Tasks \cup {"run"}
Idle    == [at |-> "idle"]

-----------------------------------------------------------------------------
(* Validation.                                                             *)

Does(tool)  == tool \in {"run_command", "write_file"}
Risky(tool) == Does(tool) \/ tool \in {"fetch_url", "web_search"}

\* validate_skill_artifact: executable, and what its report says is missing.
Executable(a) == \E i \in DOMAIN a.steps : Risky(a.steps[i].tool)
Unverified(a) == \E i \in DOMAIN a.steps : Does(a.steps[i].tool) /\ ~a.steps[i].verified
CanSave(a)    == a.steps # << >> /\ (Executable(a) => a.constrained /\ ~Unverified(a))

\* SkillStore::validate: what save accepts.
Valid(a) ==
    /\ CanSave(a) /\ ~Unverified(a)
    /\ a.status \in {"reviewed", "approved"} => a.reviewed
    /\ a.status = "approved" => ~a.review

\* What a staged run asks of the steps that it is to make, and of its caller.
Runnable(a, confirm, through) ==
    /\ Executable(a) /\ confirm /\ through \in DOMAIN a.steps
    /\ \A i \in 1..through :
           Does(a.steps[i].tool) => a.steps[i].undo /\ a.steps[i].points

-----------------------------------------------------------------------------
(* The store.                                                              *)

NoTally == [saved |-> 0, used |-> 0, ran |-> 0, art |-> Absent]

\* The file of a skill can be read.
Readable(n) == store[n] \notin {Absent, Torn}

\* The client has read the file and is going to write it.
Begin(c, n, entry) ==
    /\ pend' = [pend EXCEPT ![c] = [at |-> "truncate", name |-> n, entry |-> entry]]
    /\ overlap' = (overlap \/ \E d \in Clients : pend[d] # Idle /\ pend[d].name = n)

Count(n, field) == tally' = [tally EXCEPT ![n][field] = @ + 1]

\* get: an artifact that is read has been used once more.
Get(c, n) == /\ Readable(n) /\ pend[c] = Idle
             /\ Begin(c, n, [store[n] EXCEPT !.uses = @ + 1])
             /\ Count(n, "used")

Read(t, n) == /\ t # "run" /\ calls < MaxCalls /\ calls' = calls + 1
              /\ Get(t, n)
              /\ UNCHANGED <<store, run, journal, backups, files, crashed, before>>

\* Mutant: the counters are those of the artifact.
SavedAfresh(n, a) ==
    [art |-> a, version |-> IF store[n] = Absent THEN 1 ELSE store[n].version + 1,
     uses |-> 0, runs |-> 0]

\* What save stores: the counters are those of the file, if there is one.
Saved(n, a) ==
    IF store[n] = Absent THEN [art |-> a, version |-> 1, uses |-> 0, runs |-> 0]
    ELSE [store[n] EXCEPT !.art = a, !.version = @ + 1]

\* save: refused, too, when the file that is there cannot be read.
Save(t, a) ==
    /\ Valid(a) /\ store[a.name] # Torn /\ pend[t] = Idle
    /\ calls < MaxCalls /\ calls' = calls + 1
    /\ Begin(t, a.name, Saved(a.name, a))
    /\ tally' = [tally EXCEPT ![a.name].saved = @ + 1, ![a.name].art = a]
    /\ UNCHANGED <<store, run, journal, backups, files, crashed, before>>

\* write_path: fs::write truncates the file, then writes it.
Truncate(c) ==
    /\ pend[c] # Idle /\ pend[c].at = "truncate"
    /\ store' = [store EXCEPT ![pend[c].name] = Torn]
    /\ pend' = [pend EXCEPT ![c].at = "write"]
    /\ UNCHANGED <<run, journal, backups, files, calls, tally, overlap, crashed, before>>

Write(c) ==
    /\ pend[c] # Idle /\ pend[c].at = "write"
    /\ store' = [store EXCEPT ![pend[c].name] = pend[c].entry]
    /\ pend' = [pend EXCEPT ![c] = Idle]
    /\ UNCHANGED <<run, journal, backups, files, calls, tally, overlap, crashed, before>>

\* The numbers that steps have.
Steps == UNION {DOMAIN a.steps : a \in Artifacts}

\* The targets of all artifacts; some files are there already.
Writes(a) == {i \in DOMAIN a.steps : a.steps[i].tool = "write_file"}
Paths == (UNION {{Resolve(a.steps[i].path) : i \in Writes(a)} : a \in Artifacts}) \ {Escapes}

-----------------------------------------------------------------------------
(* A staged run.                                                           *)

\* auto: auto_rollback_on_failure; stop: stop_on_failure; name: the stored
\* skill's, if it was one; done: prepared_rollbacks; leftover: commands that
\* timed out and are not known to have ended.
NoRun == [pc |-> "idle", art |-> Absent, name |-> Absent, through |-> 0,
          auto |-> FALSE, stop |-> TRUE, i |-> 1, status |-> "running",
          result |-> "none", done |-> << >>, leftover |-> FALSE]
NoJournal == [status |-> "none", steps |-> << >>]

Run(next) == run' = [run EXCEPT !.pc = next]
AtRun(p)  == run.pc = p /\ pend["run"] = Idle

\* load_skill by name: get, which counts a use.
LoadStored(n) ==
    /\ AtRun("idle") /\ Get("run", n)
    /\ run' = [run EXCEPT !.pc = "loaded", !.art = store[n].art, !.name = n]
    /\ UNCHANGED <<store, journal, backups, files, calls, crashed, before>>

LoadInline(a) ==
    /\ AtRun("idle")
    /\ run' = [run EXCEPT !.pc = "loaded", !.art = a]
    /\ UNCHANGED <<store, pend, journal, backups, files, calls, tally, overlap,
                   crashed, before>>

\* The run begins with a journal on disk.
StartRun(through, auto, stop) ==
    /\ AtRun("loaded") /\ Runnable(run.art, TRUE, through)
    /\ run' = [run EXCEPT !.pc = "step", !.through = through, !.auto = auto, !.stop = stop]
    /\ journal' = [status |-> "running", steps |-> << >>]
    /\ UNCHANGED <<store, pend, backups, files, calls, tally, overlap, crashed, before>>

\* Without confirmation, or with a step that lacks rollback or checkpoints.
Refuse(confirm, through) ==
    /\ AtRun("loaded") /\ ~Runnable(run.art, confirm, through)
    /\ Run("over")
    /\ UNCHANGED <<store, pend, journal, backups, files, calls, tally, overlap,
                   crashed, before>>

CurrentStep == run.art.steps[run.i]
StepIs(tool) == AtRun("step") /\ run.i <= run.through /\ CurrentStep.tool = tool

\* Another tool, or none, is left to the operator.
ManualStep ==
    /\ AtRun("step") /\ run.i <= run.through /\ ~Does(CurrentStep.tool)
    /\ run' = [run EXCEPT !.pc = "record", !.result = "manual"]
    /\ UNCHANGED <<store, pend, journal, backups, files, calls, tally, overlap,
                   crashed, before>>

\* What a content is made of, besides the numbers of write steps.
Old == 0
ByCommand == -1
ByLeftover == -2

Change(f, content) == files' = [files EXCEPT ![f] = content]

\* run_command_capture: the command may write files of the workspace.  One
\* that times out has not ended.
CommandStep(outcome, touched) ==
    /\ StepIs("run_command")
    /\ files' = [f \in DOMAIN files |-> IF f \in touched THEN <<ByCommand>> ELSE files[f]]
    /\ run' = [run EXCEPT !.pc = "record",
                          !.result = IF outcome = "success" THEN "completed" ELSE "failed",
                          !.leftover = @ \/ outcome = "timed_out"]
    /\ UNCHANGED <<store, pend, journal, backups, calls, tally, overlap, crashed, before>>

\* A command that was given up goes on.
LeftoverWrites(f) ==
    /\ run.leftover
    /\ Change(f, <<ByLeftover>>)
    /\ UNCHANGED <<store, pend, run, journal, backups, calls, tally, overlap,
                   crashed, before>>

Target == Resolve(CurrentStep.path)

\* Mutant: the snapshot is not taken.
SnapshotNever ==
    /\ StepIs("write_file") /\ Target \in DOMAIN files
    /\ Run("write")
    /\ UNCHANGED <<store, pend, journal, backups, files, calls, tally, overlap,
                   crashed, before>>

\* write_file_step: a file that exists is copied to the backups,
Snapshot ==
    /\ StepIs("write_file") /\ Target \in DOMAIN files
    /\ backups' = IF files[Target] = Absent THEN backups
                  ELSE [backups EXCEPT ![run.i] = files[Target]]
    /\ Run("write")
    /\ UNCHANGED <<store, pend, journal, files, calls, tally, overlap, crashed, before>>

Remember(f) == before' = IF before[f].step = 0
                         THEN [before EXCEPT ![f] = [step |-> run.i, held |-> files[f]]]
                         ELSE before

\* then written.
WriteFile ==
    /\ AtRun("write")
    /\ Change(Target, Written(files[Target], CurrentStep.append, run.i))
    /\ Remember(Target)
    /\ run' = [run EXCEPT !.pc = "record", !.result = "completed",
                          !.done = Append(@, [step |-> run.i, target |-> Target,
                                              existed |-> backups[run.i] # Absent])]
    /\ UNCHANGED <<store, pend, journal, backups, calls, tally, overlap, crashed>>

\* The path leaves the workspace, an argument is missing, or the disk fails:
\* the error ends the run as it stands, whatever was asked for on failure.
StepBreaks ==
    /\ StepIs("write_file") \/ AtRun("write") \/ StepIs("run_command")
    /\ Run("over")
    /\ UNCHANGED <<store, pend, journal, backups, files, calls, tally, overlap,
                   crashed, before>>

\* The disk fails after the file has been truncated.
WriteBreaks ==
    /\ AtRun("write") /\ ~CurrentStep.append
    /\ Change(Target, << >>) /\ Remember(Target)
    /\ Run("over")
    /\ UNCHANGED <<store, pend, journal, backups, calls, tally, overlap, crashed>>

Failed == run.result = "failed"

\* The record of the step is in the journal on disk.
RecordStep ==
    /\ AtRun("record")
    /\ LET status == IF Failed THEN "failed" ELSE run.status IN
       /\ journal' = [status |-> status,
                      steps |-> Append(journal.steps,
                          [step |-> run.i, result |-> run.result,
                           backup |-> backups[run.i] # Absent])]
       /\ run' = [run EXCEPT !.status = status,
                     !.pc = IF Failed /\ run.stop THEN "undo" ELSE "step",
                     !.i = IF Failed /\ run.stop THEN @ ELSE @ + 1]
    /\ UNCHANGED <<store, pend, backups, files, calls, tally, overlap, crashed, before>>

StepsOver ==
    /\ AtRun("step") /\ run.i > run.through
    /\ Run("undo")
    /\ UNCHANGED <<store, pend, journal, backups, files, calls, tally, overlap,
                   crashed, before>>

UndoneBefore(p) == IF p.existed THEN backups[p.step] ELSE Absent

Undoing == AtRun("undo") /\ run.status = "failed" /\ run.auto /\ run.done # << >>

\* Mutant: the first write is undone first.
RollbackForwards ==
    /\ Undoing
    /\ Change(Head(run.done).target, UndoneBefore(Head(run.done)))
    /\ run' = [run EXCEPT !.done = Tail(@), !.result = "rolled_back"]
    /\ UNCHANGED <<store, pend, journal, backups, calls, tally, overlap, crashed, before>>

\* execute_write_rollback: the last write is undone first.
Rollback ==
    /\ Undoing
    /\ Change(Last(run.done).target, UndoneBefore(Last(run.done)))
    /\ run' = [run EXCEPT !.done = Front(@), !.result = "rolled_back"]
    /\ UNCHANGED <<store, pend, journal, backups, calls, tally, overlap, crashed, before>>

\* The disk fails: the run ends with its writes half undone.
RollbackBreaks ==
    /\ Undoing
    /\ Run("over")
    /\ UNCHANGED <<store, pend, journal, backups, files, calls, tally, overlap,
                   crashed, before>>

\* The journal is saved for the last time, and the run of a stored skill goes
\* into its file.
Finish ==
    /\ AtRun("undo") /\ ~Undoing
    /\ LET status == CASE run.result = "rolled_back" -> "rolled_back"
                       [] run.status = "running"     -> "completed"
                       [] OTHER                      -> run.status
       IN  /\ journal' = [journal EXCEPT !.status = status]
           /\ run' = [run EXCEPT !.pc = IF run.name = Absent THEN "over" ELSE "count",
                                 !.status = status]
    /\ UNCHANGED <<store, pend, backups, files, calls, tally, overlap, crashed, before>>

\* record_execution_result; a file that cannot be read is an error.
CountRun ==
    /\ AtRun("count") /\ Run("over")
    /\ IF Readable(run.name)
       THEN /\ Begin("run", run.name, [store[run.name] EXCEPT !.runs = @ + 1])
            /\ Count(run.name, "ran")
       ELSE UNCHANGED <<pend, tally, overlap>>
    /\ UNCHANGED <<store, journal, backups, files, calls, crashed, before>>

\* The process is killed: what is being written is torn.  Commands that were
\* started go on.
Crash ==
    /\ ~crashed /\ crashed' = TRUE
    /\ pend' = [c \in Clients |-> Idle]
    /\ run' = [run EXCEPT !.pc = "over", !.leftover = @ \/ StepIs("run_command")]
    /\ IF \E p \in {"loaded", "record", "undo"} : AtRun(p)
       THEN journal' \in {journal, [journal EXCEPT !.status = Torn]}
       ELSE UNCHANGED journal
    /\ UNCHANGED <<store, backups, files, calls, tally, overlap, before>>

-----------------------------------------------------------------------------
Init ==
    /\ store \in [Names -> {Absent}]
    /\ pend = [c \in Clients |-> Idle]
    /\ run = NoRun /\ journal = NoJournal
    /\ backups = [i \in Steps |-> Absent]
    /\ files \in [Paths -> {Absent, <<Old>>}]
    /\ calls = 0
    /\ tally = [n \in Names |-> NoTally]
    /\ overlap = FALSE /\ crashed = FALSE
    /\ before = [f \in Paths |-> [step |-> 0, held |-> Absent]]

StoreStep == \/ \E t \in Tasks, n \in Names : Read(t, n)
             \/ \E t \in Tasks, a \in Artifacts : Save(t, a)
             \/ \E c \in Clients : Truncate(c) \/ Write(c)

RunStep ==
    \/ \E n \in Names : LoadStored(n)
    \/ \E a \in Artifacts : LoadInline(a)
    \/ \E through \in DOMAIN backups, auto, stop \in BOOLEAN : StartRun(through, auto, stop)
    \/ \E confirm \in BOOLEAN, through \in {0} \cup DOMAIN backups : Refuse(confirm, through)
    \/ ManualStep \/ Snapshot \/ WriteFile \/ StepBreaks \/ WriteBreaks
    \/ \E outcome \in {"success", "failed", "timed_out"}, touched \in SUBSET DOMAIN files :
           CommandStep(outcome, touched)
    \/ RecordStep \/ StepsOver \/ Rollback \/ RollbackBreaks \/ Finish \/ CountRun
    \/ \E f \in DOMAIN files : LeftoverWrites(f)

Next == StoreStep \/ RunStep \/ Crash

Spec == Init /\ [][Next]_vars

-----------------------------------------------------------------------------
Content == {Absent} \cup Seq({ByLeftover, ByCommand, Old} \cup Steps)

TypeOK ==
    /\ \A n \in Names : Readable(n) => /\ store[n].art \in Artifacts
                                       /\ store[n].version \in 1..MaxCalls
                                       /\ {store[n].uses, store[n].runs} \subseteq 0..(MaxCalls + 1)
    /\ \A c \in Clients : pend[c] = Idle \/ pend[c].at \in {"truncate", "write"}
    /\ run.i \in 1..(run.through + 1)
    /\ \A i \in DOMAIN run.done : IsPrefix(Root, run.done[i].target)
    /\ journal.status \in {"none", "running", "completed", "failed", "rolled_back", Torn}
    /\ \A f \in DOMAIN files : files[f] \in Content
    /\ calls \in 0..MaxCalls

\* Calls that do not overlap lose nothing: a skill's file has the artifact
\* saved last, one version for each save, and its counters have counted every
\* use and every run.
SequentialStore ==
    ~overlap /\ ~crashed =>
        \A n \in Names : (\A c \in Clients : pend[c] # Idle => pend[c].name # n) =>
            IF store[n] = Absent THEN tally[n].saved = 0
            ELSE store[n] = [art |-> tally[n].art, version |-> tally[n].saved,
                             uses |-> tally[n].used, runs |-> tally[n].ran]

\* What a file held before the run wrote it can be had again, wherever the
\* run was stopped: its snapshot is on disk under the number of the step, and
\* the journal, once it has the step and unless the kill tore it, says so.
\* Only a command that was given up and goes on may come between.
Recoverable ==
    ~run.leftover =>
        \A f \in DOMAIN files : LET first == before[f] IN
            first.step # 0 =>
                /\ backups[first.step] = first.held
                /\ journal.status # Torn /\ first.step <= Len(journal.steps) =>
                       journal.steps[first.step].backup = (first.held # Absent)

\* A run that says it was rolled back has left every file that it wrote as it
\* was before the first of its writes to it, even if commands wrote it too;
\* and a run that says it is completed had no step that failed.
OutcomeIsTrue ==
    /\ journal.status = "rolled_back" /\ ~run.leftover =>
           \A f \in DOMAIN files : before[f].step # 0 => files[f] = before[f].held
    /\ journal.status = "completed" =>
           \A i \in DOMAIN journal.steps : journal.steps[i].result # "failed"
=============================================================================
