------------------------------- MODULE MCAgent -------------------------------
(* The agent for TLC.  Since a turn, the learned routes, the skills, the     *)
(* commands and a call of a model share no state, which of them acts is      *)
(* chosen at the start.                                                      *)
EXTENDS Agent

VARIABLE part

mcvars == <<agentVars, part>>

-----------------------------------------------------------------------------
(* One turn: three configurations, messages that the rules are sure of or    *)
(* not, and tools that write and run.                                        *)

SubAgent(name, roles, cap, local, cost, priority) ==
    [name |-> name, roles |-> roles, cap |-> cap, local |-> local, cost |-> cost,
     priority |-> priority]

Coder   == SubAgent("coder", {"Coding", "General"}, Expert, FALSE, 5, 10)
Planner == SubAgent("planner", {"Planning", "Analysis"}, Complex, TRUE, 1, 20)
Helper  == SubAgent("helper", {"General", "QuestionAnswering"}, Complex, TRUE, 2, 10)
Junior  == SubAgent("junior", {"Coding"}, Simple, TRUE, 8, 1)

Setup(agents, strategy, slm, gate, autoAccept, tools) ==
    [agents |-> agents, strategy |-> strategy, slm |-> slm, threshold |-> 80000,
     gate |-> gate, autoAccept |-> autoAccept, tools |-> tools]

MCConfigs ==
    { Setup(<<Coder, Planner, Helper>>, "Hybrid", TRUE, "auto", TRUE, TRUE),
      Setup(<<Planner, Helper, Junior>>, "LocalFirst", FALSE, "llm", FALSE, FALSE),
      Setup(<<Coder>>, "CostOptimized", FALSE, "off", FALSE, TRUE) }

MCCalls == { [tool |-> t, args |-> 1] : t \in {"write_file", "read_file", "run_command"} }
MCBatches == { <<CHOOSE c \in MCCalls : c.tool = t>> : t \in {"run_command", "write_file"} }

\* A message with this many keywords of one intent.
Message(intent, n) ==
    [hits |-> [i \in PatternIntents |-> IF i = intent THEN n ELSE 0], long |-> FALSE]

MCMessages == { Message("Coding", 1),      \* sure, moderate
                Message("Analysis", 1) }   \* unsure, complex

MCSmallTasks == {SlmTask("Coding", Complex)}

-----------------------------------------------------------------------------
(* Learned routes: tasks of one intent without a tag and with one.           *)

MCPolicy == [enabled |-> TRUE, minConfidence |-> 9000, minSamples |-> 1,
             decayAfter |-> 0, maxAge |-> 1, penalty |-> 100]
MCRouteTasks == {[intent |-> "Coding", tags |-> << >>, complexity |-> 1],
                 [intent |-> "Coding", tags |-> <<"rust">>, complexity |-> 3]}

-----------------------------------------------------------------------------
(* Skills: one that writes a file, runs a command and appends to the file,   *)
(* one whose last path leaves the workspace, one that only fetches, and two  *)
(* that may not be run or saved.                                             *)

AFile      == [absolute |-> FALSE, parts |-> <<"src", "..", "notes">>]
SameFile   == [absolute |-> TRUE, parts |-> <<"home", ".", "notes">>]
Outside    == [absolute |-> FALSE, parts |-> <<"..", "notes">>]

StepOf(tool, path, append, undo) ==
    [tool |-> tool, path |-> path, append |-> append, undo |-> undo, points |-> TRUE,
     verified |-> TRUE]
Command == StepOf("run_command", AFile, FALSE, TRUE)

Deploy == [name |-> "deploy", status |-> "reviewed", reviewed |-> TRUE, review |-> TRUE,
           constrained |-> TRUE,
           steps |-> <<StepOf("write_file", AFile, FALSE, TRUE), Command,
                       StepOf("write_file", SameFile, TRUE, TRUE), Command>>]
Fetch  == [Deploy EXCEPT !.steps = <<StepOf("fetch_url", AFile, FALSE, FALSE)>>]
Strays == [Deploy EXCEPT !.status = "draft",
                         !.steps = <<StepOf("write_file", SameFile, TRUE, TRUE),
                                     StepOf("write_file", Outside, FALSE, TRUE)>>]
NoUndo == [Strays EXCEPT !.steps = <<StepOf("run_command", AFile, FALSE, FALSE)>>]
Loose  == [Strays EXCEPT !.constrained = FALSE]

MCArtifacts == {Deploy, Fetch, Strays, NoUndo, Loose}
MCRoot == <<"home">>

-----------------------------------------------------------------------------
(* Model calls: no provider but Ollama, all with their keys, or Anthropic    *)
(* without one; conversations as the turn makes them, and a prompt alone.    *)

Providers(sections, keyed, model) ==
    [sections |-> sections, keyed |-> keyed, model |-> model]

MCSetups == { Providers({}, {}, "plain"),
              Providers({"openai", "kilo", "anthropic"}, {"kilo", "anthropic"}, "kilocode"),
              Providers({"anthropic", "custom"}, {}, "anthropic") }

MCConversations == { <<"system">>, <<"user">>,
                     <<"system", "user", "assistant", "tool", "system">> }

\* One answer of each class: those that parse, a refusal of each kind (the 429
\* asks for seven seconds), and the failures of the transport.
Reply(kind, status, names) ==
    [kind |-> kind, status |-> status, names |-> names, asks |-> 0]
MCAnswers == {Reply(k, 200, FALSE) : k \in {"text", "garbled", "empty", "unparsable"}}
             \cup {Reply("refusal", s, FALSE) : s \in {400, 401}}
             \cup {Reply("refusal", 400, TRUE), Reply("timeout", 0, FALSE)}
             \cup {[Reply("refusal", 429, FALSE) EXCEPT !.asks = 7000]}

-----------------------------------------------------------------------------
Parts == {"turn", "routes", "store", "run", "sandbox", "model"}

MCInit == /\ AgentInit
          /\ part \in Parts
          /\ part # "turn" => cfg.strategy = "Hybrid" /\ task.intent = "Coding"
          /\ part \notin {"store", "run"} => Absent \notin {files[f] : f \in DOMAIN files}
          /\ part # "sandbox" => host.env = "Unknown" /\ host.enabled
                                    /\ policy = {"filesystem"}
          /\ part # "model" => setup.sections = {} /\ asked.conv = <<"user">>
                                  /\ asked.prefix = "plain"

\* Calls on the store overlap with a run of a skill that does nothing; beside
\* another run one call saves a skill.
Skill == /\ SK!Next
         /\ part = "store" => run'.art \in {Absent, Fetch}
         /\ part = "run" => calls' <= 1

MCNext == /\ \/ part = "turn" /\ Next /\ UNCHANGED <<learning, skills, commands, modelCall>>
             \/ part = "routes" /\ LR!Next /\ UNCHANGED <<vars, skills, commands, modelCall>>
             \/ part \in {"store", "run"} /\ Skill
                   /\ UNCHANGED <<vars, learning, commands, modelCall>>
             \/ part = "sandbox" /\ SB!Next /\ UNCHANGED <<vars, learning, skills, modelCall>>
             \/ part = "model" /\ MD!Next /\ UNCHANGED <<vars, learning, skills, commands>>
          /\ UNCHANGED part

\* A turn runs on: every model call returns, with an answer or an error.
MCSpec == MCInit /\ [][MCNext]_mcvars /\ WF_mcvars(part = "turn" /\ MCNext)

-----------------------------------------------------------------------------
\* The turn implements AgentTurn: it ends, each model call uses up its budget,
\* it does not fail once a worker has answered, and no tool call runs more
\* often than there are loops (the "safety limit" of call_with_tools).
TurnKeepsPromises == /\ Turn!Init
                     /\ [][Turn!Next]_mcvars
                     /\ <>(part = "turn" => ~Turn!Running)
=============================================================================
