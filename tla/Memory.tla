------------------------------- MODULE Memory -------------------------------
(***************************************************************************)
(* The episodic and the semantic tier of crates/ngenorca-memory, with the  *)
(* three activities that share them:                                       *)
(*                                                                         *)
(*   - requests store an episode once the orchestrator has answered;       *)
(*   - the consolidation task of gateway/src/lib.rs scans each user's      *)
(*     recent episodes, stores the facts it finds, and prunes episodes;    *)
(*   - DELETE /api/v1/users/{id}/data removes what is stored of a user.    *)
(*                                                                         *)
(* Each tier is a SQLite connection behind a mutex, and a method is one    *)
(* statement under that mutex, or, for EpisodicMemory::prune, a count and  *)
(* a delete under it in turn: each of those is one step.                   *)
(*                                                                         *)
(* Abstractions: an episode states at most one fact; a fact's text is an   *)
(* element of Facts.  All facts have the confidence 0.5 the extraction     *)
(* gives them, since update_confidence has no caller, so that the pruning  *)
(* of facts below 0.1 never finds one and is left out, and facts are       *)
(* retrieved in the order of their age.  A tick of the clock is one        *)
(* consolidation interval, in which a cycle finishes.                      *)
(***************************************************************************)
EXTENDS Integers, FiniteSets

CONSTANTS Users, Handlers, Deleters,
          None,        \* Option::None
          Facts,       \* what users say that the patterns extract
          Nothing,     \* an episode the patterns extract nothing from
          Splits,      \* episodes that panic the extraction: see Panic
          Window,      \* consolidate_for_user's window, in ticks
          Scan,        \* LIMIT of get_recent
          Keep,        \* memory.episodic_max_entries
          Budget,      \* how many facts retrieve_for_user's budget holds
          MaxEpisodes, \* bound: episodes stored
          MaxFacts,    \* bound: facts stored
          MaxTime,     \* bound: the clock stops there, the cycles go on
          MaxFails     \* bound: statements that fail, and crashes

ASSUME MemoryAssumption ==
    /\ Nothing \notin Facts \cup Splits /\ Facts \cap Splits = {}
    /\ None \notin Users
    /\ {Window, Scan, Budget} \subseteq Nat \ {0}
    /\ {Keep, MaxEpisodes, MaxFacts, MaxTime, MaxFails} \subseteq Nat

VARIABLES now, due,       \* the clock; whether interval.tick() has fired
          episodes,       \* the episodic_entries table
          facts,          \* the semantic_facts table
          nextEpisode, nextFact,  \* their AUTOINCREMENT keys
          turn,           \* per handler: the entry it is about to store
          job,            \* the consolidation task
          deletion,       \* per deleter: the user, once his episodes are gone
          erasing,        \* per deleter: the episodes it has deleted
          erased,         \* history: episodes of deletions that returned Ok,
          carried,        \* and those of them that a cycle had in hand
          fails

vars == <<now, due, episodes, facts, nextEpisode, nextFact, turn, job,
          deletion, erasing, erased, carried, fails>>

Texts   == Facts \cup Splits \cup {Nothing}
Ids     == 1..MaxEpisodes
Entry   == [user: Users, time: 0..MaxTime, fact: Texts]
Episode == [id: Ids, user: Users, time: 0..MaxTime, fact: Texts]
Fact    == [id: 1..MaxFacts, user: Users, fact: Facts, source: Ids]

NoEntry == [user |-> None]

(* The consolidation task: the users still to do, the one in hand, the      *)
(* entries still to look at, known_facts, and how many episodes to remove.  *)
IdleJob == [step |-> "idle", users |-> {}, user |-> None, entries |-> {},
            known |-> {}, over |-> 0]

Init == /\ now = 0 /\ due = FALSE
        /\ episodes = {} /\ facts = {}
        /\ nextEpisode = 1 /\ nextFact = 1
        /\ turn = [h \in Handlers |-> NoEntry]
        /\ job = IdleJob
        /\ deletion = [d \in Deleters |-> None]
        /\ erasing = [d \in Deleters |-> {}]
        /\ erased = {} /\ carried = {}
        /\ fails = 0

EpisodesOf(u) == {e \in episodes : e.user = u}
FactsOf(u)    == {f \in facts : f.user = u}
TextsOf(u)    == {f.fact : f \in FactsOf(u)}

Clock  == <<now, due>>
Tables == <<episodes, facts, nextEpisode, nextFact>>
Calls  == <<turn, deletion, erasing, erased, carried>>

-----------------------------------------------------------------------------
(* Requests.                                                               *)

\* The orchestrator has answered: the entry gets its timestamp.
Answer(h, u, f) ==
    /\ turn[h] = NoEntry
    /\ nextEpisode + Cardinality({g \in Handlers : turn[g] # NoEntry})
         <= MaxEpisodes
    /\ turn' = [turn EXCEPT ![h] = [user |-> u, time |-> now, fact |-> f]]
    /\ UNCHANGED <<Clock, Tables, job, deletion, erasing, erased, carried, fails>>

StoreEpisode(h) ==
    LET e == turn[h] IN
    /\ e # NoEntry
    /\ episodes' = episodes \cup {[id |-> nextEpisode, user |-> e.user,
                                   time |-> e.time, fact |-> e.fact]}
    /\ nextEpisode' = nextEpisode + 1
    /\ turn' = [turn EXCEPT ![h] = NoEntry]
    /\ UNCHANGED <<Clock, facts, nextFact, job, deletion, erasing, erased,
                   carried, fails>>

\* The insert fails: a warning is logged and the reply goes out all the same.
StoreEpisodeFails(h) ==
    /\ turn[h] # NoEntry /\ fails < MaxFails
    /\ fails' = fails + 1
    /\ turn' = [turn EXCEPT ![h] = NoEntry]
    /\ UNCHANGED <<Clock, Tables, job, deletion, erasing, erased, carried>>

-----------------------------------------------------------------------------
(* Consolidation.                                                          *)

\* The order of two rows: by timestamp, then by key.
Older(e, g) == e.time < g.time \/ (e.time = g.time /\ e.id < g.id)

\* The first n of a set of episodes, oldest first.
Oldest(S, n) == {e \in S : Cardinality({g \in S : Older(g, e)}) < n}

\* Mutant: a window of one interval.
RecentInterval(u) == Oldest({e \in EpisodesOf(u) : e.time > now - 1}, Scan)

\* get_recent: the oldest Scan episodes of the window.
Recent(u) == Oldest({e \in EpisodesOf(u) : e.time > now - Window}, Scan)

\* retrieve_for_user within the budget: the youngest facts.
Retrieved(u) ==
    {f \in FactsOf(u) :
       Cardinality({g \in FactsOf(u) : g.id > f.id}) < Budget}

NextUser(j) == [IdleJob EXCEPT !.step = IF j.users = {} THEN "idle" ELSE "fetch",
                               !.users = j.users]

JobBegin ==
    /\ due /\ job.step = "idle"
    /\ due' = FALSE
    /\ job' = NextUser([users |-> {e.user : e \in episodes}])
    /\ UNCHANGED <<now, Tables, Calls, fails>>

\* A user without recent episodes is done: nothing is pruned either.
Fetch(u) ==
    /\ job.step = "fetch" /\ u \in job.users
    /\ LET rest == [job EXCEPT !.users = @ \ {u}] IN
       job' = IF Recent(u) = {} THEN NextUser(rest)
              ELSE [rest EXCEPT !.step = "known", !.user = u,
                                !.entries = Recent(u)]
    /\ UNCHANGED <<Clock, Tables, Calls, fails>>

Known ==
    /\ job.step = "known"
    /\ job' = [job EXCEPT !.step = "learn",
                          !.known = {f.fact : f \in Retrieved(job.user)}]
    /\ UNCHANGED <<Clock, Tables, Calls, fails>>

\* The loop has come to entry e; the oldest is the first.
Reaches(e) == /\ job.step = "learn" /\ e \in job.entries
              /\ \A g \in job.entries : g = e \/ Older(e, g)

\* It states a fact that is not known.
IsNews(e) == e.fact \in Facts \ job.known

\* Mutant: known_facts is not kept up to date.
LearnAgain(e) ==
    /\ Reaches(e) /\ IsNews(e) /\ nextFact <= MaxFacts
    /\ facts' = facts \cup {[id |-> nextFact, user |-> job.user,
                             fact |-> e.fact, source |-> e.id]}
    /\ nextFact' = nextFact + 1
    /\ job' = [job EXCEPT !.entries = @ \ {e}]
    /\ UNCHANGED <<Clock, episodes, nextEpisode, Calls, fails>>

Learn(e) ==
    /\ Reaches(e) /\ IsNews(e) /\ nextFact <= MaxFacts
    /\ facts' = facts \cup {[id |-> nextFact, user |-> job.user,
                             fact |-> e.fact, source |-> e.id]}
    /\ nextFact' = nextFact + 1
    /\ job' = [job EXCEPT !.entries = @ \ {e}, !.known = @ \cup {e.fact}]
    /\ UNCHANGED <<Clock, episodes, nextEpisode, Calls, fails>>

LearnFails(e) ==
    /\ Reaches(e) /\ IsNews(e) /\ fails < MaxFails
    /\ fails' = fails + 1
    /\ job' = [job EXCEPT !.entries = @ \ {e}]
    /\ UNCHANGED <<Clock, Tables, Calls>>

Skip(e) ==
    /\ Reaches(e) /\ ~IsNews(e) /\ e.fact \notin Splits
    /\ job' = [job EXCEPT !.entries = @ \ {e}]
    /\ UNCHANGED <<Clock, Tables, Calls, fails>>

\* The extraction cuts what follows a pattern at byte 120, and indexes the
\* text by an offset of its lower case: either may fall inside a character.
\* The slice panics, and with it the task ends until the process restarts.
Panic(e) ==
    /\ Reaches(e) /\ e.fact \in Splits
    /\ job' = [IdleJob EXCEPT !.step = "dead"]
    /\ UNCHANGED <<Clock, Tables, Calls, fails>>

\* Mutant: the number of excess episodes is not checked.
CountUnchecked ==
    /\ job.step = "learn" /\ job.entries = {}
    /\ job' = [job EXCEPT !.step = "prune", !.known = {},
                          !.over = Cardinality(EpisodesOf(job.user)) - Keep]
    /\ UNCHANGED <<Clock, Tables, Calls, fails>>

\* EpisodicMemory::prune, first statement.
Count ==
    LET n == Cardinality(EpisodesOf(job.user)) IN
    /\ job.step = "learn" /\ job.entries = {}
    /\ job' = IF n <= Keep THEN NextUser(job)
              ELSE [job EXCEPT !.step = "prune", !.known = {}, !.over = n - Keep]
    /\ UNCHANGED <<Clock, Tables, Calls, fails>>

\* Mutant: the rows with the lowest keys go.
PruneByKey ==
    LET S == EpisodesOf(job.user) IN
    /\ job.step = "prune"
    /\ episodes' = episodes \
         {e \in S : Cardinality({g \in S : g.id < e.id}) < job.over}
    /\ job' = NextUser(job)
    /\ UNCHANGED <<Clock, facts, nextEpisode, nextFact, Calls, fails>>

\* EpisodicMemory::prune, second statement.
Prune ==
    /\ job.step = "prune"
    /\ episodes' = episodes \ Oldest(EpisodesOf(job.user), job.over)
    /\ job' = NextUser(job)
    /\ UNCHANGED <<Clock, facts, nextEpisode, nextFact, Calls, fails>>

\* A query fails: the user is left for the next cycle.
JobFails ==
    /\ \/ job.step \in {"fetch", "known", "prune"}
       \/ job.step = "learn" /\ job.entries = {}
    /\ fails < MaxFails
    /\ fails' = fails + 1
    /\ \E u \in IF job.step = "fetch" THEN job.users ELSE {None} :
         job' = NextUser([job EXCEPT !.users = @ \ {u}])
    /\ UNCHANGED <<Clock, Tables, Calls>>

-----------------------------------------------------------------------------
(* delete_user_data.                                                       *)

DeleteEpisodes(d, u) ==
    /\ deletion[d] = None
    /\ deletion' = [deletion EXCEPT ![d] = u]
    /\ erasing' = [erasing EXCEPT ![d] = {e.id : e \in EpisodesOf(u)}]
    /\ episodes' = episodes \ EpisodesOf(u)
    /\ UNCHANGED <<Clock, facts, nextEpisode, nextFact, turn, job, erased, carried,
                   fails>>

\* The episodes that the cycle has fetched and not yet learnt from.
InHand == {e.id : e \in job.entries}

DeleteFacts(d) ==
    /\ deletion[d] # None
    /\ facts' = facts \ FactsOf(deletion[d])
    /\ erased' = erased \cup erasing[d]
    /\ carried' = carried \cup (erasing[d] \cap InHand)
    /\ deletion' = [deletion EXCEPT ![d] = None]
    /\ erasing' = [erasing EXCEPT ![d] = {}]
    /\ UNCHANGED <<Clock, episodes, nextEpisode, nextFact, turn, job, fails>>

\* The second statement fails, and with it the call.
DeleteFactsFails(d) ==
    /\ deletion[d] # None /\ fails < MaxFails
    /\ fails' = fails + 1
    /\ deletion' = [deletion EXCEPT ![d] = None]
    /\ erasing' = [erasing EXCEPT ![d] = {}]
    /\ UNCHANGED <<Clock, Tables, turn, job, erased, carried>>

-----------------------------------------------------------------------------
\* The next consolidation interval, once the cycle of this one is over.  No
\* insert takes longer than an interval.
Tick == /\ \/ ~due /\ job.step = "idle"
           \/ job.step = "dead"
        /\ \A h \in Handlers : turn[h] # NoEntry => turn[h].time = now
        /\ now' = IF now < MaxTime THEN now + 1 ELSE now
        /\ due' = TRUE
        /\ UNCHANGED <<Tables, job, Calls, fails>>

\* The process restarts: the databases are left, and the first tick of the
\* new process is skipped.
Crash ==
    /\ fails < MaxFails
    /\ fails' = fails + 1
    /\ due' = FALSE
    /\ job' = IdleJob
    /\ turn' = [h \in Handlers |-> NoEntry]
    /\ deletion' = [d \in Deleters |-> None]
    /\ erasing' = [d \in Deleters |-> {}]
    /\ UNCHANGED <<now, Tables, erased, carried>>

Consolidate == \/ JobBegin \/ Known \/ Count \/ Prune
               \/ \E u \in Users : Fetch(u)
               \/ \E e \in job.entries : Learn(e) \/ Skip(e) \/ Panic(e)

Next == \/ \E h \in Handlers :
             \/ \E u \in Users, f \in Texts : Answer(h, u, f)
             \/ StoreEpisode(h) \/ StoreEpisodeFails(h)
        \/ Consolidate \/ JobFails \/ \E e \in job.entries : LearnFails(e)
        \/ \E d \in Deleters : \/ \E u \in Users : DeleteEpisodes(d, u)
                               \/ DeleteFacts(d) \/ DeleteFactsFails(d)
        \/ Tick \/ Crash

Spec == Init /\ [][Next]_vars

\* The interval fires, and the tasks that can run do.
FairSpec == Spec /\ WF_vars(Consolidate) /\ WF_vars(Tick)
                 /\ \A h \in Handlers : WF_vars(StoreEpisode(h))
-----------------------------------------------------------------------------
(* Properties.                                                             *)

\* Every variable keeps its type; the number of rows to remove is a usize.
TypeOK ==
    /\ now \in 0..MaxTime /\ due \in BOOLEAN
    /\ episodes \subseteq Episode /\ facts \subseteq Fact
    /\ nextEpisode \in 1..(MaxEpisodes + 1) /\ nextFact \in 1..(MaxFacts + 1)
    /\ turn \in [Handlers -> Entry \cup {NoEntry}]
    /\ job \in [step: {"idle", "fetch", "known", "learn", "prune", "dead"},
               users: SUBSET Users, user: Users \cup {None},
               entries: SUBSET Episode, known: SUBSET Facts, over: Nat]
    /\ deletion \in [Deleters -> Users \cup {None}]
    /\ erasing \in [Deleters -> SUBSET Ids]
    /\ erased \subseteq Ids /\ carried \subseteq Ids
    /\ fails \in 0..MaxFails

\* "Background consolidation merges, deduplicates, and prunes"
\* (memory/src/lib.rs:15): a user never has the same fact twice.
NoDuplicateFacts ==
    \A f, g \in facts : f.user = g.user /\ f.fact = g.fact => f = g

\* What holds instead, although the same episodes are scanned in every cycle of
\* the window: a fact is stored twice only of a user with more different facts
\* than are retrieved as the known ones.
DuplicatesExceedBudget ==
    \A f, g \in facts : f.user = g.user /\ f.fact = g.fact /\ f # g
                          => Cardinality(TextsOf(f.user)) > Budget

\* Episodes of u that are removed are the oldest, and Keep are left.
KeepsNewest(u, gone) ==
    LET left == EpisodesOf(u) \ gone IN
    gone # {} => /\ gone \subseteq EpisodesOf(u)
                 /\ Cardinality(left) >= Keep
                 /\ \A e \in gone, g \in left : Older(e, g)

\* "Prunes excess episodic entries to `max_episodes`" (memory/src/lib.rs:144):
\* what a cycle removes is older than what it leaves, and it leaves Keep.
PruneKeepsNewest ==
    job.step = "prune" /\ job' # job =>
        KeepsNewest(job.user, episodes \ episodes')

\* "Delete **all** data for a user across all memory tiers"
\* (memory/src/lib.rs:348): once a deletion has returned, no fact is left, or
\* appears, that was learnt from an episode it has deleted.
ErasedStaysErased == \A f \in facts : f.source \notin erased

\* What holds instead: such a fact comes from a cycle that had fetched the
\* episode before the deletion and not yet come to it when it returned.
ErasedButCarried == \A f \in facts : f.source \in erased => f.source \in carried

\* What the table of facts may hold, whatever cycles, deletions, failures and
\* restarts interleave.
FactsAreSound == DuplicatesExceedBudget /\ ErasedButCarried

Stored(i, u, f) == \E e \in EpisodesOf(u) : e.id = i /\ e.fact = f
Learnt(u, f)    == \E k \in facts : k.user = u /\ k.fact = f

\* The episode has made room: max_episodes others are left.
Displaced(i, u) == /\ \A e \in EpisodesOf(u) : e.id # i
                   /\ Cardinality(EpisodesOf(u)) >= Keep

\* The LIMIT of the scan is used up by older episodes that leave the window no
\* more than MaxFails cycles before this one, or not before the clock stops.
Crowded(i, u) ==
    \E e \in EpisodesOf(u) :
       LET ahead == {g \in EpisodesOf(u) :
                       /\ Older(g, e)
                       /\ e.time - g.time <= MaxFails \/ e.time + Window > MaxTime}
       IN  e.id = i /\ Cardinality(ahead) >= Scan

\* "Fetches recent episodic entries (last `window` duration)"
\* (memory/src/lib.rs:141): what a stored episode states becomes a fact,
\* whatever single statement or process fails, as long as nobody deletes data,
\* or the episode makes room for newer ones.  One beyond the LIMIT is learnt
\* from once older ones have left the window, unless as many are of its age.
Learned ==
    \A i \in Ids, u \in Users, f \in Facts :
        []~Crowded(i, u) => (Stored(i, u, f) ~> Learnt(u, f) \/ Displaced(i, u))

\* The same of runs in which no text panics the consolidation task.
LearnedUnlessPanicked == [](job.step # "dead") => Learned
=============================================================================
