---------------------------- MODULE MemoryProofs ----------------------------
(***************************************************************************)
(* What the tables of episodes and facts may hold, for any number of       *)
(* users, requests, deletions, cycles, failures and restarts: a fact is    *)
(* twice in the table only of a user with more different facts than the    *)
(* consolidation retrieves; what a finished deletion took away comes back  *)
(* only if a cycle had it in hand; and, while nobody deletes, a prune      *)
(* takes the oldest episodes and leaves as many as it should.  What        *)
(* working memory may hold, for any number of sessions and turns: the      *)
(* total of a session is that of its messages, and turns that do not       *)
(* overlap leave a dialogue.                                               *)
(***************************************************************************)
EXTENDS MCMemory, Sequences, FiniteSetTheorems, FunctionTheorems, WellFoundedInduction, TLAPS

\* The types the argument needs.
TypeInv == /\ episodes \subseteq [id : Nat, user : Users, time : Nat, fact : Texts]
           /\ IsFiniteSet(episodes)
           /\ facts \subseteq [id : Nat, user : Users, fact : Facts, source : Nat]
           /\ IsFiniteSet(facts)
           /\ now \in Nat /\ nextEpisode \in Nat /\ nextFact \in Nat
           /\ turn \in [Handlers -> [user : Users, time : Nat, fact : Texts]
                                       \cup {NoEntry}]
           /\ job \in [step : {"idle", "fetch", "known", "learn", "prune", "dead"},
                       users : SUBSET Users, user : Users \cup {None},
                       entries : SUBSET [id : Nat, user : Users, time : Nat, fact : Texts],
                       known : SUBSET Facts, over : Int]
           /\ deletion \in [Deleters -> Users \cup {None}]
           /\ erasing \in [Deleters -> SUBSET Nat]
           /\ erased \subseteq Nat

\* The user has more different facts than are retrieved.
Exceeds(u) == Cardinality(TextsOf(u)) > Budget

\* The cycle knows all the facts of its user, unless they are too many.
KnownInv == /\ job.step \in {"known", "learn"} => job.user \in Users
            /\ job.step = "learn" => \/ TextsOf(job.user) \subseteq job.known
                                    \/ Exceeds(job.user)

\* The keys of the table of facts are handed out once.
KeysInv == /\ \A f \in facts : f.id < nextFact
           /\ \A f, g \in facts : f.id = g.id => f = g

\* Who the episode with a key was a user's: its row, a fact, an entry and a
\* deletion tell.
Claims == {<<e.id, e.user>> : e \in episodes}
            \cup {<<f.source, f.user>> : f \in facts}
            \cup {<<e.id, e.user>> : e \in job.entries}
            \cup UNION {{<<i, deletion[d]>> : i \in erasing[d]} : d \in Deleters}

\* They never disagree, and the keys of younger episodes are free.
OwnersInv == /\ \A c, b \in Claims : c[1] = b[1] => c[2] = b[2]
             /\ \A c \in Claims : c[1] < nextEpisode
             /\ \A i \in erased : i < nextEpisode

\* What a deletion has deleted is not in the table, and what a finished one
\* has deleted is in the hands of the cycle only if it was then.
GoneInv == /\ \A d \in Deleters, e \in episodes : e.id \notin erasing[d]
           /\ \A e \in episodes : e.id \notin erased
           /\ \A e \in job.entries : e.id \in erased => e.id \in carried
           /\ \A d \in Deleters : deletion[d] = None => erasing[d] = {}

EntriesInv == \A e \in job.entries : e.user = job.user

IInv == /\ TypeInv /\ KnownInv /\ KeysInv /\ OwnersInv /\ GoneInv /\ EntriesInv
        /\ FactsAreSound

-----------------------------------------------------------------------------
LEMMA InitInv == Init => IInv
  <1>. SUFFICES ASSUME Init PROVE IInv
    OBVIOUS
  <1>1. TypeInv /\ KnownInv /\ KeysInv /\ EntriesInv
    BY FS_EmptySet DEF Init, IdleJob, TypeInv, KnownInv, KeysInv, EntriesInv
  <1>2. Claims = {}
    BY DEF Init, IdleJob, Claims
  <1>3. OwnersInv /\ GoneInv
    BY <1>2 DEF Init, IdleJob, OwnersInv, GoneInv
  <1>4. FactsAreSound
    BY DEF Init, FactsAreSound, DuplicatesExceedBudget, ErasedButCarried
  <1>. QED  BY <1>1, <1>3, <1>4 DEF IInv

\* The facts of a user and their texts are finitely many.
LEMMA FactsFinite ==
    ASSUME IInv, NEW u
    PROVE  /\ IsFiniteSet(FactsOf(u)) /\ IsFiniteSet(TextsOf(u))
           /\ Cardinality(FactsOf(u)) \in Nat /\ Cardinality(TextsOf(u)) \in Nat
  <1>. DEFINE m == [f \in FactsOf(u) |-> f.fact]
  <1>1. IsFiniteSet(FactsOf(u))
    BY FS_Subset DEF IInv, TypeInv, FactsOf
  <1>2. m \in Surjection(FactsOf(u), TextsOf(u))
    BY DEF Surjection, TextsOf
  <1>3. IsFiniteSet(TextsOf(u))
    BY <1>1, <1>2, FS_Surjection
  <1>. QED  BY <1>1, <1>3, FS_CardinalityType

\* Who has no more facts than are retrieved has all of them retrieved; and who
\* has more has as many different ones, since none is twice in the table yet.
LEMMA RetrievedOrExceeds ==
    ASSUME IInv, NEW u \in Users
    PROVE  Retrieved(u) = FactsOf(u) \/ Exceeds(u)
  <1>1. IsFiniteSet(FactsOf(u)) /\ Cardinality(FactsOf(u)) \in Nat /\ Budget \in Nat
        /\ IsFiniteSet(TextsOf(u)) /\ Cardinality(TextsOf(u)) \in Nat
    BY FactsFinite, MemoryAssumption
  <1>2. CASE Cardinality(FactsOf(u)) <= Budget
    <2>. SUFFICES ASSUME NEW f \in FactsOf(u)
                  PROVE  Cardinality({g \in FactsOf(u) : g.id > f.id}) < Budget
      BY DEF Retrieved
    <2>. DEFINE G == {g \in FactsOf(u) : g.id > f.id}
    <2>1. f \notin G
      BY DEF IInv, TypeInv, FactsOf
    <2>2. G \subseteq FactsOf(u) /\ G # FactsOf(u)
      BY <2>1
    <2>3. IsFiniteSet(G) /\ Cardinality(G) <= Cardinality(FactsOf(u))
          /\ Cardinality(G) # Cardinality(FactsOf(u))
      BY <1>1, <2>2, FS_Subset
    <2>. QED  BY <1>1, <1>2, <2>3, FS_CardinalityType
  <1>3. CASE Cardinality(FactsOf(u)) > Budget
    <2>. DEFINE m == [f \in FactsOf(u) |-> f.fact]
    <2>1. CASE \E f, g \in FactsOf(u) : f.fact = g.fact /\ f # g
      BY <2>1 DEF IInv, FactsAreSound, DuplicatesExceedBudget, FactsOf, Exceeds
    <2>2. CASE \A f, g \in FactsOf(u) : f.fact = g.fact => f = g
      <3>1. m \in Injection(FactsOf(u), TextsOf(u))
        BY <2>2 DEF Injection, IsInjective, TextsOf
      <3>2. Cardinality(FactsOf(u)) <= Cardinality(TextsOf(u))
        BY <1>1, <3>1, FS_Injection
      <3>. QED  BY <1>1, <1>3, <3>2 DEF Exceeds
    <2>. QED  BY <2>1, <2>2
  <1>. QED  BY <1>1, <1>2, <1>3

\* What is said of the table of facts holds as long as nothing changes there.
LEMMA FactsKept ==
    ASSUME IInv, UNCHANGED <<facts, erased, carried>>
    PROVE  /\ FactsAreSound'
           /\ \A u : TextsOf(u)' = TextsOf(u) /\ (Exceeds(u)' <=> Exceeds(u))
  <1>1. ASSUME NEW u PROVE TextsOf(u)' = TextsOf(u)
    BY DEF TextsOf, FactsOf
  <1>. QED  BY <1>1 DEF IInv, FactsAreSound, DuplicatesExceedBudget, ErasedButCarried, Exceeds

-----------------------------------------------------------------------------
\* A claim is on a key.
LEMMA ClaimType == ASSUME IInv, NEW c \in Claims PROVE c[1] \in Nat /\ c[1] < nextEpisode
  BY DEF IInv, TypeInv, OwnersInv, Claims

\* Fewer claims on the keys do no harm.
LEMMA FewerClaims ==
    ASSUME IInv, Claims' \subseteq Claims, nextEpisode' = nextEpisode,
           \A i \in erased' \ erased : \E c \in Claims : c[1] = i
    PROVE  OwnersInv'
  BY DEF IInv, OwnersInv

\* A step that leaves the tables and the deletions alone, and takes no entry
\* in hand, keeps what is said of them.
LEMMA TablesKept ==
    ASSUME IInv, UNCHANGED <<Tables, deletion, erasing, erased, carried>>,
           job'.entries \subseteq job.entries,
           job'.entries = {} \/ job'.user = job.user
    PROVE  (KeysInv /\ OwnersInv /\ GoneInv /\ EntriesInv /\ FactsAreSound)'
  <1>. USE DEF Tables
  <1>1. KeysInv' /\ GoneInv' /\ EntriesInv'
    BY DEF IInv, KeysInv, GoneInv, EntriesInv
  <1>2. Claims' \subseteq Claims
    BY DEF Claims
  <1>3. OwnersInv'
    BY <1>2, FewerClaims
  <1>4. FactsAreSound'
    BY FactsKept
  <1>. QED  BY <1>1, <1>3, <1>4

\* The job between two users.
LEMMA NextUserIs ==
    ASSUME NEW j
    PROVE  /\ NextUser(j).step \in {"idle", "fetch"} /\ NextUser(j).users = j.users
           /\ NextUser(j).user = None /\ NextUser(j).entries = {}
           /\ NextUser(j).known = {} /\ NextUser(j).over = 0
           /\ NextUser(j) = [step |-> NextUser(j).step, users |-> j.users, user |-> None,
                             entries |-> {}, known |-> {}, over |-> 0]
  <1>. DEFINE step == IF j.users = {} THEN "idle" ELSE "fetch"
  <1>1. NextUser(j) = [step |-> step, users |-> j.users, user |-> None,
                       entries |-> {}, known |-> {}, over |-> 0]
    <2>. DEFINE u == j.users
    <2>1. NextUser(j) = [IdleJob EXCEPT !.step = step, !.users = u]
      BY DEF NextUser
    <2>. HIDE DEF step, u
    <2>2. NextUser(j) = [step |-> step, users |-> u, user |-> None,
                         entries |-> {}, known |-> {}, over |-> 0]
      BY <2>1 DEF IdleJob
    <2>. QED  BY <2>2 DEF u
  <1>2. step \in {"idle", "fetch"}
    OBVIOUS
  <1>3. NextUser(j).step = step
    BY <1>1
  <1>. QED  BY <1>1, <1>2, <1>3

\* Requests and the clock.
LEMMA RequestInv ==
    ASSUME IInv, NEW h \in Handlers,
           (\E u \in Users, f \in Texts : Answer(h, u, f)) \/ StoreEpisodeFails(h)
    PROVE  IInv'
  <1>1. UNCHANGED <<Clock, Tables, job, deletion, erasing, erased, carried>>
    BY DEF Answer, StoreEpisodeFails
  <1>2. turn' \in [Handlers -> [user : Users, time : Nat, fact : Texts] \cup {NoEntry}]
    <2>1. CASE StoreEpisodeFails(h)
      BY <2>1 DEF IInv, TypeInv, StoreEpisodeFails
    <2>2. CASE \E u \in Users, f \in Texts : Answer(h, u, f)
      <3>1. PICK u \in Users, f \in Texts : Answer(h, u, f)
        BY <2>2
      <3>2. turn' = [turn EXCEPT ![h] = [user |-> u, time |-> now, fact |-> f]]
        BY <3>1 DEF Answer
      <3>. QED  BY <3>2 DEF IInv, TypeInv
    <2>. QED  BY <2>1, <2>2
  <1>3. TypeInv'
    BY <1>1, <1>2 DEF IInv, TypeInv, Clock, Tables
  <1>4. KnownInv'
    BY <1>1, FactsKept DEF IInv, KnownInv, Tables
  <1>. QED  BY <1>1, <1>3, <1>4, TablesKept DEF IInv

LEMMA StoreInv == ASSUME IInv, NEW h \in Handlers, StoreEpisode(h) PROVE IInv'
  <1>. DEFINE row == [id |-> nextEpisode, user |-> turn[h].user, time |-> turn[h].time,
                      fact |-> turn[h].fact]
              claim == <<nextEpisode, turn[h].user>>
  <1>1. /\ episodes' = episodes \cup {row} /\ nextEpisode' = nextEpisode + 1
        /\ turn' = [turn EXCEPT ![h] = NoEntry]
        /\ UNCHANGED <<Clock, facts, nextFact, job, deletion, erasing, erased, carried>>
    BY DEF StoreEpisode
  <1>2. turn[h] \in [user : Users, time : Nat, fact : Texts]
    BY DEF IInv, TypeInv, StoreEpisode
  <1>3. TypeInv'
    <2>1. IsFiniteSet(episodes')
      <3>1. IsFiniteSet(episodes)
        BY DEF IInv, TypeInv
      <3>. HIDE DEF row
      <3>. QED  BY <1>1, <3>1, FS_AddElement
    <2>2. row \in [id : Nat, user : Users, time : Nat, fact : Texts]
      BY <1>2 DEF IInv, TypeInv
    <2>3. episodes' \subseteq [id : Nat, user : Users, time : Nat, fact : Texts]
      BY <1>1, <2>2 DEF IInv, TypeInv
    <2>. HIDE DEF row
    <2>. QED  BY <1>1, <2>1, <2>3 DEF IInv, TypeInv, Clock
  <1>4. KnownInv' /\ KeysInv' /\ EntriesInv' /\ FactsAreSound'
    BY <1>1, FactsKept DEF IInv, KnownInv, KeysInv, EntriesInv
  <1>5. \A c \in Claims' : c \in Claims \/ c = claim
    <2>. SUFFICES ASSUME NEW c \in Claims' PROVE c \in Claims \/ c = claim
      OBVIOUS
    <2>1. CASE c \in {<<e.id, e.user>> : e \in episodes'}
      BY <1>1, <2>1 DEF Claims
    <2>2. CASE c \notin {<<e.id, e.user>> : e \in episodes'}
      BY <1>1, <2>2 DEF Claims
    <2>. QED  BY <2>1, <2>2
  <1>6. OwnersInv'
    <2>1. nextEpisode \in Nat
      BY DEF IInv, TypeInv
    <2>2. \A c \in Claims : c[1] \in Nat /\ c[1] < nextEpisode
      BY ClaimType
    <2>3. \A c, b \in Claims' : c[1] = b[1] => c[2] = b[2]
      BY <1>5, <2>1, <2>2 DEF IInv, OwnersInv
    <2>4. \A c \in Claims' : c[1] < nextEpisode'
      BY <1>1, <1>5, <2>1, <2>2
    <2>5. \A i \in erased' : i < nextEpisode'
      BY <1>1, <2>1 DEF IInv, TypeInv, OwnersInv
    <2>. QED  BY <2>3, <2>4, <2>5 DEF OwnersInv
  <1>7. \A d \in Deleters : nextEpisode \notin erasing[d]
    <2>. SUFFICES ASSUME NEW d \in Deleters, nextEpisode \in erasing[d] PROVE FALSE
      OBVIOUS
    <2>1. <<nextEpisode, deletion[d]>> \in Claims
      BY DEF Claims
    <2>2. nextEpisode < nextEpisode
      BY <2>1, ClaimType
    <2>. QED  BY <2>2 DEF IInv, TypeInv
  <1>8. nextEpisode \notin erased
    BY DEF IInv, TypeInv, OwnersInv
  <1>9. GoneInv'
    BY <1>1, <1>7, <1>8 DEF IInv, GoneInv
  <1>. QED  BY <1>3, <1>4, <1>6, <1>9 DEF IInv

\* The cycle turns to its next user.
LEMMA NextUserInv ==
    ASSUME IInv, NEW j, j.users \subseteq Users, job' = NextUser(j),
           UNCHANGED <<now, Tables, Calls>>
    PROVE  IInv'
  <1>1. /\ job'.step \in {"idle", "fetch"} /\ job'.entries = {}
        /\ job' \in [step : {"idle", "fetch"}, users : SUBSET Users, user : {None},
                     entries : {{}}, known : {{}}, over : {0}]
    BY NextUserIs
  <1>2. TypeInv'
    BY <1>1 DEF IInv, TypeInv, Tables, Calls
  <1>3. KnownInv'
    BY <1>1 DEF KnownInv
  <1>. QED  BY <1>1, <1>2, <1>3, TablesKept DEF IInv, Calls

LEMMA JobBeginInv == ASSUME IInv, JobBegin PROVE IInv'
  <1>. DEFINE j == [users |-> {e.user : e \in episodes}]
  <1>1. j.users \subseteq Users
    BY DEF IInv, TypeInv
  <1>. QED  BY <1>1, NextUserInv DEF JobBegin

\* The cycle takes only what is in the table in hand.
LEMMA FetchInv == ASSUME IInv, NEW u \in Users, Fetch(u) PROVE IInv'
  <1>. DEFINE rest == [job EXCEPT !.users = @ \ {u}]
  <1>1. rest.users \subseteq Users /\ UNCHANGED <<now, Tables, Calls>>
    BY DEF IInv, TypeInv, Fetch, Clock
  <1>2. CASE Recent(u) = {}
    BY <1>1, <1>2, NextUserInv DEF Fetch
  <1>3. CASE Recent(u) # {}
    <2>1. job' = [rest EXCEPT !.step = "known", !.user = u, !.entries = Recent(u)]
      BY <1>3 DEF Fetch
    <2>2. Recent(u) \subseteq episodes /\ \A e \in Recent(u) : e.user = u
      BY DEF Recent, Oldest, EpisodesOf
    <2>3. /\ job'.step = "known" /\ job'.user = u /\ job'.entries = Recent(u)
          /\ TypeInv'
      BY <1>1, <2>1, <2>2 DEF IInv, TypeInv, Tables, Calls
    <2>4. KnownInv' /\ KeysInv' /\ EntriesInv' /\ FactsAreSound'
      BY <1>1, <2>2, <2>3
        , FactsKept DEF IInv, KnownInv, KeysInv, EntriesInv, Tables, Calls
    <2>5. Claims' \subseteq Claims
      BY <1>1, <2>2, <2>3 DEF Claims, Tables, Calls
    <2>6. OwnersInv'
      BY <1>1, <2>5, FewerClaims DEF Tables, Calls
    <2>7. GoneInv'
      BY <1>1, <2>2, <2>3 DEF IInv, GoneInv, Tables, Calls
    <2>. QED  BY <2>3, <2>4, <2>6, <2>7 DEF IInv
  <1>. QED  BY <1>2, <1>3

\* The cycle knows what is retrieved.
LEMMA KnownStepInv == ASSUME IInv, Known PROVE IInv'
  <1>1. /\ UNCHANGED <<now, Tables, Calls>> /\ job.user \in Users
        /\ job' = [job EXCEPT !.step = "learn",
                              !.known = {f.fact : f \in Retrieved(job.user)}]
    BY DEF IInv, KnownInv, Known, Clock
  <1>2. {f.fact : f \in Retrieved(job.user)} \in SUBSET Facts
    BY DEF IInv, TypeInv, Retrieved, FactsOf
  <1>3. /\ job'.entries = job.entries /\ job'.user = job.user
        /\ job'.known = {f.fact : f \in Retrieved(job.user)}
    BY <1>1, <1>2 DEF IInv, TypeInv
  <1>4. TypeInv'
    BY <1>1, <1>2 DEF IInv, TypeInv, Tables, Calls
  <1>5. TextsOf(job.user) \subseteq job'.known \/ Exceeds(job.user)
    BY <1>1, <1>3, RetrievedOrExceeds DEF TextsOf
  <1>6. KnownInv'
    BY <1>1, <1>3, <1>5, FactsKept DEF KnownInv, Tables, Calls
  <1>. QED  BY <1>1, <1>3, <1>4, <1>6, TablesKept DEF IInv, Calls

\* An entry is done with, and nothing is learnt from it.
LEMMA PassInv ==
    ASSUME IInv, NEW e \in job.entries, LearnFails(e) \/ Skip(e) \/ Panic(e)
    PROVE  IInv'
  <1>1. UNCHANGED <<now, Tables, Calls>>
    BY DEF LearnFails, Skip, Panic, Clock
  <1>2. \/ job' = [job EXCEPT !.entries = @ \ {e}]
        \/ job' = [IdleJob EXCEPT !.step = "dead"]
    BY DEF LearnFails, Skip, Panic
  <1>3. /\ job'.entries \subseteq job.entries
        /\ job'.entries = {} \/ job'.user = job.user
        /\ job'.step = "dead"
             \/ (job'.step = job.step /\ job'.user = job.user /\ job'.known = job.known)
        /\ TypeInv'
    BY <1>1, <1>2 DEF IInv, TypeInv, IdleJob, Tables, Calls
  <1>4. KnownInv'
    BY <1>1, <1>3, FactsKept DEF IInv, KnownInv, Tables, Calls
  <1>. QED  BY <1>1, <1>3, <1>4, TablesKept DEF IInv, Calls

\* The rows to remove are counted.
LEMMA CountInv == ASSUME IInv, Count PROVE IInv'
  <1>. DEFINE n == Cardinality(EpisodesOf(job.user))
  <1>1. UNCHANGED <<now, Tables, Calls>> /\ job.users \subseteq Users
    BY DEF IInv, TypeInv, Count, Clock
  <1>2. CASE job' = NextUser(job)
    BY <1>1, <1>2, NextUserInv
  <1>3. CASE job' = [job EXCEPT !.step = "prune", !.known = {}, !.over = n - Keep]
    <2>1. n - Keep \in Int
      BY FS_Subset, FS_CardinalityType, MemoryAssumption
         DEF IInv, TypeInv, EpisodesOf
    <2>2. /\ job'.step = "prune" /\ job'.entries = job.entries /\ job'.user = job.user
          /\ TypeInv'
      BY <1>1, <1>3, <2>1 DEF IInv, TypeInv, Tables, Calls
    <2>3. KnownInv'
      BY <2>2 DEF KnownInv
    <2>. QED  BY <1>1, <2>2, <2>3, TablesKept DEF IInv, Calls
  <1>. QED  BY <1>2, <1>3 DEF Count

LEMMA JobFailsInv == ASSUME IInv, JobFails PROVE IInv'
  <1>1. PICK u : job' = NextUser([job EXCEPT !.users = @ \ {u}])
    BY DEF JobFails
  <1>2. [job EXCEPT !.users = @ \ {u}].users \subseteq Users
    BY DEF IInv, TypeInv
  <1>3. UNCHANGED <<now, Tables, Calls>>
    BY DEF JobFails, Clock
  <1>. QED  BY <1>1, <1>2, <1>3, NextUserInv

\* A fact that is learnt is not known, and its episode in hand.
LEMMA LearnInv == ASSUME IInv, NEW e \in job.entries, Learn(e) PROVE IInv'
  <1>. DEFINE f == [id |-> nextFact, user |-> job.user, fact |-> e.fact, source |-> e.id]
  <1>1. /\ facts' = facts \cup {f} /\ nextFact' = nextFact + 1
        /\ job' = [job EXCEPT !.entries = @ \ {e}, !.known = @ \cup {e.fact}]
        /\ UNCHANGED <<now, episodes, nextEpisode, Calls>>
    BY DEF Learn, Clock
  <1>2. /\ job.step = "learn" /\ job.user \in Users /\ e.user = job.user
        /\ e.fact \in Facts \ job.known /\ e.id \in Nat
    BY DEF IInv, TypeInv, KnownInv, EntriesInv, Learn, Reaches, IsNews
  <1>3. /\ job'.step = "learn" /\ job'.user = job.user
        /\ job'.entries = job.entries \ {e} /\ job'.known = job.known \cup {e.fact}
        /\ TypeInv'
    <2>1. f \in [id : Nat, user : Users, fact : Facts, source : Nat]
      BY <1>2 DEF IInv, TypeInv
    <2>2. facts' \subseteq [id : Nat, user : Users, fact : Facts, source : Nat]
      BY <1>1, <2>1 DEF IInv, TypeInv
    <2>3. job.known \cup {e.fact} \in SUBSET Facts
      BY <1>2 DEF IInv, TypeInv
    <2>4. /\ job'.step = "learn" /\ job'.user = job.user
          /\ job'.entries = job.entries \ {e} /\ job'.known = job.known \cup {e.fact}
      BY <1>1, <1>2 DEF IInv, TypeInv
    <2>5. job' \in [step : {"learn"}, users : SUBSET Users, user : Users,
                    entries : SUBSET [id : Nat, user : Users, time : Nat, fact : Texts],
                    known : SUBSET Facts, over : Int]
      BY <1>1, <1>2, <2>3 DEF IInv, TypeInv
    <2>. HIDE DEF f
    <2>6. IsFiniteSet(facts')
      BY <1>1, FS_AddElement DEF IInv, TypeInv
    <2>7. TypeInv'
      BY <1>1, <2>2, <2>5, <2>6 DEF IInv, TypeInv, Calls
    <2>. QED  BY <2>4, <2>7
  <1>4. EntriesInv'
    BY <1>1, <1>2, <1>3 DEF IInv, EntriesInv
  <1>5. KeysInv'
    BY <1>1 DEF IInv, TypeInv, KeysInv
  <1>6. Claims' \subseteq Claims
    <2>1. <<f.source, f.user>> \in {<<g.id, g.user>> : g \in job.entries}
      BY <1>2
    <2>. QED  BY <1>1, <1>3, <2>1 DEF Claims, Calls
  <1>7. OwnersInv'
    BY <1>1, <1>6, FewerClaims DEF Calls
  <1>8. GoneInv'
    BY <1>1, <1>3 DEF IInv, GoneInv, Calls
  <1>9. \A u \in Users : TextsOf(u)' = IF u = job.user THEN TextsOf(u) \cup {e.fact}
                                                     ELSE TextsOf(u)
    <2>. SUFFICES ASSUME NEW u \in Users
                  PROVE  TextsOf(u)' = IF u = job.user THEN TextsOf(u) \cup {e.fact}
                                                       ELSE TextsOf(u)
      OBVIOUS
    <2>1. f.user = job.user /\ f.fact = e.fact
      OBVIOUS
    <2>. HIDE DEF f
    <2>2. FactsOf(u)' = IF u = job.user THEN FactsOf(u) \cup {f} ELSE FactsOf(u)
      BY <1>1, <2>1 DEF FactsOf
    <2>. QED  BY <2>1, <2>2 DEF TextsOf
  <1>10. \A u \in Users : Exceeds(u) => Exceeds(u)'
    <2>1. ASSUME NEW u \in Users PROVE Cardinality(TextsOf(u)) <= Cardinality(TextsOf(u)')
                                       /\ Cardinality(TextsOf(u)') \in Nat
      <3>1. IsFiniteSet(TextsOf(u)) /\ IsFiniteSet(TextsOf(u)') /\ TextsOf(u) \subseteq TextsOf(u)'
        <4>1. IsFiniteSet(TextsOf(u)) /\ IsFiniteSet(TextsOf(u) \cup {e.fact})
          BY FactsFinite, FS_AddElement
        <4>2. TextsOf(u)' = TextsOf(u) \/ TextsOf(u)' = TextsOf(u) \cup {e.fact}
          BY <1>9
        <4>. QED  BY <4>1, <4>2
      <3>. QED  BY <3>1, FS_Subset, FS_CardinalityType
    <2>. QED  BY <2>1, FactsFinite, MemoryAssumption DEF Exceeds
  <1>11. KnownInv'
    BY <1>2, <1>3, <1>9, <1>10 DEF IInv, KnownInv
  <1>12. DuplicatesExceedBudget'
    <2>. SUFFICES ASSUME NEW g \in facts', NEW h \in facts', g.user = h.user,
                         g.fact = h.fact, g # h
                  PROVE  Exceeds(g.user)'
      BY DEF DuplicatesExceedBudget, Exceeds
    <2>1. CASE g \in facts /\ h \in facts
      <3>1. Exceeds(g.user) /\ g.user \in Users
        BY <2>1 DEF IInv, TypeInv, FactsAreSound, DuplicatesExceedBudget, Exceeds
      <3>. QED  BY <3>1, <1>10
    <2>2. CASE g = f \/ h = f
      <3>1. g.user = job.user /\ e.fact \in TextsOf(job.user)
        BY <1>1, <2>2 DEF TextsOf, FactsOf
      <3>2. Exceeds(job.user)
        BY <1>2, <3>1 DEF IInv, KnownInv
      <3>. QED  BY <1>2, <1>10, <3>1, <3>2
    <2>. QED  BY <1>1, <2>1, <2>2
  <1>13. ErasedButCarried'
    BY <1>1 DEF IInv, GoneInv, FactsAreSound, ErasedButCarried, Calls
  <1>. QED  BY <1>3, <1>4, <1>5, <1>7, <1>8, <1>11, <1>12, <1>13 DEF IInv, FactsAreSound

-----------------------------------------------------------------------------
\* Rows that go take their claims with them.
LEMMA PruneInv == ASSUME IInv, Prune PROVE IInv'
  <1>1. /\ episodes' \subseteq episodes /\ job' = NextUser(job)
        /\ UNCHANGED <<now, facts, nextEpisode, nextFact, Calls>>
    BY DEF Prune, Clock
  <1>2. /\ job'.step \in {"idle", "fetch"} /\ job'.entries = {}
        /\ job' \in [step : {"idle", "fetch"}, users : SUBSET Users, user : {None},
                     entries : {{}}, known : {{}}, over : {0}]
    BY <1>1, NextUserIs DEF IInv, TypeInv
  <1>3. TypeInv'
    BY <1>1, <1>2, FS_Subset DEF IInv, TypeInv, Calls
  <1>4. KnownInv' /\ KeysInv' /\ EntriesInv' /\ GoneInv' /\ FactsAreSound'
    BY <1>1, <1>2, FactsKept DEF IInv, KnownInv, KeysInv, EntriesInv, GoneInv, Calls
  <1>5. Claims' \subseteq Claims
    BY <1>1, <1>2 DEF Claims, Calls
  <1>6. OwnersInv'
    BY <1>1, <1>5, FewerClaims DEF Calls
  <1>. QED  BY <1>3, <1>4, <1>6 DEF IInv

\* The rows of a user become the deletion's.
LEMMA DeleteEpisodesInv ==
    ASSUME IInv, NEW d \in Deleters, NEW u \in Users, DeleteEpisodes(d, u)
    PROVE  IInv'
  <1>. DEFINE gone == {e.id : e \in EpisodesOf(u)}
  <1>1. /\ deletion' = [deletion EXCEPT ![d] = u] /\ erasing' = [erasing EXCEPT ![d] = gone]
        /\ episodes' = episodes \ EpisodesOf(u)
        /\ UNCHANGED <<now, facts, nextEpisode, nextFact, turn, job, erased, carried>>
    BY DEF DeleteEpisodes, Clock
  <1>2. gone \subseteq Nat
    BY DEF IInv, TypeInv, EpisodesOf
  <1>3. TypeInv'
    BY <1>1, <1>2, FS_Subset DEF IInv, TypeInv
  <1>4. KnownInv' /\ KeysInv' /\ EntriesInv' /\ FactsAreSound'
    BY <1>1, FactsKept DEF IInv, KnownInv, KeysInv, EntriesInv
  <1>5. \A i \in gone : <<i, u>> \in Claims
    BY DEF Claims, EpisodesOf
  <1>6. Claims' \subseteq Claims
    <2>. SUFFICES ASSUME NEW c \in Claims' PROVE c \in Claims
      OBVIOUS
    <2>1. CASE c \in UNION {{<<i, deletion'[b]>> : i \in erasing'[b]} : b \in Deleters}
      <3>1. PICK b \in Deleters, i \in UNION {erasing'[a] : a \in Deleters} :
              i \in erasing'[b] /\ c = <<i, deletion'[b]>>
        BY <2>1
      <3>2. CASE b = d
        BY <1>1, <1>5, <3>1, <3>2 DEF IInv, TypeInv
      <3>3. CASE b # d
        BY <1>1, <3>1, <3>3 DEF IInv, TypeInv, Claims
      <3>. QED  BY <3>2, <3>3
    <2>2. CASE c \notin UNION {{<<i, deletion'[b]>> : i \in erasing'[b]} : b \in Deleters}
      BY <1>1, <2>2 DEF Claims
    <2>. QED  BY <2>1, <2>2
  <1>7. OwnersInv'
    BY <1>1, <1>6, FewerClaims
  <1>8. \A e \in episodes' : e.id \notin gone
    <2>. SUFFICES ASSUME NEW e \in episodes', NEW g \in EpisodesOf(u), e.id = g.id
                  PROVE  FALSE
      OBVIOUS
    <2>1. <<e.id, e.user>> \in Claims /\ <<g.id, u>> \in Claims
      BY <1>1 DEF Claims, EpisodesOf
    <2>2. e.user = u
      BY <2>1 DEF IInv, OwnersInv
    <2>. QED  BY <1>1, <2>2 DEF EpisodesOf
  <1>9. GoneInv'
    BY <1>1, <1>8, MemoryAssumption DEF IInv, TypeInv, GoneInv
  <1>. QED  BY <1>3, <1>4, <1>7, <1>9 DEF IInv

\* Deletions that end, or are cut off by a crash, give up their claims.
LEMMA DeletionEnds ==
    ASSUME IInv, NEW D \in SUBSET Deleters,
           erasing' = [d \in Deleters |-> IF d \in D THEN {} ELSE erasing[d]],
           deletion' = [d \in Deleters |-> IF d \in D THEN None ELSE deletion[d]],
           episodes' = episodes, facts' \subseteq facts, job'.entries \subseteq job.entries
    PROVE  /\ erasing' \in [Deleters -> SUBSET Nat]
           /\ deletion' \in [Deleters -> Users \cup {None}]
           /\ Claims' \subseteq Claims
           /\ \A d \in Deleters : deletion'[d] = None => erasing'[d] = {}
           /\ \A d \in Deleters : erasing'[d] \subseteq erasing[d]
  <1>1. \A d \in Deleters : erasing'[d] = {} \/ (/\ erasing'[d] = erasing[d]
                                                 /\ deletion'[d] = deletion[d])
    OBVIOUS
  <1>2. Claims' \subseteq Claims
    BY <1>1 DEF Claims
  <1>. QED  BY <1>1, <1>2 DEF IInv, TypeInv, GoneInv

\* A deletion that fails has erased nothing for good.
LEMMA DeleteFactsFailsInv ==
    ASSUME IInv, NEW d \in Deleters, DeleteFactsFails(d)
    PROVE  IInv'
  <1>1. /\ erasing' = [b \in Deleters |-> IF b \in {d} THEN {} ELSE erasing[b]]
        /\ deletion' = [b \in Deleters |-> IF b \in {d} THEN None ELSE deletion[b]]
        /\ UNCHANGED <<now, Tables, turn, job, erased, carried>>
    BY DEF DeleteFactsFails, IInv, TypeInv, Clock
  <1>2. /\ erasing' \in [Deleters -> SUBSET Nat]
        /\ deletion' \in [Deleters -> Users \cup {None}]
        /\ Claims' \subseteq Claims
        /\ \A b \in Deleters : deletion'[b] = None => erasing'[b] = {}
        /\ \A b \in Deleters : erasing'[b] \subseteq erasing[b]
    BY <1>1, DeletionEnds DEF Tables
  <1>3. TypeInv'
    BY <1>1, <1>2 DEF IInv, TypeInv, Tables
  <1>4. KnownInv' /\ KeysInv' /\ EntriesInv' /\ FactsAreSound'
    BY <1>1, FactsKept DEF IInv, KnownInv, KeysInv, EntriesInv, Tables
  <1>5. OwnersInv'
    BY <1>1, <1>2, FewerClaims DEF Tables
  <1>6. GoneInv'
    BY <1>1, <1>2 DEF IInv, GoneInv, Tables
  <1>. QED  BY <1>3, <1>4, <1>5, <1>6 DEF IInv

\* A deletion that returns leaves no fact of what it has deleted.
LEMMA DeleteFactsInv ==
    ASSUME IInv, NEW d \in Deleters, DeleteFacts(d)
    PROVE  IInv'
  <1>1. /\ erasing' = [b \in Deleters |-> IF b \in {d} THEN {} ELSE erasing[b]]
        /\ deletion' = [b \in Deleters |-> IF b \in {d} THEN None ELSE deletion[b]]
        /\ facts' = facts \ FactsOf(deletion[d])
        /\ erased' = erased \cup erasing[d]
        /\ carried' = carried \cup (erasing[d] \cap InHand)
        /\ UNCHANGED <<now, episodes, nextEpisode, nextFact, turn, job>>
    BY DEF DeleteFacts, IInv, TypeInv, Clock
  <1>2. /\ erasing' \in [Deleters -> SUBSET Nat]
        /\ deletion' \in [Deleters -> Users \cup {None}]
        /\ Claims' \subseteq Claims
        /\ \A b \in Deleters : deletion'[b] = None => erasing'[b] = {}
        /\ \A b \in Deleters : erasing'[b] \subseteq erasing[b]
    BY <1>1, DeletionEnds
  <1>3. TypeInv'
    BY <1>1, <1>2, FS_Subset DEF IInv, TypeInv
  <1>4. KeysInv' /\ EntriesInv'
    BY <1>1 DEF IInv, KeysInv, EntriesInv
  <1>5a. \A u : TextsOf(u)' = IF u = deletion[d] THEN {} ELSE TextsOf(u)
    BY <1>1 DEF TextsOf, FactsOf
  <1>5b. KnownInv'
    BY <1>1, <1>5a DEF IInv, KnownInv, Exceeds
  <1>5c. DuplicatesExceedBudget'
    <2>. SUFFICES ASSUME NEW g \in facts', NEW h \in facts', g.user = h.user,
                         g.fact = h.fact, g # h
                  PROVE  Cardinality(TextsOf(g.user)') > Budget
      BY DEF DuplicatesExceedBudget
    <2>1. g \in facts /\ h \in facts /\ g.user # deletion[d]
      BY <1>1 DEF FactsOf
    <2>. QED  BY <2>1, <1>5a DEF IInv, FactsAreSound, DuplicatesExceedBudget
  <1>5. OwnersInv'
    <2>1. \A i \in erasing[d] : <<i, deletion[d]>> \in Claims
      BY DEF Claims
    <2>. QED  BY <1>1, <1>2, <2>1, FewerClaims
  <1>6. GoneInv'
    BY <1>1, <1>2 DEF IInv, GoneInv, InHand
  <1>7. ErasedButCarried'
    <2>. SUFFICES ASSUME NEW f \in facts', f.source \in erasing[d] PROVE FALSE
      BY <1>1 DEF IInv, FactsAreSound, ErasedButCarried
    <2>1. <<f.source, f.user>> \in Claims /\ <<f.source, deletion[d]>> \in Claims
      BY <1>1 DEF Claims
    <2>2. f.user = deletion[d]
      BY <2>1 DEF IInv, OwnersInv
    <2>. QED  BY <1>1, <2>2 DEF FactsOf
  <1>. QED  BY <1>3, <1>4, <1>5, <1>5b, <1>5c, <1>6, <1>7 DEF IInv, FactsAreSound

\* A restart keeps the tables, and no more.
LEMMA CrashInv == ASSUME IInv, Crash PROVE IInv'
  <1>1. /\ erasing' = [b \in Deleters |-> IF b \in Deleters THEN {} ELSE erasing[b]]
        /\ deletion' = [b \in Deleters |-> IF b \in Deleters THEN None ELSE deletion[b]]
        /\ job' = IdleJob /\ turn' = [h \in Handlers |-> NoEntry]
        /\ UNCHANGED <<now, Tables, erased, carried>>
    BY DEF Crash
  <1>2. job'.step = "idle" /\ job'.entries = {}
    BY <1>1 DEF IdleJob
  <1>3. /\ erasing' \in [Deleters -> SUBSET Nat]
        /\ deletion' \in [Deleters -> Users \cup {None}]
        /\ Claims' \subseteq Claims
        /\ \A b \in Deleters : deletion'[b] = None => erasing'[b] = {}
        /\ \A b \in Deleters : erasing'[b] \subseteq erasing[b]
    BY <1>1, <1>2, DeletionEnds DEF Tables
  <1>4. TypeInv'
    BY <1>1, <1>3 DEF IInv, TypeInv, IdleJob, Tables
  <1>5. KnownInv' /\ KeysInv' /\ EntriesInv' /\ FactsAreSound'
    BY <1>1, <1>2, FactsKept DEF IInv, KnownInv, KeysInv, EntriesInv, Tables
  <1>6. OwnersInv'
    BY <1>1, <1>3, FewerClaims DEF Tables
  <1>7. GoneInv'
    BY <1>1, <1>2, <1>3 DEF IInv, GoneInv, Tables
  <1>. QED  BY <1>4, <1>5, <1>6, <1>7 DEF IInv

\* Neither time nor a step that changes nothing does any harm.
LEMMA QuietInv ==
    ASSUME IInv, Tick \/ UNCHANGED vars
    PROVE  IInv'
  <1>1. UNCHANGED <<Tables, job, Calls>> /\ (now' = now \/ now' = now + 1)
    BY DEF Tick, vars, Tables, Calls
  <1>2. TypeInv' /\ KnownInv'
    BY <1>1, FactsKept DEF IInv, TypeInv, KnownInv, Tables, Calls
  <1>. QED  BY <1>1, <1>2, TablesKept DEF IInv, Calls

-----------------------------------------------------------------------------
\* Every step keeps the invariant.
LEMMA NextInv == IInv /\ [Next]_vars => IInv'
  <1>. SUFFICES ASSUME IInv, [Next]_vars PROVE IInv'
    OBVIOUS
  <1>1. CASE \E h \in Handlers :
                \/ \E u \in Users, f \in Texts : Answer(h, u, f)
                \/ StoreEpisode(h) \/ StoreEpisodeFails(h)
    BY <1>1, RequestInv, StoreInv
  <1>2. CASE Consolidate
    BY <1>2, JobBeginInv, KnownStepInv, CountInv, PruneInv, FetchInv, LearnInv, PassInv
       DEF Consolidate
  <1>3. CASE JobFails \/ \E e \in job.entries : LearnFails(e)
    BY <1>3, JobFailsInv, PassInv
  <1>4. CASE \E d \in Deleters : \/ \E u \in Users : DeleteEpisodes(d, u)
                                 \/ DeleteFacts(d) \/ DeleteFactsFails(d)
    BY <1>4, DeleteEpisodesInv, DeleteFactsInv, DeleteFactsFailsInv
  <1>5. CASE Crash
    BY <1>5, CrashInv
  <1>6. CASE Tick \/ UNCHANGED vars
    BY <1>6, QuietInv
  <1>. QED  BY <1>1, <1>2, <1>3, <1>4, <1>5, <1>6 DEF Next

\* A fact is stored twice only of a user with more different facts than are
\* retrieved as the known ones (the deduplication of memory/src/lib.rs:167-187),
\* and a fact learnt from an episode that a finished deletion has deleted
\* (memory/src/lib.rs:348) comes from a cycle that had it in hand, whatever
\* cycles, requests, deletions, failures and restarts interleave.
THEOREM SoundFacts == Spec => []FactsAreSound
  <1>1. IInv => FactsAreSound
    BY DEF IInv
  <1>. QED  BY <1>1, InitInv, NextInv, PTL DEF Spec

-----------------------------------------------------------------------------
(* The types, and what a prune leaves.                                     *)

Busy == {h \in Handlers : turn[h] # NoEntry}

\* A place is kept for each episode that is yet to be stored.
RoomInv == nextEpisode + Cardinality(Busy) <= MaxEpisodes + 1

\* A cycle has a user in hand, and the table of episodes is finite.
CycleInv == /\ job.step \in {"known", "learn", "prune"} => job.user \in Users
            /\ IsFiniteSet(episodes)

RowsInv == TypeOK /\ RoomInv /\ CycleInv

\* The keys of the table of episodes are handed out once.
EpisodeKeysInv == /\ \A e \in episodes : e.id < nextEpisode
                  /\ \A e, g \in episodes : e.id = g.id => e = g

\* While nobody deletes data, a prune finds the episodes that were counted.
CountedInv == /\ \A d \in Deleters : deletion[d] = None
              /\ job.step = "prune" =>
                    Cardinality(EpisodesOf(job.user)) >= job.over + Keep

LEMMA BusyType == ASSUME IsFiniteSet(Handlers) PROVE /\ IsFiniteSet(Busy) /\ Cardinality(Busy) \in Nat
  BY FS_Subset, FS_CardinalityType DEF Busy

LEMMA BusyGrows ==
    ASSUME IsFiniteSet(Handlers), NEW h \in Handlers, NEW e, e # NoEntry, turn[h] = NoEntry,
           turn' = [turn EXCEPT ![h] = e], DOMAIN turn = Handlers
    PROVE  Cardinality(Busy') = Cardinality(Busy) + 1
  <1>1. Busy' = Busy \cup {h} /\ h \notin Busy
    BY DEF Busy
  <1>. QED  BY <1>1, BusyType, FS_AddElement

LEMMA BusyShrinks ==
    ASSUME IsFiniteSet(Handlers), NEW h \in Handlers, turn[h] # NoEntry,
           turn' = [turn EXCEPT ![h] = NoEntry], DOMAIN turn = Handlers
    PROVE  /\ Cardinality(Busy') = Cardinality(Busy) - 1
           /\ Cardinality(Busy) \in Nat /\ Cardinality(Busy) >= 1
  <1>1. Busy' = Busy \ {h} /\ h \in Busy
    BY DEF Busy
  <1>2. Cardinality(Busy') = Cardinality(Busy) - 1
    BY <1>1, BusyType, FS_RemoveElement
  <1>3. Cardinality(Busy) # 0
    BY <1>1, BusyType, FS_EmptySet
  <1>. QED  BY <1>2, <1>3, BusyType

\* A step that leaves the requests alone keeps their places.
LEMMA RoomKept ==
    ASSUME RowsInv, turn' = turn, nextEpisode' = nextEpisode
    PROVE  RoomInv'
  BY DEF RowsInv, RoomInv, Busy

Job == [step: {"idle", "fetch", "known", "learn", "prune", "dead"},
        users: SUBSET Users, user: Users \cup {None},
        entries: SUBSET Episode, known: SUBSET Facts, over: Nat]

\* A step of the cycle that leaves the tables.
LEMMA JobTyped ==
    ASSUME RowsInv, job' \in Job,
           job'.step \in {"known", "learn", "prune"} => job'.user \in Users,
           UNCHANGED <<now, Tables, Calls>>, due' \in BOOLEAN, fails' \in 0..MaxFails
    PROVE  RowsInv'
  <1>1. RoomInv'
    BY RoomKept DEF Tables, Calls
  <1>. QED  BY <1>1 DEF RowsInv, TypeOK, CycleInv, Job, Tables, Calls

LEMMA NextUserTyped ==
    ASSUME NEW j, j.users \in SUBSET Users
    PROVE  NextUser(j) \in Job /\ NextUser(j).step \in {"idle", "fetch"}
  <1>1. PICK k : k = NextUser(j)
    OBVIOUS
  <1>2. k = [step |-> IF j.users = {} THEN "idle" ELSE "fetch", users |-> j.users,
             user |-> None, entries |-> {}, known |-> {}, over |-> 0]
    BY <1>1 DEF NextUser, IdleJob
  <1>3. k \in Job /\ k.step \in {"idle", "fetch"}
    BY <1>2 DEF Job
  <1>. QED  BY <1>1, <1>3

LEMMA RowsInit == ASSUME IsFiniteSet(Handlers) PROVE Init => RowsInv /\ EpisodeKeysInv
  <1>. SUFFICES ASSUME Init PROVE RowsInv /\ EpisodeKeysInv
    OBVIOUS
  <1>1. {Keep, MaxEpisodes, MaxFacts, MaxTime, MaxFails} \subseteq Nat
    BY MemoryAssumption
  <1>2. TypeOK
    <2>1. job \in Job
      BY DEF Init, IdleJob, Job
    <2>2. 0 \in 0..MaxTime /\ 0 \in 0..MaxFails /\ 1 \in 1..(MaxEpisodes + 1)
          /\ 1 \in 1..(MaxFacts + 1)
      BY <1>1
    <2>. QED  BY <2>1, <2>2 DEF Init, Job, TypeOK
  <1>3. Busy = {} /\ nextEpisode = 1
    BY DEF Init, Busy
  <1>4. RoomInv
    BY <1>1, <1>3, FS_EmptySet DEF RoomInv
  <1>5. CycleInv /\ EpisodeKeysInv
    BY FS_EmptySet DEF Init, IdleJob, CycleInv, EpisodeKeysInv
  <1>. QED  BY <1>2, <1>4, <1>5 DEF RowsInv

LEMMA RowsNext ==
    ASSUME IsFiniteSet(Handlers), RowsInv, EpisodeKeysInv, [Next]_vars
    PROVE  RowsInv' /\ EpisodeKeysInv'
  <1>a. /\ MaxEpisodes \in Nat /\ MaxFacts \in Nat /\ MaxTime \in Nat /\ MaxFails \in Nat
        /\ Keep \in Nat
    BY MemoryAssumption
  <1>b. /\ now \in 0..MaxTime /\ due \in BOOLEAN
        /\ episodes \subseteq Episode /\ facts \subseteq Fact
        /\ nextEpisode \in 1..(MaxEpisodes + 1) /\ nextFact \in 1..(MaxFacts + 1)
        /\ turn \in [Handlers -> Entry \cup {NoEntry}]
        /\ job \in Job
        /\ deletion \in [Deleters -> Users \cup {None}]
        /\ erasing \in [Deleters -> SUBSET Ids]
        /\ erased \subseteq Ids /\ carried \subseteq Ids
        /\ fails \in 0..MaxFails
        /\ fails < MaxFails => fails + 1 \in 0..MaxFails
        /\ IsFiniteSet(episodes) /\ DOMAIN turn = Handlers
        /\ job.step \in {"known", "learn", "prune"} => job.user \in Users
        /\ \A u : EpisodesOf(u) \subseteq episodes
    BY <1>a DEF RowsInv, TypeOK, CycleInv, Job, EpisodesOf
  <1>c. /\ job.step \in {"idle", "fetch", "known", "learn", "prune", "dead"}
        /\ job.users \in SUBSET Users /\ job.user \in Users \cup {None}
        /\ job.entries \in SUBSET Episode /\ job.known \in SUBSET Facts /\ job.over \in Nat
    BY <1>b DEF Job
  <1>d. nextEpisode + Cardinality(Busy) <= MaxEpisodes + 1 /\ Cardinality(Busy) \in Nat
    BY BusyType DEF RowsInv, RoomInv
  <1>e. ASSUME episodes' = episodes, nextEpisode' = nextEpisode PROVE EpisodeKeysInv'
    BY <1>e DEF EpisodeKeysInv
  <1>1. ASSUME NEW h \in Handlers, NEW u \in Users, NEW f \in Texts, Answer(h, u, f)
        PROVE  RowsInv' /\ EpisodeKeysInv'
    <2>1. PICK e : e = [user |-> u, time |-> now, fact |-> f]
      OBVIOUS
    <2>2. /\ turn' = [turn EXCEPT ![h] = e] /\ turn[h] = NoEntry
          /\ nextEpisode + Cardinality(Busy) <= MaxEpisodes
          /\ UNCHANGED <<Clock, Tables, job, deletion, erasing, erased, carried, fails>>
      BY <1>1, <2>1 DEF Answer, Busy
    <2>3. e \in Entry /\ e # NoEntry
      <3>1. e.user = u /\ NoEntry.user = None /\ u # None
        BY <2>1, MemoryAssumption DEF NoEntry
      <3>. QED  BY <1>b, <2>1, <3>1 DEF Entry
    <2>4. RoomInv'
      <3>1. PICK a : a = Cardinality(Busy)
        OBVIOUS
      <3>2. PICK b : b = Cardinality(Busy')
        OBVIOUS
      <3>3. a \in Nat /\ b = a + 1 /\ nextEpisode + a <= MaxEpisodes
        BY <1>b, <1>d, <2>2, <2>3, <3>1, <3>2, BusyGrows
      <3>4. nextEpisode + b <= MaxEpisodes + 1
        BY ONLY <1>a, <1>b, <3>3
      <3>. QED  BY <2>2, <3>2, <3>4 DEF RoomInv, Tables
    <2>. QED  BY <1>b, <1>e, <2>2, <2>3, <2>4 DEF RowsInv, TypeOK, CycleInv, Job, Clock, Tables
  <1>2. ASSUME NEW h \in Handlers, StoreEpisode(h)
        PROVE  RowsInv' /\ EpisodeKeysInv'
    <2>1. PICK e : e = [id |-> nextEpisode, user |-> turn[h].user,
                        time |-> turn[h].time, fact |-> turn[h].fact]
      OBVIOUS
    <2>2. /\ turn[h] # NoEntry /\ turn' = [turn EXCEPT ![h] = NoEntry]
          /\ episodes' = episodes \cup {e} /\ nextEpisode' = nextEpisode + 1
          /\ UNCHANGED <<Clock, facts, nextFact, job, deletion, erasing, erased, carried, fails>>
      BY <1>2, <2>1 DEF StoreEpisode
    <2>3. /\ Cardinality(Busy') = Cardinality(Busy) - 1
          /\ Cardinality(Busy) \in Nat /\ Cardinality(Busy) >= 1
      BY <1>b, <2>2, BusyShrinks
    <2>4. nextEpisode \in Ids /\ nextEpisode + 1 \in 1..(MaxEpisodes + 1) /\ RoomInv'
      <3>1. PICK a : a = Cardinality(Busy)
        OBVIOUS
      <3>2. PICK b : b = Cardinality(Busy')
        OBVIOUS
      <3>3. a \in Nat /\ a >= 1 /\ b = a - 1 /\ nextEpisode + a <= MaxEpisodes + 1
        BY <1>d, <2>3, <3>1, <3>2
      <3>4. /\ nextEpisode \in 1..MaxEpisodes /\ nextEpisode + 1 \in 1..(MaxEpisodes + 1)
            /\ (nextEpisode + 1) + b <= MaxEpisodes + 1
        BY ONLY <1>a, <1>b, <3>3
      <3>. QED  BY <2>2, <3>2, <3>4 DEF Ids, RoomInv
    <2>5. e \in Episode /\ e.id = nextEpisode
      <3>1. turn[h] \in Entry
        BY <1>b, <2>2
      <3>. QED  BY <2>1, <2>4, <3>1 DEF Entry, Episode
    <2>6. IsFiniteSet(episodes')
      BY <1>b, <2>2, FS_AddElement
    <2>7. EpisodeKeysInv'
      <3>1. \A g \in episodes : g.id < nextEpisode /\ g.id \in Nat
        BY <1>b DEF EpisodeKeysInv, Episode, Ids
      <3>2. \A g \in episodes : g.id # e.id /\ g.id < nextEpisode + 1
        BY <1>b, <2>5, <3>1
      <3>3. nextEpisode < nextEpisode + 1
        BY <1>b
      <3>. QED  BY <2>2, <2>5, <3>2, <3>3 DEF EpisodeKeysInv
    <2>8. episodes' \subseteq Episode /\ turn' \in [Handlers -> Entry \cup {NoEntry}]
      BY <1>b, <2>2, <2>5
    <2>. QED  BY <1>b, <2>2, <2>4, <2>6, <2>7, <2>8 DEF RowsInv, TypeOK, CycleInv, Job, Clock
  <1>3. ASSUME NEW h \in Handlers, StoreEpisodeFails(h)
        PROVE  RowsInv' /\ EpisodeKeysInv'
    <2>1. /\ turn[h] # NoEntry /\ turn' = [turn EXCEPT ![h] = NoEntry]
          /\ fails < MaxFails /\ fails' = fails + 1
          /\ UNCHANGED <<Clock, Tables, job, deletion, erasing, erased, carried>>
      BY <1>3 DEF StoreEpisodeFails
    <2>2. RoomInv'
      <3>1. PICK a : a = Cardinality(Busy)
        OBVIOUS
      <3>2. PICK b : b = Cardinality(Busy')
        OBVIOUS
      <3>3. a \in Nat /\ b = a - 1 /\ nextEpisode + a <= MaxEpisodes + 1
        BY <1>b, <1>d, <2>1, <3>1, <3>2, BusyShrinks
      <3>4. nextEpisode + b <= MaxEpisodes + 1
        BY ONLY <1>a, <1>b, <3>3
      <3>. QED  BY <2>1, <3>2, <3>4 DEF RoomInv, Tables
    <2>. QED  BY <1>b, <1>e, <2>1, <2>2 DEF RowsInv, TypeOK, CycleInv, Job, Clock, Tables
  <1>4. CASE JobBegin
    <2>1. PICK U : U = {e.user : e \in episodes}
      OBVIOUS
    <2>2. U \in SUBSET Users
      BY <1>b, <2>1 DEF Episode
    <2>3. PICK j : j = [users |-> U]
      OBVIOUS
    <2>4. job' = NextUser(j) /\ j.users \in SUBSET Users /\ due' = FALSE
          /\ UNCHANGED <<now, Tables, Calls, fails>>
      BY <1>4, <2>1, <2>2, <2>3 DEF JobBegin
    <2>5. job' \in Job /\ job'.step \in {"idle", "fetch"}
      BY <2>4, NextUserTyped
    <2>. QED  BY <1>b, <1>e, <2>4, <2>5, JobTyped DEF Tables
  <1>5. ASSUME NEW u \in Users, Fetch(u)
        PROVE  RowsInv' /\ EpisodeKeysInv'
    <2>1. PICK rest : rest = [job EXCEPT !.users = job.users \ {u}]
      OBVIOUS
    <2>2. rest = [step |-> job.step, users |-> job.users \ {u}, user |-> job.user,
                  entries |-> job.entries, known |-> job.known, over |-> job.over]
      BY <1>b, <2>1 DEF Job
    <2>3. PICK R : R = Recent(u)
      OBVIOUS
    <2>4. R \in SUBSET Episode
      BY <1>b, <2>3 DEF Recent, Oldest, EpisodesOf
    <2>5. /\ UNCHANGED <<Clock, Tables, Calls, fails>>
          /\ job' = IF R = {} THEN NextUser(rest)
                    ELSE [rest EXCEPT !.step = "known", !.user = u, !.entries = R]
      BY <1>5, <2>1, <2>3 DEF Fetch
    <2>6. /\ job' \in Job
          /\ job'.step \in {"known", "learn", "prune"} => job'.user \in Users
      <3>1. CASE R = {}
        BY <1>c, <2>2, <2>5, <3>1, NextUserTyped
      <3>2. CASE R # {}
        <4>1. job' = [step |-> "known", users |-> job.users \ {u}, user |-> u,
                      entries |-> R, known |-> job.known, over |-> job.over]
          BY <2>2, <2>5, <3>2
        <4>. QED  BY <1>c, <2>4, <4>1 DEF Job
      <3>. QED  BY <3>1, <3>2
    <2>. QED  BY <1>b, <1>e, <2>5, <2>6, JobTyped DEF Clock, Tables
  <1>6. CASE Known
    <2>1. PICK K : K = {f.fact : f \in Retrieved(job.user)}
      OBVIOUS
    <2>2. K \in SUBSET Facts
      BY <1>b, <2>1 DEF Retrieved, FactsOf, Fact
    <2>3. /\ job' = [job EXCEPT !.step = "learn", !.known = K] /\ job.step = "known"
          /\ UNCHANGED <<Clock, Tables, Calls, fails>>
      BY <1>6, <2>1 DEF Known
    <2>4. job' = [step |-> "learn", users |-> job.users, user |-> job.user,
                  entries |-> job.entries, known |-> K, over |-> job.over]
      BY <1>b, <2>3 DEF Job
    <2>5. job' \in Job /\ job'.user = job.user
      BY <1>c, <2>2, <2>4 DEF Job
    <2>. QED  BY <1>b, <1>e, <2>3, <2>5, JobTyped DEF Clock, Tables
  <1>7. ASSUME NEW e \in job.entries, Learn(e)
        PROVE  RowsInv' /\ EpisodeKeysInv'
    <2>1. PICK K : K = job.known \cup {e.fact}
      OBVIOUS
    <2>2. PICK E : E = job.entries \ {e}
      OBVIOUS
    <2>3. PICK f : f = [id |-> nextFact, user |-> job.user, fact |-> e.fact, source |-> e.id]
      OBVIOUS
    <2>4. /\ job' = [job EXCEPT !.entries = E, !.known = K] /\ job.step = "learn"
          /\ facts' = facts \cup {f} /\ nextFact' = nextFact + 1 /\ nextFact <= MaxFacts
          /\ e.fact \in Facts
          /\ UNCHANGED <<Clock, episodes, nextEpisode, Calls, fails>>
      BY <1>7, <2>1, <2>2, <2>3 DEF Learn, Reaches, IsNews
    <2>5. job' = [step |-> "learn", users |-> job.users, user |-> job.user,
                  entries |-> E, known |-> K, over |-> job.over]
      BY <1>b, <2>4 DEF Job
    <2>6. K \in SUBSET Facts /\ E \in SUBSET Episode
      BY <1>c, <2>1, <2>2, <2>4
    <2>7. job' \in Job /\ job'.user = job.user /\ job'.step = "learn"
      BY <1>c, <2>5, <2>6 DEF Job
    <2>8. f \in Fact /\ nextFact' \in 1..(MaxFacts + 1)
      <3>1. e.id \in Ids
        BY <1>c DEF Episode
      <3>. QED  BY <1>a, <1>b, <2>3, <2>4, <3>1 DEF Fact
    <2>9. facts' \subseteq Fact
      BY <1>b, <2>4, <2>8
    <2>10. RoomInv'
      BY <2>4, RoomKept DEF Calls
    <2>. QED  BY <1>b, <1>e, <2>4, <2>7, <2>8, <2>9, <2>10
                 DEF RowsInv, TypeOK, CycleInv, Job, Clock, Calls
  <1>8. ASSUME NEW e \in job.entries, Skip(e) \/ LearnFails(e)
        PROVE  RowsInv' /\ EpisodeKeysInv'
    <2>1. PICK E : E = job.entries \ {e}
      OBVIOUS
    <2>2. /\ job' = [job EXCEPT !.entries = E] /\ job.step = "learn"
          /\ fails' = fails \/ (fails < MaxFails /\ fails' = fails + 1)
          /\ UNCHANGED <<Clock, Tables, Calls>>
      BY <1>8, <2>1 DEF Skip, LearnFails, Reaches
    <2>3. job' = [step |-> job.step, users |-> job.users, user |-> job.user,
                  entries |-> E, known |-> job.known, over |-> job.over]
      BY <1>b, <2>2 DEF Job
    <2>4. job' \in Job /\ job'.user = job.user
      BY <1>c, <2>1, <2>3 DEF Job
    <2>5. fails' \in 0..MaxFails
      BY <1>b, <2>2
    <2>. QED  BY <1>b, <1>e, <2>2, <2>4, <2>5, JobTyped DEF Clock, Tables
  <1>9. ASSUME NEW e \in job.entries, Panic(e)
        PROVE  RowsInv' /\ EpisodeKeysInv'
    <2>1. job' = [step |-> "dead", users |-> {}, user |-> None, entries |-> {},
                  known |-> {}, over |-> 0]
          /\ UNCHANGED <<Clock, Tables, Calls, fails>>
      BY <1>9 DEF Panic, IdleJob
    <2>2. job' \in Job /\ job'.step = "dead"
      BY <2>1 DEF Job
    <2>. QED  BY <1>b, <1>e, <2>1, <2>2, JobTyped DEF Clock, Tables
  <1>10. CASE Count
    <2>1. PICK n : n = Cardinality(EpisodesOf(job.user))
      OBVIOUS
    <2>2. n \in Nat
      BY <1>b, <2>1, FS_Subset, FS_CardinalityType
    <2>3. /\ job.step = "learn"
          /\ job' = IF n <= Keep THEN NextUser(job)
                    ELSE [job EXCEPT !.step = "prune", !.known = {}, !.over = n - Keep]
          /\ UNCHANGED <<Clock, Tables, Calls, fails>>
      BY <1>10, <2>1 DEF Count
    <2>4. /\ job' \in Job
          /\ job'.step \in {"known", "learn", "prune"} => job'.user \in Users
      <3>1. CASE n <= Keep
        BY <1>c, <2>3, <3>1, NextUserTyped
      <3>2. CASE ~ (n <= Keep)
        <4>1. PICK k : k = n - Keep
          OBVIOUS
        <4>2. k \in Nat
          BY <1>a, <2>2, <3>2, <4>1
        <4>3. job' = [step |-> "prune", users |-> job.users, user |-> job.user,
                      entries |-> job.entries, known |-> {}, over |-> k]
          BY <1>b, <2>3, <3>2, <4>1 DEF Job
        <4>. QED  BY <1>b, <1>c, <2>3, <4>2, <4>3 DEF Job
      <3>. QED  BY <3>1, <3>2
    <2>. QED  BY <1>b, <1>e, <2>3, <2>4, JobTyped DEF Clock, Tables
  <1>11. CASE Prune
    <2>1. /\ job' = NextUser(job) /\ episodes' \subseteq episodes
          /\ UNCHANGED <<Clock, facts, nextEpisode, nextFact, Calls, fails>>
      BY <1>11 DEF Prune
    <2>2. job' \in Job /\ job'.step \in {"idle", "fetch"}
      BY <1>c, <2>1, NextUserTyped
    <2>3. IsFiniteSet(episodes') /\ EpisodeKeysInv'
      BY <1>b, <2>1, FS_Subset DEF EpisodeKeysInv
    <2>4. RoomInv'
      BY <2>1, RoomKept DEF Calls
    <2>. QED  BY <1>b, <2>1, <2>2, <2>3, <2>4 DEF RowsInv, TypeOK, CycleInv, Job, Clock, Calls
  <1>12. CASE JobFails
    <2>1. PICK u \in IF job.step = "fetch" THEN job.users ELSE {None} :
            job' = NextUser([job EXCEPT !.users = job.users \ {u}])
      BY <1>12 DEF JobFails
    <2>2. PICK j : j = [job EXCEPT !.users = job.users \ {u}]
      OBVIOUS
    <2>3. job' = NextUser(j) /\ j.users \in SUBSET Users
      BY <1>b, <1>c, <2>1, <2>2 DEF Job
    <2>4. job' \in Job /\ job'.step \in {"idle", "fetch"}
      BY <2>3, NextUserTyped
    <2>5. fails < MaxFails /\ fails' = fails + 1 /\ UNCHANGED <<Clock, Tables, Calls>>
      BY <1>12 DEF JobFails
    <2>. QED  BY <1>b, <1>e, <2>4, <2>5, JobTyped DEF Clock, Tables
  <1>13. ASSUME NEW d \in Deleters, NEW u \in Users, DeleteEpisodes(d, u)
         PROVE  RowsInv' /\ EpisodeKeysInv'
    <2>1. PICK I : I = {e.id : e \in EpisodesOf(u)}
      OBVIOUS
    <2>2. I \in SUBSET Ids
      BY <1>b, <2>1 DEF Episode
    <2>3. /\ deletion' = [deletion EXCEPT ![d] = u] /\ erasing' = [erasing EXCEPT ![d] = I]
          /\ episodes' \subseteq episodes
          /\ UNCHANGED <<Clock, facts, nextEpisode, nextFact, turn, job, erased, carried, fails>>
      BY <1>13, <2>1 DEF DeleteEpisodes
    <2>4. IsFiniteSet(episodes') /\ EpisodeKeysInv'
      BY <1>b, <2>3, FS_Subset DEF EpisodeKeysInv
    <2>5. RoomInv'
      BY <2>3, RoomKept
    <2>. QED  BY <1>b, <2>2, <2>3, <2>4, <2>5 DEF RowsInv, TypeOK, CycleInv, Job, Clock
  <1>14. ASSUME NEW d \in Deleters, DeleteFacts(d) \/ DeleteFactsFails(d)
         PROVE  RowsInv' /\ EpisodeKeysInv'
    <2>1. /\ deletion' = [deletion EXCEPT ![d] = None] /\ erasing' = [erasing EXCEPT ![d] = {}]
          /\ facts' \subseteq facts /\ erased' \subseteq erased \cup erasing[d]
          /\ carried' \subseteq carried \cup erasing[d]
          /\ fails' = fails \/ (fails < MaxFails /\ fails' = fails + 1)
          /\ UNCHANGED <<Clock, episodes, nextEpisode, nextFact, turn, job>>
      BY <1>14 DEF DeleteFacts, DeleteFactsFails, Tables
    <2>2. erasing[d] \in SUBSET Ids
      BY <1>b
    <2>3. RoomInv'
      BY <2>1, RoomKept
    <2>. QED  BY <1>b, <1>e, <2>1, <2>2, <2>3 DEF RowsInv, TypeOK, CycleInv, Job, Clock
  <1>15. CASE Tick
    <2>1. /\ now' \in 0..MaxTime /\ due' = TRUE /\ UNCHANGED <<Tables, job, Calls, fails>>
      BY <1>a, <1>b, <1>15 DEF Tick
    <2>2. RoomInv'
      BY <2>1, RoomKept DEF Tables, Calls
    <2>. QED  BY <1>b, <1>e, <2>1, <2>2 DEF RowsInv, TypeOK, CycleInv, Job, Tables, Calls
  <1>16. CASE Crash
    <2>1. /\ fails < MaxFails /\ fails' = fails + 1 /\ due' = FALSE /\ job' = IdleJob
          /\ turn' = [h \in Handlers |-> NoEntry]
          /\ deletion' = [d \in Deleters |-> None]
          /\ erasing' = [d \in Deleters |-> {}]
          /\ UNCHANGED <<now, Tables, erased, carried>>
      BY <1>16 DEF Crash
    <2>2. Busy' = {}
      BY <2>1 DEF Busy
    <2>3. RoomInv'
      BY <1>a, <1>b, <2>1, <2>2, FS_EmptySet DEF RoomInv, Tables
    <2>4. job' \in Job /\ job'.step = "idle"
      BY <2>1 DEF IdleJob, Job
    <2>. QED  BY <1>b, <1>e, <2>1, <2>3, <2>4 DEF RowsInv, TypeOK, CycleInv, Job, Tables
  <1>17. CASE UNCHANGED vars
    <2>1. RoomInv'
      BY <1>17, RoomKept DEF vars
    <2>. QED  BY <1>e, <1>17, <2>1 DEF vars, RowsInv, TypeOK, CycleInv
  <1>. QED  BY <1>1, <1>2, <1>3, <1>4, <1>5, <1>6, <1>7, <1>8, <1>9, <1>10, <1>11, <1>12,
               <1>13, <1>14, <1>15, <1>16, <1>17 DEF Next, Consolidate

-----------------------------------------------------------------------------
(* What a prune leaves.                                                    *)

Ahead(S, e) == {g \in S : Older(g, e)}

\* Rows of different keys are in order, and those before the one of two are
\* before the other.
LEMMA AheadGrows ==
    ASSUME NEW S \in SUBSET Episode, IsFiniteSet(S), NEW e \in S, NEW g \in S, Older(e, g)
    PROVE  /\ Cardinality(Ahead(S, e)) < Cardinality(Ahead(S, g))
           /\ Cardinality(Ahead(S, e)) \in Nat /\ Cardinality(Ahead(S, g)) \in Nat
  <1>1. \A h \in S : h.time \in 0..MaxTime /\ h.id \in Nat
    BY DEF Episode, Ids
  <1>2. Ahead(S, e) \subseteq Ahead(S, g)
    BY <1>1, MemoryAssumption DEF Ahead, Older
  <1>3. e \in Ahead(S, g) /\ e \notin Ahead(S, e)
    BY <1>1, MemoryAssumption DEF Ahead, Older
  <1>4. IsFiniteSet(Ahead(S, g)) /\ Ahead(S, e) # Ahead(S, g)
    BY <1>3, FS_Subset DEF Ahead
  <1>5. IsFiniteSet(Ahead(S, e))
    BY <1>2, <1>4, FS_Subset
  <1>. QED  BY <1>2, <1>4, <1>5, FS_Subset, FS_CardinalityType

\* Rows that have a key of their own are in order.
LEMMA InOrder ==
    ASSUME NEW S \in SUBSET Episode, \A e, g \in S : e.id = g.id => e = g,
           NEW e \in S, NEW g \in S
    PROVE  e = g \/ Older(e, g) \/ Older(g, e)
  <1>1. e.time \in 0..MaxTime /\ e.id \in Nat /\ g.time \in 0..MaxTime /\ g.id \in Nat
    BY DEF Episode, Ids
  <1>2. e # g => e.id # g.id
    OBVIOUS
  <1>. QED  BY <1>1, <1>2, MemoryAssumption DEF Older

\* The n oldest rows are n at most, and older than the others.
LEMMA OldestAre ==
    ASSUME NEW S \in SUBSET Episode, IsFiniteSet(S), NEW n \in Nat,
           \A e, g \in S : e.id = g.id => e = g
    PROVE  /\ Oldest(S, n) \subseteq S /\ IsFiniteSet(Oldest(S, n))
           /\ Cardinality(Oldest(S, n)) <= n
           /\ \A e \in Oldest(S, n), g \in S \ Oldest(S, n) : Older(e, g)
  <1>. DEFINE O == Oldest(S, n)
              r == [e \in O |-> Cardinality(Ahead(S, e))]
  <1>1. \A e : e \in O <=> e \in S /\ Cardinality(Ahead(S, e)) < n
    BY DEF Oldest, Ahead
  <1>. HIDE DEF O
  <1>2. O \subseteq S
    BY <1>1
  <1>3. \A e \in S : Cardinality(Ahead(S, e)) \in Nat
    BY FS_Subset, FS_CardinalityType DEF Ahead
  <1>4. ASSUME NEW e \in O, NEW g \in O, e # g PROVE r[e] # r[g]
    <2>1. e \in S /\ g \in S /\ r[e] = Cardinality(Ahead(S, e)) /\ r[g] = Cardinality(Ahead(S, g))
      BY <1>2
    <2>2. Older(e, g) \/ Older(g, e)
      BY <1>4, <2>1, InOrder
    <2>. QED  BY <2>1, <2>2, AheadGrows
  <1>5. r \in Injection(O, 0..(n - 1))
    <2>1. \A e \in O : r[e] \in 0..(n - 1)
      BY <1>1, <1>2, <1>3
    <2>. QED  BY <1>4, <2>1 DEF Injection, IsInjective
  <1>6. IsFiniteSet(0..(n - 1)) /\ Cardinality(0..(n - 1)) = n
    BY FS_Interval
  <1>7. IsFiniteSet(O) /\ Cardinality(O) <= n
    BY <1>5, <1>6, FS_Injection
  <1>8. ASSUME NEW e \in O, NEW g \in S \ O PROVE Older(e, g)
    <2>1. e \in S /\ g \in S /\ e # g /\ Cardinality(Ahead(S, e)) < n
          /\ ~ (Cardinality(Ahead(S, g)) < n)
      BY <1>1
    <2>2. ~ Older(g, e)
      <3>. SUFFICES ASSUME Older(g, e) PROVE FALSE
        OBVIOUS
      <3>1. /\ Cardinality(Ahead(S, g)) < Cardinality(Ahead(S, e))
            /\ Cardinality(Ahead(S, g)) \in Nat /\ Cardinality(Ahead(S, e)) \in Nat
        BY <2>1, AheadGrows
      <3>. QED  BY <2>1, <3>1
    <2>. QED  BY <2>1, <2>2, InOrder
  <1>. QED  BY <1>2, <1>7, <1>8 DEF O

\* While nobody deletes, only a prune removes rows, and only a count starts one.
LEMMA CountedSteps ==
    ASSUME RowsInv, [Next]_vars, \A d \in Deleters : deletion'[d] = None
    PROVE  \/ job'.step # "prune" /\ episodes' = episodes
           \/ Prune
           \/ Count /\ job'.step = "prune"
           \/ job' = job /\ episodes \subseteq episodes'
  <1>a. job \in Job /\ deletion \in [Deleters -> Users \cup {None}] /\ None \notin Users
    BY MemoryAssumption DEF RowsInv, TypeOK, Job
  <1>1. CASE \E h \in Handlers :
                \/ \E u \in Users, f \in Texts : Answer(h, u, f)
                \/ StoreEpisode(h) \/ StoreEpisodeFails(h)
    BY <1>1 DEF Answer, StoreEpisode, StoreEpisodeFails, Tables
  <1>2. CASE JobBegin \/ Known \/ \E u \in Users : Fetch(u)
    <2>1. UNCHANGED Tables
      BY <1>2 DEF JobBegin, Known, Fetch
    <2>2. CASE JobBegin
      BY <2>1, <2>2, NextUserIs DEF JobBegin, Tables
    <2>3. CASE Known
      <3>1. job' = [job EXCEPT !.step = "learn",
                               !.known = {f.fact : f \in Retrieved(job.user)}]
        BY <2>3 DEF Known
      <3>2. job'.step = "learn"
        BY <1>a, <3>1 DEF Job
      <3>. QED  BY <2>1, <3>2 DEF Tables
    <2>4. ASSUME NEW u \in Users, Fetch(u) PROVE job'.step # "prune"
      <3>1. PICK rest : rest = [job EXCEPT !.users = job.users \ {u}]
        OBVIOUS
      <3>2. rest = [step |-> job.step, users |-> job.users \ {u}, user |-> job.user,
                    entries |-> job.entries, known |-> job.known, over |-> job.over]
        BY <1>a, <3>1 DEF Job
      <3>3. PICK R : R = Recent(u)
        OBVIOUS
      <3>4. job' = IF R = {} THEN NextUser(rest)
                   ELSE [rest EXCEPT !.step = "known", !.user = u, !.entries = R]
        BY <2>4, <3>1, <3>3 DEF Fetch
      <3>. QED  BY <3>2, <3>4, NextUserIs
    <2>. QED  BY <1>2, <2>1, <2>2, <2>3, <2>4 DEF Tables
  <1>3. CASE Count
    BY <1>3 DEF Count, Tables
  <1>4. CASE \E e \in job.entries : Learn(e) \/ Skip(e) \/ LearnFails(e) \/ Panic(e)
    <2>1. PICK e \in job.entries : Learn(e) \/ Skip(e) \/ LearnFails(e) \/ Panic(e)
      BY <1>4
    <2>2. episodes' = episodes
      BY <2>1 DEF Learn, Skip, LearnFails, Panic, Tables
    <2>3. CASE Panic(e)
      BY <2>2, <2>3 DEF Panic, IdleJob
    <2>4. CASE Learn(e)
      <3>1. job.step = "learn" /\ job' = [job EXCEPT !.entries = job.entries \ {e},
                                                   !.known = job.known \cup {e.fact}]
        BY <2>4 DEF Learn, Reaches
      <3>2. job'.step = "learn"
        BY <1>a, <3>1 DEF Job
      <3>. QED  BY <2>2, <3>2
    <2>5. CASE Skip(e) \/ LearnFails(e)
      <3>1. job.step = "learn" /\ job' = [job EXCEPT !.entries = job.entries \ {e}]
        BY <2>5 DEF Skip, LearnFails, Reaches
      <3>2. job'.step = "learn"
        BY <1>a, <3>1 DEF Job
      <3>. QED  BY <2>2, <3>2
    <2>. QED  BY <2>1, <2>3, <2>4, <2>5
  <1>5. CASE JobFails
    <2>1. PICK u \in IF job.step = "fetch" THEN job.users ELSE {None} :
            job' = NextUser([job EXCEPT !.users = job.users \ {u}])
      BY <1>5 DEF JobFails
    <2>. QED  BY <1>5, <2>1, NextUserIs DEF JobFails, Tables
  <1>6. CASE \E d \in Deleters : \/ \E u \in Users : DeleteEpisodes(d, u)
                                 \/ DeleteFacts(d) \/ DeleteFactsFails(d)
    <2>1. ASSUME NEW d \in Deleters, NEW u \in Users, DeleteEpisodes(d, u) PROVE FALSE
      <3>1. deletion'[d] = u
        BY <1>a, <2>1 DEF DeleteEpisodes
      <3>. QED  BY <1>a, <3>1
    <2>2. \E d \in Deleters : DeleteFacts(d) \/ DeleteFactsFails(d)
      BY <1>6, <2>1
    <2>. QED  BY <2>2 DEF DeleteFacts, DeleteFactsFails, Tables
  <1>7. CASE Tick \/ UNCHANGED vars
    BY <1>7 DEF Tick, vars, Tables
  <1>8. CASE Crash
    BY <1>8 DEF Crash, IdleJob, Tables
  <1>9. CASE Prune
    BY <1>9
  <1>. QED  BY <1>1, <1>2, <1>3, <1>4, <1>5, <1>6, <1>7, <1>8, <1>9 DEF Next, Consolidate

RowsOf(E, u) == {e \in E : e.user = u}

LEMMA CountedNext ==
    ASSUME RowsInv, EpisodeKeysInv, CountedInv, RowsInv', [Next]_vars,
           \A d \in Deleters : deletion'[d] = None
    PROVE  CountedInv' /\ PruneKeepsNewest
  <1>1. /\ IsFiniteSet(episodes) /\ IsFiniteSet(episodes') /\ Keep \in Nat
        /\ episodes \subseteq Episode /\ job.over \in Nat
    BY MemoryAssumption DEF RowsInv, TypeOK, CycleInv
  <1>2. /\ EpisodesOf(job.user) = RowsOf(episodes, job.user)
        /\ EpisodesOf(job.user)' = RowsOf(episodes', job'.user)
    BY DEF EpisodesOf, RowsOf
  <1>3. \A u : /\ IsFiniteSet(RowsOf(episodes, u)) /\ RowsOf(episodes, u) \subseteq episodes
               /\ IsFiniteSet(RowsOf(episodes', u))
               /\ Cardinality(RowsOf(episodes, u)) \in Nat
               /\ Cardinality(RowsOf(episodes', u)) \in Nat
    BY <1>1, FS_Subset, FS_CardinalityType DEF RowsOf
  <1>4. job.step = "prune" => Cardinality(RowsOf(episodes, job.user)) >= job.over + Keep
    BY <1>2 DEF CountedInv
  <1>5. SUFFICES /\ job'.step = "prune" =>
                       Cardinality(RowsOf(episodes', job'.user)) >= job'.over + Keep
                 /\ PruneKeepsNewest
    BY <1>2 DEF CountedInv
  <1>6. ASSUME episodes \subseteq episodes' PROVE PruneKeepsNewest
    BY <1>6 DEF PruneKeepsNewest, KeepsNewest
  <1>7. CASE job'.step # "prune" /\ episodes' = episodes
    BY <1>6, <1>7
  <1>8. CASE job' = job /\ episodes \subseteq episodes'
    <2>1. RowsOf(episodes, job.user) \subseteq RowsOf(episodes', job.user)
      BY <1>8 DEF RowsOf
    <2>2. Cardinality(RowsOf(episodes, job.user)) <= Cardinality(RowsOf(episodes', job.user))
      BY <1>3, <2>1, FS_Subset
    <2>3. PICK a : a = Cardinality(RowsOf(episodes, job.user))
      OBVIOUS
    <2>4. PICK b : b = Cardinality(RowsOf(episodes', job.user))
      OBVIOUS
    <2>5. a \in Nat /\ b \in Nat /\ a <= b
          /\ (job.step = "prune" => a >= job.over + Keep)
      BY <1>3, <1>4, <2>2, <2>3, <2>4
    <2>6. job.step = "prune" => b >= job.over + Keep
      BY ONLY <1>1, <2>5
    <2>. QED  BY <1>6, <1>8, <2>4, <2>6
  <1>9. CASE Count /\ job'.step = "prune"
    <2>1. PICK n : n = Cardinality(RowsOf(episodes, job.user))
      OBVIOUS
    <2>2. /\ job' = IF n <= Keep THEN NextUser(job)
                    ELSE [job EXCEPT !.step = "prune", !.known = {}, !.over = n - Keep]
          /\ episodes' = episodes
      BY <1>2, <1>9, <2>1 DEF Count, Tables
    <2>3. ~ (n <= Keep)
      BY <1>9, <2>2, NextUserIs
    <2>4. job'.over = n - Keep /\ job'.user = job.user
      BY <2>2, <2>3 DEF RowsInv, TypeOK
    <2>5. n \in Nat
      BY <1>3, <2>1
    <2>6. n >= (n - Keep) + Keep
      BY ONLY <1>1, <2>5
    <2>. QED  BY <1>6, <2>1, <2>2, <2>4, <2>6
  <1>10. CASE Prune
    <2>1. PICK S : S = RowsOf(episodes, job.user)
      OBVIOUS
    <2>2. PICK O : O = Oldest(S, job.over)
      OBVIOUS
    <2>3. /\ job.step = "prune" /\ episodes' = episodes \ O /\ job' = NextUser(job)
      BY <1>2, <1>10, <2>1, <2>2 DEF Prune
    <2>4. S \in SUBSET Episode /\ IsFiniteSet(S) /\ \A e, g \in S : e.id = g.id => e = g
      BY <1>1, <1>3, <2>1 DEF EpisodeKeysInv
    <2>5. /\ O \subseteq S /\ IsFiniteSet(O) /\ Cardinality(O) <= job.over
          /\ \A e \in O, g \in S \ O : Older(e, g)
      BY <1>1, <2>2, <2>4, OldestAre
    <2>6. /\ Cardinality(S \ O) = Cardinality(S) - Cardinality(O)
          /\ Cardinality(S) \in Nat /\ Cardinality(O) \in Nat
      <3>1. S \cap O = O
        BY <2>5
      <3>2. Cardinality(S \ O) = Cardinality(S) - Cardinality(S \cap O)
        BY <2>4, FS_Difference
      <3>. QED  BY <2>4, <2>5, <3>1, <3>2, FS_CardinalityType
    <2>7. Cardinality(S) >= job.over + Keep
      BY <1>4, <2>1, <2>3
    <2>8. Cardinality(S \ O) >= Keep
      BY ONLY <1>1, <2>5, <2>6, <2>7
    <2>9. episodes \ episodes' = O /\ EpisodesOf(job.user) = S
      BY <1>2, <1>3, <2>1, <2>3, <2>5
    <2>10. PruneKeepsNewest
      BY <2>5, <2>8, <2>9 DEF PruneKeepsNewest, KeepsNewest
    <2>11. job'.step # "prune"
      BY <2>3, NextUserIs
    <2>. QED  BY <2>10, <2>11
  <1>. QED  BY <1>7, <1>8, <1>9, <1>10, CountedSteps

-----------------------------------------------------------------------------
(* Working memory.  A total is the last of the running totals of the sizes, *)
(* of which there is one sequence only: by the least index where two differ. *)

\* A set of naturals that is not empty has a least element.
LEMMA LeastIn ==
    ASSUME NEW S \in SUBSET Nat, S # {}
    PROVE  \E m \in S : \A k \in S : m <= k
  <1>. DEFINE less == {p \in Nat \X Nat : p[1] < p[2]}
  <1>1. IsWellFoundedOn(less, Nat)
    BY NatLessThanWellFounded DEF OpToRel
  <1>. HIDE DEF less
  <1>2. PICK m \in S : \A k \in S : ~ (<<k, m>> \in less)
    BY <1>1, WFMin
  <1>3. \A k \in S : ~ (k < m)
    BY <1>2 DEF less
  <1>. QED  BY <1>3

\* The running totals of so many sizes.
Sums(n, z, f)   == f[0] = 0 /\ \A i \in 1..n : f[i] = f[i - 1] + z[i]
Totals(n, z, f) == z \in [1..n -> Nat] /\ f \in [0..n -> Nat] /\ Sums(n, z, f)

\* So many sizes are those after the first k of others.
PartOf(m, y, k, n, z) == k + m <= n /\ \A i \in 1..m : y[i] = z[k + i]

\* There are running totals up to any size.
LEMMA TotalsExist ==
    ASSUME NEW n \in Nat, NEW z \in [1..n -> Nat]
    PROVE  \E f : Totals(n, z, f)
  <1>. DEFINE S == {k \in 0..n : ~ \E f : f \in [0..k -> Nat] /\ Sums(k, z, f)}
  <1>. SUFFICES ASSUME ~ \E f : Totals(n, z, f) PROVE FALSE
    OBVIOUS
  <1>1. S \in SUBSET Nat
    OBVIOUS
  <1>2. S # {}
    <2>1. n \in S
      BY DEF Totals
    <2>. QED  BY <2>1
  <1>3. PICK k \in S : \A j \in S : k <= j
    BY ONLY <1>1, <1>2, LeastIn
  <1>4. k # 0
    <2>1. [i \in 0..0 |-> 0] \in [0..0 -> Nat] /\ Sums(0, z, [i \in 0..0 |-> 0])
      BY DEF Totals, Sums
    <2>. QED  BY <2>1
  <1>5. k \in 1..n /\ k - 1 \in 0..n /\ k - 1 \in Nat
    BY <1>4
  <1>6. k - 1 \notin S
    <2>1. ~ (k <= k - 1)
      BY <1>5
    <2>. HIDE DEF S
    <2>. QED  BY <1>3, <2>1
  <1>7. PICK f : f \in [0..(k - 1) -> Nat] /\ Sums(k - 1, z, f)
    BY <1>5, <1>6
  <1>. DEFINE g == [i \in 0..k |-> IF i = k THEN f[k - 1] + z[k] ELSE f[i]]
  <1>8. f[k - 1] \in Nat /\ z[k] \in Nat
    BY <1>5, <1>7 DEF Totals, Sums
  <1>9. g \in [0..k -> Nat]
    BY <1>5, <1>7, <1>8 DEF Totals, Sums
  <1>10. g[0] = 0 /\ \A i \in 1..k : g[i] = g[i - 1] + z[i]
    <2>1. g[0] = 0
      BY <1>5, <1>7 DEF Totals, Sums
    <2>2. g[k] = g[k - 1] + z[k]
      BY <1>5
    <2>3. \A i \in 1..(k - 1) : g[i] = g[i - 1] + z[i]
      BY <1>5, <1>7 DEF Totals, Sums
    <2>4. 1..k = (1..(k - 1)) \cup {k}
      BY <1>5
    <2>. HIDE DEF g
    <2>. QED  BY <2>1, <2>2, <2>3, <2>4
  <1>11. Sums(k, z, g)
    BY <1>10 DEF Sums
  <1>. QED  BY <1>3, <1>9, <1>11

\* Those of a part follow from those of the whole.
LEMMA TotalsOfPart ==
    ASSUME NEW n \in Nat, NEW z, NEW f, Totals(n, z, f),
           NEW m \in Nat, NEW y, NEW h, Sums(m, y, h),
           NEW k \in Nat, PartOf(m, y, k, n, z)
    PROVE  h[m] = f[k + m] - f[k]
  <1>. USE DEF Sums, PartOf
  <1>. DEFINE S == {i \in 0..m : h[i] # f[k + i] - f[k]}
  <1>1. S \in SUBSET Nat
    OBVIOUS
  <1>. SUFFICES ASSUME h[m] # f[k + m] - f[k] PROVE FALSE
    OBVIOUS
  <1>2. S # {}
    <2>1. m \in S
      OBVIOUS
    <2>. QED  BY <2>1
  <1>3. PICK i \in S : \A j \in S : i <= j
    BY ONLY <1>1, <1>2, LeastIn
  <1>4. i # 0
    BY DEF Totals, Sums
  <1>5. i \in 1..m /\ i - 1 \in 0..m /\ k + i \in 1..n /\ (k + i) - 1 = k + (i - 1)
    BY <1>4
  <1>6. h[i - 1] = f[k + (i - 1)] - f[k]
    BY <1>3, <1>5
  <1>7. h[i] = h[i - 1] + z[k + i]
    BY <1>5
  <1>8. f[k + i] = f[k + (i - 1)] + z[k + i]
    BY <1>5 DEF Totals, Sums
  <1>9. f[k + (i - 1)] \in Nat /\ f[k] \in Nat /\ z[k + i] \in Nat
    <2>1. k + (i - 1) \in 0..n /\ k \in 0..n
      BY <1>5
    <2>. QED  BY <1>5, <2>1 DEF Totals, Sums
  <1>10. h[i] = f[k + i] - f[k]
    BY <1>6, <1>7, <1>8, <1>9
  <1>. QED  BY <1>3, <1>10

SizesOf(s) == [i \in 1..Len(s) |-> s[i].size]

LEMMA SizesType ==
    ASSUME NEW s \in Seq(CV!Message)
    PROVE  Len(s) \in Nat /\ SizesOf(s) \in [1..Len(s) -> Nat]
  <1>1. \A m \in CV!Message : m.size \in Nat
    BY ConversationFits DEF CV!ConversationAssumption, CV!Message
  <1>2. Len(s) \in Nat /\ \A i \in 1..Len(s) : s[i] \in CV!Message
    OBVIOUS
  <1>. QED  BY <1>1, <1>2 DEF SizesOf

\* The total of a sequence of messages is the last of its running totals.
LEMMA TokensAre ==
    ASSUME NEW s \in Seq(CV!Message)
    PROVE  \E f : Totals(Len(s), SizesOf(s), f) /\ CV!Tokens(s) = f[Len(s)]
  <1>. DEFINE n == Len(s)
              z == SizesOf(s)
              Step(g) == [i \in 0..n |-> IF i = 0 THEN 0 ELSE g[i - 1] + s[i].size]
              upTo == CHOOSE g : g = Step(g)
  <1>1. n \in Nat /\ z \in [1..n -> Nat]
    BY SizesType
  <1>2. PICK f : Totals(n, z, f)
    BY <1>1, TotalsExist
  <1>3. f = Step(f)
    BY <1>1, <1>2 DEF Totals, Sums, SizesOf
  <1>4. upTo = Step(upTo)
    <2>. HIDE DEF Step
    <2>. QED  BY <1>3
  <1>5. CV!Tokens(s) = upTo[n]
    BY DEF CV!Tokens
  <1>. HIDE DEF upTo
  <1>6. Sums(n, z, upTo)
    BY <1>1, <1>4 DEF SizesOf, Sums
  <1>7. PartOf(n, z, 0, n, z)
    BY <1>1 DEF PartOf
  <1>. HIDE DEF n, z
  <1>8. upTo[n] = f[0 + n] - f[0]
    BY ONLY <1>1, <1>2, <1>6, <1>7, TotalsOfPart
  <1>9. f[0] = 0 /\ f[n] \in Nat /\ n \in 0..n /\ 0 + n = n
    BY <1>1, <1>2 DEF Totals, Sums
  <1>10. upTo[n] = f[n]
    BY <1>8, <1>9
  <1>. QED  BY <1>2, <1>5, <1>10 DEF n, z

\* The total of a part is the difference of two running totals of the whole.
LEMMA TokensOfPart ==
    ASSUME NEW s \in Seq(CV!Message), NEW f, Totals(Len(s), SizesOf(s), f),
           NEW r \in Seq(CV!Message), NEW k \in Nat, k + Len(r) <= Len(s),
           \A i \in 1..Len(r) : r[i] = s[k + i]
    PROVE  CV!Tokens(r) = f[k + Len(r)] - f[k]
  <1>. DEFINE n == Len(s)
              m == Len(r)
              z == SizesOf(s)
              y == SizesOf(r)
  <1>1. n \in Nat /\ z \in [1..n -> Nat] /\ m \in Nat /\ y \in [1..m -> Nat]
    BY SizesType
  <1>2. PICK h : Totals(m, y, h) /\ CV!Tokens(r) = h[m]
    BY TokensAre
  <1>3. Sums(m, y, h) /\ Totals(n, z, f)
    BY <1>2 DEF Totals
  <1>4. PartOf(m, y, k, n, z)
    BY <1>1 DEF SizesOf, PartOf
  <1>. HIDE DEF n, m, z, y
  <1>5. h[m] = f[k + m] - f[k]
    BY ONLY <1>1, <1>3, <1>4, k \in Nat, TotalsOfPart
  <1>. QED  BY <1>2, <1>5 DEF m

LEMMA TokensNat == ASSUME NEW s \in Seq(CV!Message) PROVE CV!Tokens(s) \in Nat
  <1>1. PICK f : Totals(Len(s), SizesOf(s), f) /\ CV!Tokens(s) = f[Len(s)]
    BY TokensAre
  <1>2. Len(s) \in Nat
    OBVIOUS
  <1>. QED  BY <1>1, <1>2 DEF Totals

LEMMA TokensAppend ==
    ASSUME NEW s \in Seq(CV!Message), NEW m \in CV!Message
    PROVE  CV!Tokens(Append(s, m)) = CV!Tokens(s) + m.size
  <1>1. PICK all : all = Append(s, m)
    OBVIOUS
  <1>2. /\ all \in Seq(CV!Message) /\ Len(all) = Len(s) + 1 /\ Len(s) \in Nat
        /\ all[Len(s) + 1] = m /\ \A i \in 1..Len(s) : s[i] = all[0 + i]
    BY <1>1
  <1>3. PICK f : Totals(Len(all), SizesOf(all), f) /\ CV!Tokens(all) = f[Len(all)]
    BY <1>2, TokensAre
  <1>4. CV!Tokens(s) = f[0 + Len(s)] - f[0]
    <2>1. 0 + Len(s) <= Len(all) /\ 0 \in Nat
      BY <1>2
    <2>. QED  BY <1>2, <1>3, <2>1, TokensOfPart
  <1>5. f[Len(all)] = f[Len(s)] + m.size /\ f[Len(s)] \in Nat /\ f[0] = 0
    BY <1>2, <1>3 DEF Totals, Sums, SizesOf
  <1>. QED  BY <1>1, <1>2, <1>3, <1>4, <1>5

\* What is cut off is the difference.
LEMMA TokensCut ==
    ASSUME NEW s \in Seq(CV!Message), NEW k \in 0..Len(s)
    PROVE  /\ CV!Tokens(SubSeq(s, k + 1, Len(s))) \in Nat
           /\ CV!Tokens(SubSeq(s, k + 1, Len(s)))
                = CV!Tokens(s) - CV!Tokens(SubSeq(s, 1, k))
  <1>1. PICK a : a = SubSeq(s, 1, k)
    OBVIOUS
  <1>2. PICK b : b = SubSeq(s, k + 1, Len(s))
    OBVIOUS
  <1>3. Len(s) \in Nat /\ k \in Nat /\ k <= Len(s)
    OBVIOUS
  <1>4. a \in Seq(CV!Message) /\ Len(a) = k /\ \A i \in 1..Len(a) : a[i] = s[0 + i]
    BY <1>1, <1>3
  <1>5. b \in Seq(CV!Message) /\ Len(b) = Len(s) - k /\ \A i \in 1..Len(b) : b[i] = s[k + i]
    BY <1>2, <1>3
  <1>6. PICK f : Totals(Len(s), SizesOf(s), f) /\ CV!Tokens(s) = f[Len(s)]
    BY TokensAre
  <1>7. CV!Tokens(a) = f[0 + k] - f[0]
    BY <1>3, <1>4, <1>6, TokensOfPart
  <1>8. k + Len(b) = Len(s) /\ k + Len(b) <= Len(s)
    BY <1>3, <1>5
  <1>9. CV!Tokens(b) = f[k + Len(b)] - f[k]
    BY ONLY <1>3, <1>5, <1>6, <1>8, TokensOfPart, s \in Seq(CV!Message), Zenon
  <1>10. f[0] = 0 /\ f[k] \in Nat /\ f[Len(s)] \in Nat
    BY <1>3, <1>6 DEF Totals, Sums
  <1>11. CV!Tokens(b) \in Nat
    BY <1>5, TokensNat
  <1>. QED  BY <1>1, <1>2, <1>3, <1>6, <1>7, <1>8, <1>9, <1>10, <1>11

-----------------------------------------------------------------------------
\* All but two go at most, and not more than it takes.
LEMMA EvictedAre ==
    ASSUME NEW s \in Seq(CV!Message)
    PROVE  /\ CV!Evicted(s) \in 0..Len(s)
           /\ \/ CV!Tokens(SubSeq(s, CV!Evicted(s) + 1, Len(s))) <= MaxTokens
              \/ Len(s) - CV!Evicted(s) <= 2
           /\ CV!Evicted(s) = 0 \/ CV!Evicted(s) + 2 <= Len(s)
  <1>. DEFINE S == {n \in 0..Len(s) :
                      \/ CV!Tokens(SubSeq(s, n + 1, Len(s))) <= MaxTokens
                      \/ Len(s) - n <= 2}
  <1>1. CV!Evicted(s) = CHOOSE n \in S : \A k \in S : n <= k
    BY DEF CV!Evicted, CV!Min
  <1>2. Len(s) \in Nat
    OBVIOUS
  <1>3. S \in SUBSET Nat
    BY <1>2
  <1>4. PICK last \in S : \/ last = 0
                          \/ last + 2 <= Len(s)
    <2>1. CASE Len(s) <= 2
      <3>1. 0 \in S
        BY <1>2, <2>1
      <3>. QED  BY <3>1
    <2>2. CASE ~ (Len(s) <= 2)
      <3>1. Len(s) - 2 \in S /\ (Len(s) - 2) + 2 <= Len(s)
        BY <1>2, <2>2
      <3>. QED  BY <3>1
    <2>. QED  BY <2>1, <2>2
  <1>5. CV!Evicted(s) \in S /\ \A k \in S : CV!Evicted(s) <= k
    <2>1. \E n \in S : \A k \in S : n <= k
      BY ONLY <1>3, <1>4, LeastIn
    <2>. HIDE DEF S
    <2>. QED  BY <1>1, <2>1
  <1>6. CV!Evicted(s) <= last /\ CV!Evicted(s) \in Nat /\ last \in Nat
    BY ONLY <1>3, <1>4, <1>5
  <1>7. CV!Evicted(s) = 0 \/ CV!Evicted(s) + 2 <= Len(s)
    BY ONLY <1>2, <1>4, <1>6
  <1>. QED  BY <1>5, <1>7

\* The types of working memory and its turns, with the session of a turn that
\* has begun.
TalkTypes == /\ CV!TypeOK
             /\ \A t \in Turns : talk[t].pc # "new" => talk[t].session \in Sessions

\* What a push leaves of a session.
LEMMA PushIs ==
    ASSUME TalkTypes, CV!WindowKept, NEW s \in Sessions, NEW m \in CV!Message,
           CV!Push(s, m)
    PROVE  \E gone \in Nat :
             LET old == working[s].messages
                 new == working'[s].messages
             IN  /\ gone = 0 \/ gone + 2 <= Len(old) + 1
                 /\ working' = [working EXCEPT ![s] = working'[s]]
                 /\ new \in Seq(CV!Message) /\ working'[s].total \in Nat
                 /\ working'[s] \in [messages : Seq(CV!Message), total : Nat]
                 /\ Len(old) \in Nat /\ Len(new) = Len(old) + 1 - gone
                 /\ new[Len(new)] = m
                 /\ \A i \in 1..(Len(new) - 1) : new[i] = old[i + gone]
                 /\ working'[s].total = CV!Tokens(new)
                 /\ working'[s].total <= MaxTokens \/ Len(new) <= 2
  <1>1. PICK old : old = working[s].messages
    OBVIOUS
  <1>2. /\ working \in [Sessions -> [messages : Seq(CV!Message), total : Nat]]
        /\ old \in Seq(CV!Message) /\ Len(old) \in Nat /\ working[s].total = CV!Tokens(old)
    BY <1>1 DEF TalkTypes, CV!TypeOK, CV!WindowKept
  <1>3. PICK all : all = Append(old, m)
    OBVIOUS
  <1>4. /\ all \in Seq(CV!Message) /\ Len(all) = Len(old) + 1 /\ all[Len(all)] = m
        /\ \A i \in 1..Len(old) : all[i] = old[i]
        /\ CV!Tokens(all) = CV!Tokens(old) + m.size
    BY <1>2, <1>3, TokensAppend
  <1>5. PICK gone : gone = CV!Evicted(all)
    OBVIOUS
  <1>6. PICK new : new = SubSeq(all, gone + 1, Len(all))
    OBVIOUS
  <1>7. PICK cut : cut = CV!Tokens(SubSeq(all, 1, gone))
    OBVIOUS
  <1>8. /\ gone \in 0..Len(all) /\ (gone = 0 \/ gone + 2 <= Len(all))
        /\ CV!Tokens(new) <= MaxTokens \/ Len(all) - gone <= 2
    BY <1>4, <1>5, <1>6, EvictedAre
  <1>9. CV!Tokens(new) \in Nat /\ CV!Tokens(new) = CV!Tokens(all) - cut
    BY <1>4, <1>6, <1>7, <1>8, TokensCut
  <1>10. PICK entry : entry = [messages |-> new, total |-> CV!Tokens(old) + m.size - cut]
    OBVIOUS
  <1>11. working' = [working EXCEPT ![s] = entry]
    BY <1>1, <1>2, <1>3, <1>5, <1>6, <1>7, <1>10 DEF CV!Push
  <1>12. working'[s] = entry
    BY <1>2, <1>11
  <1>13. /\ new \in Seq(CV!Message) /\ Len(new) = Len(old) + 1 - gone /\ gone \in Nat
         /\ new[Len(new)] = m /\ \A i \in 1..(Len(new) - 1) : new[i] = old[i + gone]
    <2>1. /\ new \in Seq(CV!Message) /\ Len(new) = Len(all) - gone /\ gone \in Nat
          /\ \A i \in 1..Len(new) : new[i] = all[i + gone]
      BY <1>2, <1>4, <1>6, <1>8
    <2>2. Len(new) \in 1..Len(new) /\ Len(new) + gone = Len(all)
      BY <1>2, <1>4, <1>8, <2>1
    <2>3. \A i \in 1..(Len(new) - 1) : i \in 1..Len(new) /\ i + gone \in 1..Len(old)
      BY <1>2, <1>4, <1>8, <2>1
    <2>. QED  BY <1>4, <2>1, <2>2, <2>3
  <1>14. entry.total = CV!Tokens(new) /\ entry.messages = new
    <2>1. PICK a : a = CV!Tokens(old)
      OBVIOUS
    <2>2. PICK b : b = m.size
      OBVIOUS
    <2>3. PICK c : c = CV!Tokens(all)
      OBVIOUS
    <2>4. a \in Nat /\ b \in Nat /\ cut \in Nat /\ c = a + b
      <3>1. b \in Nat
        BY <2>2, ConversationFits DEF CV!ConversationAssumption, CV!Message
      <3>2. SubSeq(all, 1, gone) \in Seq(CV!Message)
        BY <1>2, <1>4, <1>8
      <3>. QED  BY <1>2, <1>4, <1>7, <2>1, <2>2, <2>3, <3>1, <3>2, TokensNat
    <2>5. a + (b - cut) = c - cut
      BY ONLY <2>4
    <2>. QED  BY ONLY <1>9, <1>10, <2>1, <2>2, <2>3, <2>5
  <1>15. entry \in [messages : Seq(CV!Message), total : Nat]
    BY <1>9, <1>10, <1>13, <1>14
  <1>16. entry.total <= MaxTokens \/ Len(new) <= 2
    BY <1>4, <1>8, <1>13, <1>14
  <1>17. gone = 0 \/ gone + 2 <= Len(old) + 1
    BY <1>4, <1>8
  <1>. QED  BY ONLY <1>1, <1>2, <1>9, <1>11, <1>12, <1>13, <1>14, <1>15, <1>16, <1>17

\* A push keeps the window of its session, and leaves the others alone.
LEMMA PushKeepsWindow ==
    ASSUME TalkTypes, CV!WindowKept, NEW s \in Sessions, NEW m \in CV!Message,
           CV!Push(s, m)
    PROVE  /\ working' \in [Sessions -> [messages : Seq(CV!Message), total : Nat]]
           /\ CV!WindowKept'
  <1>1. /\ working' = [working EXCEPT ![s] = working'[s]]
        /\ working'[s] \in [messages : Seq(CV!Message), total : Nat]
        /\ working'[s].total = CV!Tokens(working'[s].messages)
        /\ working'[s].total <= MaxTokens \/ Len(working'[s].messages) <= 2
    BY PushIs
  <1>2. working \in [Sessions -> [messages : Seq(CV!Message), total : Nat]]
    BY DEF TalkTypes, CV!TypeOK
  <1>3. PICK entry : entry = working'[s]
    OBVIOUS
  <1>4. working' \in [Sessions -> [messages : Seq(CV!Message), total : Nat]]
    BY <1>1, <1>2, <1>3
  <1>5. \A r \in Sessions : r # s => working'[r] = working[r]
    BY <1>1, <1>2, <1>3
  <1>. QED  BY <1>1, <1>4, <1>5 DEF CV!WindowKept

Turn == [pc : {"new", "classified", "context", "asked", "done"},
         session : Sessions \cup {"none"}, context : Seq(CV!Message)]

\* A step of a turn sets its own record, and at most pushes one message.
TalkStep(t) == /\ talk' = [talk EXCEPT ![t] = talk'[t]]
               /\ talk'[t] \in Turn /\ talk'[t].pc # "new" /\ talk'[t].session \in Sessions
               /\ withdrawn' \in SUBSET Turns

Pushes(t, role) == /\ talk[t].session \in Sessions
                   /\ \E size \in Sizes :
                         CV!Push(talk[t].session, [role |-> role, of |-> t, size |-> size])

LEMMA TurnSteps ==
    ASSUME TalkTypes, CV!Next
    PROVE  \E t \in Turns :
             /\ TalkStep(t)
             /\ \/ /\ talk[t].pc = "new" /\ talk'[t].pc = "classified"
                   /\ talk'[t].context = << >> /\ UNCHANGED <<working, withdrawn>>
                \/ /\ talk[t].pc = "classified" /\ talk'[t].pc = "context"
                   /\ talk'[t].context \in {<< >>, working[talk[t].session].messages}
                   /\ talk'[t].session = talk[t].session
                   /\ UNCHANGED <<working, withdrawn>>
                \/ /\ talk[t].pc = "context" /\ talk'[t].pc = "asked"
                   /\ talk'[t].context = talk[t].context
                   /\ talk'[t].session = talk[t].session
                   /\ Pushes(t, "user") /\ UNCHANGED withdrawn
                \/ /\ talk[t].pc = "asked" /\ talk'[t].pc = "done"
                   /\ Pushes(t, "assistant") /\ UNCHANGED withdrawn
                \/ /\ talk[t].pc \in {"classified", "asked"} /\ talk'[t].pc = "done"
                   /\ withdrawn' = IF talk[t].pc = "asked" THEN withdrawn \cup {t}
                                   ELSE withdrawn
                   /\ UNCHANGED working
  <1>1. PICK t \in Turns : \/ \E s \in Sessions : CV!Begin(t, s)
                           \/ CV!ReadContext(t) \/ CV!AddMessage(t) \/ CV!AddAnswer(t)
                           \/ CV!Withdraw(t)
    BY DEF CV!Next
  <1>2. /\ talk \in [Turns -> Turn] /\ withdrawn \in SUBSET Turns
        /\ talk[t] \in Turn
        /\ talk[t].pc # "new" => talk[t].session \in Sessions
        /\ \A s \in Sessions : working[s].messages \in Seq(CV!Message)
    BY DEF TalkTypes, CV!TypeOK, Turn
  <1>3. CASE \E s \in Sessions : CV!Begin(t, s)
    <2>1. PICK s \in Sessions : CV!Begin(t, s)
      BY <1>3
    <2>2. PICK r : r = [pc |-> "classified", session |-> s, context |-> << >>]
      OBVIOUS
    <2>3. talk' = [talk EXCEPT ![t] = r] /\ talk[t].pc = "new"
          /\ UNCHANGED <<working, withdrawn>>
      BY <2>1, <2>2 DEF CV!Begin
    <2>4. << >> \in Seq(CV!Message)
      OBVIOUS
    <2>5. r \in Turn /\ r.pc = "classified" /\ r.session \in Sessions /\ r.context = << >>
      BY <2>2, <2>4 DEF Turn
    <2>6. talk'[t] = r
      BY <1>2, <2>3
    <2>. QED  BY <1>2, <2>3, <2>5, <2>6 DEF TalkStep
  <1>4. CASE CV!ReadContext(t)
    <2>1. PICK known \in BOOLEAN :
            talk' = [talk EXCEPT ![t].pc = "context",
                                 ![t].context = IF known THEN working[talk[t].session].messages
                                                ELSE << >>]
      BY <1>4 DEF CV!ReadContext
    <2>2. PICK context : context = IF known THEN working[talk[t].session].messages ELSE << >>
      OBVIOUS
    <2>3. /\ talk[t].pc = "classified" /\ UNCHANGED <<working, withdrawn>>
          /\ talk' = [talk EXCEPT ![t].pc = "context", ![t].context = context]
      BY <1>4, <2>1, <2>2 DEF CV!ReadContext
    <2>4. context \in {<< >>, working[talk[t].session].messages} /\ context \in Seq(CV!Message)
      BY <1>2, <2>2, <2>3
    <2>5. talk'[t] = [pc |-> "context", session |-> talk[t].session, context |-> context]
      BY <1>2, <2>3 DEF Turn
    <2>6. talk' = [talk EXCEPT ![t] = talk'[t]]
      BY <1>2, <2>3
    <2>7. talk'[t] \in Turn
      BY <1>2, <2>4, <2>5 DEF Turn
    <2>8. /\ talk'[t].pc = "context" /\ talk'[t].session = talk[t].session
          /\ talk'[t].context = context
      BY ONLY <2>5
    <2>. QED  BY ONLY <1>2, <2>3, <2>4, <2>6, <2>7, <2>8, t \in Turns DEF TalkStep
  <1>5. CASE CV!AddMessage(t)
    <2>1. /\ talk[t].pc = "context" /\ talk' = [talk EXCEPT ![t].pc = "asked"]
          /\ UNCHANGED withdrawn /\ Pushes(t, "user")
      BY <1>2, <1>5 DEF CV!AddMessage, Pushes
    <2>2. talk'[t] = [pc |-> "asked", session |-> talk[t].session, context |-> talk[t].context]
      BY <1>2, <2>1 DEF Turn
    <2>3. talk' = [talk EXCEPT ![t] = talk'[t]]
      BY <1>2, <2>1
    <2>4. talk'[t] \in Turn
      BY <1>2, <2>2 DEF Turn
    <2>. QED  BY <1>2, <2>1, <2>2, <2>3, <2>4 DEF TalkStep
  <1>6. CASE CV!AddAnswer(t)
    <2>1. /\ talk[t].pc = "asked" /\ talk' = [talk EXCEPT ![t].pc = "done"]
          /\ UNCHANGED withdrawn /\ Pushes(t, "assistant")
      BY <1>2, <1>6 DEF CV!AddAnswer, Pushes
    <2>2. talk'[t] = [pc |-> "done", session |-> talk[t].session, context |-> talk[t].context]
      BY <1>2, <2>1 DEF Turn
    <2>3. talk' = [talk EXCEPT ![t] = talk'[t]]
      BY <1>2, <2>1
    <2>4. talk'[t] \in Turn
      BY <1>2, <2>2 DEF Turn
    <2>. QED  BY <1>2, <2>1, <2>2, <2>3, <2>4 DEF TalkStep
  <1>7. CASE CV!Withdraw(t)
    <2>1. /\ talk[t].pc \in {"classified", "asked"} /\ talk' = [talk EXCEPT ![t].pc = "done"]
          /\ UNCHANGED working
          /\ withdrawn' = IF talk[t].pc = "asked" THEN withdrawn \cup {t} ELSE withdrawn
      BY <1>7 DEF CV!Withdraw
    <2>2. talk'[t] = [pc |-> "done", session |-> talk[t].session, context |-> talk[t].context]
      BY <1>2, <2>1 DEF Turn
    <2>3. talk' = [talk EXCEPT ![t] = talk'[t]]
      BY <1>2, <2>1
    <2>4. talk'[t] \in Turn
      BY <1>2, <2>2 DEF Turn
    <2>. QED  BY <1>2, <2>1, <2>2, <2>3, <2>4 DEF TalkStep
  <1>. QED  BY <1>1, <1>3, <1>4, <1>5, <1>6, <1>7

LEMMA TalkInit == CV!Init => TalkTypes /\ CV!WindowKept
  <1>. SUFFICES ASSUME CV!Init PROVE TalkTypes /\ CV!WindowKept
    OBVIOUS
  <1>1. << >> \in Seq(CV!Message) /\ Len(<< >>) = 0
    OBVIOUS
  <1>2. TalkTypes
    BY <1>1 DEF CV!Init, CV!Idle, TalkTypes, CV!TypeOK
  <1>3. CV!Tokens(<< >>) = 0
    BY <1>1, TokensAre DEF Totals, Sums
  <1>4. CV!WindowKept
    BY <1>1, <1>3 DEF CV!Init, CV!WindowKept
  <1>. QED  BY <1>2, <1>4

LEMMA TalkNext ==
    TalkTypes /\ CV!WindowKept /\ [CV!Next]_talkVars => (TalkTypes /\ CV!WindowKept)'
  <1>. SUFFICES ASSUME TalkTypes, CV!WindowKept, [CV!Next]_talkVars
                PROVE  (TalkTypes /\ CV!WindowKept)'
    OBVIOUS
  <1>1. CASE UNCHANGED talkVars
    BY <1>1 DEF talkVars, TalkTypes, CV!TypeOK, CV!WindowKept
  <1>2. CASE CV!Next
    <2>1. PICK t \in Turns : /\ TalkStep(t)
                             /\ \/ UNCHANGED working
                                \/ \E role \in {"user", "assistant"} : Pushes(t, role)
      BY <1>2, TurnSteps
    <2>2. /\ working' \in [Sessions -> [messages : Seq(CV!Message), total : Nat]]
          /\ CV!WindowKept'
      <3>1. CASE UNCHANGED working
        BY <3>1 DEF TalkTypes, CV!TypeOK, CV!WindowKept
      <3>2. CASE \E role \in {"user", "assistant"} : Pushes(t, role)
        <4>1. PICK role \in {"user", "assistant"}, size \in Sizes :
                CV!Push(talk[t].session, [role |-> role, of |-> t, size |-> size])
          BY <3>2 DEF Pushes
        <4>2. PICK m : m = [role |-> role, of |-> t, size |-> size]
          OBVIOUS
        <4>3. m \in CV!Message /\ talk[t].session \in Sessions
          BY <3>2, <4>2 DEF CV!Message, Pushes
        <4>4. PICK s : s = talk[t].session
          OBVIOUS
        <4>5. CV!Push(s, m)
          BY <4>1, <4>2, <4>4
        <4>. QED  BY <4>3, <4>4, <4>5, PushKeepsWindow
      <3>. QED  BY <2>1, <3>1, <3>2
    <2>3. talk' \in [Turns -> Turn] /\ withdrawn' \subseteq Turns
      BY <2>1 DEF TalkTypes, CV!TypeOK, TalkStep, Turn
    <2>4. \A u \in Turns : talk'[u].pc # "new" => talk'[u].session \in Sessions
      BY <2>1 DEF TalkTypes, CV!TypeOK, TalkStep
    <2>. QED  BY <2>2, <2>3, <2>4 DEF TalkTypes, CV!TypeOK, Turn
  <1>. QED  BY <1>1, <1>2

-----------------------------------------------------------------------------
(* Turns of a session one at a time.                                       *)

\* InDialogue, when W are the turns whose message needs no answer.
Dialogue(m, W) ==
    \A i \in DOMAIN m :
       IF m[i].role = "assistant"
       THEN i = 1 \/ (m[i - 1].role = "user" /\ m[i - 1].of = m[i].of)
       ELSE m[i].of \in W \/ (i < Len(m) /\ m[i + 1].of = m[i].of)

Unanswered == withdrawn \cup CV!Active

\* A turn has a message in a session only once it has asked, and then its
\* question is the last message of its session, until it ends.
OwnMessages ==
    \A s \in Sessions : \A i \in DOMAIN working[s].messages :
        LET t == working[s].messages[i].of IN
        /\ talk[t].pc \in {"asked", "done"}
        /\ talk[t].pc = "asked" =>
              i = Len(working[s].messages) /\ talk[t].session = s
QuestionLast(m, t) == Len(m) > 0 /\ m[Len(m)].role = "user" /\ m[Len(m)].of = t
QuestionsLast ==
    \A t \in Turns : talk[t].pc = "asked" =>
        QuestionLast(working[talk[t].session].messages, t)

Contexts ==
    \A t \in CV!Active : /\ Dialogue(talk[t].context, Unanswered)
                         /\ \A i \in DOMAIN talk[t].context : talk[t].context[i].of # t

Memories == \A s \in Sessions : Dialogue(working[s].messages, Unanswered)

DialogueInv == OneAtATime /\ OwnMessages /\ QuestionsLast /\ Contexts /\ Memories

LEMMA DialogueSuffices == DialogueInv => CV!ContextIsDialogue
  BY DEF DialogueInv, Contexts, Memories, Dialogue, Unanswered, CV!ContextIsDialogue,
         CV!InDialogue

LEMMA DialogueInit == CV!Init => DialogueInv
  BY DEF CV!Init, CV!Idle, DialogueInv, OneAtATime, OwnMessages, QuestionsLast, Contexts,
         Memories, Dialogue, CV!Active

\* Fewer turns need an answer to a message that they have not sent.
LEMMA DialogueMono ==
    ASSUME NEW m, NEW W, NEW V, Dialogue(m, W),
           \A i \in DOMAIN m : m[i].of \in W => m[i].of \in V
    PROVE  Dialogue(m, V)
  BY DEF Dialogue

\* The only turn that has begun and not ended, before and after a step of it.
LEMMA SoleTurn ==
    ASSUME TalkTypes, DialogueInv, OneAtATime', NEW t \in Turns, TalkStep(t),
           t \in CV!Active \/ t \in CV!Active'
    PROVE  /\ CV!Active \subseteq {t} /\ CV!Active' \subseteq {t}
           /\ \A u \in Turns : u # t => /\ talk'[u] = talk[u]
                                        /\ talk[u].pc \in {"new", "done"}
           /\ talk[t].pc \in {"classified", "context", "asked"} <=> t \in CV!Active
           /\ talk'[t].pc \in {"classified", "context", "asked"} <=> t \in CV!Active'
  <1>1. talk \in [Turns -> Turn] /\ talk' = [talk EXCEPT ![t] = talk'[t]]
    BY DEF TalkTypes, CV!TypeOK, Turn, TalkStep
  <1>2. \A u \in Turns : u # t => talk'[u] = talk[u]
    BY <1>1
  <1>3. \A u \in CV!Active : u = t
    <2>. SUFFICES ASSUME NEW u \in CV!Active, u # t PROVE FALSE
      OBVIOUS
    <2>1. u \in CV!Active'
      BY <1>2 DEF CV!Active
    <2>. QED  BY <2>1 DEF DialogueInv, OneAtATime
  <1>4. \A u \in CV!Active' : u = t
    <2>. SUFFICES ASSUME NEW u \in CV!Active', u # t PROVE FALSE
      OBVIOUS
    <2>1. u \in CV!Active
      BY <1>2 DEF CV!Active
    <2>. QED  BY <2>1 DEF DialogueInv, OneAtATime
  <1>5. \A u \in Turns : u # t => talk[u].pc \in {"new", "done"}
    BY <1>1, <1>3 DEF Turn, CV!Active
  <1>. QED  BY <1>2, <1>3, <1>4, <1>5 DEF CV!Active

\* A message that is pushed, and what it may cut off: a dialogue goes on.
LEMMA DialogueGoesOn ==
    ASSUME NEW old \in Seq(CV!Message), NEW new \in Seq(CV!Message), NEW m \in CV!Message,
           NEW gone \in Nat, gone = 0 \/ gone + 2 <= Len(old) + 1,
           Len(new) = Len(old) + 1 - gone, new[Len(new)] = m,
           \A i \in 1..(Len(new) - 1) : new[i] = old[i + gone],
           NEW W, NEW V, Dialogue(old, W),
           \/ m.role = "user" /\ m.of \in V /\ W \subseteq V
           \/ /\ m.role = "assistant" /\ W \subseteq V \cup {m.of}
              /\ QuestionLast(old, m.of)
              /\ \A i \in DOMAIN old : old[i].of = m.of => i = Len(old)
    PROVE  Dialogue(new, V)
  <1>1. Len(old) \in Nat /\ Len(new) \in Nat /\ DOMAIN old = 1..Len(old)
        /\ DOMAIN new = 1..Len(new)
    OBVIOUS
  <1>2. ASSUME NEW i \in 1..(Len(new) - 1)
        PROVE  IF new[i].role = "assistant"
               THEN i = 1 \/ (new[i - 1].role = "user" /\ new[i - 1].of = new[i].of)
               ELSE new[i].of \in V \/ (i < Len(new) /\ new[i + 1].of = new[i].of)
    <2>1. PICK j : j = i + gone
      OBVIOUS
    <2>a. PICK a : a = Len(old)
      OBVIOUS
    <2>b. PICK b : b = Len(new)
      OBVIOUS
    <2>c. a \in Nat /\ b \in Nat /\ b = a + 1 - gone /\ i \in 1..(b - 1)
      BY <1>1, <2>a, <2>b
    <2>d. /\ j \in 1..a /\ i < b
          /\ i # 1 => i - 1 \in 1..(b - 1) /\ (i - 1) + gone = j - 1 /\ j # 1
          /\ j < a => i + 1 \in 1..(b - 1) /\ (i + 1) + gone = j + 1
          /\ j = a => i + 1 = b
      BY ONLY <2>1, <2>c, gone \in Nat
    <2>2. /\ j \in 1..Len(old) /\ new[i] = old[j] /\ i < Len(new)
          /\ i # 1 => /\ i - 1 \in 1..(Len(new) - 1) /\ (i - 1) + gone = j - 1
                      /\ j # 1
          /\ j < Len(old) => i + 1 \in 1..(Len(new) - 1) /\ (i + 1) + gone = j + 1
          /\ j = Len(old) => i + 1 = Len(new)
      BY <2>1, <2>a, <2>b, <2>c, <2>d
    <2>3. CASE new[i].role = "assistant"
      <3>1. CASE i = 1
        BY <2>3, <3>1
      <3>2. CASE i # 1
        <4>1. new[i - 1] = old[j - 1] /\ j # 1
          <5>1. new[i - 1] = old[(i - 1) + gone]
            BY <2>2, <3>2
          <5>. QED  BY <2>2, <3>2, <5>1
        <4>2. old[j - 1].role = "user" /\ old[j - 1].of = old[j].of
          BY <1>1, <2>2, <2>3, <4>1 DEF Dialogue
        <4>. QED  BY <2>2, <2>3, <4>1, <4>2
      <3>. QED  BY <3>1, <3>2
    <2>4. CASE new[i].role # "assistant"
      <3>1. old[j].of \in W \/ (j < Len(old) /\ old[j + 1].of = old[j].of)
        BY <1>1, <2>2, <2>4 DEF Dialogue
      <3>2. CASE j < Len(old) /\ old[j + 1].of = old[j].of
        <4>1. new[i + 1] = old[j + 1]
          BY <2>2, <3>2
        <4>. QED  BY <2>2, <2>4, <3>2, <4>1
      <3>3. CASE old[j].of \in W
        <4>1. CASE old[j].of \in V
          BY <2>2, <2>4, <4>1
        <4>2. CASE old[j].of \notin V
          <5>1. m.role = "assistant" /\ old[j].of = m.of
            BY <3>3, <4>2
          <5>2. m.role # "user"
            BY <5>1
          <5>3. j = Len(old)
            BY <1>1, <2>2, <5>1, <5>2
          <5>4. new[i + 1] = m
            BY <2>2, <5>3
          <5>. QED  BY <2>2, <2>4, <5>1, <5>4
        <4>. QED  BY <4>1, <4>2
      <3>. QED  BY <3>1, <3>2, <3>3
    <2>. QED  BY <2>3, <2>4
  <1>3. Len(new) \in 1..Len(new) /\ Len(new) >= 1
    BY <1>1
  <1>4. IF m.role = "assistant"
        THEN Len(new) = 1 \/ (/\ new[Len(new) - 1].role = "user"
                              /\ new[Len(new) - 1].of = m.of)
        ELSE m.of \in V
    <2>1. CASE m.role = "user"
      BY <2>1
    <2>2. CASE m.role = "assistant"
      <3>1. QuestionLast(old, m.of)
        BY <2>2
      <3>2. CASE Len(new) # 1
        <4>1. Len(new) - 1 \in 1..(Len(new) - 1) /\ (Len(new) - 1) + gone = Len(old)
          BY <1>1, <1>3, <3>2
        <4>2. new[Len(new) - 1] = old[Len(old)]
          BY <4>1
        <4>. QED  BY <2>2, <3>1, <4>2 DEF QuestionLast
      <3>. QED  BY <2>2, <3>2
    <2>. QED  BY <2>1, <2>2
  <1>5. ASSUME NEW i \in DOMAIN new
        PROVE  IF new[i].role = "assistant"
               THEN i = 1 \/ (new[i - 1].role = "user" /\ new[i - 1].of = new[i].of)
               ELSE new[i].of \in V \/ (i < Len(new) /\ new[i + 1].of = new[i].of)
    <2>1. CASE i = Len(new)
      BY <1>4, <2>1
    <2>2. CASE i # Len(new)
      <3>1. i \in 1..(Len(new) - 1)
        BY <1>1, <2>2
      <3>. QED  BY <1>2, <3>1
    <2>. QED  BY <2>1, <2>2
  <1>. QED  BY ONLY <1>5 DEF Dialogue

\* What a turn that pushes a message leaves of its session, and of the others.
LEMMA PushesIn ==
    ASSUME TalkTypes, CV!WindowKept, NEW t \in Turns,
           NEW role \in {"user", "assistant"}, Pushes(t, role)
    PROVE  \E gone \in Nat, m \in CV!Message, s \in Sessions :
             /\ s = talk[t].session /\ m.role = role /\ m.of = t
             /\ \A r \in Sessions : r # s => working'[r].messages = working[r].messages
             /\ gone = 0 \/ gone + 2 <= Len(working[s].messages) + 1
             /\ working'[s].messages \in Seq(CV!Message)
             /\ Len(working'[s].messages) = Len(working[s].messages) + 1 - gone
             /\ working'[s].messages[Len(working'[s].messages)] = m
             /\ \A i \in 1..(Len(working'[s].messages) - 1) :
                   working'[s].messages[i] = working[s].messages[i + gone]
  <1>1. PICK size \in Sizes :
          CV!Push(talk[t].session, [role |-> role, of |-> t, size |-> size])
    BY DEF Pushes
  <1>2. PICK m : m = [role |-> role, of |-> t, size |-> size]
    OBVIOUS
  <1>3. PICK s : s = talk[t].session
    OBVIOUS
  <1>4. m \in CV!Message /\ m.role = role /\ m.of = t /\ s \in Sessions
    BY <1>2, <1>3 DEF CV!Message, Pushes
  <1>5. CV!Push(s, m)
    BY <1>1, <1>2, <1>3
  <1>6. PICK gone \in Nat :
             LET old == working[s].messages
                 new == working'[s].messages
             IN  /\ gone = 0 \/ gone + 2 <= Len(old) + 1
                 /\ working' = [working EXCEPT ![s] = working'[s]]
                 /\ new \in Seq(CV!Message)
                 /\ Len(new) = Len(old) + 1 - gone
                 /\ new[Len(new)] = m
                 /\ \A i \in 1..(Len(new) - 1) : new[i] = old[i + gone]
    BY <1>4, <1>5, PushIs
  <1>7. PICK entry : entry = working'[s]
    OBVIOUS
  <1>8. \A r \in Sessions : r # s => working'[r].messages = working[r].messages
    BY <1>6, <1>7 DEF TalkTypes, CV!TypeOK
  <1>9. /\ s = talk[t].session /\ m.role = role /\ m.of = t
        /\ \A r \in Sessions : r # s => working'[r].messages = working[r].messages
        /\ gone = 0 \/ gone + 2 <= Len(working[s].messages) + 1
        /\ working'[s].messages \in Seq(CV!Message)
        /\ Len(working'[s].messages) = Len(working[s].messages) + 1 - gone
        /\ working'[s].messages[Len(working'[s].messages)] = m
        /\ \A i \in 1..(Len(working'[s].messages) - 1) :
              working'[s].messages[i] = working[s].messages[i + gone]
    BY <1>3, <1>4, <1>6, <1>8
  <1>. QED  BY ONLY <1>4, <1>9, gone \in Nat, Zenon

\* Who the messages of a session are of.
LEMMA MessagesAre ==
    ASSUME TalkTypes, NEW s \in Sessions
    PROVE  /\ working[s].messages \in Seq(CV!Message)
           /\ DOMAIN working[s].messages = 1..Len(working[s].messages)
           /\ Len(working[s].messages) \in Nat
           /\ \A i \in DOMAIN working[s].messages : working[s].messages[i].of \in Turns
  <1>1. working[s].messages \in Seq(CV!Message)
    BY DEF TalkTypes, CV!TypeOK
  <1>2. PICK m : m = working[s].messages
    OBVIOUS
  <1>3. \A i \in DOMAIN m : m[i] \in CV!Message
    BY <1>1, <1>2
  <1>. QED  BY <1>1, <1>2, <1>3 DEF CV!Message

LEMMA DialogueNext ==
    ASSUME TalkTypes, CV!WindowKept, DialogueInv, [CV!Next]_talkVars, OneAtATime'
    PROVE  DialogueInv'
  <1>1. CASE UNCHANGED talkVars
    BY <1>1 DEF talkVars, DialogueInv, OneAtATime, OwnMessages, QuestionsLast, Contexts,
                Memories, Unanswered, CV!Active
  <1>2. CASE CV!Next
    <2>1. PICK t \in Turns :
             /\ TalkStep(t)
             /\ \/ /\ talk[t].pc = "new" /\ talk'[t].pc = "classified"
                   /\ talk'[t].context = << >> /\ UNCHANGED <<working, withdrawn>>
                \/ /\ talk[t].pc = "classified" /\ talk'[t].pc = "context"
                   /\ talk'[t].context \in {<< >>, working[talk[t].session].messages}
                   /\ talk'[t].session = talk[t].session
                   /\ UNCHANGED <<working, withdrawn>>
                \/ /\ talk[t].pc = "context" /\ talk'[t].pc = "asked"
                   /\ talk'[t].context = talk[t].context
                   /\ talk'[t].session = talk[t].session
                   /\ Pushes(t, "user") /\ UNCHANGED withdrawn
                \/ /\ talk[t].pc = "asked" /\ talk'[t].pc = "done"
                   /\ Pushes(t, "assistant") /\ UNCHANGED withdrawn
                \/ /\ talk[t].pc \in {"classified", "asked"} /\ talk'[t].pc = "done"
                   /\ withdrawn' = IF talk[t].pc = "asked" THEN withdrawn \cup {t}
                                   ELSE withdrawn
                   /\ UNCHANGED working
      BY <1>2, TurnSteps
    <2>2. t \in CV!Active \/ t \in CV!Active'
      BY <2>1 DEF CV!Active
    <2>3. /\ CV!Active \subseteq {t} /\ CV!Active' \subseteq {t}
          /\ \A u \in Turns : u # t => /\ talk'[u] = talk[u]
                                       /\ talk[u].pc \in {"new", "done"}
          /\ talk[t].pc \in {"classified", "context", "asked"} <=> t \in CV!Active
          /\ talk'[t].pc \in {"classified", "context", "asked"} <=> t \in CV!Active'
      BY <2>1, <2>2, SoleTurn
    <2>4. talk[t].pc # "new" => talk[t].session \in Sessions
      BY DEF TalkTypes
    \* Every other turn has ended before it has a message, and stays ended.
    <2>5. ASSUME NEW s \in Sessions, NEW i \in DOMAIN working[s].messages,
                 working[s].messages[i].of # t
          PROVE  talk'[working[s].messages[i].of].pc = "done"
      BY <2>3, <2>5, MessagesAre DEF DialogueInv, OwnMessages
    <2>6. ASSUME NEW s \in Sessions, NEW i \in DOMAIN working[s].messages,
                 working[s].messages[i].of = t
          PROVE  /\ talk[t].pc \in {"asked", "done"}
                 /\ talk[t].pc = "asked" =>
                       i = Len(working[s].messages) /\ talk[t].session = s
      BY <2>6 DEF DialogueInv, OwnMessages
    <2>7. ASSUME NEW u \in Turns, talk'[u].pc = "asked"
          PROVE  u = t
      BY <2>3, <2>7
    <2>8. /\ \A s \in Sessions : Dialogue(working[s].messages, withdrawn \cup CV!Active)
          /\ t \in CV!Active => /\ Dialogue(talk[t].context, withdrawn \cup CV!Active)
                                 /\ \A i \in DOMAIN talk[t].context : talk[t].context[i].of # t
          /\ talk[t].pc = "asked" => QuestionLast(working[talk[t].session].messages, t)
      BY DEF DialogueInv, Memories, Contexts, QuestionsLast, Unanswered
    <2>9. CASE /\ talk[t].pc = "new" /\ talk'[t].pc = "classified"
               /\ talk'[t].context = << >> /\ UNCHANGED <<working, withdrawn>>
      <3>1. CV!Active = {} /\ CV!Active' = {t}
        BY <2>3, <2>9
      <3>2. OwnMessages'
        BY <2>5, <2>6, <2>9 DEF OwnMessages
      <3>3. QuestionsLast'
        BY <2>7, <2>9 DEF QuestionsLast
      <3>4. Contexts'
        BY <2>9, <3>1 DEF Contexts, Dialogue
      <3>5. Memories'
        BY <2>8, <2>9, <3>1, DialogueMono DEF Memories, Unanswered
      <3>. QED  BY <3>2, <3>3, <3>4, <3>5 DEF DialogueInv
    <2>10. CASE /\ talk[t].pc = "classified" /\ talk'[t].pc = "context"
                /\ talk'[t].context \in {<< >>, working[talk[t].session].messages}
                /\ talk'[t].session = talk[t].session
                /\ UNCHANGED <<working, withdrawn>>
      <3>1. CV!Active = {t} /\ CV!Active' = {t} /\ talk[t].session \in Sessions
        BY <2>3, <2>4, <2>10
      <3>2. OwnMessages'
        BY <2>5, <2>6, <2>10 DEF OwnMessages
      <3>3. QuestionsLast'
        BY <2>7, <2>10 DEF QuestionsLast
      <3>4. /\ Dialogue(talk'[t].context, withdrawn \cup {t})
            /\ \A i \in DOMAIN talk'[t].context : talk'[t].context[i].of # t
        <4>1. CASE talk'[t].context = << >>
          BY <4>1 DEF Dialogue
        <4>2. CASE talk'[t].context = working[talk[t].session].messages
          BY <2>6, <2>8, <2>10, <3>1, <4>2
        <4>. QED  BY <2>10, <4>1, <4>2
      <3>5. Contexts'
        BY <2>10, <3>1, <3>4 DEF Contexts, Unanswered
      <3>6. Memories'
        BY <2>8, <2>10, <3>1 DEF Memories, Unanswered
      <3>. QED  BY <3>2, <3>3, <3>5, <3>6 DEF DialogueInv
    <2>11. CASE /\ talk[t].pc = "context" /\ talk'[t].pc = "asked"
                /\ talk'[t].context = talk[t].context
                /\ talk'[t].session = talk[t].session
                /\ Pushes(t, "user") /\ UNCHANGED withdrawn
      <3>1. CV!Active = {t} /\ CV!Active' = {t}
        BY <2>3, <2>11
      <3>2. PICK gone \in Nat, m \in CV!Message, s \in Sessions :
             /\ s = talk[t].session /\ m.role = "user" /\ m.of = t
             /\ \A r \in Sessions : r # s => working'[r].messages = working[r].messages
             /\ gone = 0 \/ gone + 2 <= Len(working[s].messages) + 1
             /\ working'[s].messages \in Seq(CV!Message)
             /\ Len(working'[s].messages) = Len(working[s].messages) + 1 - gone
             /\ working'[s].messages[Len(working'[s].messages)] = m
             /\ \A i \in 1..(Len(working'[s].messages) - 1) :
                   working'[s].messages[i] = working[s].messages[i + gone]
        BY <2>11, PushesIn
      <3>3. PICK new : new = working'[s].messages
        OBVIOUS
      <3>4. PICK old : old = working[s].messages
        OBVIOUS
      <3>5. old \in Seq(CV!Message) /\ DOMAIN old = 1..Len(old) /\ Len(old) \in Nat
            /\ new \in Seq(CV!Message) /\ DOMAIN new = 1..Len(new) /\ Len(new) \in Nat
            /\ Len(new) = Len(old) + 1 - gone /\ Len(new) >= 1
        <4>1. Len(old) \in Nat /\ Len(new) = Len(old) + 1 - gone
              /\ (gone = 0 \/ gone + 2 <= Len(old) + 1)
          BY <3>2, <3>3, <3>4, MessagesAre
        <4>2. Len(old) + 1 - gone >= 1
          BY <4>1
        <4>3. old \in Seq(CV!Message) /\ new \in Seq(CV!Message)
          BY <3>2, <3>3, <3>4, MessagesAre
        <4>4. DOMAIN old = 1..Len(old) /\ DOMAIN new = 1..Len(new) /\ Len(new) \in Nat
          BY <4>3
        <4>. QED  BY <4>1, <4>2, <4>3, <4>4
      <3>6. new[Len(new)] = m /\ \A i \in 1..(Len(new) - 1) : new[i] = old[i + gone]
        BY <3>2, <3>3, <3>4
      <3>7. ASSUME NEW i \in DOMAIN new, i # Len(new)
            PROVE  talk'[new[i].of].pc = "done"
        <4>1. i + gone \in DOMAIN old /\ new[i] = old[i + gone]
          BY <3>5, <3>6, <3>7
        <4>2. old[i + gone].of # t
          BY <2>6, <2>11, <3>4, <4>1
        <4>. QED  BY <2>5, <3>4, <4>1, <4>2
      <3>8. OwnMessages'
        <4>. SUFFICES ASSUME NEW r \in Sessions, NEW i \in DOMAIN working'[r].messages
                      PROVE  LET u == working'[r].messages[i].of IN
                             /\ talk'[u].pc \in {"asked", "done"}
                             /\ talk'[u].pc = "asked" =>
                                   i = Len(working'[r].messages) /\ talk'[u].session = r
          BY DEF OwnMessages
        <4>1. CASE r = s
          <5>1. CASE i = Len(new)
            BY <2>11, <3>2, <3>3, <3>6, <4>1, <5>1
          <5>2. CASE i # Len(new)
            BY <3>3, <3>7, <4>1, <5>2
          <5>. QED  BY <5>1, <5>2
        <4>2. CASE r # s
          <5>1. working'[r].messages = working[r].messages
            BY <3>2, <4>2
          <5>2. working[r].messages[i].of # t
            BY <2>6, <2>11, <5>1
          <5>. QED  BY <2>5, <5>1, <5>2
        <4>. QED  BY <4>1, <4>2
      <3>9. QuestionsLast'
        <4>1. QuestionLast(new, t)
          BY <3>2, <3>5, <3>6 DEF QuestionLast
        <4>. QED  BY <2>7, <2>11, <3>2, <3>3, <4>1 DEF QuestionsLast
      <3>10. Contexts'
        BY <2>8, <2>11, <3>1 DEF Contexts, Unanswered
      <3>11. Memories'
        <4>1. t \in withdrawn \cup {t} /\ Dialogue(old, withdrawn \cup {t})
          BY <2>8, <3>1, <3>4
        <4>2. gone = 0 \/ gone + 2 <= Len(old) + 1
          BY <3>2, <3>4
        <4>3. Dialogue(new, withdrawn \cup {t})
          <5>1. PICK W : W = withdrawn \cup {t}
            OBVIOUS
          <5>2. Dialogue(old, W) /\ m.role = "user" /\ m.of \in W /\ W \subseteq W
            BY <3>2, <4>1, <5>1
          <5>3. Dialogue(new, W)
            BY ONLY <3>5, <3>6, <4>2, <5>2, DialogueGoesOn, m \in CV!Message, gone \in Nat
          <5>. QED  BY <5>1, <5>3
        <4>4. \A r \in Sessions : Dialogue(working'[r].messages, withdrawn \cup {t})
          BY <2>8, <3>1, <3>2, <3>3, <4>3
        <4>. QED  BY <2>11, <3>1, <4>4 DEF Memories, Unanswered
      <3>. QED  BY <3>8, <3>9, <3>10, <3>11 DEF DialogueInv
    <2>12. CASE /\ talk[t].pc = "asked" /\ talk'[t].pc = "done"
                /\ Pushes(t, "assistant") /\ UNCHANGED withdrawn
      <3>1. CV!Active = {t} /\ CV!Active' = {}
        BY <2>3, <2>12
      <3>2. PICK gone \in Nat, m \in CV!Message, s \in Sessions :
             /\ s = talk[t].session /\ m.role = "assistant" /\ m.of = t
             /\ \A r \in Sessions : r # s => working'[r].messages = working[r].messages
             /\ gone = 0 \/ gone + 2 <= Len(working[s].messages) + 1
             /\ working'[s].messages \in Seq(CV!Message)
             /\ Len(working'[s].messages) = Len(working[s].messages) + 1 - gone
             /\ working'[s].messages[Len(working'[s].messages)] = m
             /\ \A i \in 1..(Len(working'[s].messages) - 1) :
                   working'[s].messages[i] = working[s].messages[i + gone]
        BY <2>12, PushesIn
      <3>3. PICK new : new = working'[s].messages
        OBVIOUS
      <3>4. PICK old : old = working[s].messages
        OBVIOUS
      <3>5. old \in Seq(CV!Message) /\ DOMAIN old = 1..Len(old) /\ Len(old) \in Nat
            /\ new \in Seq(CV!Message) /\ DOMAIN new = 1..Len(new) /\ Len(new) \in Nat
            /\ Len(new) = Len(old) + 1 - gone
        BY <3>2, <3>3, <3>4, MessagesAre
      <3>6. new[Len(new)] = m /\ \A i \in 1..(Len(new) - 1) : new[i] = old[i + gone]
        BY <3>2, <3>3, <3>4
      \* All turns that have a message have ended.
      <3>7. ASSUME NEW r \in Sessions, NEW i \in DOMAIN working[r].messages
            PROVE  talk'[working[r].messages[i].of].pc = "done"
        BY <2>5, <2>12
      <3>8. OwnMessages'
        <4>. SUFFICES ASSUME NEW r \in Sessions, NEW i \in DOMAIN working'[r].messages
                      PROVE  talk'[working'[r].messages[i].of].pc = "done"
          BY DEF OwnMessages
        <4>1. CASE r = s
          <5>1. CASE i = Len(new)
            BY <2>12, <3>2, <3>3, <3>6, <4>1, <5>1
          <5>2. CASE i # Len(new)
            <6>a. i \in DOMAIN new
              BY <3>3, <4>1
            <6>1. i + gone \in DOMAIN old /\ new[i] = old[i + gone]
              BY <3>5, <3>6, <5>2, <6>a
            <6>. QED  BY <3>3, <3>4, <3>7, <4>1, <6>1
          <5>. QED  BY <5>1, <5>2
        <4>2. CASE r # s
          BY <3>2, <3>7, <4>2
        <4>. QED  BY <4>1, <4>2
      <3>9. QuestionsLast'
        BY <2>7, <2>12 DEF QuestionsLast
      <3>10. Contexts'
        BY <3>1 DEF Contexts
      <3>11. Memories'
        <4>1. Dialogue(old, withdrawn \cup {t}) /\ QuestionLast(old, t)
          BY <2>8, <2>12, <3>1, <3>2, <3>4
        <4>2. gone = 0 \/ gone + 2 <= Len(old) + 1
          BY <3>2, <3>4
        <4>3. \A i \in DOMAIN old : old[i].of = t => i = Len(old)
          BY <2>6, <2>12, <3>4
        <4>4. Dialogue(new, withdrawn)
          <5>1. PICK W : W = withdrawn \cup {t}
            OBVIOUS
          <5>2. /\ Dialogue(old, W) /\ m.role = "assistant"
                /\ W \subseteq withdrawn \cup {m.of} /\ QuestionLast(old, m.of)
                /\ \A i \in DOMAIN old : old[i].of = m.of => i = Len(old)
            BY <3>2, <4>1, <4>3, <5>1
          <5>. QED  BY ONLY <3>5, <3>6, <4>2, <5>2, DialogueGoesOn, m \in CV!Message,
                            gone \in Nat
        <4>5. ASSUME NEW r \in Sessions, r # s
              PROVE  Dialogue(working[r].messages, withdrawn)
          <5>1. \A i \in DOMAIN working[r].messages : working[r].messages[i].of # t
            BY <2>6, <2>12, <3>2, <4>5
          <5>2. Dialogue(working[r].messages, withdrawn \cup {t})
            BY <2>8, <3>1
          <5>. QED  BY <5>1, <5>2, DialogueMono
        <4>6. \A r \in Sessions : Dialogue(working'[r].messages, withdrawn)
          BY <3>2, <3>3, <4>4, <4>5
        <4>7. withdrawn \cup CV!Active' = withdrawn
          BY <3>1
        <4>. QED  BY <2>12, <4>6, <4>7 DEF Memories, Unanswered
      <3>. QED  BY <3>8, <3>9, <3>10, <3>11 DEF DialogueInv
    <2>13. CASE /\ talk[t].pc \in {"classified", "asked"} /\ talk'[t].pc = "done"
                /\ withdrawn' = IF talk[t].pc = "asked" THEN withdrawn \cup {t}
                                ELSE withdrawn
                /\ UNCHANGED working
      <3>1. CV!Active = {t} /\ CV!Active' = {}
        BY <2>3, <2>13
      <3>2. OwnMessages'
        BY <2>5, <2>13 DEF OwnMessages
      <3>3. QuestionsLast'
        BY <2>7, <2>13 DEF QuestionsLast
      <3>4. Contexts'
        BY <3>1 DEF Contexts
      <3>5. ASSUME NEW s \in Sessions
            PROVE  Dialogue(working[s].messages, withdrawn')
        <4>1. \A i \in DOMAIN working[s].messages :
                 working[s].messages[i].of \in withdrawn \cup {t}
                    => working[s].messages[i].of \in withdrawn'
          BY <2>6, <2>13
        <4>2. Dialogue(working[s].messages, withdrawn \cup {t})
          BY <2>8, <3>1
        <4>. QED  BY <4>1, <4>2, DialogueMono
      <3>6. withdrawn' \cup CV!Active' = withdrawn'
        BY <3>1
      <3>7. Memories'
        BY <2>13, <3>5, <3>6 DEF Memories, Unanswered
      <3>. QED  BY <3>2, <3>3, <3>4, <3>7 DEF DialogueInv
    <2>. QED  BY <2>1, <2>9, <2>10, <2>11, <2>12, <2>13
  <1>. QED  BY <1>1, <1>2

LEMMA TalkOnly == [MCNext]_mcvars => [CV!Next]_talkVars
  BY DEF MCNext, mcvars, talkVars

\* "total_tokens: usize" (memory/src/working.rs:28): the total of a session is that
\* of its messages, and within the window but for the last two of them, however
\* many sessions and turns there are and whatever the sizes of the messages.
THEOREM WindowHolds == MCSpec => []WindowKept
  <1>1. MCInit => TalkTypes /\ CV!WindowKept
    BY TalkInit DEF MCInit
  <1>2. TalkTypes /\ CV!WindowKept /\ [MCNext]_mcvars => (TalkTypes /\ CV!WindowKept)'
    BY TalkNext, TalkOnly
  <1>3. CV!WindowKept => WindowKept
    BY DEF WindowKept
  <1>. QED  BY <1>1, <1>2, <1>3, PTL DEF MCSpec

\* As long as the turns of a session come one at a time, each reads a dialogue
\* and leaves one: an answer is next to its question, also when the window cuts
\* the oldest messages off, and a question without one is of a turn that failed
\* or is at it.
THEOREM SequentialDialogue == MCSpec => []SequentialContext
  <1>. DEFINE Inv == /\ TalkTypes /\ CV!WindowKept
                     /\ part = "one turn" => DialogueInv
  <1>1. MCInit => Inv
    BY TalkInit, DialogueInit DEF MCInit
  <1>2. Inv /\ [MCNext]_mcvars => Inv'
    <2>. SUFFICES ASSUME Inv, [MCNext]_mcvars PROVE Inv'
      OBVIOUS
    <2>1. TalkTypes' /\ CV!WindowKept'
      BY TalkNext, TalkOnly
    <2>2. ASSUME part' = "one turn" PROVE DialogueInv'
      <3>1. part = "one turn" /\ DialogueInv
        BY <2>2 DEF MCNext, mcvars
      <3>2. CASE OneAtATime'
        BY <3>1, <3>2, DialogueNext, TalkOnly
      <3>3. CASE UNCHANGED talkVars
        BY <3>1, <3>3 DEF talkVars, DialogueInv, OneAtATime, OwnMessages, QuestionsLast,
                          Contexts, Memories, Unanswered, CV!Active
      <3>. QED  BY <3>1, <3>2, <3>3 DEF MCNext, mcvars
    <2>. QED  BY <2>1, <2>2
  <1>3. Inv => SequentialContext
    BY DialogueSuffices DEF SequentialContext
  <1>. QED  BY <1>1, <1>2, <1>3, PTL DEF MCSpec

LEMMA TiersOnly == [MCNext]_mcvars => [Next]_vars
  BY DEF MCNext, mcvars

\* Every variable keeps its type: keys within the number of episodes and facts
\* (a place is kept for every episode that is yet to be stored), and the number
\* of rows to remove not below zero, although it is a difference in usize
\* (memory/src/episodic.rs:316).
THEOREM Types == ASSUME IsFiniteSet(Handlers) PROVE MCSpec => []TypesOK
  <1>. DEFINE Inv == RowsInv /\ EpisodeKeysInv /\ TalkTypes /\ CV!WindowKept
  <1>1. MCInit => Inv
    BY RowsInit, TalkInit DEF MCInit
  <1>2. Inv /\ [MCNext]_mcvars => Inv'
    BY RowsNext, TalkNext, TalkOnly, TiersOnly
  <1>3. Inv => TypesOK
    BY DEF RowsInv, TalkTypes, TypesOK
  <1>. QED  BY <1>1, <1>2, <1>3, PTL DEF MCSpec

\* "Prunes excess episodic entries to `max_episodes`" (memory/src/lib.rs:144): as
\* long as nobody deletes data, what a cycle removes is older than what it
\* leaves, and it leaves Keep, although episodes are stored between the count
\* and the delete, out of the order of their times.
THEOREM PruneKeeps ==
    ASSUME IsFiniteSet(Handlers) PROVE MCSpec => UndisturbedPruneKeepsNewest
  <1>. DEFINE Inv == RowsInv /\ EpisodeKeysInv /\ (part = "more" => CountedInv)
  <1>1. MCInit => Inv
    <2>1. Init => CountedInv
      BY DEF Init, IdleJob, CountedInv
    <2>. QED  BY <2>1, RowsInit DEF MCInit
  <1>2. Inv /\ [MCNext]_mcvars => Inv' /\ (part = "more" => PruneKeepsNewest)
    <2>. SUFFICES ASSUME Inv, [MCNext]_mcvars
                  PROVE  Inv' /\ (part = "more" => PruneKeepsNewest)
      OBVIOUS
    <2>1. RowsInv' /\ EpisodeKeysInv' /\ [Next]_vars
      BY RowsNext, TiersOnly
    <2>2. part' = part
      BY DEF MCNext, mcvars
    <2>3. ASSUME part = "more" PROVE CountedInv' /\ PruneKeepsNewest
      <3>1. CountedInv
        BY <2>3
      <3>2. \A d \in Deleters : deletion'[d] = None
        BY <2>3, <3>1 DEF MCNext, mcvars, vars, WithoutDeletions, CountedInv
      <3>. QED  BY <2>1, <3>1, <3>2, CountedNext
    <2>. QED  BY <2>1, <2>2, <2>3
  <1>. QED  BY <1>1, <1>2, PTL DEF MCSpec, UndisturbedPruneKeepsNewest
=============================================================================
