------------------------------ MODULE MCMemory ------------------------------
(* The three tiers for TLC, in one of four parts that is chosen at the      *)
(* start: the stored tiers, where data is deleted, and statements fail and  *)
(* texts panic the extraction; or where none of this happens, and there are *)
(* more episodes and more cycles; or working memory, with turns of a        *)
(* session that overlap, or that do not.                                    *)
EXTENDS Memory, TLC

CONSTANTS FewEpisodes, EarlyTime,  \* bounds of the part with deletions
          Sessions, Turns, Sizes, MaxTokens

VARIABLES part, working, talk, withdrawn

talkVars == <<working, talk, withdrawn>>
mcvars   == <<vars, part, talkVars>>

CV == INSTANCE Conversation WITH turn <- talk

ASSUME ConversationFits == CV!ConversationAssumption

WithDeletions ==
    /\ nextEpisode' + Cardinality({h \in Handlers : turn'[h] # NoEntry})
         <= FewEpisodes + 1
    /\ now' <= EarlyTime
WithoutDeletions ==
    /\ fails' = 0
    /\ \A d \in Deleters : deletion'[d] = None
    /\ \A h \in Handlers : turn'[h] # NoEntry => turn'[h].fact \notin Splits

OneAtATime == \A t, u \in CV!Active : t = u

MCInit == /\ Init /\ CV!Init
          /\ part \in {"deletions", "more", "turns", "one turn"}
MCNext == /\ \/ part = "deletions" /\ Next /\ WithDeletions /\ UNCHANGED talkVars
             \/ part = "more" /\ Next /\ WithoutDeletions /\ UNCHANGED talkVars
             \/ part = "turns" /\ CV!Next /\ UNCHANGED vars
             \/ part = "one turn" /\ CV!Next /\ UNCHANGED vars /\ OneAtATime'
          /\ UNCHANGED part
MCSpec == MCInit /\ [][MCNext]_mcvars

\* Every variable of the three tiers keeps its type.
TypesOK == TypeOK /\ CV!TypeOK

\* As long as nobody deletes data, what prune removes is older than what it
\* leaves, although episodes are stored between its count and its delete.
UndisturbedPruneKeepsNewest ==
    [][part = "more" => PruneKeepsNewest]_mcvars

\* The window of a session holds, however turns of it overlap.
WindowKept == CV!WindowKept

\* Turns of a session that do not overlap leave a dialogue, and read one.
SequentialContext == part = "one turn" => CV!ContextIsDialogue

\* Handlers are interchangeable, and so are users and facts.
Symmetry == Permutations(Handlers) \cup Permutations(Users)
                \cup Permutations(Facts)
=============================================================================
