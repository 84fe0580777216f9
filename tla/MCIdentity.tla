----------------------------- MODULE MCIdentity -----------------------------
(* Instances of Identity for TLC.  The handles are those of the web chat:   *)
(* the candidates of a handle are itself, its lower case, and for an e-mail *)
(* address also the part before the @.                                      *)
EXTENDS Identity, TLC

CONSTANT ana  \* the lower case, and the local part, of the other handles

WebChatCandidates ==
    [h \in Handles |-> IF h = ana THEN <<ana>> ELSE <<h, ana>>]

\* The candidates of a candidate are candidates, and two candidates have one
\* in common.  It is so for handles with one channel prefix at most: of
\* "a:b:c", "b:c" is a candidate, and of this "c", which the first has not.
ASSUME NestedSpellings ==
    \A h \in Handles : \A c \in Range(Candidates[h]) :
        /\ Range(Candidates[c]) \subseteq Range(Candidates[h])
        /\ \A d \in Range(Candidates[h]) :
              Range(Candidates[c]) \cap Range(Candidates[d]) # {}

(* Two instances, of which one is chosen at the start: calls that overlap   *)
(* and serve one request without failures, or calls one at a time, which    *)
(* may fail half-way and serve all requests.                                *)
VARIABLE overlap

mcvars == <<vars, overlap>>

Overlapping == fails' = 0 /\ Cardinality({r \in Requests : requests'[r] # None}) <= 1
OneAtATime  == \A p, q \in Procs : pc[p] # "idle" /\ pc[q] # "idle" => p = q

MCInit == Init /\ overlap \in BOOLEAN
MCNext == /\ Next
          /\ IF overlap THEN Overlapping ELSE OneAtATime'
          /\ UNCHANGED overlap
MCSpec == MCInit /\ [][MCNext]_mcvars

\* One call at a time answers a request once, however often calls fail; and
\* calls none of which fails half-way keep the spellings of a handle together.
SequentialAnswers == ~overlap => /\ AnsweredOnce
                                 /\ fails = 0 => SpellingsAgree

\* One call at a time never takes a handle from its user.
SequentialHandlesKeepUsers ==
    [][~overlap => HandlesKeepUsers]_mcvars

Symmetry == Permutations(Procs) \cup Permutations(Users)
                \cup Permutations(Requests) \cup Permutations(Handles \ {ana})
=============================================================================
