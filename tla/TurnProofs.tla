----------------------------- MODULE TurnProofs -----------------------------
(***************************************************************************)
(* Proofs about the turn of the agent: what it hands over has been          *)
(* verified; every turn is one of AgentTurn; and its workers are those of   *)
(* a learned rule that is earned, or take tasks of the complexity.  Last,   *)
(* the types of all that the agent consists of.                             *)
(***************************************************************************)
EXTENDS AgentProofs, Sums

-----------------------------------------------------------------------------
(* How often tools ran.                                                    *)

Entries == STRING \X Outcomes
NotBlocked(tr) == {i \in DOMAIN tr : tr[i][2] # "blocked"}

LEMMA NotBlockedFinite ==
    ASSUME NEW S, NEW s \in Seq(S)
    PROVE  IsFiniteSet(NotBlocked(s)) /\ RanIn(s) = Cardinality(NotBlocked(s)) /\ RanIn(s) \in Nat
  <1>1. IsFiniteSet(1..Len(s)) /\ DOMAIN s = 1..Len(s)
    BY FS_Interval
  <1>2. IsFiniteSet(NotBlocked(s))
    BY <1>1, FS_Subset DEF NotBlocked
  <1>. QED  BY <1>2, FS_CardinalityType DEF RanIn, NotBlocked

\* What ran in two traces, one after the other.
LEMMA RanConcat ==
    ASSUME NEW S, NEW s \in Seq(S), NEW t \in Seq(S)
    PROVE  RanIn(s \o t) = RanIn(s) + RanIn(t)
  <1>. DEFINE n == Len(s)
              A == NotBlocked(s)
              B == NotBlocked(t)
              f == [i \in B |-> n + i]
              C == {n + i : i \in B}
  <1>1. n \in Nat /\ DOMAIN s = 1..n /\ Len(t) \in Nat /\ DOMAIN t = 1..Len(t)
        /\ s \o t \in Seq(S) /\ DOMAIN (s \o t) = 1..(n + Len(t))
    OBVIOUS
  <1>2. /\ \A i \in 1..n : (s \o t)[i] = s[i]
        /\ \A i \in 1..Len(t) : (s \o t)[n + i] = t[i]
    OBVIOUS
  <1>. HIDE DEF n
  <1>3. A \subseteq 1..n /\ B \subseteq 1..Len(t)
    BY <1>1 DEF NotBlocked
  <1>4. NotBlocked(s \o t) = A \cup C
    <2>1. ASSUME NEW i \in NotBlocked(s \o t) PROVE i \in A \cup C
      <3>1. i \in 1..(n + Len(t)) /\ (s \o t)[i][2] # "blocked"
        BY <1>1 DEF NotBlocked
      <3>2. CASE i <= n
        <4>1. i \in 1..n
          BY <1>1, <3>1, <3>2
        <4>. QED  BY <1>1, <1>2, <3>1, <4>1 DEF NotBlocked
      <3>3. CASE ~ (i <= n)
        <4>1. i - n \in 1..Len(t) /\ n + (i - n) = i
          BY <1>1, <3>1, <3>3
        <4>2. i - n \in B
          BY <1>1, <1>2, <3>1, <4>1 DEF NotBlocked
        <4>. QED  BY <4>1, <4>2
      <3>. QED  BY <3>2, <3>3
    <2>2. ASSUME NEW i \in A PROVE i \in NotBlocked(s \o t)
      <3>1. i \in 1..n /\ s[i][2] # "blocked" /\ i \in 1..(n + Len(t))
        BY <1>1 DEF NotBlocked
      <3>. QED  BY <1>1, <1>2, <3>1 DEF NotBlocked
    <2>3. ASSUME NEW i \in B PROVE n + i \in NotBlocked(s \o t)
      <3>1. i \in 1..Len(t) /\ t[i][2] # "blocked" /\ n + i \in 1..(n + Len(t))
        BY <1>1 DEF NotBlocked
      <3>. QED  BY <1>1, <1>2, <3>1 DEF NotBlocked
    <2>. QED  BY <2>1, <2>2, <2>3
  <1>5. IsFiniteSet(A) /\ IsFiniteSet(B)
    BY NotBlockedFinite
  <1>6. IsFiniteSet(C) /\ Cardinality(C) = Cardinality(B)
    <2>1. f \in Bijection(B, C)
      <3>1. \A i, j \in B : f[i] = f[j] => i = j
        BY <1>1, <1>3
      <3>2. f \in Surjection(B, C)
        BY DEF Surjection
      <3>. QED  BY <3>1, <3>2 DEF Bijection, Injection, IsInjective, Surjection
    <2>2. ExistsBijection(B, C)
      BY <2>1 DEF ExistsBijection
    <2>. HIDE DEF B, C
    <2>. QED  BY <1>5, <2>2, FS_Bijection
  <1>7. A \cap C = {}
    BY <1>1, <1>3
  <1>8. Cardinality(A \cup C) = Cardinality(A) + Cardinality(B)
    <2>. HIDE DEF A, B, C
    <2>1. Cardinality(A \cup C) = Cardinality(A) + Cardinality(C) - Cardinality(A \cap C)
      BY <1>5, <1>6, FS_Union
    <2>2. Cardinality(A) \in Nat /\ Cardinality(C) \in Nat /\ Cardinality(A \cap C) = 0
      BY <1>5, <1>6, <1>7, FS_CardinalityType, FS_EmptySet
    <2>. QED  BY <1>6, <2>1, <2>2
  <1>9. RanIn(s \o t) = Cardinality(NotBlocked(s \o t)) /\ RanIn(s) = Cardinality(A)
        /\ RanIn(t) = Cardinality(B)
    BY <1>1, NotBlockedFinite
  <1>. QED  BY ONLY <1>4, <1>8, <1>9

\* One more run of one call.
LEMMA OneMoreRun ==
    \A f, e, c : /\ IsFiniteSet(Calls) /\ f \in [Calls -> Nat] /\ c \in Calls
                 /\ e \in [Calls -> Nat] /\ e[c] = f[c] + 1
                 /\ \A k \in Calls : k # c => e[k] = f[k]
                 => SumFunction(e) = SumFunction(f) + 1
  BY SumOneMore

\* Of the first k calls of a batch, those that were not blocked, and those of
\* one call.
Firsts(outs, k)         == {i \in 1..k : outs[i] # "blocked"}
FirstsOf(b, outs, k, c) == {i \in 1..k : b[i] = c /\ outs[i] # "blocked"}

\* The sum of the runs of all calls grows by those that were not blocked.
LEMMA SumOfRan ==
    ASSUME IsFiniteSet(Calls), NEW r \in [Calls -> Nat], NEW b \in Seq(Calls),
           NEW outs \in [DOMAIN b -> Outcomes],
           NEW e, e = [c \in Calls |-> r[c] + Ran(b, outs, c)]
    PROVE  /\ e \in [Calls -> Nat]
           /\ SumFunction(e) = SumFunction(r) + Cardinality(Firsts(outs, Len(b)))
  <1>. DEFINE F(k) == [c \in Calls |-> r[c] + Cardinality(FirstsOf(b, outs, k, c))]
              N == {k \in Nat : /\ k <= Len(b)
                                /\ SumFunction(F(k)) #
                                      SumFunction(r) + Cardinality(Firsts(outs, k))}
  <1>1. Len(b) \in Nat /\ DOMAIN b = 1..Len(b) /\ \A i \in 1..Len(b) : b[i] \in Calls
    OBVIOUS
  <1>2. ASSUME NEW k \in Nat, NEW c
        PROVE  /\ IsFiniteSet(FirstsOf(b, outs, k, c)) /\ IsFiniteSet(Firsts(outs, k))
               /\ Cardinality(FirstsOf(b, outs, k, c)) \in Nat
               /\ Cardinality(Firsts(outs, k)) \in Nat
    <2>1. IsFiniteSet(1..k)
      BY FS_Interval
    <2>2. FirstsOf(b, outs, k, c) \subseteq 1..k /\ Firsts(outs, k) \subseteq 1..k
      BY DEF FirstsOf, Firsts
    <2>. QED  BY <2>1, <2>2, FS_Subset, FS_CardinalityType
  <1>3. \A k \in Nat : F(k) \in [Calls -> Nat]
    <2>. SUFFICES ASSUME NEW k \in Nat, NEW c \in Calls
                  PROVE  r[c] + Cardinality(FirstsOf(b, outs, k, c)) \in Nat
      OBVIOUS
    <2>1. r[c] \in Nat /\ Cardinality(FirstsOf(b, outs, k, c)) \in Nat
      BY <1>2
    <2>. QED  BY <2>1
  <1>4. ASSUME NEW k \in N PROVE FALSE
    <2>1. PICK m \in N : \A j \in N : m <= j
      <3>1. N \in SUBSET Nat /\ N # {}
        BY <1>4
      <3>. HIDE DEF N
      <3>. QED  BY <3>1, LeastIn
    <2>2. m # 0
      <3>1. \A c : FirstsOf(b, outs, 0, c) = {}
        BY DEF FirstsOf
      <3>2. Firsts(outs, 0) = {} /\ Cardinality({}) = 0
        BY FS_EmptySet DEF Firsts
      <3>3. \A c \in Calls : F(0)[c] = r[c]
        <4>. SUFFICES ASSUME NEW c \in Calls PROVE r[c] + Cardinality(FirstsOf(b, outs, 0, c)) = r[c]
          OBVIOUS
        <4>1. PICK p : p = r[c]
          OBVIOUS
        <4>2. p \in Nat /\ Cardinality(FirstsOf(b, outs, 0, c)) = 0
          BY <3>1, <3>2, <4>1
        <4>3. p + 0 = p
          BY ONLY <4>2
        <4>. QED  BY ONLY <4>1, <4>2, <4>3
      <3>4. PICK z : z = F(0)
        OBVIOUS
      <3>5. z = r
        <4>1. z \in [Calls -> Nat]
          BY <1>3, <3>4
        <4>2. \A c \in Calls : z[c] = r[c]
          BY <3>3, <3>4
        <4>. QED  BY ONLY <4>1, <4>2, r \in [Calls -> Nat]
      <3>6. SumFunction(z) = SumFunction(r) + Cardinality(Firsts(outs, 0))
        <4>1. PICK x : x = SumFunction(r)
          OBVIOUS
        <4>2. x \in Nat
          BY <4>1, SumNat
        <4>3. x = x + 0
          BY ONLY <4>2
        <4>. QED  BY ONLY <3>2, <3>5, <4>1, <4>3
      <3>7. 0 \notin N
        BY <3>4, <3>6
      <3>. HIDE DEF N
      <3>. QED  BY <2>1, <3>7
    <2>3. PICK j : j = m - 1
      OBVIOUS
    <2>4. j \in Nat /\ m = j + 1 /\ m \in 1..Len(b) /\ j <= Len(b) /\ m \in Nat
      BY <1>1, <2>1, <2>2, <2>3
    <2>5. SumFunction(F(j)) = SumFunction(r) + Cardinality(Firsts(outs, j))
      <3>1. j \notin N
        <4>1. ~ (m <= j)
          BY ONLY <2>4
        <4>. HIDE DEF N
        <4>. QED  BY <2>1, <4>1
      <3>. QED  BY <2>4, <3>1
    <2>6. \A i : i \in 1..m <=> (i \in 1..j \/ i = m)
      BY <2>4
    <2>7. m \notin 1..j
      BY <2>4
    <2>8. CASE outs[m] = "blocked"
      <3>1. Firsts(outs, m) = Firsts(outs, j)
        BY <2>6, <2>8 DEF Firsts
      <3>2. \A c : FirstsOf(b, outs, m, c) = FirstsOf(b, outs, j, c)
        BY <2>6, <2>8 DEF FirstsOf
      <3>3. F(m) = F(j)
        BY <3>2
      <3>. QED  BY <2>1, <2>5, <3>1, <3>3
    <2>9. CASE outs[m] # "blocked"
      <3>1. Firsts(outs, m) = Firsts(outs, j) \cup {m} /\ m \notin Firsts(outs, j)
        BY <2>6, <2>7, <2>9 DEF Firsts
      <3>2. Cardinality(Firsts(outs, m)) = Cardinality(Firsts(outs, j)) + 1
        BY <1>2, <2>4, <3>1, FS_AddElement
      <3>3. /\ FirstsOf(b, outs, m, b[m]) = FirstsOf(b, outs, j, b[m]) \cup {m}
            /\ m \notin FirstsOf(b, outs, j, b[m])
        BY <2>6, <2>7, <2>9 DEF FirstsOf
      <3>4. Cardinality(FirstsOf(b, outs, m, b[m])) = Cardinality(FirstsOf(b, outs, j, b[m])) + 1
        BY <1>2, <2>4, <3>3, FS_AddElement
      <3>5. \A c : c # b[m] => FirstsOf(b, outs, m, c) = FirstsOf(b, outs, j, c)
        BY <2>6 DEF FirstsOf
      <3>6. PICK x : x = F(j)
        OBVIOUS
      <3>7. PICK y : y = F(m)
        OBVIOUS
      <3>8. x \in [Calls -> Nat] /\ y \in [Calls -> Nat] /\ b[m] \in Calls
        BY <1>1, <1>3, <2>4, <3>6, <3>7
      <3>9. PICK d : d = b[m]
        OBVIOUS
      <3>10. d \in Calls /\ y[d] = x[d] + 1
        <4>1. PICK p : p = r[d]
          OBVIOUS
        <4>2. PICK q : q = Cardinality(FirstsOf(b, outs, j, d))
          OBVIOUS
        <4>3. x[d] = p + q
          BY <3>6, <3>8, <3>9, <4>1, <4>2
        <4>4. y[d] = p + (q + 1)
          BY <3>4, <3>7, <3>8, <3>9, <4>1, <4>2
        <4>5. p \in Nat /\ q \in Nat
          BY <1>2, <2>4, <3>8, <3>9, <4>1, <4>2
        <4>. QED  BY ONLY <3>8, <3>9, <4>3, <4>4, <4>5
      <3>11. \A c \in Calls : c # d => y[c] = x[c]
        BY <3>5, <3>6, <3>7, <3>9
      <3>12. SumFunction(y) = SumFunction(x) + 1
        <4>. HIDE DEF F
        <4>1. \A h \in Calls : h # d => y[h] = x[h]
          BY ONLY <3>11
        <4>2. /\ IsFiniteSet(Calls) /\ x \in [Calls -> Nat] /\ d \in Calls
              /\ y \in [Calls -> Nat] /\ y[d] = x[d] + 1
          BY <3>8, <3>10
        <4>. QED  BY ONLY <4>1, <4>2, OneMoreRun
      <3>13. PICK u, v : u = SumFunction(r) /\ v = Cardinality(Firsts(outs, j))
        OBVIOUS
      <3>14. u \in Nat /\ v \in Nat
        BY <1>2, <2>4, <3>13, SumNat
      <3>15. SumFunction(y) = u + v + 1 /\ u + v + 1 = u + (v + 1)
        BY ONLY <2>5, <3>6, <3>12, <3>13, <3>14
      <3>16. SumFunction(y) = SumFunction(r) + Cardinality(Firsts(outs, m))
        BY ONLY <3>2, <3>13, <3>15
      <3>. QED  BY <2>1, <3>7, <3>16
    <2>. QED  BY <2>8, <2>9
  <1>5. SumFunction(F(Len(b))) = SumFunction(r) + Cardinality(Firsts(outs, Len(b)))
    BY <1>1, <1>4
  <1>6. \A c \in Calls : Ran(b, outs, c) = Cardinality(FirstsOf(b, outs, Len(b), c))
    BY <1>1 DEF Ran, FirstsOf
  <1>7. e = F(Len(b))
    BY <1>6
  <1>. QED  BY <1>1, <1>3, <1>5, <1>7

\* A loop runs a call once at most, and none that it has made before.
LEMMA RanOnce ==
    ASSUME NEW seen, NEW b \in Seq(Calls), NEW outs \in BatchOutcomes(b, seen), NEW c
    PROVE  /\ Ran(b, outs, c) \in {0, 1}
           /\ c \in seen => Ran(b, outs, c) = 0
           /\ c \notin Range(b) => Ran(b, outs, c) = 0
  <1>. DEFINE R == {i \in DOMAIN b : b[i] = c /\ outs[i] # "blocked"}
  <1>1. DOMAIN b = 1..Len(b) /\ Len(b) \in Nat
    OBVIOUS
  <1>2. \A i \in DOMAIN b : b[i] \in Made(b, i, seen) => outs[i] = "blocked"
    BY DEF BatchOutcomes, CallOutcomes
  <1>3. c \in seen => R = {}
    BY <1>2 DEF Made
  <1>4. c \notin Range(b) => R = {}
    BY DEF Range
  <1>5. ASSUME NEW i \in R, NEW j \in R PROVE i = j
    <2>. SUFFICES ASSUME NEW m \in R, NEW n \in R, m < n PROVE FALSE
      BY <1>1
    <2>1. m \in 1..(n - 1)
      BY <1>1
    <2>2. b[n] \in Made(b, n, seen)
      BY <2>1 DEF Made
    <2>. QED  BY <1>2, <2>2
  <1>6. R = {} \/ \E i : R = {i}
    BY <1>5
  <1>7. Cardinality(R) \in {0, 1} /\ (R = {} => Cardinality(R) = 0)
    BY <1>6, FS_EmptySet, FS_Singleton
  <1>8. Ran(b, outs, c) = Cardinality(R)
    BY DEF Ran
  <1>. QED  BY <1>3, <1>4, <1>7, <1>8
-----------------------------------------------------------------------------
(* What a turn keeps.                                                      *)

\* A loop that has made a round has asked for tools; only answers and cures
\* that rest on tools need any; and no tool that ran is missing.
Kept ==
    /\ loop.rounds = 0 <=> loop.trace = << >>
    /\ pc \notin Loops => loop = NoLoop
    /\ response.open \/ flags.remedied => trace # << >>
    /\ ~lost => RanIn(trace) + RanIn(loop.trace) = SumFunction(runs)

\* What the checks of a turn have established, by the stage it has reached.
AtStage ==
    /\ pc \in {"remediation", "recheck"} => ~response.open
    /\ flags.synthesized => pc \in {"recheck", "done"} /\ ~response.open
    /\ pc \in {"scan", "done"} /\ response.open =>
           flags.verified /\ ~report.grounded /\ ~flags.synthesized
    /\ pc = "remediation" /\ candid => ~report.grounded
    /\ pc = "scan" /\ candid /\ Cured => fresh
    /\ flags.cured => pc \in {"recheck", "done"}
    /\ flags.cured /\ candid => fresh
    /\ checked <= Len(trace)
    /\ pc \in {"remediation", "scan", "recheck", "done"} => checked = Len(trace)

\* The loops that are over, at most, and the one that runs.
Spent == CASE pc \in {"classify", "route", "initial"} -> 0
           [] pc \in {"check", "scan", "recheck", "done"} -> 2 + passes
           [] pc = "remediation" -> 1 + passes
           [] OTHER -> 1
InLoop(c) == IF c \in loop.seen THEN 1 ELSE 0
RunsInv == \A c \in Calls : runs[c] <= Spent + InLoop(c)

TurnInv == TypeOK /\ Kept /\ AtStage /\ RunsInv

FlagNames == {"verified", "remedied", "cured", "synthesized", "reverified"}

LEMMA FlagSet ==
    /\ DOMAIN NoFlags = FlagNames
    /\ NoFlags \in [FlagNames -> BOOLEAN]
  <1>1. DOMAIN NoFlags = FlagNames
    BY DEF NoFlags, FlagNames
  <1>2. NoFlags = [f \in FlagNames |-> NoFlags[f]]
    BY <1>1 DEF NoFlags
  <1>3. \A f \in FlagNames : NoFlags[f] \in BOOLEAN
    <2>1. NoFlags["verified"] = FALSE /\ NoFlags["remedied"] = FALSE
      BY DEF NoFlags
    <2>2. /\ NoFlags["cured"] = FALSE /\ NoFlags["synthesized"] = FALSE
          /\ NoFlags["reverified"] = FALSE
      BY DEF NoFlags
    <2>. QED  BY <2>1, <2>2, Zenon DEF FlagNames
  <1>4. [f \in FlagNames |-> NoFlags[f]] \in [FlagNames -> BOOLEAN]
    BY <1>3
  <1>. QED  BY ONLY <1>1, <1>2, <1>4

LEMMA Rounds ==
    /\ MaxToolRounds \in Nat \ {0} /\ MaxPasses \in Nat
    /\ \A b \in Batches : b \in Seq(Calls) /\ b # << >>
    /\ \A c \in Calls : c.tool \in STRING
  BY AgentAssumption DEF OrchestratorAssumption

\* Initially no tool has run.
LEMMA TurnInit == ASSUME IsFiniteSet(Calls), Init PROVE TurnInv
  <1>1. /\ loop = [seen |-> {}, rounds |-> 0, trace |-> << >>] /\ trace = << >>
        /\ response = [text |-> FALSE, open |-> FALSE]
        /\ report = [grounded |-> FALSE, retry |-> FALSE]
        /\ flags = [verified |-> FALSE, remedied |-> FALSE, cured |-> FALSE,
                    synthesized |-> FALSE, reverified |-> FALSE]
        /\ pc = "classify" /\ passes = 0 /\ runs = [c \in Calls |-> 0] /\ checked = 0
        /\ ~lost /\ candid /\ ~fresh
    BY DEF Init, NoLoop, NoResponse, NoReport, NoFlags
  <1>2. TypeOK
    <2>1. << >> \in Seq(STRING \X Outcomes)
      OBVIOUS
    <2>2. lost = FALSE /\ candid = TRUE /\ fresh = FALSE /\ drafts = {}
          /\ cfg \in Configs /\ route.memory = FALSE
      BY DEF Init, ToPrimary
    <2>3. flags \in [DOMAIN NoFlags -> BOOLEAN]
      BY FlagSet DEF Init
    <2>4. loop.seen \subseteq Calls /\ loop.rounds \in 0..MaxToolRounds
      BY <1>1, Rounds
    <2>5. passes \in 0..MaxPasses /\ runs \in [Calls -> Nat] /\ checked \in Nat
      BY <1>1, Rounds
    <2>6. response \in [text : BOOLEAN, open : BOOLEAN] /\ report \in Reports
      BY <1>1 DEF Reports
    <2>. QED  BY <1>1, <2>1, <2>2, <2>3, <2>4, <2>5, <2>6 DEF TypeOK
  <1>3. Kept
    <2>1. RanIn(<< >>) = 0
      <3>1. {i \in DOMAIN << >> : << >>[i][2] # "blocked"} = {}
        OBVIOUS
      <3>. QED  BY <3>1, FS_EmptySet DEF RanIn
    <2>2. SumFunction(runs) = 0
      BY <1>1, SumZero
    <2>3. RanIn(trace) + RanIn(loop.trace) = 0
      BY <1>1, <2>1
    <2>. QED  BY <1>1, <2>2, <2>3 DEF Kept, NoLoop
  <1>4. AtStage
    <2>1. Len(<< >>) = 0
      OBVIOUS
    <2>. QED  BY <1>1, <2>1 DEF AtStage, Cured
  <1>5. RunsInv
    BY <1>1 DEF RunsInv, Spent, InLoop
  <1>. QED  BY <1>2, <1>3, <1>4, <1>5 DEF TurnInv

\* Another round of the loop.
LEMMA TurnRound ==
    ASSUME IsFiniteSet(Calls), TurnInv, NEW b \in Batches,
           NEW outs \in BatchOutcomes(b, loop.seen), LoopRound(b, outs)
    PROVE  TurnInv'
  <1>. DEFINE t == [i \in DOMAIN b |-> <<b[i].tool, outs[i]>>]
  <1>1. b \in Seq(Calls) /\ b # << >> /\ Len(b) \in Nat \ {0} /\ DOMAIN b = 1..Len(b)
        /\ \A i \in 1..Len(b) : b[i] \in Calls /\ b[i].tool \in STRING
    <2>1. b \in Seq(Calls) /\ b # << >>
      BY Rounds
    <2>. QED  BY <2>1, Rounds
  <1>2. outs \in [DOMAIN b -> Outcomes]
    BY DEF BatchOutcomes
  <1>3. t \in Seq(Entries) /\ Len(t) = Len(b) /\ DOMAIN t = 1..Len(b)
        /\ \A i \in 1..Len(b) : t[i][2] = outs[i]
    BY <1>1, <1>2 DEF Entries
  <1>4. /\ loop'.seen = loop.seen \cup Range(b) /\ loop'.rounds = loop.rounds + 1
        /\ loop'.trace = loop.trace \o t
        /\ runs' = [c \in Calls |-> runs[c] + Ran(b, outs, c)]
        /\ pc \in Loops /\ loop.rounds < MaxToolRounds
        /\ UNCHANGED <<pipeline, trace, answer, checks, lost, candid, fresh, checked>>
    BY DEF LoopRound
  <1>. HIDE DEF t
  <1>5. TypeOK /\ loop.trace \in Seq(Entries) /\ trace \in Seq(Entries)
        /\ runs \in [Calls -> Nat] /\ loop.rounds \in 0..MaxToolRounds
    BY DEF TurnInv, TypeOK, Entries
  <1>6. loop'.trace \in Seq(Entries) /\ loop'.trace # << >>
    BY <1>1, <1>3, <1>4, <1>5
  <1>7. RanIn(t) = Cardinality(Firsts(outs, Len(b)))
    <2>1. NotBlocked(t) = Firsts(outs, Len(b))
      BY <1>3 DEF NotBlocked, Firsts
    <2>. QED  BY <1>3, <2>1, NotBlockedFinite
  <1>8. /\ runs' \in [Calls -> Nat]
        /\ SumFunction(runs') = SumFunction(runs) + RanIn(t)
    BY <1>1, <1>2, <1>4, <1>5, <1>7, SumOfRan
  <1>9. TypeOK'
    <2>1. Range(b) \subseteq Calls
      BY <1>1 DEF Range
    <2>2. loop'.rounds \in 0..MaxToolRounds
      BY <1>4, <1>5, Rounds
    <2>. QED  BY <1>4, <1>5, <1>6, <1>8, <2>1, <2>2
              DEF TypeOK, Entries, pipeline, answer, checks
  <1>10. Kept'
    <2>1. loop'.rounds # 0
      BY <1>4, <1>5
    <2>2. ~lost => RanIn(trace) + RanIn(loop'.trace) = SumFunction(runs')
      <3>1. RanIn(loop.trace \o t) = RanIn(loop.trace) + RanIn(t)
        BY <1>3, <1>5, RanConcat
      <3>2. PICK x, y, z : x = RanIn(trace) /\ y = RanIn(loop.trace) /\ z = RanIn(t)
        OBVIOUS
      <3>3. x \in Nat /\ y \in Nat /\ z \in Nat
        BY <1>3, <1>5, <3>2, NotBlockedFinite
      <3>4. x + (y + z) = (x + y) + z
        BY ONLY <3>3
      <3>5. ~lost => x + y = SumFunction(runs)
        BY <3>2 DEF TurnInv, Kept
      <3>. QED  BY ONLY <1>4, <1>8, <3>1, <3>2, <3>4, <3>5
    <2>. QED  BY <1>4, <1>6, <2>1, <2>2 DEF TurnInv, Kept, pipeline, answer, checks
  <1>11. AtStage'
    BY <1>4 DEF TurnInv, AtStage, Cured, pipeline, answer, checks
  <1>12. RunsInv'
    <2>. SUFFICES ASSUME NEW c \in Calls PROVE runs'[c] <= Spent' + InLoop(c)'
      BY DEF RunsInv
    <2>1. PICK x, y, k : x = runs[c] /\ y = Ran(b, outs, c) /\ k = Spent
      OBVIOUS
    <2>2. runs'[c] = x + y /\ Spent' = k
      BY <1>4, <2>1 DEF Spent, pipeline, checks
    <2>3. x \in Nat /\ y \in {0, 1} /\ (c \in loop.seen \/ c \notin Range(b) => y = 0)
      BY <1>1, <1>5, <2>1, RanOnce
    <2>4. k \in Nat
      BY <1>5, <2>1 DEF Spent, TypeOK
    <2>5. x <= k + InLoop(c)
      BY <2>1 DEF TurnInv, RunsInv
    <2>6. InLoop(c)' = IF c \in loop.seen \cup Range(b) THEN 1 ELSE 0
      BY <1>4 DEF InLoop
    <2>7. x + y <= k + InLoop(c)'
      BY ONLY <2>3, <2>4, <2>5, <2>6 DEF InLoop
    <2>. QED  BY ONLY <2>2, <2>7
  <1>. QED  BY <1>9, <1>10, <1>11, <1>12 DEF TurnInv

\* The runs are counted as long as what is spent grows with the loops.
LEMMA RunsKept ==
    ASSUME TurnInv, runs' = runs, passes' \in Nat,
           \/ loop' = loop /\ Spent <= Spent'
           \/ loop' = NoLoop /\ Spent + 1 <= Spent'
    PROVE  RunsInv'
  <1>. SUFFICES ASSUME NEW c \in Calls PROVE runs[c] <= Spent' + InLoop(c)'
    BY DEF RunsInv
  <1>1. PICK x, k, l : x = runs[c] /\ k = Spent /\ l = Spent'
    OBVIOUS
  <1>2. x \in Nat /\ k \in Nat /\ l \in Nat
    BY <1>1 DEF Spent, TurnInv, TypeOK
  <1>3. x <= k + InLoop(c) /\ InLoop(c) \in {0, 1}
    BY <1>1 DEF TurnInv, RunsInv, InLoop
  <1>4. CASE loop' = loop /\ k <= l
    <2>1. InLoop(c)' = InLoop(c)
      BY <1>4 DEF InLoop
    <2>2. x <= l + InLoop(c)'
      BY ONLY <1>2, <1>3, <1>4, <2>1
    <2>. QED  BY ONLY <1>1, <2>2
  <1>5. CASE loop' = NoLoop /\ k + 1 <= l
    <2>1. InLoop(c)' = 0
      BY <1>5 DEF InLoop, NoLoop
    <2>2. x <= l + InLoop(c)'
      BY ONLY <1>2, <1>3, <1>5, <2>1
    <2>. QED  BY ONLY <1>1, <2>2
  <1>. QED  BY <1>1, <1>4, <1>5

\* What a loop that answers leaves.
LEMMA LoopLeaves ==
    ASSUME TurnInv, NEW text \in BOOLEAN, NEW open \in BOOLEAN, LoopAnswers(text, open),
           UNCHANGED <<runs, lost, flags>>
    PROVE  /\ Kept' /\ trace' \in Seq(Entries) /\ Len(trace) \in Nat /\ Len(trace') \in Nat
           /\ Len(trace) <= Len(trace')
           /\ response' = [text |-> text, open |-> open] /\ loop' = NoLoop
           /\ loop'.seen \subseteq Calls /\ loop'.rounds \in 0..MaxToolRounds
           /\ loop'.trace \in Seq(Entries)
           /\ loop.rounds = 0 => trace' = trace /\ ~open
  <1>1. trace \in Seq(Entries) /\ loop.trace \in Seq(Entries) /\ loop.rounds \in 0..MaxToolRounds
    BY DEF TurnInv, TypeOK, Entries
  <1>2. /\ open => loop.rounds = MaxToolRounds
        /\ response' = [text |-> text, open |-> open]
        /\ trace' = trace \o loop.trace
        /\ loop' = NoLoop
    BY DEF LoopAnswers
  <1>3. /\ trace' \in Seq(Entries) /\ Len(trace) \in Nat /\ Len(trace') \in Nat
        /\ Len(trace) <= Len(trace')
        /\ trace # << >> => trace' # << >>
        /\ loop.trace # << >> => trace' # << >>
        /\ loop.trace = << >> => trace' = trace
    BY <1>1, <1>2
  <1>4. NoLoop.rounds = 0 /\ NoLoop.trace = << >> /\ NoLoop.seen = {}
    BY DEF NoLoop
  <1>5. << >> \in Seq(Entries)
    OBVIOUS
  <1>6. open => loop.trace # << >>
    BY <1>1, <1>2, Rounds DEF TurnInv, Kept
  <1>7. loop.rounds = 0 => trace' = trace /\ ~open
    BY <1>1, <1>2, <1>3, Rounds DEF TurnInv, Kept
  <1>8. ~lost => RanIn(trace') + RanIn(loop'.trace) = SumFunction(runs)
    <2>1. RanIn(<< >>) = 0
      <3>1. {i \in DOMAIN << >> : << >>[i][2] # "blocked"} = {}
        OBVIOUS
      <3>. QED  BY <3>1, FS_EmptySet DEF RanIn
    <2>2. RanIn(trace') = RanIn(trace) + RanIn(loop.trace)
      BY <1>1, <1>2, RanConcat
    <2>3. PICK x, y : x = RanIn(trace) /\ y = RanIn(loop.trace)
      OBVIOUS
    <2>4. x \in Nat /\ y \in Nat
      BY <1>1, <2>3, NotBlockedFinite
    <2>5. ~lost => x + y = SumFunction(runs)
      BY <2>3 DEF TurnInv, Kept
    <2>6. x + y + 0 = x + y
      BY ONLY <2>4
    <2>. QED  BY ONLY <1>2, <1>4, <2>1, <2>2, <2>3, <2>5, <2>6
  <1>9. response'.open \/ flags'.remedied => trace' # << >>
    BY <1>2, <1>3, <1>6 DEF TurnInv, Kept
  <1>10. Kept'
    BY <1>2, <1>4, <1>8, <1>9 DEF Kept
  <1>. QED  BY <1>2, <1>3, <1>4, <1>5, <1>7, <1>10, Rounds

\* What a loop that fails leaves.
LEMMA LoopLoses ==
    ASSUME TurnInv, LoopFails, UNCHANGED <<trace, response, flags, runs>>
    PROVE  /\ Kept' /\ loop' = NoLoop /\ lost' \in BOOLEAN
           /\ loop'.seen \subseteq Calls /\ loop'.rounds \in 0..MaxToolRounds
           /\ loop'.trace \in Seq(Entries)
  <1>1. loop' = NoLoop /\ lost' = (lost \/ loop.trace # << >>)
    BY DEF LoopFails
  <1>2. NoLoop.rounds = 0 /\ NoLoop.trace = << >> /\ NoLoop.seen = {}
    BY DEF NoLoop
  <1>3. << >> \in Seq(Entries)
    OBVIOUS
  <1>4. ~lost' => RanIn(trace) + RanIn(loop'.trace) = SumFunction(runs)
    BY <1>1, <1>2 DEF TurnInv, Kept
  <1>5. Kept'
    BY <1>1, <1>2, <1>4 DEF TurnInv, Kept
  <1>. QED  BY <1>1, <1>2, <1>3, <1>5, Rounds

\* The turn is classified, routed and given to the gate.
LEMMA TurnRoutes ==
    ASSUME TurnInv,
           \/ ClassifyByRules \/ ClassifyBySmallModel
           \/ \E l \in LearnedTargets : Route(l)
           \/ \E a \in DOMAIN support, o \in {"text", "none"} : Support(a, o)
           \/ Join \/ Abort
           \/ \E k \in Kinds(response.text) : GateItself(k)
           \/ \E k \in Kinds(response.text), v \in JudgeVerdicts : GateAsks(k, v)
           \/ SkipVerification
    PROVE  TurnInv'
  <1>0. TypeOK /\ Kept /\ AtStage
    BY DEF TurnInv
  <1>. DEFINE
         Still == /\ UNCHANGED <<trace, response, report, passes, flags, runs, lost, candid,
                                 fresh, checked, cfg, loop>>
                  /\ route'.memory \in BOOLEAN /\ drafts' \subseteq Stages
         Moved == \/ pc' = pc
                  \/ pc = "classify" /\ pc' = "route"
                  \/ pc = "route" /\ pc' = "initial"
                  \/ pc = "join" /\ pc' = "gate"
                  \/ pc = "abort" /\ pc' = "failed"
                  \/ pc = "gate" /\ pc' \in {"escalation", "augmentation", "check"}
                  \/ pc = "check" /\ pc' = "scan" /\ trace = << >>
  <1>1. Still /\ Moved
    <2>1. CASE ClassifyByRules \/ ClassifyBySmallModel
      BY <1>0, <2>1 DEF ClassifyByRules, ClassifyBySmallModel, TypeOK, answer, checks, history
    <2>2. ASSUME NEW l \in LearnedTargets, Route(l) PROVE Still /\ Moved
      <3>1. loop = NoLoop
        BY <1>0, <2>2 DEF Route, Kept, Loops
      <3>2. route'.memory \in BOOLEAN
        BY <2>2 DEF Route, RouteWithLearned, RouteByStrategy, RouteLocalFirst, RouteCheapest,
                    RouteByRole, ToPrimary, ToAgent
      <3>3. /\ UNCHANGED <<cfg, trace, response, drafts, checks, history>>
            /\ loop' = NoLoop /\ pc = "route" /\ pc' = "initial"
        BY <2>2 DEF Route
      <3>4. drafts \subseteq Stages
        BY <1>0 DEF TypeOK
      <3>. QED  BY <3>1, <3>2, <3>3, <3>4 DEF checks, history
    <2>3. ASSUME NEW a \in DOMAIN support, NEW o \in {"text", "none"}, Support(a, o)
          PROVE  Still /\ Moved
      <3>1. UNCHANGED <<cfg, pc, route, loop, trace, answer, checks, runs, lost, candid,
                        fresh, checked>>
        BY <2>3 DEF Support
      <3>2. drafts \subseteq Stages /\ route.memory \in BOOLEAN
        BY <1>0 DEF TypeOK
      <3>. QED  BY <3>1, <3>2 DEF answer, checks
    <2>4. CASE Join
      <3>1. drafts' \subseteq Stages
        BY <1>0, <2>4 DEF Join, Remember, Stages, TypeOK
      <3>. QED  BY <1>0, <2>4, <3>1 DEF Join, TypeOK, checks, history
    <2>5. CASE Abort
      BY <1>0, <2>5 DEF Abort, TypeOK, answer, checks, history
    <2>6. ASSUME NEW v PROVE Follow(v) \in {"escalation", "augmentation", "check"}
      BY DEF Follow
    <2>7. ASSUME NEW k \in Kinds(response.text), GateItself(k) PROVE Still /\ Moved
      BY <1>0, <2>6, <2>7 DEF GateItself, TypeOK, checks, history
    <2>8. ASSUME NEW k \in Kinds(response.text), NEW v \in JudgeVerdicts, GateAsks(k, v)
          PROVE  Still /\ Moved
      BY <1>0, <2>6, <2>8 DEF GateAsks, TypeOK, checks
    <2>9. CASE SkipVerification
      BY <1>0, <2>9 DEF SkipVerification, UsedTools, TypeOK, answer, checks, history
    <2>. HIDE DEF Still, Moved
    <2>. QED  BY <2>1, <2>2, <2>3, <2>4, <2>5, <2>7, <2>8, <2>9
  <1>2. TypeOK'
    BY <1>0, <1>1 DEF TypeOK, Loops
  <1>3. Kept'
    BY <1>0, <1>1 DEF Kept, Loops
  <1>4. AtStage'
    <2>1. trace = << >> => Len(trace) = 0 /\ ~response.open /\ ~flags.remedied
      BY <1>0 DEF Kept
    <2>2. checked \in Nat
      BY <1>0 DEF TypeOK
    <2>. QED  BY <1>0, <1>1, <2>1, <2>2 DEF AtStage, Cured
  <1>5. RunsInv'
    <2>1. passes \in Nat
      BY <1>0, Rounds DEF TypeOK
    <2>2. Spent <= Spent'
      BY <1>1, <2>1 DEF Spent
    <2>. QED  BY <1>1, <2>1, <2>2, RunsKept
  <1>. QED  BY <1>2, <1>3, <1>4, <1>5 DEF TurnInv

\* A flag that is set leaves the others.
LEMMA Flags ==
    ASSUME NEW f \in [DOMAIN NoFlags -> BOOLEAN], NEW n \in FlagNames,
           NEW g, g = [f EXCEPT ![n] = TRUE]
    PROVE  /\ g \in [DOMAIN NoFlags -> BOOLEAN] /\ g[n]
           /\ n # "remedied" => g.remedied = f.remedied
           /\ n # "cured" => g.cured = f.cured
           /\ n # "synthesized" => g.synthesized = f.synthesized
           /\ n # "verified" => g.verified = f.verified
  BY FlagSet DEF FlagNames

LEMMA VerifiedFlag ==
    ASSUME NEW f \in [DOMAIN NoFlags -> BOOLEAN], NEW g, g = [f EXCEPT !.verified = TRUE]
    PROVE  g.verified
  BY FlagSet DEF FlagNames

\* A loop answers after the gate's verdict, or at first.
LEMMA TurnAnswers ==
    ASSUME TurnInv, NEW text \in BOOLEAN, NEW open \in BOOLEAN,
           \/ InitialAnswered(text, open)
           \/ EscalationAnswered(text, open)
           \/ AugmentationAnswered(text, open)
    PROVE  TurnInv'
  <1>0. TypeOK /\ AtStage
    BY DEF TurnInv
  <1>1. /\ LoopAnswers(text, open)
        /\ UNCHANGED <<cfg, route, report, passes, flags, runs, lost, candid, fresh, checked>>
        /\ \/ pc = "initial" /\ pc' = "join"
           \/ pc \in {"escalation", "augmentation"} /\ pc' = "check"
    BY DEF InitialAnswered, EscalationAnswered, AugmentationAnswered, checks
  <1>2. drafts' \subseteq Stages
    BY <1>0 DEF InitialAnswered, EscalationAnswered, AugmentationAnswered, Remember, Stages,
                TypeOK
  <1>3. /\ Kept' /\ trace' \in Seq(Entries) /\ Len(trace) \in Nat /\ Len(trace') \in Nat
        /\ Len(trace) <= Len(trace')
        /\ response' = [text |-> text, open |-> open] /\ loop' = NoLoop
        /\ loop'.seen \subseteq Calls /\ loop'.rounds \in 0..MaxToolRounds
        /\ loop'.trace \in Seq(Entries)
    BY <1>1, LoopLeaves
  <1>4. TypeOK'
    <2>1. response' \in [text : BOOLEAN, open : BOOLEAN]
      BY <1>3
    <2>. QED  BY <1>0, <1>1, <1>2, <1>3, <2>1 DEF TypeOK, Loops, Entries
  <1>5. AtStage'
    <2>1. checked \in Nat /\ checked <= Len(trace)
      BY <1>0 DEF TypeOK, AtStage
    <2>. QED  BY <1>0, <1>1, <1>3, <2>1 DEF AtStage, Cured
  <1>6. RunsInv'
    <2>1. passes \in Nat
      BY <1>0, Rounds DEF TypeOK
    <2>2. Spent + 1 <= Spent'
      BY <1>1, <2>1 DEF Spent
    <2>. QED  BY <1>1, <1>3, <2>1, <2>2, RunsKept
  <1>. QED  BY <1>3, <1>4, <1>5, <1>6 DEF TurnInv

\* A loop fails.
LEMMA TurnLoses ==
    ASSUME TurnInv, InitialFailed \/ SecondFailed \/ RemediationFailed
    PROVE  TurnInv'
  <1>0. TypeOK /\ AtStage
    BY DEF TurnInv
  <1>1. /\ LoopFails
        /\ UNCHANGED <<cfg, route, trace, response, drafts, passes, flags, runs, candid, fresh,
                       checked>>
        /\ \/ pc = "initial" /\ pc' = "abort" /\ report' = report
           \/ pc \in {"escalation", "augmentation"} /\ pc' = "check" /\ report' = report
           \/ pc = "remediation" /\ pc' = "scan" /\ report' = Stopped(report)
    BY DEF InitialFailed, SecondFailed, RemediationFailed, checks, answer
  <1>2. /\ Kept' /\ loop' = NoLoop /\ lost' \in BOOLEAN
        /\ loop'.seen \subseteq Calls /\ loop'.rounds \in 0..MaxToolRounds
        /\ loop'.trace \in Seq(Entries)
    BY <1>1, LoopLoses
  <1>3. /\ report' \in Reports /\ report'.grounded = report.grounded
        /\ pc' = "scan" => report'.retry = FALSE
    BY <1>0, <1>1 DEF TypeOK, Reports, Stopped
  <1>4. TypeOK'
    BY <1>0, <1>1, <1>2, <1>3 DEF TypeOK, Loops, Entries
  <1>5. AtStage'
    BY <1>0, <1>1, <1>3 DEF AtStage, Cured
  <1>6. RunsInv'
    <2>1. passes \in Nat
      BY <1>0, Rounds DEF TypeOK
    <2>2. Spent + 1 <= Spent'
      BY <1>1, <2>1 DEF Spent
    <2>. QED  BY <1>1, <1>2, <2>1, <2>2, RunsKept
  <1>. QED  BY <1>2, <1>4, <1>5, <1>6 DEF TurnInv

\* A remediation answers.
LEMMA TurnRemedies ==
    ASSUME TurnInv, NEW text \in BOOLEAN, NEW open \in BOOLEAN, NEW changed \in BOOLEAN,
           RemediationAnswered(text, open, changed)
    PROVE  TurnInv'
  <1>0. TypeOK /\ AtStage
    BY DEF TurnInv
  <1>1. /\ LoopAnswers(text, open) /\ pc = "remediation"
        /\ UNCHANGED <<cfg, route, drafts, passes, flags, runs, lost, candid, fresh, checked>>
        /\ \/ pc' = "check" /\ report' = report
           \/ pc' = "scan" /\ report' = Stopped(report) /\ ~ (loop.rounds > 0)
    BY DEF RemediationAnswered
  <1>2. /\ Kept' /\ trace' \in Seq(Entries) /\ Len(trace) \in Nat /\ Len(trace') \in Nat
        /\ Len(trace) <= Len(trace')
        /\ response' = [text |-> text, open |-> open] /\ loop' = NoLoop
        /\ loop'.seen \subseteq Calls /\ loop'.rounds \in 0..MaxToolRounds
        /\ loop'.trace \in Seq(Entries)
        /\ loop.rounds = 0 => trace' = trace /\ ~open
    BY <1>1, LoopLeaves
  <1>3. /\ report' \in Reports /\ report'.grounded = report.grounded
        /\ pc' = "scan" => report'.retry = FALSE
    BY <1>0, <1>1 DEF TypeOK, Reports, Stopped
  <1>4. pc' = "scan" => trace' = trace /\ ~open
    <2>1. loop.rounds \in Nat
      BY <1>0, Rounds DEF TypeOK
    <2>. QED  BY <1>1, <1>2, <2>1
  <1>5. TypeOK'
    <2>1. response' \in [text : BOOLEAN, open : BOOLEAN]
      BY <1>2
    <2>. QED  BY <1>0, <1>1, <1>2, <1>3, <2>1 DEF TypeOK, Loops, Entries
  <1>6. AtStage'
    <2>1. checked \in Nat /\ checked <= Len(trace)
      BY <1>0 DEF TypeOK, AtStage
    <2>. QED  BY <1>0, <1>1, <1>2, <1>3, <1>4, <2>1 DEF AtStage, Cured
  <1>7. RunsInv'
    <2>1. passes \in Nat
      BY <1>0, Rounds DEF TypeOK
    <2>2. Spent + 1 <= Spent'
      BY <1>1, <2>1 DEF Spent
    <2>. QED  BY <1>1, <1>2, <2>1, <2>2, RunsKept
  <1>. QED  BY <1>2, <1>5, <1>6, <1>7 DEF TurnInv

\* The answer is verified.
LEMMA TurnVerifies ==
    ASSUME TurnInv, NEW r \in Reports, VerifyEnds(r) \/ VerifyStops(r) \/ VerifyRetries(r)
    PROVE  TurnInv'
  <1>0. TypeOK /\ AtStage /\ Kept
    BY DEF TurnInv
  <1>1. /\ UNCHANGED <<cfg, route, loop, trace, drafts, runs, lost>>
        /\ pc = "check" /\ trace # << >> /\ checked' = Len(trace)
        /\ response' = [response EXCEPT !.open = FALSE]
    BY DEF VerifyEnds, VerifyStops, VerifyRetries, Verified, UsedTools
  <1>2. response' \in [text : BOOLEAN, open : BOOLEAN] /\ response'.open = FALSE
    BY <1>0, <1>1 DEF TypeOK
  <1>3. passes \in Nat /\ passes <= MaxPasses /\ Len(trace) \in Nat /\ MaxPasses \in Nat
    BY <1>0, Rounds DEF TypeOK
  <1>4. flags' \in [DOMAIN NoFlags -> BOOLEAN] /\ ~flags'.synthesized /\ ~flags'.cured
    <2>1. ~flags.synthesized /\ ~flags.cured /\ flags \in [DOMAIN NoFlags -> BOOLEAN]
      BY <1>0, <1>1 DEF AtStage, TypeOK
    <2>2. PICK g : g = [flags EXCEPT !.verified = TRUE]
      OBVIOUS
    <2>3. PICK h : h = [g EXCEPT !.remedied = TRUE]
      OBVIOUS
    <2>4. g \in [DOMAIN NoFlags -> BOOLEAN] /\ ~g.synthesized /\ ~g.cured
      BY <2>1, <2>2, Flags DEF FlagNames
    <2>5. h \in [DOMAIN NoFlags -> BOOLEAN] /\ ~h.synthesized /\ ~h.cured
      BY <2>3, <2>4, Flags DEF FlagNames
    <2>6. flags' = g \/ flags' = h
      BY <2>2, <2>3 DEF VerifyEnds, VerifyStops, VerifyRetries, Flag
    <2>. QED  BY <2>4, <2>5, <2>6
  <1>5. CASE VerifyEnds(r) \/ VerifyStops(r)
    <2>1. /\ pc' = "scan" /\ fresh' = TRUE /\ passes' = passes
          /\ report' \in Reports /\ candid' \in BOOLEAN
      BY <1>0, <1>5 DEF VerifyEnds, VerifyStops, Verified, TypeOK, Stopped, Reports
    <2>2. TypeOK'
      BY <1>0, <1>1, <1>2, <1>3, <1>4, <2>1 DEF TypeOK, Loops
    <2>3. Kept'
      BY <1>0, <1>1, <1>2, <2>1 DEF Kept, Loops
    <2>4. AtStage'
      BY <1>1, <1>2, <1>3, <1>4, <2>1 DEF AtStage
    <2>5. Spent <= Spent'
      BY <1>1, <1>3, <2>1 DEF Spent
    <2>6. RunsInv'
      BY <1>1, <1>3, <2>1, <2>5, RunsKept
    <2>. QED  BY <2>2, <2>3, <2>4, <2>6 DEF TurnInv
  <1>6. CASE VerifyRetries(r)
    <2>1. /\ pc' = "remediation" /\ fresh' = FALSE /\ passes' = passes + 1
          /\ report' = r /\ candid' = (candid /\ ~r.grounded) /\ ~ (passes >= MaxPasses)
      BY <1>6 DEF VerifyRetries, Exhausted
    <2>2. TypeOK'
      <3>1. passes' \in 0..MaxPasses
        BY ONLY <1>3, <2>1
      <3>2. candid' \in BOOLEAN /\ report' \in Reports
        BY <2>1
      <3>. QED  BY <1>0, <1>1, <1>2, <1>3, <1>4, <2>1, <3>1, <3>2 DEF TypeOK, Loops
    <2>3. Kept'
      BY <1>0, <1>1, <1>2, <2>1 DEF Kept, Loops
    <2>4. AtStage'
      BY <1>1, <1>2, <1>3, <1>4, <2>1 DEF AtStage
    <2>5. Spent <= Spent' /\ passes' \in Nat
      BY <1>1, <1>3, <2>1 DEF Spent
    <2>6. RunsInv'
      BY <1>1, <2>5, RunsKept
    <2>. QED  BY <2>2, <2>3, <2>4, <2>6 DEF TurnInv
  <1>. QED  BY <1>5, <1>6

LEMMA TurnUnverified == ASSUME TurnInv, VerifyFails PROVE TurnInv'
  <1>0. TypeOK /\ AtStage /\ Kept
    BY DEF TurnInv
  <1>1. /\ UNCHANGED <<cfg, route, loop, trace, response, drafts, passes, runs, lost, candid>>
        /\ pc = "check" /\ pc' = "scan" /\ trace # << >> /\ checked' = Len(trace)
        /\ fresh' = TRUE /\ report' = [grounded |-> FALSE, retry |-> FollowUp]
        /\ flags' = [flags EXCEPT !.verified = TRUE]
    BY DEF VerifyFails, UsedTools, Flag, answer
  <1>2. FollowUp \in BOOLEAN
    BY DEF FollowUp, Had, WriteUnread, CommandUnproven
  <1>3. report' \in Reports /\ report'.grounded = FALSE
    BY <1>1, <1>2 DEF Reports
  <1>4. flags' \in [DOMAIN NoFlags -> BOOLEAN] /\ ~flags'.synthesized /\ ~flags'.cured
        /\ flags'.verified
    <2>1. ~flags.synthesized /\ ~flags.cured /\ flags \in [DOMAIN NoFlags -> BOOLEAN]
      BY <1>0, <1>1 DEF AtStage, TypeOK
    <2>2. PICK g : g = [flags EXCEPT !.verified = TRUE]
      OBVIOUS
    <2>3. g \in [DOMAIN NoFlags -> BOOLEAN] /\ ~g.synthesized /\ ~g.cured
      BY <2>1, <2>2, Flags DEF FlagNames
    <2>4. g.verified
      BY <2>1, <2>2, VerifiedFlag
    <2>. QED  BY <1>1, <2>2, <2>3, <2>4
  <1>5. Len(trace) \in Nat /\ passes \in Nat
    BY <1>0, Rounds DEF TypeOK
  <1>6. TypeOK'
    BY <1>0, <1>1, <1>3, <1>4, <1>5 DEF TypeOK, Loops
  <1>7. Kept'
    BY <1>0, <1>1 DEF Kept, Loops
  <1>8. AtStage'
    BY <1>1, <1>3, <1>4, <1>5 DEF AtStage
  <1>9. RunsInv'
    <2>1. Spent <= Spent'
      BY <1>1, <1>5 DEF Spent
    <2>. QED  BY <1>1, <1>5, <2>1, RunsKept
  <1>. QED  BY <1>6, <1>7, <1>8, <1>9 DEF TurnInv

LEMMA CuredFlag ==
    ASSUME NEW f \in [DOMAIN NoFlags -> BOOLEAN], NEW x \in BOOLEAN,
           NEW g, g = [f EXCEPT !.cured = x]
    PROVE  /\ g \in [DOMAIN NoFlags -> BOOLEAN]
           /\ g.cured = x
           /\ g.remedied = f.remedied /\ g.verified = f.verified
           /\ g.synthesized = f.synthesized
  BY FlagSet DEF FlagNames

\* The answer is final.
LEMMA TurnCloses == ASSUME TurnInv, KeepAnswer \/ SynthesisFails \/ Synthesize PROVE TurnInv'
  <1>0. TypeOK /\ AtStage /\ Kept
    BY DEF TurnInv
  <1>1. /\ UNCHANGED <<cfg, route, loop, trace, report, passes, runs, lost, candid, fresh,
                       checked>>
        /\ pc = "scan" /\ (pc' = "done" \/ pc' = "recheck")
        /\ \/ response' = response
           \/ response' = [response EXCEPT !.open = FALSE]
    BY DEF KeepAnswer, SynthesisFails, Synthesize, Close, history
  <1>2. /\ response' \in [text : BOOLEAN, open : BOOLEAN]
        /\ response' # response => ~response'.open
    BY <1>0, <1>1 DEF TypeOK
  <1>3. drafts' \subseteq Stages
    BY <1>0 DEF KeepAnswer, SynthesisFails, Synthesize, Close, Remember, TypeOK, Stages
  <1>4. passes \in Nat /\ Len(trace) \in Nat
    BY <1>0, Rounds DEF TypeOK
  <1>5. Cured \in BOOLEAN
    BY <1>0 DEF Cured, TypeOK, Reports
  <1>6. PICK g : g = [flags EXCEPT !.cured = Cured]
    OBVIOUS
  <1>7. PICK h : h = [g EXCEPT !.synthesized = TRUE]
    OBVIOUS
  <1>8. flags \in [DOMAIN NoFlags -> BOOLEAN] /\ ~flags.synthesized
    BY <1>0, <1>1 DEF TypeOK, AtStage
  <1>9. /\ g \in [DOMAIN NoFlags -> BOOLEAN] /\ (g.cured <=> Cured)
        /\ g.remedied = flags.remedied /\ g.verified = flags.verified
        /\ g.synthesized = flags.synthesized
    BY <1>5, <1>6, <1>8, CuredFlag
  <1>10. /\ h \in [DOMAIN NoFlags -> BOOLEAN] /\ h.cured = g.cured
         /\ h.remedied = g.remedied /\ h.verified = g.verified
    BY <1>7, <1>9, Flags DEF FlagNames
  <1>11. \/ flags' = g /\ response' = response /\ pc' = "done"
         \/ flags' = h /\ response' = [response EXCEPT !.open = FALSE]
    BY <1>6, <1>7 DEF KeepAnswer, SynthesisFails, Synthesize, Close
  <1>12. /\ flags' \in [DOMAIN NoFlags -> BOOLEAN] /\ (flags'.cured <=> Cured)
         /\ flags'.remedied = flags.remedied /\ flags'.verified = flags.verified
    BY <1>9, <1>10, <1>11
  <1>13. \/ flags'.synthesized = FALSE /\ response' = response /\ pc' = "done"
         \/ response'.open = FALSE
    <2>1. CASE flags' = g /\ response' = response /\ pc' = "done"
      BY <1>8, <1>9, <2>1
    <2>2. CASE flags' = h /\ response' = [response EXCEPT !.open = FALSE]
      BY <1>0, <2>2 DEF TypeOK
    <2>. QED  BY <1>11, <2>1, <2>2
  <1>14. TypeOK'
    BY <1>0, <1>1, <1>2, <1>3, <1>12 DEF TypeOK, Loops
  <1>15. Kept'
    BY <1>0, <1>1, <1>12, <1>13 DEF Kept, Loops
  <1>16. AtStage'
    <2>1. flags'.cured /\ candid => fresh
      BY <1>0, <1>1, <1>12 DEF AtStage
    <2>2. response'.open => flags'.verified /\ ~report.grounded /\ ~flags'.synthesized
      BY <1>0, <1>1, <1>12, <1>13 DEF AtStage
    <2>3. pc' = "recheck" => ~response'.open
      BY <1>1, <1>13
    <2>4. flags'.synthesized => ~response'.open
      BY <2>2
    <2>5. checked = Len(trace)
      BY <1>0, <1>1 DEF AtStage
    <2>. QED  BY <1>1, <1>4, <2>1, <2>2, <2>3, <2>4, <2>5 DEF AtStage
  <1>17. RunsInv'
    <2>1. Spent <= Spent'
      BY <1>1, <1>4 DEF Spent
    <2>. QED  BY <1>1, <1>4, <2>1, RunsKept
  <1>. QED  BY <1>14, <1>15, <1>16, <1>17 DEF TurnInv

\* The final answer is verified.
LEMMA TurnRechecks == ASSUME TurnInv, NEW r \in Reports, Recheck(r) PROVE TurnInv'
  <1>0. TypeOK /\ AtStage /\ Kept
    BY DEF TurnInv
  <1>1. /\ UNCHANGED <<cfg, route, loop, trace, response, passes, runs, lost, candid, fresh>>
        /\ pc = "recheck" /\ pc' = "done" /\ checked' = Len(trace)
        /\ flags' = [flags EXCEPT !.reverified = TRUE]
        /\ report' \in {r, [grounded |-> FALSE, retry |-> FollowUp]}
    BY DEF Recheck, Close, Flag
  <1>2. report' \in Reports
    <2>1. FollowUp \in BOOLEAN
      BY DEF FollowUp, Had, WriteUnread, CommandUnproven
    <2>2. [grounded |-> FALSE, retry |-> FollowUp] \in Reports
      BY <2>1 DEF Reports
    <2>. QED  BY <1>1, <2>2
  <1>3. drafts' \subseteq Stages
    BY <1>0 DEF Recheck, Close, Remember, TypeOK, Stages
  <1>4. passes \in Nat /\ Len(trace) \in Nat
    BY <1>0, Rounds DEF TypeOK
  <1>5. /\ flags' \in [DOMAIN NoFlags -> BOOLEAN] /\ flags'.cured = flags.cured
        /\ flags'.remedied = flags.remedied
    <2>1. flags \in [DOMAIN NoFlags -> BOOLEAN]
      BY <1>0 DEF TypeOK
    <2>2. PICK g : g = [flags EXCEPT !.reverified = TRUE]
      OBVIOUS
    <2>3. g \in [DOMAIN NoFlags -> BOOLEAN] /\ g.cured = flags.cured
          /\ g.remedied = flags.remedied
      BY <2>1, <2>2, Flags DEF FlagNames
    <2>. QED  BY <1>1, <2>2, <2>3
  <1>6. TypeOK'
    BY <1>0, <1>1, <1>2, <1>3, <1>4, <1>5 DEF TypeOK, Loops
  <1>7. Kept'
    BY <1>0, <1>1, <1>5 DEF Kept, Loops
  <1>8. AtStage'
    BY <1>0, <1>1, <1>4, <1>5 DEF AtStage
  <1>9. RunsInv'
    <2>1. Spent <= Spent'
      BY <1>1, <1>4 DEF Spent
    <2>. QED  BY <1>1, <1>4, <2>1, RunsKept
  <1>. QED  BY <1>6, <1>7, <1>8, <1>9 DEF TurnInv

LEMMA TurnStep == ASSUME IsFiniteSet(Calls), TurnInv, [Next]_vars PROVE TurnInv'
  <1>1. CASE UNCHANGED vars
    <2>1. UNCHANGED <<cfg, task, pc, route, loop, trace, response, drafts, report, passes,
                      flags, runs, lost, candid, fresh, checked>>
      BY <1>1 DEF vars, pipeline, answer, checks, history
    <2>2. TypeOK'
      BY <2>1 DEF TurnInv, TypeOK
    <2>3. Kept'
      BY <2>1 DEF TurnInv, Kept
    <2>4. AtStage'
      BY <2>1 DEF TurnInv, AtStage, Cured
    <2>5. RunsInv'
      BY <2>1 DEF TurnInv, RunsInv, Spent, InLoop
    <2>. QED  BY <2>2, <2>3, <2>4, <2>5 DEF TurnInv
  <1>2. ASSUME Loop PROVE TurnInv'
    <2>1. CASE \E b \in Batches : \E outs \in BatchOutcomes(b, loop.seen) : LoopRound(b, outs)
      BY <2>1, TurnRound
    <2>2. CASE InitialFailed \/ SecondFailed \/ RemediationFailed
      BY <2>2, TurnLoses
    <2>3. ASSUME NEW t \in BOOLEAN, NEW o \in BOOLEAN,
                 InitialAnswered(t, o) \/ EscalationAnswered(t, o) \/ AugmentationAnswered(t, o)
          PROVE  TurnInv'
      BY <2>3, TurnAnswers
    <2>4. ASSUME NEW t \in BOOLEAN, NEW o \in BOOLEAN, NEW changed \in BOOLEAN,
                 RemediationAnswered(t, o, changed)
          PROVE  TurnInv'
      BY <2>4, TurnRemedies
    <2>. QED  BY <1>2, <2>1, <2>2, <2>3, <2>4 DEF Loop
  <1>3. ASSUME ModelCall PROVE TurnInv'
    <2>1. ASSUME NEW r \in Reports,
                 VerifyEnds(r) \/ VerifyStops(r) \/ VerifyRetries(r) \/ Recheck(r)
          PROVE  TurnInv'
      BY <2>1, TurnVerifies, TurnRechecks
    <2>. QED  BY <1>2, <1>3, <2>1, TurnRoutes, TurnUnverified, TurnCloses DEF ModelCall
  <1>4. ASSUME Between PROVE TurnInv'
    BY <1>4, TurnRoutes, TurnCloses DEF Between
  <1>. QED  BY <1>1, <1>3, <1>4 DEF Next

LEMMA TurnKept == ASSUME IsFiniteSet(Calls) PROVE AgentSpec => []TurnInv
  <1>1. AgentInit => TurnInv
    BY TurnInit DEF AgentInit
  <1>2. TurnInv /\ [AgentNext]_agentVars => TurnInv'
    BY PartsStep, TurnStep
  <1>. QED  BY <1>1, <1>2, PTL DEF AgentSpec

\* What the turn hands over has been verified against every tool that ran, but
\* for those of a loop whose model failed; tool calls that were never run leave
\* only with an answer whose verification failed; and a remediation counts as a
\* success only when a verification after it said so
\* (process_with_classification of orchestrator.rs).
THEOREM AnswersTheorem == ASSUME IsFiniteSet(Calls) PROVE AgentSpec => []AnswersAreHonest
  <1>1. ASSUME TurnInv PROVE AnswersAreHonest
    <2>1. OpenCallsConfessed /\ CureIsVerified
      BY <1>1 DEF TurnInv, AtStage, OpenCallsConfessed, CureIsVerified
    <2>2. NothingUnverified
      <3>. SUFFICES ASSUME pc = "done"
                    PROVE  checked = Len(trace) /\ (~lost => RanIn(trace) = SumFunction(runs))
        BY DEF NothingUnverified
      <3>1. checked = Len(trace)
        BY <1>1 DEF TurnInv, AtStage
      <3>2. loop = NoLoop /\ (~lost => RanIn(trace) + RanIn(loop.trace) = SumFunction(runs))
        BY <1>1 DEF TurnInv, Kept, Loops
      <3>3. RanIn(NoLoop.trace) = 0
        <4>1. NoLoop.trace = << >>
          BY DEF NoLoop
        <4>2. {i \in DOMAIN << >> : << >>[i][2] # "blocked"} = {}
          OBVIOUS
        <4>. QED  BY <4>1, <4>2, FS_EmptySet DEF RanIn
      <3>4. PICK x : x = RanIn(trace)
        OBVIOUS
      <3>5. x \in Nat
        BY <1>1, <3>4, NotBlockedFinite DEF TurnInv, TypeOK
      <3>6. x + 0 = x
        BY ONLY <3>5
      <3>. QED  BY ONLY <3>1, <3>2, <3>3, <3>4, <3>6
    <2>. QED  BY <2>1, <2>2 DEF AnswersAreHonest
  <1>. QED  BY <1>1, TurnKept, PTL

-----------------------------------------------------------------------------
(* A turn implements AgentTurn.                                            *)

\* Two support agents work beside the worker at most.
SupportInv == IsFiniteSet(DOMAIN support) /\ Cardinality(DOMAIN support) <= 2

LEMMA OneOrNone ==
    ASSUME NEW A, A = {} \/ \E x : A = {x}
    PROVE  IsFiniteSet(A) /\ Cardinality(A) \in {0, 1}
  BY FS_EmptySet, FS_Singleton

LEMMA SupportOne ==
    ASSUME NEW c, NEW t, NEW roles, NEW excluded, NEW A, A = SupportAgent(c, t, roles, excluded)
    PROVE  IsFiniteSet(A) /\ Cardinality(A) \in {0, 1}
  <1>1. A = {} \/ \E x : A = {x}
    BY DEF SupportAgent
  <1>. QED  BY <1>1, OneOrNone

LEMMA SupportFew ==
    ASSUME NEW c, NEW t, NEW target, NEW A, A = SupportAgents(c, t, target)
    PROVE  IsFiniteSet(A) /\ Cardinality(A) <= 2
  <1>1. CASE A = {}
    BY <1>1, FS_EmptySet
  <1>2. CASE A = FramingAgent(c, t, target) \cup ReviewAgent(c, t, target)
    <2>1. PICK F, G : F = FramingAgent(c, t, target) /\ G = ReviewAgent(c, t, target)
      OBVIOUS
    <2>2. IsFiniteSet(F) /\ Cardinality(F) \in {0, 1}
      BY <2>1, SupportOne DEF FramingAgent
    <2>3. IsFiniteSet(G) /\ Cardinality(G) \in {0, 1}
      BY <2>1, SupportOne DEF ReviewAgent
    <2>4. IsFiniteSet(F \cup G)
      BY <2>2, <2>3, FS_Union
    <2>5. Cardinality(F \cup G) = Cardinality(F) + Cardinality(G) - Cardinality(F \cap G)
      BY <2>2, <2>3, FS_Union
    <2>6. Cardinality(F \cap G) \in Nat
      <3>1. IsFiniteSet(F \cap G)
        BY <2>2, FS_Intersection
      <3>. QED  BY <3>1, FS_CardinalityType
    <2>7. PICK x, y, z : x = Cardinality(F) /\ y = Cardinality(G) /\ z = Cardinality(F \cap G)
      OBVIOUS
    <2>8. x + y - z <= 2
      BY ONLY <2>2, <2>3, <2>6, <2>7
    <2>. QED  BY ONLY <1>2, <2>1, <2>4, <2>5, <2>7, <2>8
  <1>. QED  BY <1>1, <1>2 DEF SupportAgents

LEMMA SupportInit == Init => SupportInv
  <1>1. Cardinality({}) = 0 /\ IsFiniteSet({})
    BY FS_EmptySet
  <1>2. DOMAIN << >> = {}
    OBVIOUS
  <1>. QED  BY <1>1, <1>2 DEF Init, SupportInv

LEMMA SupportStep == ASSUME SupportInv, [Next]_vars PROVE SupportInv'
  <1>1. \/ support' = support
        \/ \E a, o : support' = [support EXCEPT ![a] = o]
        \/ support' = [a \in DOMAIN support |-> "joined"]
        \/ \E A, t : A = SupportAgents(cfg, task, t) /\ support' = [a \in A |-> "asked"]
    <2>1. CASE UNCHANGED vars
      BY <2>1 DEF vars, pipeline
    <2>2. ASSUME NEW b, NEW outs, LoopRound(b, outs) PROVE support' = support
      BY <2>2 DEF LoopRound, pipeline
    <2>3. ASSUME NEW t, NEW o, InitialAnswered(t, o) \/ EscalationAnswered(t, o)
                                   \/ AugmentationAnswered(t, o)
          PROVE  support' = support
      BY <2>3 DEF InitialAnswered, EscalationAnswered, AugmentationAnswered
    <2>4. ASSUME NEW t, NEW o, NEW changed, RemediationAnswered(t, o, changed)
          PROVE  support' = support
      BY <2>4 DEF RemediationAnswered
    <2>5. ASSUME InitialFailed \/ SecondFailed \/ RemediationFailed PROVE support' = support
      BY <2>5 DEF InitialFailed, SecondFailed, RemediationFailed
    <2>6. ASSUME NEW r, VerifyEnds(r) \/ VerifyStops(r) \/ VerifyRetries(r) \/ Recheck(r)
          PROVE  support' = support
      BY <2>6 DEF VerifyEnds, VerifyStops, VerifyRetries, Recheck
    <2>7. ASSUME VerifyFails \/ Synthesize \/ SynthesisFails \/ SkipVerification \/ KeepAnswer
                     \/ ClassifyByRules \/ ClassifyBySmallModel \/ Abort
          PROVE  support' = support
      BY <2>7 DEF VerifyFails, Synthesize, SynthesisFails, SkipVerification, KeepAnswer,
                  ClassifyByRules, ClassifyBySmallModel, Abort
    <2>8. ASSUME NEW k, NEW v, GateItself(k) \/ GateAsks(k, v) PROVE support' = support
      BY <2>8 DEF GateItself, GateAsks
    <2>9. ASSUME NEW a, NEW o, Support(a, o) PROVE support' = [support EXCEPT ![a] = o]
      BY <2>9 DEF Support
    <2>10. ASSUME Join PROVE support' = [a \in DOMAIN support |-> "joined"]
      BY <2>10 DEF Join
    <2>11. ASSUME NEW l, Route(l)
           PROVE  \E A, t : A = SupportAgents(cfg, task, t) /\ support' = [a \in A |-> "asked"]
      BY <2>11 DEF Route
    <2>12. ASSUME Loop PROVE support' = support
      BY <2>2, <2>3, <2>4, <2>5, <2>12 DEF Loop
    <2>13. CASE ModelCall
      BY <2>6, <2>7, <2>8, <2>9, <2>12, <2>13 DEF ModelCall
    <2>14. CASE Between
      BY <2>7, <2>8, <2>10, <2>11, <2>14 DEF Between
    <2>. QED  BY <2>1, <2>13, <2>14 DEF Next
  <1>2. ASSUME NEW a, NEW o, support' = [support EXCEPT ![a] = o] PROVE SupportInv'
    BY <1>2 DEF SupportInv
  <1>3. ASSUME NEW A, NEW t, A = SupportAgents(cfg, task, t), support' = [a \in A |-> "asked"]
        PROVE  SupportInv'
    <2>1. IsFiniteSet(A) /\ Cardinality(A) <= 2
      BY <1>3, SupportFew
    <2>2. DOMAIN support' = A
      BY <1>3
    <2>. QED  BY <2>1, <2>2 DEF SupportInv
  <1>4. CASE support' = [a \in DOMAIN support |-> "joined"]
    <2>1. DOMAIN support' = DOMAIN support
      BY <1>4
    <2>. QED  BY <2>1 DEF SupportInv
  <1>. QED  BY <1>1, <1>2, <1>3, <1>4 DEF SupportInv

\* The budget of a stage, with the open branches, the calls left to its loop
\* and those of the remediations.
BudgetAt(p, o, l, q, R) ==
    LET g == 1 + (R + 1) + 1 + q + 2
    IN  CASE p = "classify" -> 1 + 2 + (R + 1) + g
          [] p = "route"    -> 2 + (R + 1) + g
          [] p = "initial"  -> o + l + g
          [] p = "abort"    -> o
          [] p = "join"     -> o + g
          [] p = "gate"     -> g
          [] p \in {"escalation", "augmentation"} -> l + 1 + q + 2
          [] p = "check"       -> 1 + q + 2
          [] p = "remediation" -> l + 1 + q + 2
          [] p = "scan"     -> 2
          [] p = "recheck"  -> 1
          [] OTHER          -> 0

LEMMA BudgetIs == Budget = BudgetAt(pc, OpenBranches, LoopAsks, PassAsks, MaxToolRounds)
  BY DEF Budget, BudgetAt, GateAsksLeft

LEMMA BudgetParts ==
    TurnInv /\ SupportInv =>
        /\ OpenBranches \in Nat /\ OpenBranches <= Cardinality(DOMAIN support)
        /\ LoopAsks \in Nat \ {0}
        /\ PassAsks \in Nat
  <1>. SUFFICES ASSUME TurnInv, SupportInv
                PROVE  /\ OpenBranches \in Nat /\ OpenBranches <= Cardinality(DOMAIN support)
                       /\ LoopAsks \in Nat \ {0}
                       /\ PassAsks \in Nat
    OBVIOUS
  <1>1. OpenBranches \in Nat /\ OpenBranches <= Cardinality(DOMAIN support)
    <2>1. {a \in DOMAIN support : support[a] = "asked"} \subseteq DOMAIN support
      OBVIOUS
    <2>. QED  BY <2>1, FS_Subset, FS_CardinalityType DEF SupportInv, OpenBranches
  <1>2. LoopAsks \in Nat \ {0}
    BY Rounds DEF TurnInv, TypeOK, LoopAsks
  <1>3. PassAsks \in Nat
    <2>1. PICK d, w : d = MaxPasses - passes /\ w = MaxToolRounds + 2
      OBVIOUS
    <2>2. d \in Nat /\ w \in Nat
      BY <2>1, Rounds DEF TurnInv, TypeOK
    <2>3. d * w \in Nat
      BY ONLY <2>2
    <2>. QED  BY <2>1, <2>3 DEF PassAsks
  <1>. QED  BY <1>1, <1>2, <1>3

LEMMA BudgetNat == TurnInv /\ SupportInv => Budget \in Nat
  <1>. SUFFICES ASSUME TurnInv, SupportInv PROVE Budget \in Nat
    OBVIOUS
  <1>1. PICK o, l, q, R : o = OpenBranches /\ l = LoopAsks /\ q = PassAsks /\ R = MaxToolRounds
    OBVIOUS
  <1>2. o \in Nat /\ l \in Nat /\ q \in Nat /\ R \in Nat
    BY <1>1, BudgetParts, Rounds
  <1>3. BudgetAt(pc, o, l, q, R) \in Nat
    BY ONLY <1>2 DEF BudgetAt
  <1>. QED  BY ONLY <1>1, <1>3, BudgetIs

\* A branch that answers is no longer open.
LEMMA BranchCloses ==
    ASSUME SupportInv, NEW a \in DOMAIN support, NEW o \in {"text", "none"}, Support(a, o)
    PROVE  OpenBranches' < OpenBranches
  <1>. DEFINE X == {x \in DOMAIN support : support[x] = "asked"}
              Y == {x \in DOMAIN support' : support'[x] = "asked"}
  <1>1. Y = X \ {a} /\ a \in X
    BY DEF Support
  <1>2. IsFiniteSet(X)
    BY FS_Subset DEF SupportInv
  <1>3. OpenBranches = Cardinality(X) /\ OpenBranches' = Cardinality(Y)
    BY DEF OpenBranches
  <1>. HIDE DEF X, Y
  <1>4. Cardinality(Y) = Cardinality(X) - 1 /\ Cardinality(X) \in Nat
    BY <1>1, <1>2, FS_RemoveElement, FS_CardinalityType
  <1>5. PICK x, y : x = Cardinality(X) /\ y = Cardinality(Y)
    OBVIOUS
  <1>6. y < x
    BY ONLY <1>4, <1>5
  <1>. QED  BY ONLY <1>3, <1>5, <1>6

LEMMA FreshLoop == ASSUME loop = NoLoop PROVE LoopAsks = MaxToolRounds + 1
  <1>1. loop.rounds = 0
    BY DEF NoLoop
  <1>. QED  BY <1>1, Rounds DEF LoopAsks

\* How a step moves the turn on, with the calls left.
AskMoves(o, l, q, p, o2, l2, q2, p2, R) ==
    \/ p = "classify" /\ p2 = "route" /\ q2 = q
    \/ p \in {"initial", "join", "abort"} /\ p2 = p /\ o2 < o /\ l2 = l /\ q2 = q
    \/ p \in Loops /\ p2 = p /\ o2 = o /\ l2 < l /\ q2 = q
    \/ p = "initial" /\ p2 = "join" /\ o2 = o /\ q2 = q
    \/ p = "initial" /\ p2 = "abort" /\ o2 = o /\ q2 = q
    \/ p = "gate" /\ p2 \in {"escalation", "augmentation", "check"} /\ l2 = R + 1 /\ q2 = q
    \/ p \in {"escalation", "augmentation"} /\ p2 = "check" /\ q2 = q
    \/ p = "check" /\ p2 = "scan"
    \/ p = "check" /\ p2 = "remediation" /\ l2 = R + 1 /\ q2 = q - (R + 2)
    \/ p = "remediation" /\ p2 \in {"check", "scan"} /\ q2 = q
    \/ p = "scan" /\ p2 \in {"recheck", "done"}
    \/ p = "recheck" /\ p2 = "done"

SettleMoves(o, l, q, p, o2, l2, q2, p2, R) ==
    \/ p = "classify" /\ p2 = "route" /\ q2 = q
    \/ p = "route" /\ p2 = "initial" /\ o2 <= 2 /\ l2 = R + 1 /\ q2 = q
    \/ p = "join" /\ p2 = "gate" /\ q2 = q
    \/ p = "abort" /\ p2 = "failed"
    \/ p = "gate" /\ p2 \in {"escalation", "augmentation", "check"} /\ l2 = R + 1 /\ q2 = q
    \/ p = "check" /\ p2 = "scan"
    \/ p = "scan" /\ p2 = "done"

LEMMA AskCosts ==
    ASSUME NEW o \in Nat, NEW l \in Nat \ {0}, NEW q \in Nat, NEW p,
           NEW o2 \in Nat, NEW l2 \in Nat \ {0}, NEW q2 \in Nat, NEW p2, NEW R \in Nat,
           AskMoves(o, l, q, p, o2, l2, q2, p2, R)
    PROVE  BudgetAt(p2, o2, l2, q2, R) < BudgetAt(p, o, l, q, R)
  BY DEF AskMoves, BudgetAt, Loops

LEMMA SettleCosts ==
    ASSUME NEW o \in Nat, NEW l \in Nat \ {0}, NEW q \in Nat, NEW p,
           NEW o2 \in Nat, NEW l2 \in Nat \ {0}, NEW q2 \in Nat, NEW p2, NEW R \in Nat,
           SettleMoves(o, l, q, p, o2, l2, q2, p2, R)
    PROVE  BudgetAt(p2, o2, l2, q2, R) <= BudgetAt(p, o, l, q, R)
  BY DEF SettleMoves, BudgetAt

AskTurn == AskMoves(OpenBranches, LoopAsks, PassAsks, pc,
                    OpenBranches', LoopAsks', PassAsks', pc', MaxToolRounds)
SettleTurn == SettleMoves(OpenBranches, LoopAsks, PassAsks, pc,
                          OpenBranches', LoopAsks', PassAsks', pc', MaxToolRounds)
Grown == \A c \in Calls : runs[c] <= runs'[c]

LEMMA Frames ==
    /\ support' = support => OpenBranches' = OpenBranches
    /\ loop' = loop => LoopAsks' = LoopAsks
    /\ loop' = NoLoop => LoopAsks' = MaxToolRounds + 1
    /\ passes' = passes => PassAsks' = PassAsks
  <1>1. support' = support => OpenBranches' = OpenBranches
    BY DEF OpenBranches
  <1>2. loop' = loop => LoopAsks' = LoopAsks
    BY DEF LoopAsks
  <1>3. loop' = NoLoop => LoopAsks' = MaxToolRounds + 1
    <2>1. NoLoop.rounds = 0
      BY DEF NoLoop
    <2>. QED  BY <2>1, Rounds DEF LoopAsks
  <1>4. passes' = passes => PassAsks' = PassAsks
    BY DEF PassAsks
  <1>. QED  BY <1>1, <1>2, <1>3, <1>4

LEMMA StillGrown == TurnInv /\ runs' = runs => Grown
  <1>. SUFFICES ASSUME TurnInv, runs' = runs, NEW c \in Calls PROVE runs[c] <= runs'[c]
    BY DEF Grown
  <1>1. runs[c] \in Nat
    BY DEF TurnInv, TypeOK
  <1>. QED  BY <1>1

LEMMA LoopMoves == ASSUME TurnInv, Loop PROVE AskTurn /\ Grown
  <1>0. UNCHANGED support
        /\ \/ \E b \in Batches : \E outs \in BatchOutcomes(b, loop.seen) : LoopRound(b, outs)
           \/ /\ UNCHANGED <<runs, passes>>
              /\ \/ pc = "initial" /\ pc' \in {"join", "abort"}
                 \/ pc \in {"escalation", "augmentation"} /\ pc' = "check"
                 \/ pc = "remediation" /\ pc' \in {"check", "scan"}
    <2>1. ASSUME NEW b \in Batches, NEW outs \in BatchOutcomes(b, loop.seen), LoopRound(b, outs)
          PROVE  support' = support
      BY <2>1 DEF LoopRound, pipeline
    <2>2. ASSUME NEW t \in BOOLEAN, NEW o \in BOOLEAN,
                 InitialAnswered(t, o) \/ EscalationAnswered(t, o) \/ AugmentationAnswered(t, o)
          PROVE  /\ UNCHANGED <<support, runs, passes>>
                 /\ \/ pc = "initial" /\ pc' = "join"
                    \/ pc \in {"escalation", "augmentation"} /\ pc' = "check"
      BY <2>2 DEF InitialAnswered, EscalationAnswered, AugmentationAnswered, checks
    <2>3. ASSUME NEW t \in BOOLEAN, NEW o \in BOOLEAN, NEW changed \in BOOLEAN,
                 RemediationAnswered(t, o, changed)
          PROVE  /\ UNCHANGED <<support, runs, passes>>
                 /\ pc = "remediation" /\ pc' \in {"check", "scan"}
      BY <2>3 DEF RemediationAnswered
    <2>4. ASSUME InitialFailed \/ SecondFailed \/ RemediationFailed
          PROVE  /\ UNCHANGED <<support, runs, passes>>
                 /\ \/ pc = "initial" /\ pc' = "abort"
                    \/ pc \in {"escalation", "augmentation"} /\ pc' = "check"
                    \/ pc = "remediation" /\ pc' = "scan"
      BY <2>4 DEF InitialFailed, SecondFailed, RemediationFailed, checks
    <2>. QED  BY <2>1, <2>2, <2>3, <2>4 DEF Loop
  <1>1. ASSUME NEW b \in Batches, NEW outs \in BatchOutcomes(b, loop.seen), LoopRound(b, outs)
        PROVE  AskTurn /\ Grown
    <2>1. /\ pc \in Loops /\ pc' = pc /\ passes' = passes
          /\ loop'.rounds = loop.rounds + 1
          /\ runs' = [c \in Calls |-> runs[c] + Ran(b, outs, c)]
      BY <1>1 DEF LoopRound, pipeline, checks
    <2>2. LoopAsks' < LoopAsks
      BY <2>1, Rounds DEF LoopAsks, TurnInv, TypeOK
    <2>3. ASSUME NEW c \in Calls PROVE runs[c] <= runs'[c]
      <3>1. PICK x, y : x = runs[c] /\ y = Ran(b, outs, c)
        OBVIOUS
      <3>2. x \in Nat /\ y \in {0, 1}
        BY <3>1, RanOnce, Rounds DEF TurnInv, TypeOK
      <3>3. runs'[c] = x + y
        BY <2>1, <3>1
      <3>4. x <= x + y
        BY ONLY <3>2
      <3>. QED  BY ONLY <3>1, <3>3, <3>4
    <2>. QED  BY <1>0, <2>1, <2>2, <2>3, Frames DEF AskTurn, AskMoves, Grown
  <1>2. CASE /\ UNCHANGED <<runs, passes>>
             /\ \/ pc = "initial" /\ pc' \in {"join", "abort"}
                \/ pc \in {"escalation", "augmentation"} /\ pc' = "check"
                \/ pc = "remediation" /\ pc' \in {"check", "scan"}
    BY <1>0, <1>2, Frames, StillGrown DEF AskTurn, AskMoves
  <1>. QED  BY <1>0, <1>1, <1>2

LEMMA Asks == ASSUME TurnInv, SupportInv, ModelCall PROVE AskTurn /\ Grown
  <1>1. CASE ClassifyBySmallModel
    BY <1>1, Frames, StillGrown DEF ClassifyBySmallModel, checks, AskTurn, AskMoves
  <1>2. ASSUME NEW a \in DOMAIN support, NEW o \in {"text", "none"}, Support(a, o)
        PROVE  AskTurn /\ Grown
    <2>1. /\ pc \in {"initial", "join", "abort"}
          /\ UNCHANGED <<pc, loop, passes, runs>>
      BY <1>2 DEF Support, checks
    <2>. QED  BY <1>2, <2>1, BranchCloses, Frames, StillGrown DEF AskTurn, AskMoves
  <1>3. ASSUME NEW k, NEW v, GateAsks(k, v) PROVE AskTurn /\ Grown
    <2>1. pc = "gate" /\ UNCHANGED <<loop, passes, runs>>
          /\ pc' \in {"escalation", "augmentation", "check"}
      BY <1>3 DEF GateAsks, Follow, checks
    <2>2. loop' = NoLoop
      BY <2>1 DEF TurnInv, Kept, Loops
    <2>. QED  BY <2>1, <2>2, Frames, StillGrown DEF AskTurn, AskMoves
  <1>4. ASSUME NEW r \in Reports, VerifyEnds(r) \/ VerifyStops(r) PROVE AskTurn /\ Grown
    BY <1>4, StillGrown DEF VerifyEnds, VerifyStops, AskTurn, AskMoves
  <1>5. ASSUME NEW r \in Reports, VerifyRetries(r) PROVE AskTurn /\ Grown
    <2>1. /\ pc = "check" /\ pc' = "remediation" /\ passes' = passes + 1
          /\ UNCHANGED <<loop, runs>>
      BY <1>5 DEF VerifyRetries
    <2>2. loop' = NoLoop
      BY <2>1 DEF TurnInv, Kept, Loops
    <2>3. PassAsks' = PassAsks - (MaxToolRounds + 2)
      <3>1. PICK p, m, w : p = passes /\ m = MaxPasses /\ w = MaxToolRounds + 2
        OBVIOUS
      <3>2. p \in Nat /\ m \in Nat /\ w \in Nat
        BY <3>1, Rounds DEF TurnInv, TypeOK
      <3>3. (m - (p + 1)) * w = (m - p) * w - w
        BY ONLY <3>2
      <3>4. PassAsks = (m - p) * w /\ PassAsks' = (m - (p + 1)) * w
        BY <2>1, <3>1 DEF PassAsks
      <3>. QED  BY ONLY <3>1, <3>3, <3>4
    <2>. QED  BY <2>1, <2>2, <2>3, Frames, StillGrown DEF AskTurn, AskMoves
  <1>6. ASSUME NEW r \in Reports, Recheck(r) PROVE AskTurn /\ Grown
    BY <1>6, StillGrown DEF Recheck, Close, AskTurn, AskMoves
  <1>7. CASE VerifyFails
    BY <1>7, StillGrown DEF VerifyFails, AskTurn, AskMoves
  <1>8. CASE Synthesize \/ SynthesisFails
    BY <1>8, StillGrown DEF Synthesize, SynthesisFails, Close, history, AskTurn, AskMoves
  <1>. QED  BY <1>1, <1>2, <1>3, <1>4, <1>5, <1>6, <1>7, <1>8, LoopMoves DEF ModelCall

LEMMA Settles ==
    ASSUME TurnInv, SupportInv, Between PROVE SettleTurn /\ runs' = runs
  <1>1. CASE ClassifyByRules
    BY <1>1, Frames DEF ClassifyByRules, checks, history, SettleTurn, SettleMoves
  <1>2. ASSUME NEW l \in LearnedTargets, Route(l) PROVE SettleTurn /\ runs' = runs
    <2>1. /\ pc = "route" /\ pc' = "initial" /\ loop' = NoLoop /\ UNCHANGED <<passes, runs>>
          /\ \E A, t : A = SupportAgents(cfg, task, t) /\ support' = [a \in A |-> "asked"]
      BY <1>2 DEF Route, checks, history
    <2>2. OpenBranches' <= 2
      <3>1. PICK A, t : A = SupportAgents(cfg, task, t) /\ support' = [a \in A |-> "asked"]
        BY <2>1
      <3>2. {a \in DOMAIN support' : support'[a] = "asked"} = A
        BY <3>1
      <3>3. IsFiniteSet(A) /\ Cardinality(A) <= 2
        BY <3>1, SupportFew
      <3>. QED  BY <3>2, <3>3 DEF OpenBranches
    <2>. QED  BY <2>1, <2>2, Frames DEF SettleTurn, SettleMoves
  <1>3. CASE Join \/ Abort
    BY <1>3, Frames DEF Join, Abort, checks, history, SettleTurn, SettleMoves
  <1>4. ASSUME NEW k, GateItself(k) PROVE SettleTurn /\ runs' = runs
    <2>1. pc = "gate" /\ UNCHANGED <<loop, passes, runs>>
          /\ pc' \in {"escalation", "augmentation", "check"}
      BY <1>4 DEF GateItself, Follow, checks, history
    <2>2. loop' = NoLoop
      BY <2>1 DEF TurnInv, Kept, Loops
    <2>. QED  BY <2>1, <2>2, Frames DEF SettleTurn, SettleMoves
  <1>5. CASE SkipVerification \/ KeepAnswer
    BY <1>5 DEF SkipVerification, KeepAnswer, Close, history, SettleTurn, SettleMoves
  <1>. QED  BY <1>1, <1>2, <1>3, <1>4, <1>5 DEF Between

\* No call runs more often than there are loops.
LEMMA RunsRange == TurnInv => runs \in [Calls -> 0..MaxLoops]
  <1>. SUFFICES ASSUME TurnInv, NEW c \in Calls PROVE runs[c] \in 0..MaxLoops
    BY DEF TurnInv, TypeOK
  <1>1. PICK x, p, m : x = runs[c] /\ p = passes /\ m = MaxPasses
    OBVIOUS
  <1>2. x \in Nat /\ p \in Nat /\ m \in Nat /\ p <= m
    BY <1>1, Rounds DEF TurnInv, TypeOK
  <1>3. x <= Spent + InLoop(c) /\ InLoop(c) \in {0, 1}
    BY <1>1 DEF TurnInv, RunsInv, InLoop
  <1>4. Spent \in Nat /\ Spent + InLoop(c) <= 2 + p
    <2>1. CASE pc \in Loops
      <3>1. Spent \in Nat /\ Spent <= 1 + p
        BY <1>1, <1>2, <2>1 DEF Spent, Loops
      <3>. QED  BY ONLY <1>2, <1>3, <3>1
    <2>2. CASE pc \notin Loops
      <3>1. InLoop(c) = 0
        BY <2>2 DEF TurnInv, Kept, InLoop, NoLoop
      <3>2. Spent \in Nat /\ Spent <= 2 + p
        BY <1>1, <1>2 DEF Spent
      <3>. QED  BY ONLY <1>2, <3>1, <3>2
    <2>. QED  BY <2>1, <2>2
  <1>5. x \in 0..(2 + m)
    BY ONLY <1>2, <1>3, <1>4
  <1>. QED  BY ONLY <1>1, <1>5 DEF MaxLoops

LEMMA StatusMoves ==
    ASSUME AskTurn \/ SettleTurn
    PROVE  Turn!Running /\ Status' \in Turn!Follows[Status]
  BY DEF AskTurn, SettleTurn, AskMoves, SettleMoves, Loops, Status, Turn!Running, Turn!Follows

LEMMA TurnInitial == TurnInv /\ SupportInv /\ Init => Turn!Init
  BY BudgetNat DEF Init, Turn!Init, Status

LEMMA TurnImplements ==
    ASSUME TurnInv, SupportInv, TurnInv', SupportInv', [Next]_vars
    PROVE  [Turn!Next]_(Turn!vars) /\ (ModelCall => Turn!Ask)
  <1>. DEFINE R == MaxToolRounds
  <1>1. /\ OpenBranches \in Nat /\ LoopAsks \in Nat \ {0} /\ PassAsks \in Nat /\ R \in Nat
        /\ Budget = BudgetAt(pc, OpenBranches, LoopAsks, PassAsks, R)
    BY BudgetParts, BudgetIs, Rounds
  <1>2. /\ OpenBranches' \in Nat /\ LoopAsks' \in Nat \ {0} /\ PassAsks' \in Nat
        /\ Budget' = BudgetAt(pc', OpenBranches', LoopAsks', PassAsks', R)
    <2>1. (TurnInv /\ SupportInv => /\ OpenBranches \in Nat /\ LoopAsks \in Nat \ {0}
                                    /\ PassAsks \in Nat)'
      BY BudgetParts, PTL
    <2>2. (Budget = BudgetAt(pc, OpenBranches, LoopAsks, PassAsks, R))'
      BY BudgetIs, PTL
    <2>. QED  BY <2>1, <2>2
  <1>3. Budget' \in Nat
    <2>1. (TurnInv /\ SupportInv => Budget \in Nat)'
      BY BudgetNat, PTL
    <2>. QED  BY <2>1
  <1>4. runs' \in [Calls -> 0..MaxLoops]
    <2>1. (TurnInv => runs \in [Calls -> 0..MaxLoops])'
      BY RunsRange, PTL
    <2>. QED  BY <2>1 DEF MaxLoops
  <1>5. ASSUME ModelCall PROVE Turn!Ask
    <2>1. AskTurn /\ Grown
      BY <1>5, Asks
    <2>2. Budget' < Budget
      BY <1>1, <1>2, <2>1, AskCosts DEF AskTurn
    <2>. QED  BY <1>3, <1>4, <2>1, <2>2, StatusMoves DEF Turn!Ask, Grown
  <1>6. ASSUME Between PROVE Turn!Settle
    <2>1. SettleTurn /\ runs' = runs
      BY <1>6, Settles
    <2>2. Budget' <= Budget
      BY <1>1, <1>2, <2>1, SettleCosts DEF SettleTurn
    <2>. QED  BY <2>1, <2>2, StatusMoves DEF Turn!Settle
  <1>7. CASE UNCHANGED vars
    <2>1. UNCHANGED <<pc, support, loop, passes, runs>>
      BY <1>7 DEF vars, pipeline, checks, history
    <2>2. Status' = Status /\ Budget' = Budget
      BY <1>1, <1>2, <2>1, Frames DEF Status
    <2>3. UNCHANGED Turn!vars
      BY <2>1, <2>2 DEF Turn!vars
    <2>. QED  BY <1>5, <2>3
  <1>. QED  BY <1>5, <1>6, <1>7 DEF Next, Turn!Next

\* A turn implements AgentTurn: each model call uses up its budget, which a
\* step between two never raises, it does not fail once a worker has answered,
\* and no tool call runs more often than there are loops ("safety limit" of
\* call_with_tools; MAX_REMEDIATION_PASSES).
THEOREM TurnTheorem ==
    ASSUME IsFiniteSet(Calls)
    PROVE  AgentSpec => /\ Turn!Init /\ [][Turn!Next]_(Turn!vars)
                        /\ [][ModelCall => Turn!Ask]_vars
  <1>1. AgentInit => SupportInv
    BY SupportInit DEF AgentInit
  <1>2. SupportInv /\ [AgentNext]_agentVars => SupportInv'
    BY PartsStep, SupportStep
  <1>3. AgentSpec => []SupportInv
    BY <1>1, <1>2, PTL DEF AgentSpec
  <1>4. TurnInv /\ SupportInv /\ AgentInit => Turn!Init
    BY TurnInitial DEF AgentInit
  <1>5. TurnInv /\ SupportInv /\ TurnInv' /\ SupportInv' /\ [AgentNext]_agentVars
            => [Turn!Next]_(Turn!vars) /\ [ModelCall => Turn!Ask]_vars
    BY PartsStep, TurnImplements
  <1>. QED  BY <1>3, <1>4, <1>5, TurnKept, PTL DEF AgentSpec

-----------------------------------------------------------------------------
(* The work goes to agents that take it.                                   *)

\* No two agents of a configuration have one name; cost_weight and priority are
\* unsigned (SubAgentConfig).
NamedApart(c) ==
    /\ DOMAIN c.agents \subseteq Nat
    /\ \A i \in DOMAIN c.agents : c.agents[i].priority \in Nat /\ c.agents[i].cost \in Nat
    /\ \A i, j \in DOMAIN c.agents : c.agents[i].name = c.agents[j].name => i = j

LEMMA NamedIs ==
    ASSUME NEW c, NamedApart(c), NEW i \in DOMAIN c.agents
    PROVE  AgentNamed(c, c.agents[i].name) = c.agents[i]
  BY DEF NamedApart, AgentNamed

\* There is a first position among those with the least value.
LEMMA LeastFirst ==
    ASSUME NEW P \in SUBSET Nat, P # {}, NEW f \in [P -> Nat]
    PROVE  \E i \in P : \A j \in P : f[i] < f[j] \/ (f[i] = f[j] /\ i <= j)
  <1>1. PICK V : V = {f[i] : i \in P}
    OBVIOUS
  <1>2. PICK m \in V : \A k \in V : m <= k
    <2>1. V \in SUBSET Nat /\ V # {}
      BY <1>1
    <2>. QED  BY <2>1, LeastIn
  <1>3. PICK Q : Q = {i \in P : f[i] = m}
    OBVIOUS
  <1>4. PICK i \in Q : \A k \in Q : i <= k
    <2>1. Q \in SUBSET Nat /\ Q # {}
      BY <1>1, <1>3
    <2>. QED  BY <2>1, LeastIn
  <1>5. i \in P /\ f[i] = m
    BY <1>3
  <1>6. ASSUME NEW j \in P PROVE f[i] < f[j] \/ (f[i] = f[j] /\ i <= j)
    <2>1. m <= f[j] /\ f[j] \in Nat /\ m \in Nat
      BY <1>1, <1>2
    <2>2. CASE f[j] = m
      BY <1>3, <1>4, <1>5, <2>2
    <2>3. CASE f[j] # m
      <3>1. PICK k : k = f[j]
        OBVIOUS
      <3>2. m < k
        BY ONLY <2>1, <2>3, <3>1
      <3>. QED  BY ONLY <1>5, <3>1, <3>2
    <2>. QED  BY <2>2, <2>3
  <1>. QED  BY <1>5, <1>6

LEMMA ForemostIn ==
    ASSUME NEW c, NamedApart(c), NEW P \in SUBSET DOMAIN c.agents, P # {}
    PROVE  \E i \in P : Foremost(c, P) = c.agents[i]
  <1>1. PICK f : f = [i \in P |-> c.agents[i].priority]
    OBVIOUS
  <1>2. f \in [P -> Nat] /\ P \in SUBSET Nat
    BY <1>1 DEF NamedApart
  <1>3. PICK i \in P : \A j \in P : f[i] < f[j] \/ (f[i] = f[j] /\ i <= j)
    BY <1>2, LeastFirst
  <1>4. \A j \in P : \/ c.agents[i].priority < c.agents[j].priority
                     \/ c.agents[i].priority = c.agents[j].priority /\ i <= j
    BY <1>1, <1>3
  <1>. QED  BY <1>4 DEF Foremost

LEMMA CheapestIn ==
    ASSUME NEW c, NamedApart(c), NEW P \in SUBSET DOMAIN c.agents, P # {}
    PROVE  \E i \in P : Cheapest(c, P) = c.agents[i]
  <1>1. PICK f : f = [i \in P |-> c.agents[i].cost]
    OBVIOUS
  <1>2. f \in [P -> Nat] /\ P \in SUBSET Nat
    BY <1>1 DEF NamedApart
  <1>3. PICK i \in P : \A j \in P : f[i] < f[j] \/ (f[i] = f[j] /\ i <= j)
    BY <1>2, LeastFirst
  <1>4. \A j \in P : \/ c.agents[i].cost < c.agents[j].cost
                     \/ c.agents[i].cost = c.agents[j].cost /\ i <= j
    BY <1>1, <1>3
  <1>. QED  BY <1>4 DEF Cheapest

\* This agent takes tasks like t.
Takes(c, t, a) == a = Primary \/ WithinLimit(t, AgentNamed(c, a))

LEMMA TakersTake ==
    ASSUME NEW c, NamedApart(c), NEW t, NEW roles,
           NEW P \in SUBSET Takers(c, t, roles), P # {}
    PROVE  Takes(c, t, Foremost(c, P).name) /\ Takes(c, t, Cheapest(c, P).name)
  <1>1. P \in SUBSET DOMAIN c.agents /\ \A i \in P : WithinLimit(t, c.agents[i])
    BY DEF Takers
  <1>2. \A i \in P : Takes(c, t, c.agents[i].name)
    BY <1>1, NamedIs DEF Takes
  <1>. QED  BY <1>1, <1>2, ForemostIn, CheapestIn

LEMMA ByStrategyTakes ==
    ASSUME NEW c, NamedApart(c), NEW t
    PROVE  Takes(c, t, RouteByStrategy(c, t).target)
  <1>1. Takes(c, t, ToPrimary.target)
    BY DEF Takes, ToPrimary
  <1>2. \A a : ToAgent(a).target = a.name
    BY DEF ToAgent
  <1>3. Takes(c, t, RouteByRole(c, t).target)
    <2>1. PICK P : P = Takers(c, t, {RoleOf(t.intent)})
      OBVIOUS
    <2>2. P # {} => Takes(c, t, Foremost(c, P).name)
      BY <2>1, TakersTake
    <2>. QED  BY <1>1, <1>2, <2>1, <2>2 DEF RouteByRole
  <1>4. Takes(c, t, RouteLocalFirst(c, t).target)
    <2>1. PICK P : P = {i \in Takers(c, t, {RoleOf(t.intent), "General"}) : c.agents[i].local}
      OBVIOUS
    <2>2. P # {} => Takes(c, t, Foremost(c, P).name)
      BY <2>1, TakersTake
    <2>. QED  BY <1>2, <1>3, <2>1, <2>2 DEF RouteLocalFirst
  <1>5. Takes(c, t, RouteCheapest(c, t).target)
    <2>1. PICK P : P = Takers(c, t, {RoleOf(t.intent), "General"})
      OBVIOUS
    <2>2. P # {} => Takes(c, t, Cheapest(c, P).name)
      BY <2>1, TakersTake
    <2>. QED  BY <1>1, <1>2, <2>1, <2>2 DEF RouteCheapest
  <1>. QED  BY <1>1, <1>3, <1>4, <1>5 DEF RouteByStrategy

LEMMA SupportTakes ==
    ASSUME NEW c, NamedApart(c), NEW t, NEW roles, NEW excluded,
           NEW a \in SupportAgent(c, t, roles, excluded)
    PROVE  Takes(c, t, a) /\ a \notin excluded
  <1>1. PICK P : P = {i \in Takers(c, t, roles) : c.agents[i].name \notin excluded}
    OBVIOUS
  <1>2. P # {} /\ a = Foremost(c, P).name
    BY <1>1 DEF SupportAgent
  <1>3. Takes(c, t, a)
    BY <1>1, <1>2, TakersTake
  <1>4. P \in SUBSET DOMAIN c.agents
    BY <1>1 DEF Takers
  <1>5. PICK i \in P : Foremost(c, P) = c.agents[i]
    BY <1>2, <1>4, ForemostIn
  <1>. QED  BY <1>1, <1>2, <1>3, <1>5

LEMMA SupportersTake ==
    ASSUME NEW c, NamedApart(c), NEW t, NEW target, NEW a \in SupportAgents(c, t, target)
    PROVE  Takes(c, t, a) /\ a # target
  <1>1. a \in FramingAgent(c, t, target) \/ a \in ReviewAgent(c, t, target)
    BY DEF SupportAgents
  <1>2. CASE a \in FramingAgent(c, t, target)
    BY <1>2, SupportTakes DEF FramingAgent
  <1>3. CASE a \in ReviewAgent(c, t, target)
    BY <1>3, SupportTakes DEF ReviewAgent
  <1>. QED  BY <1>1, <1>2, <1>3

\* Who works on the task is settled when it is routed.
FitInv == /\ cfg \in Configs /\ WorkersFit
          /\ pc \in {"classify", "route"} => support = << >> /\ route = ToPrimary

LEMMA RouteFits ==
    ASSUME FitInv, NamedApart(cfg), NEW l \in LearnedTargets, Route(l)
    PROVE  FitInv'
  <1>1. /\ route' = RouteWithLearned(cfg, task, l)
        /\ DOMAIN support' = SupportAgents(cfg, task, route'.target)
        /\ cfg' = cfg /\ task' = task /\ pc' = "initial"
    BY DEF Route
  <1>2. route'.memory \/ Takes(cfg, task, route'.target)
    BY <1>1, ByStrategyTakes DEF RouteWithLearned
  <1>3. \A a \in DOMAIN support' : Takes(cfg, task, a) /\ a # route'.target
    BY <1>1, SupportersTake
  <1>4. WorkersFit'
    BY <1>1, <1>2, <1>3 DEF WorkersFit, Takes
  <1>. QED  BY <1>1, <1>4 DEF FitInv

\* What no other step changes.
LEMMA SettledWorkers ==
    ASSUME [Next]_vars
    PROVE  \/ \E l \in LearnedTargets : Route(l)
           \/ /\ cfg' = cfg /\ route' = route /\ DOMAIN support' = DOMAIN support
              /\ \/ pc = "classify" /\ pc' = "route" /\ support' = support
                 \/ task' = task /\ pc' = pc /\ support' = support
                 \/ task' = task /\ {pc, pc'} \cap {"classify", "route"} = {}
  <1>. DEFINE Settled == /\ cfg' = cfg /\ route' = route /\ DOMAIN support' = DOMAIN support
                         /\ \/ pc = "classify" /\ pc' = "route" /\ support' = support
                            \/ task' = task /\ pc' = pc /\ support' = support
                            \/ task' = task /\ {pc, pc'} \cap {"classify", "route"} = {}
  <1>1. CASE UNCHANGED vars
    BY <1>1 DEF vars, pipeline
  <1>2. ASSUME NEW b, NEW outs, LoopRound(b, outs) PROVE Settled
    BY <1>2 DEF LoopRound, pipeline
  <1>3. ASSUME NEW t, NEW o, InitialAnswered(t, o) \/ EscalationAnswered(t, o)
                                 \/ AugmentationAnswered(t, o)
        PROVE  Settled
    BY <1>3 DEF InitialAnswered, EscalationAnswered, AugmentationAnswered
  <1>4. ASSUME NEW t, NEW o, NEW changed, RemediationAnswered(t, o, changed) PROVE Settled
    BY <1>4 DEF RemediationAnswered
  <1>5. ASSUME InitialFailed \/ SecondFailed \/ RemediationFailed PROVE Settled
    BY <1>5 DEF InitialFailed, SecondFailed, RemediationFailed
  <1>6. ASSUME NEW r, VerifyEnds(r) \/ VerifyStops(r) \/ VerifyRetries(r) \/ Recheck(r)
        PROVE  Settled
    BY <1>6 DEF VerifyEnds, VerifyStops, VerifyRetries, Recheck, Close
  <1>7. ASSUME VerifyFails \/ Synthesize \/ SynthesisFails \/ SkipVerification \/ KeepAnswer
                   \/ Abort
        PROVE  Settled
    BY <1>7 DEF VerifyFails, Synthesize, SynthesisFails, SkipVerification, KeepAnswer, Abort,
                Close
  <1>8. ASSUME ClassifyByRules \/ ClassifyBySmallModel PROVE Settled
    BY <1>8 DEF ClassifyByRules, ClassifyBySmallModel
  <1>9. ASSUME NEW k, NEW v, GateItself(k) \/ GateAsks(k, v) PROVE Settled
    <2>1. ASSUME NEW x PROVE Follow(x) \notin {"classify", "route"}
      BY DEF Follow
    <2>. QED  BY <1>9, <2>1 DEF GateItself, GateAsks
  <1>10. ASSUME NEW a, NEW o, Support(a, o) PROVE Settled
    BY <1>10 DEF Support
  <1>11. ASSUME Join PROVE Settled
    BY <1>11 DEF Join
  <1>. HIDE DEF Settled
  <1>12. ASSUME Loop PROVE Settled
    BY <1>2, <1>3, <1>4, <1>5, <1>12 DEF Loop
  <1>13. ASSUME ModelCall PROVE Settled
    BY <1>6, <1>7, <1>8, <1>9, <1>10, <1>12, <1>13 DEF ModelCall
  <1>14. ASSUME Between PROVE Settled \/ \E l \in LearnedTargets : Route(l)
    BY <1>7, <1>8, <1>9, <1>11, <1>14 DEF Between
  <1>15. Settled \/ \E l \in LearnedTargets : Route(l)
    <2>1. CASE UNCHANGED vars
      BY <2>1 DEF vars, pipeline, Settled
    <2>. QED  BY <1>13, <1>14, <2>1 DEF Next
  <1>. QED  BY <1>15 DEF Settled

LEMMA FitStep ==
    ASSUME \A c \in Configs : NamedApart(c), FitInv, [Next]_vars
    PROVE  FitInv'
  <1>1. cfg \in Configs /\ WorkersFit
        /\ (pc \in {"classify", "route"} => support = << >> /\ route = ToPrimary)
    BY DEF FitInv
  <1>2. CASE \E l \in LearnedTargets : Route(l)
    BY <1>1, <1>2, RouteFits
  <1>3. ASSUME cfg' = cfg, route' = route, support' = support, pc = "classify", pc' = "route"
        PROVE  FitInv'
    <2>1. support' = << >> /\ route' = ToPrimary
      BY <1>1, <1>3
    <2>2. DOMAIN support' = {} /\ route'.target = Primary
      BY <2>1 DEF ToPrimary
    <2>3. WorkersFit'
      BY <2>2 DEF WorkersFit
    <2>. QED  BY <1>1, <1>3, <2>1, <2>3 DEF FitInv
  <1>4. ASSUME cfg' = cfg, route' = route, DOMAIN support' = DOMAIN support, task' = task,
               pc' \in {"classify", "route"} => pc' = pc /\ support' = support
        PROVE  FitInv'
    <2>1. WorkersFit'
      BY <1>1, <1>4 DEF WorkersFit
    <2>. QED  BY <1>1, <1>4, <2>1 DEF FitInv
  <1>. QED  BY <1>2, <1>3, <1>4, SettledWorkers

\* A rule of the table is earned, and a run of failures takes it out of use
\* (ingest and effective_confidence of learned.rs); and the agents that no
\* learned rule chose take tasks of the complexity, none of them twice (the
\* routing strategies and find_plan_support_agent of orchestrator.rs).
THEOREM WorkersTheorem ==
    ASSUME \A c \in Configs : NamedApart(c)
    PROVE  AgentSpec => []RoutesHoldUp
  <1>1. AgentInit => FitInv
    <2>. SUFFICES ASSUME Init PROVE FitInv
      BY DEF AgentInit
    <2>1. cfg \in Configs /\ route = ToPrimary /\ support = << >>
      BY DEF Init
    <2>2. DOMAIN support = {} /\ route.target = Primary
      BY <2>1 DEF ToPrimary
    <2>. QED  BY <2>1, <2>2 DEF FitInv, WorkersFit
  <1>2. FitInv /\ [AgentNext]_agentVars => FitInv'
    BY PartsStep, FitStep
  <1>3. FitInv => WorkersFit
    BY DEF FitInv
  <1>4. AgentSpec => []FitInv
    BY <1>1, <1>2, PTL DEF AgentSpec
  <1>5. LR!RulesAreEarned /\ LR!UsedRulesHoldUp /\ WorkersFit => RoutesHoldUp
    BY DEF RoutesHoldUp
  <1>. QED  BY <1>3, <1>4, <1>5, RoutesTheorem, PTL

-----------------------------------------------------------------------------
(* The types of the parts follow from their invariants.                    *)

LEMMA CallsInit == SK!Init => CallsInv /\ ContentInv
  <1>. SUFFICES ASSUME SK!Init PROVE CallsInv /\ ContentInv
    OBVIOUS
  <1>1. /\ store \in [Names -> {Absent}] /\ pend = [c \in SK!Clients |-> SK!Idle] /\ calls = 0
        /\ run = SK!NoRun /\ backups = [i \in SK!Steps |-> Absent]
        /\ files \in [SK!Paths -> {Absent, <<SK!Old>>}]
    BY DEF SK!Init
  <1>2. CallsInv
    <2>1. MaxCalls \in Nat
      BY AgentAssumption DEF SK!SkillsAssumption
    <2>2. \A n \in Names : ~SK!Readable(n)
      BY <1>1 DEF SK!Readable
    <2>. QED  BY <1>1, <2>1, <2>2 DEF CallsInv
  <1>3. {Absent, <<SK!Old>>} \subseteq SK!Content
    <2>. SUFFICES <<SK!Old>> \in Seq({SK!ByLeftover, SK!ByCommand, SK!Old} \cup SK!Steps)
      BY DEF SK!Content
    <2>. PICK S : S = {SK!ByLeftover, SK!ByCommand, SK!Old} \cup SK!Steps
      OBVIOUS
    <2>1. SK!Old \in S
      OBVIOUS
    <2>. QED  BY <2>1
  <1>4. run.done = << >> /\ run.i = 1 /\ run.through = 0
    BY <1>1 DEF SK!NoRun
  <1>5. ContentInv
    BY <1>1, <1>3, <1>4 DEF ContentInv
  <1>. QED  BY <1>2, <1>5

LEMMA CommandTypesSuffice == CommandInv => SB!TypeOK
  <1>. SUFFICES ASSUME CommandInv PROVE SB!TypeOK
    OBVIOUS
  <1>1. policy \in SB!Policies /\ profile \in Executions \cup {NoOne}
    BY DEF CommandInv, CommandTypes
  <1>2. ASSUME NEW e \in Executions
        PROVE  /\ exec[e].under \subseteq SB!Controls
               /\ exec[e].pc \in {"idle", "ready", "profiled", "running", "over", "error"}
               /\ Len(ran[e]) <= 3
    <2>1. exec[e] \in Execs
      BY DEF CommandInv, CommandTypes
    <2>2. Len(ran[e]) <= 3
      BY DEF CommandInv, Accounted
    <2>. QED  BY <2>1, <2>2 DEF Execs
  <1>. QED  BY <1>1, <1>2 DEF SB!TypeOK

LEMMA CallTypesSuffice == CallInv => MD!TypeOK
  <1>. SUFFICES ASSUME CallInv PROVE MD!TypeOK
    OBVIOUS
  <1>1. /\ at \in {"resolve", "send", "wait", "answered", "failed"} /\ attempt \in 0..3
        /\ Len(sent) \in Nat /\ Len(waits) \in Nat
    BY DEF CallInv, CallTypes, MD!MaxRetries
  <1>2. Len(sent) <= attempt + (IF at \in {"answered", "failed"} THEN 1 ELSE 0)
    BY DEF CallInv, AttemptsFailed
  <1>3. Len(waits) + (IF at = "wait" THEN 1 ELSE 0) <= attempt /\ backoff \in {500, 1000, 2000, 4000}
    BY DEF CallInv, WaitsDouble, Doubled
  <1>. QED  BY <1>1, <1>2, <1>3 DEF MD!TypeOK, MD!MaxRetries, MD!InitialBackoff, MD!MaxBackoff

\* The variables of the agent keep their types: in particular a command runs
\* three times at most, a model is asked four times at most, a skill has no
\* more versions than there were calls, and a staged run undoes nothing outside
\* the workspace (the state of orchestrator.rs, learned.rs, skills.rs,
\* tools.rs, sandbox.rs and providers).
THEOREM TypesTheorem == ASSUME IsFiniteSet(Calls) PROVE AgentSpec => []TypesOK
  <1>1. AgentSpec => []TurnInv
    BY TurnKept
  <1>. DEFINE Parts == /\ RoutesInv /\ CommandInv /\ CallInv
                       /\ SkillsInv /\ CallsInv /\ ContentInv
  <1>2. AgentInit => Parts
    BY RoutesInit, CommandInit, CallInit, SkillInit, RunInit, CallsInit DEF AgentInit, SkillsInv
  <1>3. Parts /\ [AgentNext]_agentVars => Parts'
    BY PartsStep, RoutesStep, CommandStep, CallStep, SkillsStep, CallsStep, ContentStep
  <1>4. TurnInv /\ Parts => TypesOK
    BY RoutesInvSuffices, SkillTypes, CommandTypesSuffice, CallTypesSuffice DEF TurnInv, TypesOK
  <1>. HIDE DEF Parts
  <1>5. AgentSpec => []Parts
    BY <1>2, <1>3, PTL DEF AgentSpec
  <1>. QED  BY <1>1, <1>4, <1>5, PTL
=============================================================================
